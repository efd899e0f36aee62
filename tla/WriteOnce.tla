------------------------------ MODULE WriteOnce ------------------------------
(***************************************************************************)
(* What the remote trading server promises about one idempotency key,      *)
(* without sessions, locks, threads or a cache: the write it names is sent *)
(* to the counter at most once, its outcome is decided at most once, and   *)
(* whoever uses the key is told that outcome or that it is unknown.  A     *)
(* restart forgets all of it: the server does not claim exactly-once       *)
(* across restarts (cross_restart_exactly_once is False).                  *)
(***************************************************************************)
CONSTANTS Keys

VARIABLES
  sent,     \* the write of each key was handed to the counter
  verdict,  \* the decided outcome of each key
  told      \* the definite answers given to writes that used each key

Verdicts == {"accepted", "rejected"}

Init ==
  /\ sent = [k \in Keys |-> FALSE]
  /\ verdict = [k \in Keys |-> "open"]
  /\ told = [k \in Keys |-> {}]

\* A key that was decided (for instance rejected before the call) is not sent.
Send(k) ==
  /\ ~sent[k] /\ verdict[k] = "open"
  /\ sent' = [sent EXCEPT ![k] = TRUE]
  /\ UNCHANGED <<verdict, told>>

\* Only a sent write can be accepted; the caller that decides is told.
Decide(k, v) ==
  /\ verdict[k] = "open" /\ (v = "accepted" => sent[k])
  /\ verdict' = [verdict EXCEPT ![k] = v]
  /\ told' = [told EXCEPT ![k] = @ \cup {v}]
  /\ UNCHANGED sent

\* Another use of a decided key is told what was decided.
Repeat(k) ==
  /\ verdict[k] # "open"
  /\ told' = [told EXCEPT ![k] = @ \cup {verdict[k]}]
  /\ UNCHANGED <<sent, verdict>>

Forget == sent' = [k \in Keys |-> FALSE] /\ verdict' = [k \in Keys |-> "open"]
          /\ told' = [k \in Keys |-> {}]

Next ==
  \/ \E k \in Keys : Send(k) \/ Repeat(k) \/ \E v \in Verdicts : Decide(k, v)
  \/ Forget

Spec == Init /\ [][Next]_<<sent, verdict, told>>
=============================================================================
