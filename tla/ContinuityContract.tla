------------------------- MODULE ContinuityContract -------------------------
(***************************************************************************)
(* What a consumer of typed market data may rely on, without any queue: it *)
(* gets no data of a scope (one provider, capability, session and channel) *)
(* before it knows of every loss in the scope, and of whether the scope    *)
(* counts as continuous again.  A scope for which the producer was refused *)
(* (it got an exception) is the producer's own responsibility.             *)
(***************************************************************************)
EXTENDS Naturals

CONSTANT Scopes

VARIABLES
  lost,     \* losses in each scope so far
  told,     \* of them, how many the consumer knows of
  broken,   \* scopes that are degraded
  shown,    \* scopes that are degraded as far as the consumer knows
  got,      \* how often the consumer got data, modulo 2
  excused   \* scopes for which the producer got an exception

vars == <<lost, told, broken, shown, got, excused>>

Init ==
  /\ lost = [s \in Scopes |-> 0] /\ told = [s \in Scopes |-> 0]
  /\ broken = {} /\ shown = {} /\ got = 0 /\ excused = {}

\* Something of the scope is lost.
Lose(s) ==
  /\ lost' = [lost EXCEPT ![s] = @ + 1]
  /\ broken' = broken \cup {s}
  /\ UNCHANGED <<told, shown, got, excused>>

\* The scope degrades without a loss.
Degrade(s) == broken' = broken \cup {s} /\ UNCHANGED <<lost, told, shown, got, excused>>

\* It is continuous again; the consumer has known of all its losses before.
Recover(s) ==
  /\ s \in excused \/ told[s] = lost[s]
  /\ broken' = broken \ {s}
  /\ UNCHANGED <<lost, told, shown, got, excused>>

Refuse(s) ==
  /\ excused' = excused \cup {s}
  /\ \/ lost' = [lost EXCEPT ![s] = @ + 1]
     \/ UNCHANGED lost
  /\ UNCHANGED <<told, broken, shown, got>>

\* The consumer learns of losses, and never of one that was not.
Heard == told' \in [Scopes -> Nat] /\ \A s \in Scopes : told[s] <= told'[s] /\ told'[s] <= lost[s]

\* It is told about some scopes; that may be out of date already.
Tell ==
  /\ Heard
  /\ shown' \subseteq Scopes
  /\ UNCHANGED <<lost, broken, excused, got>>

\* It gets data, if necessary along with what it had not been told yet.
Release ==
  /\ Heard
  /\ shown' = broken
  /\ \A s \in Scopes \ excused : told'[s] = lost[s]
  /\ got' = 1 - got
  /\ UNCHANGED <<lost, broken, excused>>

Next ==
  \/ \E s \in Scopes : Lose(s) \/ Degrade(s) \/ Recover(s) \/ Refuse(s)
  \/ Tell \/ Release

Spec == Init /\ [][Next]_vars
=============================================================================
