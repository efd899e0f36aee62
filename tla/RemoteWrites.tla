---------------------------- MODULE RemoteWrites ----------------------------
(***************************************************************************)
(* RemoteQmtBroker's order calls on top of the server's write path: a      *)
(* place or cancel is put on the wire once, and when its outcome is in     *)
(* doubt the client asks once, read-only, what became of it, possibly on   *)
(* the session of a new connection.  What the caller is finally told is    *)
(* `call'; `fact' of ServerWrites is what really happened.                 *)
(***************************************************************************)
EXTENDS ServerWrites

CONSTANT Resolve   \* the resolve_submission request of each write

\* _new_idempotency_key gives every call a key of its own.
ASSUME ResolveAssumption ==
  /\ Resolve \in [Writes -> Resolves]
  /\ \A w \in Writes : Req[Resolve[w]].about = w /\ Req[Resolve[w]].key = Req[w].key
  /\ \A v, w \in Writes : Req[v].key = Req[w].key => v = w

VARIABLES
  call,   \* where each place_order or cancel_order call is, or how it ended
  sent,   \* requests on the wire that the server has not read
  ended   \* orders that were accepted with an answer whose status is canceled

client == <<call, sent, ended>>

CallTypeOK ==
  /\ call \in [Writes -> {"idle", "waiting", "asking", "done", "failed", "unknown"}]
  /\ sent \subseteq Requests
  /\ ended \subseteq Places

CallInit ==
  /\ Init
  /\ call = [w \in Writes |-> "idle"]
  /\ sent = {}
  /\ ended = {}

-----------------------------------------------------------------------------
(* RemoteQmtBroker. *)

\* A cancel names an order that the client has seen at the broker.
Place(w) ==
  /\ call[w] = "idle" /\ (w \in Cancels => fact[Req[w].about] \in Ordered)
  /\ call' = [call EXCEPT ![w] = "waiting"]
  /\ sent' = sent \cup {w}
  /\ UNCHANGED <<vars, ended>>

AskFor(w) ==
  /\ call' = [call EXCEPT ![w] = "asking"]
  /\ sent' = sent \cup {Resolve[w]}
  /\ UNCHANGED ended

End(w, how) == call' = [call EXCEPT ![w] = how] /\ UNCHANGED <<sent, ended>>

\* Mutant: an error the server sent is believed.
DoubtfulUnlessError(w) == {"timeout", "unknown"}

\* Answers after which the write may still have been made: REQUEST_FAILED,
\* REQUEST_TIMEOUT and unknown states; a cancel that is not confirmed.
Doubtful(w) == {"failed", "timeout", "unknown"} \cup (IF w \in Cancels THEN {"rejected"} ELSE {})

\* Mutant: a response with an order_id is a success, whatever its state.
HearTrusts(w) ==
  /\ call[w] = "waiting" /\ pc[w] = "answered"
  /\ IF reply[w].out \in {"accepted", "unknown"} THEN End(w, "done")
     ELSE IF reply[w].out \in Doubtful(w) THEN AskFor(w)
     ELSE End(w, "failed")
  /\ UNCHANGED vars

\* The server's answer.  An order number with the status canceled raises like a
\* refusal, every other error code raises RemoteServerError.
Hear(w) ==
  /\ call[w] = "waiting" /\ pc[w] = "answered"
  /\ \/ reply[w].out = "accepted" /\ End(w, IF w \in ended THEN "failed" ELSE "done")
     \/ reply[w].out \in Doubtful(w) /\ AskFor(w)
     \/ reply[w].out \notin Doubtful(w) \cup {"accepted"} /\ End(w, "failed")
  /\ UNCHANGED vars

\* The transport is lost, or the client's own timeout is first.
LoseAnswer(w) ==
  /\ call[w] = "waiting"
  /\ AskFor(w)
  /\ UNCHANGED vars

\* _resolved_place_order_or_raise, _resolved_cancel_or_raise: the status of an
\* accepted order is not looked at, but its row must repeat the request.
HearResolution(w) ==
  LET q == Resolve[w] IN
  /\ call[w] = "asking" /\ pc[q] = "answered"
  /\ \/ reply[q].out = "accepted" /\ End(w, "done")
     \/ reply[q].out = "rejected" /\ End(w, "failed")
     \/ reply[q].out # "rejected" /\ End(w, "unknown")
  /\ UNCHANGED vars

LoseResolution(w) ==
  /\ call[w] = "asking"
  /\ End(w, "unknown")
  /\ UNCHANGED vars

-----------------------------------------------------------------------------
(* The server reads what is on the wire; a restart loses it. *)

Read(r) == (ReceiveWrite(r) \/ ReceiveResolve(r)) /\ r \in sent /\ sent' = sent \ {r}

\* A place that waits for its order may answer with a canceled one.
ShowsCanceled(r) ==
  /\ r \in Places /\ pc[r] = "await" /\ fact[r] = "canceled"
  /\ pc'[r] = "answered" /\ reply'[r].out = "accepted"

\* The status in the answer is the order's, or what it was a moment before.
Server(r) ==
  /\ pc[r] # "new" /\ (Session(r) \/ Thread(r) \/ Counter(r))
  /\ \/ UNCHANGED ended
     \/ ShowsCanceled(r) /\ ended' = ended \cup {r}
  /\ UNCHANGED sent

Call(w) == Place(w) \/ Hear(w) \/ LoseAnswer(w) \/ HearResolution(w) \/ LoseResolution(w)

CallNext ==
  \/ \E w \in Writes : Call(w)
  \/ \E r \in Requests : Read(r) /\ UNCHANGED <<call, ended>>
  \/ \E r \in Requests : Server(r) /\ UNCHANGED call
  \/ Restart /\ sent' = {} /\ UNCHANGED <<call, ended>>

CallSpec == CallInit /\ [][CallNext]_<<vars, client>>

-----------------------------------------------------------------------------
(* Properties. *)

(***************************************************************************)
(* What the caller is told as done is so: its own order is on the book, or *)
(* the exact order it wanted canceled is canceled, whichever of the two    *)
(* answers said it (_place_order_sync, _cancel_sync).                      *)
(***************************************************************************)
DoneIsReal ==
  \A w \in Writes : call[w] = "done" =>
    IF w \in Places THEN fact[w] \in Ordered ELSE fact[Req[w].about] = "canceled"

\* The adapter raised an error with a code of its own after the native call, and
\* connection._request_async takes it for definite.
CodedAfterCall(w) == reply[w].out = "coded" /\ fact[w] # "none"

(***************************************************************************)
(* A call that ends in a definite failure may be repeated by the caller:   *)
(* its order is not alive, did not fill, and no thread is left that could  *)
(* still send it; its cancel did not land.  Every doubt ends as            *)
(* RemoteSubmissionUnknownError instead, errors with a code of the         *)
(* adapter's own after the native call excepted (_place_order_sync,        *)
(* _cancel_sync).                                                          *)
(***************************************************************************)
FailedIsDead ==
  \A w \in Writes : call[w] = "failed" /\ ~CodedAfterCall(w) =>
    IF w \in Places
    THEN /\ fact[w] \notin {"live", "filled"}
         /\ job[w] \notin {"queued", "running", "holding", "armed"}
    ELSE fact[w] # "landed"
=============================================================================
