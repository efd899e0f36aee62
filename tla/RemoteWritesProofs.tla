------------------------- MODULE RemoteWritesProofs -------------------------
(***************************************************************************)
(* Theorems of RemoteWrites: the server of a client that asks is the       *)
(* server of ServerWrites, so what is proved there holds here too; and     *)
(* what the client reports as done is done.                                *)
(***************************************************************************)
EXTENDS RemoteWrites, ServerWritesProofs, FiniteSetTheorems

(***************************************************************************)
(* A step of the client leaves the server alone, and every other step is   *)
(* one of the server's.                                                    *)
(***************************************************************************)
LEMMA StepIsServers ==
  ASSUME [CallNext]_<<vars, client>>
  PROVE  [Next]_vars
<1>1. CASE \E w \in Writes : Call(w)
  BY <1>1 DEF Call, Place, Hear, LoseAnswer, HearResolution, LoseResolution
<1>2. CASE \E r \in Requests : Read(r) \/ Server(r)
  BY <1>2 DEF Next, Read, Server, Session
<1>3. CASE Restart
  BY <1>3 DEF Next
<1>4. CASE UNCHANGED <<vars, client>>
  BY <1>4
<1>5. QED
  BY <1>1, <1>2, <1>3, <1>4 DEF CallNext

(***************************************************************************)
(* The order calls of RemoteQmtBroker drive the server within its          *)
(* specification, so every theorem of ServerWritesProofs holds of them.    *)
(***************************************************************************)
THEOREM ServerIsKept == CallSpec => Spec
  BY StepIsServers, PTL DEF CallSpec, CallInit, Spec

(***************************************************************************)
(* However often the client asks and reconnects, an order of its own       *)
(* reaches the counter at most once in a server run.                       *)
(***************************************************************************)
THEOREM CallsOnce == CallSpec => []AtMostOneNativeCall
  BY ServerIsKept, AtMostOnce, PTL

-----------------------------------------------------------------------------
(* Types. *)

LEMMA ResolveFacts ==
  ASSUME NEW w \in Writes
  PROVE  /\ w \in Requests /\ w \notin Resolves
         /\ Resolve[w] \in Requests /\ Resolve[w] \in Resolves
         /\ Req[Resolve[w]].about = w /\ Req[Resolve[w]].key = Req[w].key
         /\ \A v \in Writes : Req[v].key = Req[w].key => v = w
  BY ResolveAssumption DEF Writes, Resolves

(***************************************************************************)
(* The client's variables stay in their types.                             *)
(***************************************************************************)
LEMMA CallTypeStep ==
  ASSUME CallTypeOK, [CallNext]_<<vars, client>>
  PROVE  CallTypeOK'
<1>1. ASSUME NEW w \in Writes, Call(w)
      PROVE  CallTypeOK'
  BY <1>1, ResolveFacts
     DEF CallTypeOK, Call, Place, Hear, LoseAnswer, HearResolution, LoseResolution, AskFor, End
<1>2. CASE \E r \in Requests : \/ Read(r) /\ UNCHANGED <<call, ended>>
                               \/ Server(r) /\ UNCHANGED call
  BY <1>2 DEF CallTypeOK, Read, Server, ShowsCanceled
<1>3. CASE Restart /\ sent' = {} /\ UNCHANGED <<call, ended>>
  BY <1>3 DEF CallTypeOK
<1>4. CASE UNCHANGED <<vars, client>>
  BY <1>4 DEF CallTypeOK, client
<1>5. QED
  BY <1>1, <1>2, <1>3, <1>4 DEF CallNext

(***************************************************************************)
(* A call is always in one of the states of RemoteQmtBroker's methods, and *)
(* only requests are on the wire.                                          *)
(***************************************************************************)
THEOREM CallTypeCorrect == CallSpec => []CallTypeOK
<1>1. CallInit => CallTypeOK
  BY DEF CallInit, CallTypeOK
<1>2. QED
  BY <1>1, CallTypeStep, PTL DEF CallSpec

-----------------------------------------------------------------------------
(* What is reported as done is done. *)

\* The write did at the counter what its caller wanted.
Really(w) == IF w \in Places THEN fact[w] \in Ordered ELSE fact[Req[w].about] = "canceled"

\* Somebody was told, or will be, that the write was accepted.
Accepted(w) ==
  \/ cache[Req[w].key] = "accepted"
  \/ reply[w].out = "accepted"
  \/ reply[Resolve[w]].out = "accepted"

AcceptedIsReal == \A w \in Writes : Accepted(w) => Really(w)

LEMMA RealStays ==
  ASSUME TypeOK, ClaimedFirst, [Next]_vars, NEW w \in Writes, Really(w)
  PROVE  Really(w)'
  BY FactMoves, RequestsAssumption DEF Really, Writes, Request, Ordered

(***************************************************************************)
(* An answer other than accepted tells nobody so.                          *)
(***************************************************************************)
LEMMA QuietAnswer ==
  ASSUME TypeOK, NEW r \in Requests, NEW out, NEW called, Answer(r, out, called),
         out # "accepted", NEW w \in Writes, Accepted(w)'
  PROVE  cache'[Req[w].key] = "accepted" \/ Accepted(w)
  BY ResolveFacts DEF TypeOK, Answer, Accepted

(***************************************************************************)
(* Completing a write stores its outcome under its own key only.           *)
(***************************************************************************)
LEMMA CompletedAccepted ==
  ASSUME TypeOK, NEW r \in Writes, NEW out, Complete(r, out), NEW w \in Writes, Accepted(w)'
  PROVE  Accepted(w) \/ (w = r /\ out = "accepted")
<1>1. /\ Answer(r, out, IF out \in Errors THEN Marked(r) ELSE "unsaid")
      /\ cache' = [cache EXCEPT ![Req[r].key] =
                     IF out \in Final THEN out ELSE IF out \in Results THEN "pending" ELSE @]
  BY DEF Complete, AnswerWith, Finalize
<1>2. cache'[Req[w].key] = "accepted" =>
        cache[Req[w].key] = "accepted" \/ (w = r /\ out = "accepted")
  BY <1>1, ResolveFacts, RequestFields DEF TypeOK
<1>3. CASE out = "accepted"
  BY <1>1, <1>2, <1>3, ResolveFacts DEF TypeOK, Answer, Accepted
<1>4. CASE out # "accepted"
  BY <1>1, <1>2, <1>4, QuietAnswer, ResolveFacts DEF Accepted
<1>5. QED
  BY <1>3, <1>4

(***************************************************************************)
(* Nobody is newly told that a write was accepted unless it is so.         *)
(***************************************************************************)
LEMMA NewlyAccepted ==
  ASSUME TypeOK, ClaimedFirst, [Next]_vars, NEW w \in Writes, Accepted(w)'
  PROVE  Accepted(w) \/ Really(w)
<1> USE DEF wire, risk, memory
<1>1. ASSUME UNCHANGED <<cache, reply>>
      PROVE  Accepted(w)
  BY <1>1 DEF Accepted
<1>2. ASSUME NEW r \in Requests, UNCHANGED cache,
             \E out, called : out # "accepted" /\ Answer(r, out, called)
      PROVE  Accepted(w)
  BY <1>2, QuietAnswer DEF Accepted
<1>3. ASSUME NEW r \in Requests, PrecheckFail(r) \/ ClaimFull(r) \/ RiskReject(r) \/ Timeout(r)
      PROVE  Accepted(w)
  BY <1>2, <1>3 DEF PrecheckFail, ClaimFull, RiskReject, Timeout, AnswerWith
<1>4. ASSUME NEW r \in Requests, ClaimHit(r)
      PROVE  Accepted(w)
  <2>1. /\ r \in Writes /\ UNCHANGED cache
        /\ \E out, called : /\ Answer(r, out, called)
                            /\ out = "accepted" => cache[Req[r].key] = "accepted"
    BY <1>4 DEF ClaimHit, AnswerWith
  <2>2. QED
    BY <2>1, ResolveFacts DEF TypeOK, Answer, Accepted
<1>5. ASSUME NEW r \in Requests, ClaimNew(r)
      PROVE  Accepted(w)
  BY <1>5, RequestFields, ResolveFacts DEF ClaimNew, TypeOK, Accepted
<1>6. ASSUME NEW r \in Requests, AdapterRefuse(r)
      PROVE  Accepted(w)
  <2>1. PICK out : r \in Writes /\ out # "accepted" /\ Complete(r, out)
    BY <1>6 DEF AdapterRefuse
  <2>2. QED
    BY <2>1, CompletedAccepted
<1>7. ASSUME NEW r \in Requests, JobReturn(r)
      PROVE  Accepted(w) \/ Really(w)
  <2>1. PICK out \in Outcomes(r) : Complete(r, out)
    BY <1>7 DEF JobReturn
  <2>2. out = "accepted" => Really(r)
    BY <2>1, <1>7, LimitsAssumption DEF JobReturn, Outcomes, Really, Writes, Places, Cancels
  <2>3. QED
    BY <1>7, <2>1, <2>2, CompletedAccepted DEF JobReturn
<1>8. ASSUME NEW q \in Requests, ReceiveResolve(q)
      PROVE  Accepted(w)
  <2>1. CASE \E called : Answer(q, cache[Req[q].key], called)
    BY <1>8, <2>1, ResolveFacts DEF ReceiveResolve, TypeOK, Answer, Accepted
  <2>2. CASE Answer(q, "conflict", "unsaid") \/ UNCHANGED reply
    BY <1>1, <1>2, <1>8, <2>2 DEF ReceiveResolve
  <2>3. QED
    BY <1>8, <2>1, <2>2 DEF ReceiveResolve
<1>9. ASSUME NEW q \in Requests, ResolveOrders(q)
      PROVE  Accepted(w) \/ Really(w)
  <2>1. UNCHANGED cache /\ \E called : Answer(q, Evidence(q), called) \/ Answer(q, "unknown", called)
    BY <1>9 DEF ResolveOrders, AnswerWith
  <2>2. ASSUME q = Resolve[w], Evidence(q) = "accepted"
        PROVE  Really(w)
    <3>1. CASE w \in Cancels
      BY <2>2, <3>1, ResolveFacts DEF Evidence, Really, Cancels, Places
    <3>2. CASE w \notin Cancels
      <4>1. MatchingOrders(q) # {}
        BY <2>2, <3>2, ResolveFacts, FS_EmptySet DEF Evidence
      <4>2. QED
        BY <2>2, <4>1, ResolveFacts DEF MatchingOrders, Matches, Really, Places, Writes
    <3>3. QED
      BY <3>1, <3>2
  <2>3. CASE \E called : Answer(q, Evidence(q), called)
    <3>1. q # w
      BY <1>9, ResolveFacts DEF ResolveOrders, ClaimedFirst
    <3>2. QED
      BY <2>1, <2>2, <2>3, <3>1, ResolveFacts DEF Answer, TypeOK, Accepted
  <2>4. CASE \E called : Answer(q, "unknown", called)
    BY <1>2, <2>1, <2>4
  <2>5. QED
    BY <2>1, <2>3, <2>4
<1>10. ASSUME NEW r \in Requests, Session(r)
       PROVE  Accepted(w) \/ Really(w)
  <2>1. CASE ReceiveWrite(r) \/ AcquireLock(r) \/ RiskPass(r) \/ Dispatch(r)
    BY <1>1, <2>1 DEF ReceiveWrite, AcquireLock, RiskPass, Dispatch
  <2>2. QED
    BY <1>3, <1>4, <1>5, <1>6, <1>8, <1>9, <1>10, <2>1 DEF Session
<1>11. ASSUME NEW r \in Requests, Thread(r) \/ Counter(r)
       PROVE  Accepted(w) \/ Really(w)
  BY <1>1, <1>7, <1>11 DEF Thread, JobStart, JobTakeMarker, JobMark, JobNative, OrphanReturn,
     Counter, CounterPlace, CounterEnd, CounterCancel
<1>12. CASE Restart
  BY <1>12, RequestFields, ResolveFacts DEF Restart, Accepted
<1>13. CASE UNCHANGED vars
  BY <1>1, <1>13 DEF vars
<1>14. QED
  BY <1>10, <1>11, <1>12, <1>13 DEF Next

\* The invariant: the server's, and the truth of what is stored and told.
DoneInv == IInv /\ AcceptedIsReal /\ DoneIsReal

LEMMA DoneStep ==
  ASSUME DoneInv, CallTypeOK, [CallNext]_<<vars, client>>
  PROVE  DoneInv'
<1>1. TypeOK /\ ClaimedFirst /\ [Next]_vars
  BY StepIsServers DEF DoneInv, IInv
<1>2. IInv'
  BY <1>1, InvStep DEF DoneInv
<1>3. AcceptedIsReal'
  BY <1>1, NewlyAccepted, RealStays DEF DoneInv, AcceptedIsReal
<1>4. ASSUME NEW w \in Writes, call'[w] = "done"
      PROVE  Really(w)'
  <2>1. call[w] = "done" \/ Accepted(w)
    <3>1. CASE \E v \in Writes : Call(v)
      BY <1>4, <3>1, ResolveFacts
         DEF CallTypeOK, Call, Place, Hear, LoseAnswer, HearResolution, LoseResolution, AskFor,
             End, Accepted
    <3>2. CASE UNCHANGED call
      BY <1>4, <3>2
    <3>3. QED
      BY <3>1, <3>2 DEF CallNext, client
  <2>2. Really(w)
    BY <2>1 DEF DoneInv, AcceptedIsReal, DoneIsReal, Really
  <2>3. QED
    BY <1>1, <2>2, RealStays
<1>5. DoneIsReal'
  BY <1>4 DEF DoneIsReal, Really
<1>6. QED
  BY <1>2, <1>3, <1>5 DEF DoneInv

(***************************************************************************)
(* A call that place_order or cancel_order reports as done is done: the    *)
(* caller's own order is on the book, or the exact order it wanted         *)
(* canceled is canceled, through any timeouts, lost answers and restarts.  *)
(***************************************************************************)
THEOREM DoneCallsAreReal == CallSpec => []DoneIsReal
<1>1. CallInit => DoneInv
  <2>1. ASSUME CallInit
        PROVE  AcceptedIsReal /\ DoneIsReal
    BY <2>1, RequestFields, ResolveFacts
       DEF CallInit, Init, AcceptedIsReal, Accepted, DoneIsReal, Writes
  <2>2. QED
    BY <2>1, InitInv DEF CallInit, DoneInv
<1>2. DoneInv => DoneIsReal
  BY DEF DoneInv
<1>3. QED
  BY <1>1, <1>2, DoneStep, CallTypeCorrect, PTL DEF CallSpec

-----------------------------------------------------------------------------
(* What is reported as failed is dead. *)

\* The write has not reached the counter and nobody is left to send it.
Unsent(w) ==
  /\ fact[w] = "none" /\ job[w] \notin {"queued", "running", "holding", "armed"}
  /\ pc[w] \in {"await", "answered", "lost"}

\* Nothing can come of the write any more.
Hopeless(w) ==
  \/ Unsent(w)
  \/ fact[w] = "refused"
  \/ IF w \in Places THEN fact[w] = "void" ELSE fact[Req[w].about] \in {"filled", "void"}

\* ... or what has come of it is over, or its error came after the native call
\* with a code of its own.
Closed(w) == Hopeless(w) \/ CodedAfterCall(w) \/ (w \in Places /\ fact[w] = "canceled")

Refusals == {"rejected", "coded", "conflict", "full"}

\* Somebody was told, or will be, that the write definitely failed.
Refused(w) ==
  \/ cache[Req[w].key] = "rejected"
  \/ reply[w].out \in Refusals
  \/ reply[Resolve[w]].out = "rejected"

RefusedIsClosed == \A w \in Writes : Refused(w) => Closed(w)

\* As no two writes share a key, an entry of the cache is its write's own.
OwnEntries == \A w \in Writes : cache[Req[w].key] # "absent" => claimed[w]

AnswersSay == \A r \in Requests : pc[r] = "answered" => reply[r].out # "none"

LandedIsCanceled ==
  \A w \in Cancels : fact[w] = "landed" => fact[Req[w].about] = "canceled"

EndedIsCanceled == \A w \in ended : fact[w] = "canceled"

FailedIsClosed == \A w \in Writes : call[w] = "failed" => Closed(w)

(***************************************************************************)
(* A write with no hope gets none back.                                    *)
(***************************************************************************)
LEMMA UnsentStays ==
  ASSUME TypeOK, ClaimedFirst, [Next]_vars, NEW w \in Writes, Unsent(w)
  PROVE  Unsent(w)'
<1> USE DEF wire, risk, memory, InFlight
<1>1. fact'[w] = "none"
  BY FactMoves DEF Unsent, Writes
<1>2. ASSUME NEW r \in Requests, Session(r)
      PROVE  job'[w] = job[w] /\ pc'[w] \in {pc[w], "answered"}
  <2>1. CASE ReceiveWrite(r) \/ ClaimNew(r) \/ AcquireLock(r) \/ RiskPass(r) \/ Dispatch(r)
    BY <2>1 DEF ReceiveWrite, ClaimNew, AcquireLock, RiskPass, Dispatch, TypeOK, Unsent, Writes
  <2>2. CASE ReceiveResolve(r)
    BY <2>2 DEF ReceiveResolve, Answer, TypeOK, Writes, Resolves
  <2>3. CASE Timeout(r)
    BY <2>3 DEF Timeout, Answer, TypeOK, Writes, Unsent
  <2>4. CASE AdapterRefuse(r)
    BY <2>4 DEF AdapterRefuse, Complete, AnswerWith, Answer, TypeOK, Writes
  <2>5. CASE \/ PrecheckFail(r) \/ ClaimHit(r) \/ ClaimFull(r) \/ RiskReject(r)
             \/ ResolveOrders(r)
    BY <2>5 DEF PrecheckFail, ClaimHit, ClaimFull, RiskReject, ResolveOrders, AnswerWith, Answer,
       TypeOK, Writes
  <2>6. QED
    BY <1>2, <2>1, <2>2, <2>3, <2>4, <2>5 DEF Session
<1>3. ASSUME NEW r \in Requests, Thread(r)
      PROVE  job'[w] \in {job[w], "done"} /\ pc'[w] \in {pc[w], "answered"}
  <2>1. CASE JobReturn(r)
    BY <2>1 DEF JobReturn, Complete, AnswerWith, Answer, TypeOK, Writes
  <2>2. CASE JobStart(r) \/ JobTakeMarker(r) \/ JobMark(r) \/ JobNative(r) \/ OrphanReturn(r)
    BY <2>2 DEF JobStart, JobTakeMarker, JobMark, JobNative, OrphanReturn, TypeOK, Writes, Unsent
  <2>3. QED
    BY <1>3, <2>1, <2>2 DEF Thread
<1>4. ASSUME NEW r \in Requests, Counter(r)
      PROVE  UNCHANGED <<job, pc>>
  BY <1>4 DEF Counter, CounterPlace, CounterEnd, CounterCancel
<1>5. CASE Restart
  BY <1>1, <1>5 DEF Restart, Unsent, Writes
<1>6. CASE UNCHANGED vars
  BY <1>6 DEF vars, Unsent
<1>7. QED
  BY <1>1, <1>2, <1>3, <1>4, <1>5, <1>6 DEF Next, Unsent

LEMMA HopelessStays ==
  ASSUME TypeOK, ClaimedFirst, [Next]_vars, NEW w \in Writes, Hopeless(w)
  PROVE  Hopeless(w)'
<1>1. w \in Requests /\ Req[w].about \in Requests
  BY RequestsAssumption DEF Writes, Request
<1>2. QED
  BY <1>1, FactMoves, UnsentStays DEF Hopeless

(***************************************************************************)
(* What is over stays so.                                                  *)
(***************************************************************************)
LEMMA ClosedStays ==
  ASSUME TypeOK, ClaimedFirst, JobsOfRun, [Next]_vars, NEW w \in Writes, Closed(w)
  PROVE  Closed(w)'
<1>1. w \in Requests
  BY DEF Writes
<1>2. CASE Hopeless(w)
  BY <1>2, HopelessStays DEF Closed
<1>3. CASE CodedAfterCall(w)
  <2>1. pc[w] = "answered" /\ reply[w].out = "coded" /\ fact[w] # "none"
    BY <1>1, <1>3 DEF CodedAfterCall, JobsOfRun
  <2>2. reply'[w] = reply[w] /\ fact'[w] # "none"
    BY <1>1, <2>1, AnsweredOnce, FactStays
  <2>3. QED
    BY <2>1, <2>2 DEF Closed, CodedAfterCall
<1>4. CASE w \in Places /\ fact[w] = "canceled"
  BY <1>1, <1>4, FactMoves DEF Closed
<1>5. QED
  BY <1>2, <1>3, <1>4 DEF Closed

LEMMA LandedStep ==
  ASSUME TypeOK, ClaimedFirst, LandedIsCanceled, [Next]_vars
  PROVE  LandedIsCanceled'
<1>1. ASSUME NEW w \in Cancels, fact'[w] = "landed"
      PROVE  fact'[Req[w].about] = "canceled"
  <2>1. w \in Requests /\ Req[w].about \in Requests
    BY RequestsAssumption DEF Cancels, Request
  <2>2. QED
    BY <1>1, <2>1, FactMoves DEF LandedIsCanceled
<1>2. QED
  BY <1>1 DEF LandedIsCanceled

(***************************************************************************)
(* Only the claim of a key puts an entry into the cache.                   *)
(***************************************************************************)
LEMMA OwnStep ==
  ASSUME TypeOK, ClaimedFirst, OwnEntries, [Next]_vars
  PROVE  OwnEntries'
<1> USE DEF wire, risk, memory
<1>1. ASSUME NEW w \in Writes, cache'[Req[w].key] # "absent"
      PROVE  claimed'[w]
  <2>1. ASSUME UNCHANGED <<cache, claimed>>
        PROVE  claimed'[w]
    BY <1>1, <2>1 DEF OwnEntries
  <2>2. ASSUME NEW r \in Writes, claimed[r], NEW out, Complete(r, out)
        PROVE  claimed'[w]
    BY <1>1, <2>2, ResolveFacts, RequestFields DEF Complete, Finalize, OwnEntries, TypeOK
  <2>3. ASSUME NEW r \in Requests, ClaimNew(r)
        PROVE  claimed'[w]
    BY <1>1, <2>3, ResolveFacts, RequestFields DEF ClaimNew, OwnEntries, TypeOK
  <2>4. ASSUME NEW r \in Requests, AdapterRefuse(r) \/ JobReturn(r)
        PROVE  claimed'[w]
    BY <2>2, <2>4 DEF AdapterRefuse, JobReturn, ClaimedFirst
  <2>5. ASSUME NEW r \in Requests, Session(r)
        PROVE  claimed'[w]
    <3>1. CASE ReceiveWrite(r) \/ AcquireLock(r) \/ RiskPass(r) \/ Dispatch(r)
      BY <2>1, <3>1 DEF ReceiveWrite, AcquireLock, RiskPass, Dispatch
    <3>2. CASE \/ PrecheckFail(r) \/ ClaimHit(r) \/ ClaimFull(r) \/ RiskReject(r)
               \/ Timeout(r) \/ ReceiveResolve(r) \/ ResolveOrders(r)
      BY <2>1, <3>2 DEF PrecheckFail, ClaimHit, ClaimFull, RiskReject, Timeout,
         ReceiveResolve, ResolveOrders
    <3>3. QED
      BY <2>3, <2>4, <2>5, <3>1, <3>2 DEF Session
  <2>6. ASSUME NEW r \in Requests, Thread(r) \/ Counter(r)
        PROVE  claimed'[w]
    BY <2>1, <2>4, <2>6 DEF Thread, JobStart, JobTakeMarker, JobMark, JobNative, OrphanReturn,
       Counter, CounterPlace, CounterEnd, CounterCancel
  <2>7. CASE Restart
    BY <1>1, <2>7, ResolveFacts, RequestFields DEF Restart
  <2>8. QED
    BY <2>1, <2>5, <2>6, <2>7 DEF Next, vars
<1>2. QED
  BY <1>1 DEF OwnEntries

(***************************************************************************)
(* Whoever is answered is answered with something.                         *)
(***************************************************************************)
LEMMA AnswersStep ==
  ASSUME TypeOK, AnswersSay, [Next]_vars
  PROVE  AnswersSay'
<1> USE DEF wire, risk, memory
<1>1. ASSUME NEW r \in Requests, NEW out, NEW called, Answer(r, out, called), out # "none"
      PROVE  AnswersSay'
  BY <1>1 DEF Answer, AnswersSay, TypeOK
<1>2. ASSUME UNCHANGED reply, \A r \in Requests : pc'[r] = "answered" => pc[r] = "answered"
      PROVE  AnswersSay'
  BY <1>2 DEF AnswersSay
<1>3. ASSUME NEW r \in Requests, Session(r)
      PROVE  AnswersSay'
  <2>1. CASE \/ ReceiveWrite(r) \/ ClaimNew(r) \/ AcquireLock(r) \/ RiskPass(r) \/ Dispatch(r)
    BY <1>2, <2>1 DEF ReceiveWrite, ClaimNew, AcquireLock, RiskPass, Dispatch, TypeOK
  <2>2. CASE ClaimHit(r)
    BY <1>1, <2>2, RequestFields DEF ClaimHit, AnswerWith, TypeOK, Final
  <2>3. CASE ReceiveResolve(r)
    <3>1. \/ \E out, called : out # "none" /\ Answer(r, out, called)
          \/ pc' = [pc EXCEPT ![r] = "asking"] /\ UNCHANGED reply
      BY <2>3 DEF ReceiveResolve, Final
    <3>2. QED
      BY <1>1, <1>2, <3>1 DEF TypeOK
  <2>4. CASE \/ PrecheckFail(r) \/ ClaimFull(r) \/ RiskReject(r) \/ Timeout(r)
             \/ ResolveOrders(r)
    BY <1>1, <2>4 DEF PrecheckFail, ClaimFull, RiskReject, Timeout, ResolveOrders, Evidence,
       AnswerWith
  <2>5. CASE AdapterRefuse(r)
    BY <1>1, <2>5 DEF AdapterRefuse, Complete, AnswerWith
  <2>6. QED
    BY <1>3, <2>1, <2>2, <2>3, <2>4, <2>5 DEF Session
<1>4. ASSUME NEW r \in Requests, Thread(r)
      PROVE  AnswersSay'
  <2>1. CASE JobReturn(r)
    BY <1>1, <2>1, OutcomesAreAnswers DEF JobReturn, Complete, AnswerWith, Results, Errors
  <2>2. QED
    BY <1>2, <1>4, <2>1 DEF Thread, JobStart, JobTakeMarker, JobMark, JobNative, OrphanReturn
<1>5. ASSUME NEW r \in Requests, Counter(r)
      PROVE  AnswersSay'
  BY <1>2, <1>5 DEF Counter, CounterPlace, CounterEnd, CounterCancel
<1>6. CASE Restart
  BY <1>2, <1>6 DEF Restart
<1>7. CASE UNCHANGED vars
  BY <1>2, <1>7 DEF vars
<1>8. QED
  BY <1>3, <1>4, <1>5, <1>6, <1>7 DEF Next

(***************************************************************************)
(* Completing a write refuses nobody but itself.                           *)
(***************************************************************************)
LEMMA CompletedRefused ==
  ASSUME TypeOK, NEW r \in Writes, NEW out, Complete(r, out), NEW w \in Writes, Refused(w)'
  PROVE  Refused(w) \/ (w = r /\ out \in Refusals)
<1>1. /\ Answer(r, out, IF out \in Errors THEN Marked(r) ELSE "unsaid")
      /\ cache' = [cache EXCEPT ![Req[r].key] =
                     IF out \in Final THEN out ELSE IF out \in Results THEN "pending" ELSE @]
  BY DEF Complete, AnswerWith, Finalize
<1>2. cache'[Req[w].key] = "rejected" =>
        cache[Req[w].key] = "rejected" \/ (w = r /\ out = "rejected")
  BY <1>1, ResolveFacts, RequestFields DEF TypeOK
<1>3. reply'[Resolve[w]] = reply[Resolve[w]] /\ (w # r => reply'[w] = reply[w])
  BY <1>1, ResolveFacts DEF TypeOK, Answer
<1>4. w = r => reply'[w].out = out
  BY <1>1, ResolveFacts DEF TypeOK, Answer
<1>5. QED
  BY <1>2, <1>3, <1>4 DEF Refused, Refusals

(***************************************************************************)
(* Nobody is newly told that a write failed unless nothing can come of it. *)
(***************************************************************************)
LEMMA NewlyRefused ==
  ASSUME TypeOK, ClaimedFirst, JobsOfRun, OwnEntries, [Next]_vars,
         NEW w \in Writes, Refused(w)'
  PROVE  Refused(w) \/ Closed(w) \/ Closed(w)'
<1> USE DEF wire, risk, memory
<1>1. ASSUME UNCHANGED <<cache, reply>>
      PROVE  Refused(w)
  BY <1>1 DEF Refused
<1>2. ASSUME NEW r \in Requests, UNCHANGED cache,
             NEW out, NEW called, out \notin Refusals, Answer(r, out, called)
      PROVE  Refused(w)
  BY <1>2, ResolveFacts DEF Refused, Refusals, Answer, TypeOK
<1>3. ASSUME NEW r \in Requests, PrecheckFail(r) \/ RiskReject(r) \/ Timeout(r)
      PROVE  Refused(w)
  BY <1>2, <1>3 DEF PrecheckFail, RiskReject, Timeout, AnswerWith, Refusals
<1>4. ASSUME NEW r \in Requests, ClaimHit(r)
      PROVE  FALSE
  BY <1>4, ResolveFacts DEF ClaimHit, OwnEntries, ClaimedFirst
<1>5. ASSUME NEW r \in Requests, ClaimFull(r)
      PROVE  Refused(w) \/ Closed(w)'
  <2>1. CASE r = w
    BY <1>5, <2>1 DEF ClaimFull, Answer, ClaimedFirst, Closed, Hopeless, Unsent,
       TypeOK
  <2>2. CASE r # w
    BY <1>5, <2>2, ResolveFacts DEF ClaimFull, Answer, Refused, TypeOK
  <2>3. QED
    BY <2>1, <2>2
<1>6. ASSUME NEW r \in Requests, ClaimNew(r)
      PROVE  Refused(w)
  BY <1>6, RequestFields, ResolveFacts DEF ClaimNew, TypeOK, Refused
<1>7. ASSUME NEW r \in Requests, AdapterRefuse(r)
      PROVE  Refused(w) \/ Closed(w)'
  <2>1. PICK out : r \in Writes /\ Complete(r, out)
    BY <1>7 DEF AdapterRefuse
  <2>2. Unsent(r)'
    BY <1>7, <2>1 DEF AdapterRefuse, Complete, AnswerWith, Answer, ClaimedFirst, Unsent, TypeOK
  <2>3. QED
    BY <2>1, <2>2, CompletedRefused DEF Closed, Hopeless
<1>8. ASSUME NEW r \in Requests, JobReturn(r)
      PROVE  Refused(w) \/ Closed(w) \/ Closed(w)'
  <2>1. PICK out \in Outcomes(r) : Complete(r, out)
    BY <1>8 DEF JobReturn
  <2>2. r \in Writes /\ job' = [job EXCEPT ![r] = "done"] /\ fact' = fact
        /\ pc' = [pc EXCEPT ![r] = "answered"]
    BY <1>8, <2>1 DEF JobReturn, Complete, AnswerWith, Answer
  <2>3. CASE job[r] \in {"running", "armed"}
    <3>1. Unsent(r)'
      BY <2>2, <2>3 DEF ClaimedFirst, Unsent, TypeOK, Writes
    <3>2. QED
      BY <2>1, <2>2, <3>1, CompletedRefused DEF Closed, Hopeless
  <2>4. CASE job[r] \notin {"running", "armed"}
    <3>1. out \in Refusals \ {"coded"} => Hopeless(r)
      BY <2>1, <2>2, <2>4, LimitsAssumption
         DEF Outcomes, Refusals, Hopeless, Places, Cancels, Writes
    <3>2. out = "coded" => fact[r] # "none" /\ reply'[r].out = "coded"
      <4>1. out = "coded" => job[r] = "called"
        BY <2>1, <2>4, LimitsAssumption DEF Outcomes
      <4>2. reply'[r].out = out
        BY <1>1, <2>1, <2>2 DEF Complete, AnswerWith, Answer, TypeOK, Writes
      <4>3. QED
        BY <2>2, <4>1, <4>2 DEF JobsOfRun, Writes
    <3>3. out \in Refusals => Closed(r) \/ Closed(r)'
      BY <2>2, <3>1, <3>2 DEF Closed, CodedAfterCall
    <3>4. QED
      BY <2>1, <2>2, <3>3, CompletedRefused
  <2>5. QED
    BY <2>3, <2>4
<1>9. ASSUME NEW q \in Requests, ReceiveResolve(q)
      PROVE  Refused(w)
  <2>0. q \in Resolves /\ q # w
    BY <1>9, ResolveFacts DEF ReceiveResolve
  <2>1. CASE \E called : Answer(q, cache[Req[q].key], called)
    BY <1>9, <2>0, <2>1, ResolveFacts DEF ReceiveResolve, TypeOK, Answer, Refused
  <2>2. CASE Answer(q, "conflict", "unsaid")
    BY <1>9, <2>0, <2>2, ResolveFacts DEF ReceiveResolve, TypeOK, Answer, Refused
  <2>3. CASE UNCHANGED reply
    BY <1>1, <1>9, <2>3 DEF ReceiveResolve
  <2>4. QED
    BY <1>9, <2>1, <2>2, <2>3 DEF ReceiveResolve
<1>10. ASSUME NEW q \in Requests, ResolveOrders(q)
       PROVE  Refused(w) \/ Closed(w)
  <2>1. UNCHANGED cache /\ \E called : Answer(q, Evidence(q), called) \/ Answer(q, "unknown", called)
    BY <1>10 DEF ResolveOrders, AnswerWith
  <2>2. ASSUME q = Resolve[w], Evidence(q) = "rejected"
        PROVE  Hopeless(w)
    <3>1. CASE w \in Cancels
      BY <2>2, <3>1, ResolveFacts DEF Evidence, Hopeless, Cancels, Places
    <3>2. CASE w \notin Cancels
      BY <2>2, <3>2, ResolveFacts
         DEF Evidence, MatchingOrders, Matches, Hopeless, Places, Cancels, Writes
    <3>3. QED
      BY <3>1, <3>2
  <2>3. q # w
    BY <1>10, ResolveFacts DEF ResolveOrders, ClaimedFirst
  <2>4. CASE \E called : Answer(q, Evidence(q), called)
    BY <2>1, <2>2, <2>3, <2>4, ResolveFacts DEF Answer, TypeOK, Refused, Closed
  <2>5. CASE \E called : Answer(q, "unknown", called)
    BY <1>2, <2>1, <2>5 DEF Refusals
  <2>6. QED
    BY <2>1, <2>4, <2>5
<1>11. ASSUME NEW r \in Requests, Session(r)
       PROVE  Refused(w) \/ Closed(w) \/ Closed(w)'
  <2>1. CASE ReceiveWrite(r) \/ AcquireLock(r) \/ RiskPass(r) \/ Dispatch(r)
    BY <1>1, <2>1 DEF ReceiveWrite, AcquireLock, RiskPass, Dispatch
  <2>2. QED
    BY <1>3, <1>4, <1>5, <1>6, <1>7, <1>9, <1>10, <1>11, <2>1 DEF Session
<1>12. ASSUME NEW r \in Requests, Thread(r) \/ Counter(r)
       PROVE  Refused(w) \/ Closed(w) \/ Closed(w)'
  BY <1>1, <1>8, <1>12 DEF Thread, JobStart, JobTakeMarker, JobMark, JobNative, OrphanReturn,
     Counter, CounterPlace, CounterEnd, CounterCancel
<1>13. CASE Restart
  BY <1>13, RequestFields, ResolveFacts DEF Restart, Refused
<1>14. CASE UNCHANGED vars
  BY <1>1, <1>14 DEF vars
<1>15. QED
  BY <1>11, <1>12, <1>13, <1>14 DEF Next

\* The invariant: the server's, and what is known of refusals.
FailedInv ==
  /\ IInv
  /\ OwnEntries
  /\ AnswersSay
  /\ LandedIsCanceled
  /\ RefusedIsClosed
  /\ EndedIsCanceled
  /\ FailedIsClosed

LEMMA FailedStep ==
  ASSUME FailedInv, CallTypeOK, [CallNext]_<<vars, client>>
  PROVE  FailedInv'
<1>1. TypeOK /\ ClaimedFirst /\ JobsOfRun /\ [Next]_vars
  BY StepIsServers DEF FailedInv, IInv
<1>2. IInv'
  BY <1>1, InvStep DEF FailedInv
<1>3. OwnEntries' /\ AnswersSay' /\ LandedIsCanceled'
  BY <1>1, OwnStep, AnswersStep, LandedStep DEF FailedInv
<1>4. RefusedIsClosed'
  BY <1>1, NewlyRefused, ClosedStays DEF FailedInv, RefusedIsClosed
<1>5. ASSUME NEW w \in Writes, call'[w] = "failed"
      PROVE  Closed(w)'
  <2>1. call[w] = "failed" \/ Refused(w) \/ w \in ended
    <3>1. ASSUME NEW v \in Writes, Hear(v)
          PROVE  call[w] = "failed" \/ Refused(w) \/ w \in ended
      <4>1. v # w => call'[w] = call[w]
        BY <3>1 DEF Hear, End, AskFor, CallTypeOK
      <4>2. CASE v = w
        <5>1. w \in ended \/ reply[w].out \notin Doubtful(w) \cup {"accepted", "none"}
          BY <1>5, <3>1, <4>2, ResolveFacts
             DEF Hear, End, AskFor, CallTypeOK, FailedInv, AnswersSay
        <5>2. reply[w].out \in {"none"} \cup Results \cup Errors
          BY <1>1, ResolveFacts DEF TypeOK
        <5>3. QED
          BY <5>1, <5>2 DEF Doubtful, Results, Errors, Refused, Refusals
      <4>3. QED
        BY <1>5, <4>1, <4>2
    <3>2. CASE \E v \in Writes : Place(v) \/ LoseAnswer(v) \/ HearResolution(v) \/ LoseResolution(v)
      BY <1>5, <3>2, ResolveFacts
         DEF CallTypeOK, Place, LoseAnswer, HearResolution, LoseResolution, AskFor, End, Refused
    <3>3. CASE UNCHANGED call
      BY <1>5, <3>3
    <3>4. QED
      BY <3>1, <3>2, <3>3 DEF CallNext, Call, client
  <2>2. w \in ended => w \in Places /\ fact[w] = "canceled"
    BY DEF FailedInv, EndedIsCanceled, CallTypeOK
  <2>3. Closed(w)
    BY <2>1, <2>2 DEF FailedInv, RefusedIsClosed, FailedIsClosed, Closed
  <2>4. QED
    BY <1>1, <2>3, ClosedStays
<1>6. FailedIsClosed'
  BY <1>5 DEF FailedIsClosed
<1>7. EndedIsCanceled'
  <2>1. ASSUME NEW w \in ended'
        PROVE  fact[w] = "canceled" /\ w \in Requests
    <3>1. ended \subseteq Places /\ (w \in ended \/ (fact[w] = "canceled" /\ w \in Places))
      BY <2>1 DEF CallTypeOK, CallNext, Call, Place, Hear, LoseAnswer, HearResolution,
         LoseResolution, AskFor, End, Server, ShowsCanceled, client
    <3>2. QED
      BY <3>1 DEF FailedInv, EndedIsCanceled, Places
  <2>2. QED
    BY <1>1, <2>1, FactMoves DEF EndedIsCanceled
<1>8. QED
  BY <1>2, <1>3, <1>4, <1>6, <1>7 DEF FailedInv

(***************************************************************************)
(* What place_order or cancel_order reports as a definite failure is over: *)
(* no order of it is alive or filled or can still be sent, no cancel of it *)
(* has landed, however answers are lost and whatever the adapter raises,   *)
(* an error with a code of its own after the native call excepted.         *)
(***************************************************************************)
THEOREM FailedCallsAreDead == CallSpec => []FailedIsDead
<1>1. CallInit => FailedInv
  <2>1. ASSUME CallInit
        PROVE  OwnEntries /\ AnswersSay /\ LandedIsCanceled /\ RefusedIsClosed
               /\ EndedIsCanceled /\ FailedIsClosed
    BY <2>1, RequestFields, ResolveFacts
       DEF CallInit, Init, OwnEntries, AnswersSay, LandedIsCanceled, RefusedIsClosed, Refused,
           Refusals, EndedIsCanceled, FailedIsClosed, Writes, Cancels
  <2>2. QED
    BY <2>1, InitInv DEF CallInit, FailedInv
<1>2. FailedInv /\ CallTypeOK /\ [CallNext]_<<vars, client>> => FailedInv'
  BY FailedStep
<1>3. FailedInv => FailedIsDead
  BY RequestsAssumption, LimitsAssumption
     DEF FailedInv, FailedIsClosed, FailedIsDead, Closed, Hopeless, Unsent, LandedIsCanceled, IInv,
         ClaimedFirst, TypeOK, Writes, Places, Cancels, Request
<1>4. QED
  BY <1>1, <1>2, <1>3, CallTypeCorrect, PTL DEF CallSpec
=============================================================================
