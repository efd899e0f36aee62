-------------------------- MODULE ServerWritesProofs --------------------------
(***************************************************************************)
(* For every set of requests, sessions, accounts, keys and limits: a key   *)
(* reaches the counter at most once per server run, broker_called=false is *)
(* never a lie, the daily counters keep their limits, definite answers     *)
(* about orders and cancels agree with the counter's book, and the server  *)
(* implements WriteOnce.                                                   *)
(***************************************************************************)
EXTENDS ServerWrites, FiniteSetTheorems, TLAPS

(***************************************************************************)
(* The constants of a request have the types the server reads them with.   *)
(***************************************************************************)
LEMMA RequestFields ==
  ASSUME NEW r \in Requests
  PROVE  /\ Req[r].session \in Sessions /\ Req[r].key \in Keys
         /\ Req[r].action \in {"place", "cancel", "resolve"}
         /\ Req[r].body \in Bodies /\ Req[r].account \in Accounts
         /\ Req[r].about \in Requests /\ Req[r].priced \in BOOLEAN
  BY RequestsAssumption DEF Request

LEMMA InitType == Init => TypeOK
  BY DEF Init, TypeOK, Prints, NoPrint

USE DEF Results, Errors, Final, Busy, Ordered, InFlight

(***************************************************************************)
(* Fingerprints and the answers of a session are well typed.               *)
(***************************************************************************)
LEMMA WriteFingerprint ==
  ASSUME NEW r \in Writes
  PROVE  Fingerprint(r) \in Prints
  BY RequestFields DEF Writes, Fingerprint, Prints

LEMMA AnswerType ==
  ASSUME TypeOK, NEW r \in Requests,
         NEW out \in Results \cup Errors,
         NEW called \in {"unsaid", "no", "yes"},
         Answer(r, out, called)
  PROVE  /\ pc' \in [Requests -> {"new", "answered", "lost"} \cup InFlight]
         /\ reply' \in [Requests -> [out : {"none"} \cup Results \cup Errors,
                                     called : {"unsaid", "no", "yes"}]]
         /\ marker' \in [Sessions -> {"unset", "no", "yes"}]
  BY DEF TypeOK, Answer

LEMMA MarkedType ==
  ASSUME TypeOK, NEW r \in Requests
  PROVE  Marked(r) \in {"unsaid", "no", "yes"}
  BY RequestFields DEF TypeOK, Marked

LEMMA AnswerWithType ==
  ASSUME TypeOK, NEW r \in Requests, NEW out \in Results \cup Errors, AnswerWith(r, out)
  PROVE  /\ pc' \in [Requests -> {"new", "answered", "lost"} \cup InFlight]
         /\ reply' \in [Requests -> [out : {"none"} \cup Results \cup Errors,
                                     called : {"unsaid", "no", "yes"}]]
         /\ marker' \in [Sessions -> {"unset", "no", "yes"}]
  BY AnswerType, MarkedType DEF AnswerWith

LEMMA ReleaseLockType ==
  ASSUME TypeOK, NEW r \in Requests, ReleaseLock(r)
  PROVE  riskLock' \in [Accounts -> Requests \cup {NoReq}]
  BY DEF TypeOK, ReleaseLock

(***************************************************************************)
(* Completing a write keeps every component it touches well typed.         *)
(***************************************************************************)
LEMMA CompleteType ==
  ASSUME TypeOK, NEW r \in Writes, NEW out \in Results \cup Errors, Complete(r, out)
  PROVE  /\ pc' \in [Requests -> {"new", "answered", "lost"} \cup InFlight]
         /\ cache' \in [Keys -> {"absent", "pending"} \cup Final]
         /\ print' \in [Keys -> Prints]
         /\ marker' \in [Sessions -> {"unset", "no", "yes"}]
         /\ riskLock' \in [Accounts -> Requests \cup {NoReq}]
         /\ trades' \in [Accounts -> Nat]
         /\ cancels' \in [Accounts -> Nat]
         /\ reply' \in [Requests -> [out : {"none"} \cup Results \cup Errors,
                                     called : {"unsaid", "no", "yes"}]]
         /\ UNCHANGED <<claimed, born, epoch>>
<1>0. r \in Requests
  BY DEF Writes
<1>1. AnswerWith(r, out) /\ ReleaseLock(r)
  BY DEF Complete
<1>2. /\ pc' \in [Requests -> {"new", "answered", "lost"} \cup InFlight]
      /\ reply' \in [Requests -> [out : {"none"} \cup Results \cup Errors,
                                  called : {"unsaid", "no", "yes"}]]
      /\ marker' \in [Sessions -> {"unset", "no", "yes"}]
  BY <1>0, <1>1, AnswerWithType
<1>3. riskLock' \in [Accounts -> Requests \cup {NoReq}]
  BY <1>0, <1>1, ReleaseLockType
<1>4. cache' \in [Keys -> {"absent", "pending"} \cup Final]
  BY DEF TypeOK, Complete, Finalize
<1>5. print' \in [Keys -> Prints]
  BY WriteFingerprint DEF TypeOK, Complete, Finalize
<1>6. trades' \in [Accounts -> Nat] /\ cancels' \in [Accounts -> Nat]
  BY <1>0, RequestFields DEF TypeOK, Complete, RecordRisk, Counted
<1>7. QED
  BY <1>2, <1>3, <1>4, <1>5, <1>6 DEF Complete

LEMMA OutcomesAreAnswers ==
  ASSUME NEW r \in Requests
  PROVE  Outcomes(r) \subseteq Results \cup Errors
  BY LimitsAssumption DEF Outcomes

LEMMA SameType ==
  ASSUME TypeOK, UNCHANGED vars
  PROVE  TypeOK'
  BY DEF TypeOK, vars

(***************************************************************************)
(* The type invariant is inductive: every step of a session's coroutine,   *)
(* of an executor thread, of the counter and of a restart keeps it.        *)
(***************************************************************************)
LEMMA SessionType ==
  ASSUME TypeOK, NEW r \in Requests, Session(r)
  PROVE  TypeOK'
<1> USE DEF wire, risk, memory
<1>0. /\ Req[r].session \in Sessions /\ Req[r].key \in Keys
      /\ Req[r].account \in Accounts /\ (r \in Writes => Fingerprint(r) \in Prints)
  BY RequestFields, WriteFingerprint
<1>1. CASE ReceiveWrite(r)
  BY <1>0, <1>1 DEF TypeOK, ReceiveWrite
<1>2. CASE PrecheckFail(r)
  <2>1. AnswerWith(r, "failed")
    BY <1>2 DEF PrecheckFail
  <2>2. QED
    BY <1>2, <2>1, AnswerWithType DEF TypeOK, PrecheckFail
<1>3. CASE ClaimHit(r)
  <2>1. PICK out \in Results \cup Errors : AnswerWith(r, out)
    BY <1>0, <1>3 DEF TypeOK, ClaimHit
  <2>2. QED
    BY <1>3, <2>1, AnswerWithType DEF TypeOK, ClaimHit
<1>4. CASE ClaimFull(r)
  <2>1. Answer(r, "full", "no")
    BY <1>4 DEF ClaimFull
  <2>2. QED
    BY <1>4, <2>1, AnswerType DEF TypeOK, ClaimFull
<1>5. CASE ClaimNew(r)
  <2>1. /\ pc' \in [Requests -> {"new", "answered", "lost"} \cup InFlight]
        /\ marker' \in [Sessions -> {"unset", "no", "yes"}]
    <3>1. CASE Req[r].account \in RiskOn
      <4>1. pc' = [pc EXCEPT ![r] = "lockwait"] /\ marker' = marker
        BY <1>5, <3>1 DEF ClaimNew
      <4>2. QED
        BY <4>1 DEF TypeOK
    <3>2. CASE Req[r].account \notin RiskOn
      <4>1. pc' = [pc EXCEPT ![r] = "adapter"] /\ EnterMark(r)
        BY <1>5, <3>2 DEF ClaimNew
      <4>2. QED
        BY <4>1 DEF TypeOK, EnterMark
    <3>3. QED
      BY <3>1, <3>2
  <2>2. /\ cache' \in [Keys -> {"absent", "pending"} \cup Final]
        /\ print' \in [Keys -> Prints] /\ claimed' \in [Requests -> BOOLEAN]
    BY <1>0, <1>5 DEF TypeOK, ClaimNew
  <2>3. QED
    BY <1>5, <2>1, <2>2 DEF TypeOK, ClaimNew
<1>6. CASE AcquireLock(r)
  BY <1>0, <1>6 DEF TypeOK, AcquireLock
<1>7. CASE RiskPass(r)
  BY <1>0, <1>7 DEF TypeOK, RiskPass, EnterMark
<1>8. CASE RiskReject(r)
  <2>1. AnswerWith(r, "failed") /\ ReleaseLock(r)
    BY <1>8 DEF RiskReject
  <2>2. QED
    BY <1>8, <2>1, AnswerWithType, ReleaseLockType DEF TypeOK, RiskReject
<1>9. CASE AdapterRefuse(r)
  <2>1. PICK out \in Results \cup Errors : r \in Writes /\ Complete(r, out)
    BY <1>9 DEF AdapterRefuse
  <2>2. QED
    BY <1>9, <2>1, CompleteType DEF TypeOK, AdapterRefuse
<1>10. CASE Dispatch(r)
  BY <1>0, <1>10 DEF TypeOK, Dispatch
<1>11. CASE ReceiveResolve(r)
  <2>1. CASE \E out \in Results \cup Errors : Answer(r, out, "unsaid")
    BY <1>11, <2>1, AnswerType DEF TypeOK, ReceiveResolve
  <2>2. CASE /\ pc' = [pc EXCEPT ![r] = "asking"]
             /\ marker' = [marker EXCEPT ![Req[r].session] = "unset"]
             /\ UNCHANGED reply
    BY <1>0, <1>11, <2>2 DEF TypeOK, ReceiveResolve
  <2>3. QED
    BY <1>11, <2>1, <2>2 DEF ReceiveResolve
<1>12. CASE ResolveOrders(r)
  <2>1. PICK out \in Results \cup Errors : AnswerWith(r, out)
    BY <1>12 DEF ResolveOrders, Evidence
  <2>2. QED
    BY <1>12, <2>1, AnswerWithType DEF TypeOK, ResolveOrders
<1>13. CASE Timeout(r)
  <2>1. ReleaseLock(r) /\ \E called \in {"unsaid", "no", "yes"} : Answer(r, "timeout", called)
    BY <1>13 DEF Timeout
  <2>2. QED
    BY <1>13, <2>1, AnswerType, ReleaseLockType DEF TypeOK, Timeout
<1>14. QED
  BY <1>1, <1>2, <1>3, <1>4, <1>5, <1>6, <1>7, <1>8, <1>9, <1>10, <1>11, <1>12, <1>13
     DEF Session

LEMMA ThreadType ==
  ASSUME TypeOK, NEW r \in Requests, Thread(r)
  PROVE  TypeOK'
<1> USE DEF wire, risk, memory
<1>1. CASE JobStart(r)
  BY <1>1 DEF TypeOK, JobStart
<1>2. CASE JobTakeMarker(r)
  BY <1>2 DEF TypeOK, JobTakeMarker
<1>3. CASE JobMark(r)
  BY <1>3, RequestFields DEF TypeOK, JobMark
<1>4. CASE JobNative(r)
  BY <1>4 DEF TypeOK, JobNative
<1>5. CASE JobReturn(r)
  <2>1. PICK out \in Results \cup Errors : r \in Writes /\ Complete(r, out)
    BY <1>5, OutcomesAreAnswers DEF JobReturn
  <2>2. QED
    BY <1>5, <2>1, CompleteType DEF TypeOK, JobReturn
<1>6. CASE OrphanReturn(r)
  BY <1>6 DEF TypeOK, OrphanReturn
<1>7. QED
  BY <1>1, <1>2, <1>3, <1>4, <1>5, <1>6 DEF Thread

LEMMA CounterType ==
  ASSUME TypeOK, NEW r \in Requests, Counter(r)
  PROVE  TypeOK'
<1> USE DEF wire, risk, memory
<1>1. CASE CounterPlace(r)
  BY <1>1 DEF TypeOK, CounterPlace
<1>2. CASE CounterEnd(r)
  BY <1>2 DEF TypeOK, CounterEnd
<1>3. CASE CounterCancel(r)
  <2>1. fact' \in [Requests -> {"none", "entered", "refused", "landed"} \cup Ordered]
    <3>1. CASE fact' = [fact EXCEPT ![r] = "refused"]
      BY <3>1 DEF TypeOK
    <3>2. CASE fact' = [fact EXCEPT ![r] = "landed", ![Req[r].about] = "canceled"]
      BY <3>2 DEF TypeOK
    <3>3. QED
      BY <1>3, <3>1, <3>2 DEF CounterCancel
  <2>2. QED
    BY <1>3, <2>1 DEF TypeOK, CounterCancel
<1>4. QED
  BY <1>1, <1>2, <1>3 DEF Counter

LEMMA RestartType ==
  ASSUME TypeOK, Restart
  PROVE  TypeOK'
  BY DEF TypeOK, Restart, Prints, wire, risk, memory

LEMMA StepType ==
  ASSUME TypeOK, [Next]_vars
  PROVE  TypeOK'
  BY SessionType, ThreadType, CounterType, RestartType, SameType DEF Next

(***************************************************************************)
(* Every variable of the server keeps its type (all of ServerWrites).      *)
(***************************************************************************)
THEOREM TypeCorrect == Spec => []TypeOK
  BY InitType, StepType, PTL DEF Spec

-----------------------------------------------------------------------------
(* The inductive invariant. *)

(***************************************************************************)
(* A step that forgets no cache entry and claims nothing keeps KeysClaimed.*)
(***************************************************************************)
LEMMA KeysKept ==
  ASSUME KeysClaimed, UNCHANGED <<born, epoch, claimed>>,
         \A k \in Keys : cache[k] # "absent" => cache'[k] # "absent"
  PROVE  KeysClaimed'
  BY RequestFields DEF KeysClaimed, SameKey

LEMMA CompleteKeepsEntries ==
  ASSUME TypeOK, NEW r \in Writes, NEW out, Complete(r, out)
  PROVE  /\ UNCHANGED <<born, epoch, claimed>>
         /\ \A k \in Keys : cache[k] # "absent" => cache'[k] # "absent"
  BY DEF TypeOK, Complete, Finalize

(***************************************************************************)
(* Claimed keys stay in the cache of their run and have one owner.         *)
(***************************************************************************)
LEMMA KeysStep ==
  ASSUME TypeOK, KeysClaimed, ClaimedFirst, [Next]_vars
  PROVE  KeysClaimed'
<1> USE DEF wire, risk, memory
<1>1. ASSUME NEW r \in Requests, ReceiveWrite(r) \/ ReceiveResolve(r)
      PROVE  KeysClaimed'
  <2>1. /\ born' = [born EXCEPT ![r] = epoch] /\ epoch' = epoch
        /\ claimed' = claimed /\ cache' = cache /\ ~claimed[r]
    BY <1>1 DEF ReceiveWrite, ReceiveResolve, ClaimedFirst
  <2>2. QED
    BY <2>1 DEF TypeOK, KeysClaimed, SameKey
<1>2. ASSUME NEW r \in Requests, ClaimNew(r)
      PROVE  KeysClaimed'
  <2>1. /\ cache[Req[r].key] = "absent" /\ cache' = [cache EXCEPT ![Req[r].key] = "pending"]
        /\ claimed' = [claimed EXCEPT ![r] = TRUE] /\ born' = born /\ epoch' = epoch
        /\ born[r] = epoch
    BY <1>2 DEF ClaimNew, ClaimedFirst
  <2>2. \A s \in Requests : SameKey(r, s) => ~claimed[s]
    BY <2>1 DEF KeysClaimed, SameKey
  <2>3. QED
    BY <2>1, <2>2, RequestFields DEF TypeOK, KeysClaimed, SameKey
<1>3. CASE Restart
  BY <1>3 DEF TypeOK, KeysClaimed, SameKey, Restart
<1>4. ASSUME NEW r \in Requests, AdapterRefuse(r) \/ JobReturn(r)
      PROVE  KeysClaimed'
  <2>1. PICK out : r \in Writes /\ Complete(r, out)
    BY <1>4 DEF AdapterRefuse, JobReturn
  <2>2. QED
    BY <2>1, CompleteKeepsEntries, KeysKept
<1>5. CASE UNCHANGED <<born, epoch, claimed, cache>>
  BY <1>5, KeysKept
<1>6. CASE UNCHANGED vars
  BY <1>5, <1>6 DEF vars
<1>7. ASSUME NEW r \in Requests, Session(r)
      PROVE  KeysClaimed'
  BY <1>1, <1>2, <1>4, <1>5, <1>7
     DEF Session, PrecheckFail, ClaimHit, ClaimFull, AcquireLock, RiskPass, RiskReject,
         Dispatch, ResolveOrders, Timeout
<1>8. ASSUME NEW r \in Requests, Thread(r) \/ Counter(r)
      PROVE  KeysClaimed'
  BY <1>4, <1>5, <1>8
     DEF Thread, Counter, JobStart, JobTakeMarker, JobMark, JobNative, OrphanReturn,
         CounterPlace, CounterEnd, CounterCancel
<1>9. QED
  BY <1>3, <1>6, <1>7, <1>8 DEF Next

(***************************************************************************)
(* The session answers one request and leaves every other as it was.       *)
(***************************************************************************)
LEMMA CompleteAnswers ==
  ASSUME TypeOK, NEW r \in Writes, NEW out, Complete(r, out)
  PROVE  /\ pc' = [pc EXCEPT ![r] = "answered"]
         /\ marker' = [marker EXCEPT ![Req[r].session] = "unset"]
         /\ reply' = [reply EXCEPT ![r] = [out |-> out,
                        called |-> IF out \in Errors THEN Marked(r) ELSE "unsaid"]]
         /\ UNCHANGED <<born, epoch, claimed>>
  BY DEF Complete, AnswerWith, Answer

(***************************************************************************)
(* Jobs and traces at the counter belong to claimed requests.              *)
(***************************************************************************)
LEMMA ClaimedSession ==
  ASSUME TypeOK, ClaimedFirst, NEW r \in Requests, Session(r)
  PROVE  ClaimedFirst'
<1> USE DEF wire, risk, memory
<1>1. CASE ReceiveWrite(r)
  BY <1>1 DEF TypeOK, ClaimedFirst, ReceiveWrite
<1>2. CASE \/ PrecheckFail(r) \/ ClaimHit(r) \/ ClaimFull(r) \/ RiskReject(r) \/ ResolveOrders(r)
  <2>1. /\ pc' = [pc EXCEPT ![r] = "answered"]
        /\ UNCHANGED <<job, fact, claimed, born, epoch>>
    BY <1>2 DEF PrecheckFail, ClaimHit, ClaimFull, RiskReject, ResolveOrders, AnswerWith, Answer
  <2>2. QED
    BY <2>1 DEF TypeOK, ClaimedFirst
<1>3. CASE ClaimNew(r)
  <2>1. /\ r \in Writes /\ claimed' = [claimed EXCEPT ![r] = TRUE]
        /\ pc[r] = "precheck"
        /\ pc' = [pc EXCEPT ![r] = "lockwait"] \/ pc' = [pc EXCEPT ![r] = "adapter"]
        /\ UNCHANGED <<job, fact, born, epoch>>
    BY <1>3 DEF ClaimNew
  <2>2. QED
    BY <2>1 DEF TypeOK, ClaimedFirst
<1>4. CASE AcquireLock(r) \/ RiskPass(r)
  <2>1. /\ pc[r] \in {"lockwait", "riskcheck"}
        /\ pc' = [pc EXCEPT ![r] = "riskcheck"] \/ pc' = [pc EXCEPT ![r] = "adapter"]
        /\ UNCHANGED <<job, fact, claimed, born, epoch>>
    BY <1>4 DEF AcquireLock, RiskPass
  <2>2. QED
    BY <2>1 DEF TypeOK, ClaimedFirst
<1>5. CASE AdapterRefuse(r)
  <2>1. pc' = [pc EXCEPT ![r] = "answered"] /\ UNCHANGED <<job, fact, claimed, born, epoch>>
    BY <1>5, CompleteAnswers DEF AdapterRefuse
  <2>2. QED
    BY <2>1 DEF TypeOK, ClaimedFirst
<1>6. CASE Dispatch(r)
  BY <1>6 DEF TypeOK, ClaimedFirst, Dispatch
<1>7. CASE ReceiveResolve(r)
  <2>1. /\ r \in Resolves /\ r \notin Writes /\ pc[r] = "new" /\ born' = [born EXCEPT ![r] = epoch]
        /\ pc' = [pc EXCEPT ![r] = "answered"] \/ pc' = [pc EXCEPT ![r] = "asking"]
        /\ UNCHANGED <<job, fact, claimed, epoch>>
    BY <1>7 DEF ReceiveResolve, Answer, Writes, Resolves
  <2>2. QED
    BY <2>1 DEF TypeOK, ClaimedFirst
<1>8. CASE Timeout(r)
  <2>1. /\ pc[r] \in InFlight /\ pc' = [pc EXCEPT ![r] = "answered"]
        /\ job' = [job EXCEPT ![r] = IF @ = "queued" THEN "dropped" ELSE @]
        /\ UNCHANGED <<fact, claimed, born, epoch>>
    BY <1>8 DEF Timeout, Answer
  <2>2. QED
    BY <2>1 DEF TypeOK, ClaimedFirst
<1>9. QED
  BY <1>1, <1>2, <1>3, <1>4, <1>5, <1>6, <1>7, <1>8 DEF Session

LEMMA ClaimedStep ==
  ASSUME TypeOK, ClaimedFirst, [Next]_vars
  PROVE  ClaimedFirst'
<1> USE DEF wire, risk, memory
<1>1. ASSUME NEW r \in Requests, Thread(r)
      PROVE  ClaimedFirst'
  <2>1. CASE JobStart(r) \/ JobTakeMarker(r) \/ JobMark(r)
    <3>1. /\ job[r] \in {"queued", "running", "holding"}
          /\ \E j \in {"running", "holding", "armed"} : job' = [job EXCEPT ![r] = j]
          /\ UNCHANGED <<pc, fact, claimed, born, epoch>>
      BY <2>1 DEF JobStart, JobTakeMarker, JobMark
    <3>2. QED
      BY <3>1 DEF TypeOK, ClaimedFirst
  <2>2. CASE JobNative(r)
    BY <2>2 DEF TypeOK, ClaimedFirst, JobNative
  <2>3. CASE JobReturn(r)
    <3>1. /\ pc[r] = "await" /\ pc' = [pc EXCEPT ![r] = "answered"]
          /\ job' = [job EXCEPT ![r] = "done"] /\ UNCHANGED <<fact, claimed, born, epoch>>
      BY <2>3, CompleteAnswers DEF JobReturn
    <3>2. QED
      BY <3>1 DEF TypeOK, ClaimedFirst
  <2>4. CASE OrphanReturn(r)
    <3>1. job[r] # "none"
      BY <2>4 DEF OrphanReturn, Outcomes
    <3>2. QED
      BY <2>4, <3>1 DEF TypeOK, ClaimedFirst, OrphanReturn
  <2>5. QED
    BY <1>1, <2>1, <2>2, <2>3, <2>4 DEF Thread
<1>2. ASSUME NEW r \in Requests, Counter(r)
      PROVE  ClaimedFirst'
  <2>1. /\ UNCHANGED <<pc, job, claimed, born, epoch>>
        /\ \A s \in Requests : fact'[s] # "none" <=> fact[s] # "none"
    <3>1. CASE CounterPlace(r) \/ CounterEnd(r)
      BY <3>1 DEF TypeOK, CounterPlace, CounterEnd
    <3>2. CASE CounterCancel(r)
      <4>1. CASE fact' = [fact EXCEPT ![r] = "refused"]
        BY <3>2, <4>1 DEF TypeOK, CounterCancel
      <4>2. CASE /\ fact[Req[r].about] = "live"
                 /\ fact' = [fact EXCEPT ![r] = "landed", ![Req[r].about] = "canceled"]
        BY <3>2, <4>2 DEF TypeOK, CounterCancel
      <4>3. QED
        BY <3>2, <4>1, <4>2 DEF CounterCancel
    <3>3. QED
      BY <1>2, <3>1, <3>2 DEF Counter
  <2>2. QED
    BY <2>1 DEF TypeOK, ClaimedFirst
<1>3. CASE Restart
  BY <1>3 DEF TypeOK, ClaimedFirst, Restart
<1>4. CASE UNCHANGED vars
  BY <1>4 DEF ClaimedFirst, vars
<1>5. QED
  BY <1>1, <1>2, <1>3, <1>4, ClaimedSession DEF Next

(***************************************************************************)
(* One request in flight per session, and a session whose await may still  *)
(* report broker_called=false has a thread that is not past its marker.    *)
(***************************************************************************)
LEMMA MarkedSession ==
  ASSUME TypeOK, ClaimedFirst, MarkedInTime, NEW r \in Requests, Session(r)
  PROVE  MarkedInTime'
<1> USE DEF wire, risk, memory
<1>1. CASE ReceiveWrite(r)
  BY <1>1 DEF TypeOK, MarkedInTime, ReceiveWrite, Idle
<1>2. CASE \/ PrecheckFail(r) \/ ClaimHit(r) \/ ClaimFull(r) \/ RiskReject(r) \/ ResolveOrders(r)
           \/ AdapterRefuse(r)
  <2>1. /\ pc[r] \in InFlight /\ pc' = [pc EXCEPT ![r] = "answered"]
        /\ marker' = [marker EXCEPT ![Req[r].session] = "unset"] /\ UNCHANGED job
        /\ \A s \in Requests : s # r => reply'[s] = reply[s]
    BY <1>2, CompleteAnswers DEF TypeOK, PrecheckFail, ClaimHit, ClaimFull, RiskReject,
       ResolveOrders, AdapterRefuse, AnswerWith, Answer
  <2>2. QED
    BY <2>1 DEF TypeOK, MarkedInTime
<1>3. CASE ClaimNew(r) \/ AcquireLock(r) \/ RiskPass(r)
  <2>1. /\ pc[r] \in InFlight /\ UNCHANGED <<job, reply>>
        /\ \/ pc' = [pc EXCEPT ![r] = "lockwait"]
           \/ pc' = [pc EXCEPT ![r] = "riskcheck"]
           \/ /\ pc' = [pc EXCEPT ![r] = "adapter"]
              /\ r \in Cancels => marker'[Req[r].session] = "yes"
        /\ \A s \in Sessions : marker'[s] = marker[s] \/ marker'[s] = "yes"
    <3>1. CASE ClaimNew(r) /\ Req[r].account \in RiskOn
      BY <3>1 DEF ClaimNew
    <3>2. CASE ClaimNew(r) /\ Req[r].account \notin RiskOn
      BY <3>2, RequestFields DEF TypeOK, ClaimNew, EnterMark
    <3>3. CASE AcquireLock(r)
      BY <3>3 DEF AcquireLock, Places, Cancels
    <3>4. CASE RiskPass(r)
      BY <3>4, RequestFields DEF TypeOK, RiskPass, EnterMark
    <3>5. QED
      BY <1>3, <3>1, <3>2, <3>3, <3>4
  <2>2. CASE \/ pc' = [pc EXCEPT ![r] = "lockwait"]
             \/ pc' = [pc EXCEPT ![r] = "riskcheck"]
    <3>1. PICK p \in {"lockwait", "riskcheck"} : pc' = [pc EXCEPT ![r] = p]
      BY <2>2
    <3>2. \A s \in Requests : s # r => pc'[s] = pc[s]
      BY <3>1 DEF TypeOK
    <3>3. pc'[r] = p
      BY <3>1 DEF TypeOK
    <3>4. QED
      BY <2>1, <3>2, <3>3, RequestFields DEF MarkedInTime
  <2>3. CASE /\ pc' = [pc EXCEPT ![r] = "adapter"]
             /\ r \in Cancels => marker'[Req[r].session] = "yes"
    <3>1. pc'[r] = "adapter" /\ \A s \in Requests : s # r => pc'[s] = pc[s]
      BY <2>3 DEF TypeOK
    <3>2. QED
      BY <2>1, <2>3, <3>1, RequestFields DEF MarkedInTime
  <2>4. QED
    BY <2>1, <2>2, <2>3
<1>4. CASE Dispatch(r)
  <2>1. /\ pc[r] = "adapter" /\ r \in Cancels => marker[Req[r].session] = "yes"
        /\ r \in Places \cup Cancels
    BY <1>4, RequestFields DEF MarkedInTime, ClaimedFirst, Dispatch, Places, Cancels, Writes
  <2>2. /\ pc' = [pc EXCEPT ![r] = "await"] /\ job' = [job EXCEPT ![r] = "queued"]
        /\ UNCHANGED reply
        /\ \A s \in Sessions : marker'[s] = marker[s] \/ marker'[s] = "yes"
        /\ MarkInThread \/ marker'[Req[r].session] = "yes"
    BY <1>4, RequestFields DEF TypeOK, Dispatch
  <2>3. pc[r] = "adapter"
    BY <1>4 DEF Dispatch
  <2>4. QED
    BY <2>1, <2>2, <2>3, RequestFields DEF TypeOK, MarkedInTime
<1>5. CASE ReceiveResolve(r)
  <2>1. /\ pc[r] = "new" /\ Idle(Req[r].session) /\ UNCHANGED job
        /\ marker' = [marker EXCEPT ![Req[r].session] = "unset"]
        /\ \/ pc' = [pc EXCEPT ![r] = "answered"]
           \/ pc' = [pc EXCEPT ![r] = "asking"] /\ UNCHANGED reply
        /\ \A s \in Requests : s # r => reply'[s] = reply[s]
    BY <1>5 DEF TypeOK, ReceiveResolve, Answer
  <2>2. \A s \in Requests : Req[s].session = Req[r].session => pc[s] \notin InFlight
    BY <2>1 DEF Idle
  <2>3. CASE pc' = [pc EXCEPT ![r] = "answered"]
    BY <2>1, <2>2, <2>3 DEF TypeOK, MarkedInTime
  <2>4. CASE pc' = [pc EXCEPT ![r] = "asking"] /\ UNCHANGED reply
    BY <2>1, <2>2, <2>4 DEF TypeOK, MarkedInTime
  <2>5. QED
    BY <2>1, <2>3, <2>4
<1>6. CASE Timeout(r)
  <2>1. /\ pc[r] \in InFlight /\ pc' = [pc EXCEPT ![r] = "answered"]
        /\ job' = [job EXCEPT ![r] = IF @ = "queued" THEN "dropped" ELSE @]
        /\ marker' = [marker EXCEPT ![Req[r].session] = "unset"]
        /\ \A s \in Requests : s # r => reply'[s] = reply[s]
    BY <1>6 DEF TypeOK, Timeout, Answer
  <2>2. QED
    BY <2>1 DEF TypeOK, MarkedInTime
<1>7. QED
  BY <1>1, <1>2, <1>3, <1>4, <1>5, <1>6 DEF Session

LEMMA MarkedStep ==
  ASSUME TypeOK, ClaimedFirst, MarkedInTime, [Next]_vars
  PROVE  MarkedInTime'
<1> USE DEF wire, risk, memory
<1>1. ASSUME NEW r \in Requests, Thread(r)
      PROVE  MarkedInTime'
  <2>1. CASE JobStart(r)
    BY <2>1 DEF TypeOK, MarkedInTime, JobStart
  <2>2. CASE JobTakeMarker(r)
    <3>1. CASE MarkInThread /\ r \in Places /\ pc[r] = "await"
      <4>1. job' = [job EXCEPT ![r] = "holding"] /\ UNCHANGED <<pc, marker, reply>>
        BY <2>2, <3>1 DEF JobTakeMarker
      <4>2. QED
        BY <3>1, <4>1 DEF TypeOK, MarkedInTime
    <3>2. CASE ~(MarkInThread /\ r \in Places /\ pc[r] = "await")
      <4>1. job' = [job EXCEPT ![r] = "armed"] /\ UNCHANGED <<pc, marker, reply>>
        BY <2>2, <3>2 DEF JobTakeMarker
      <4>2. QED
        BY <3>2, <4>1 DEF TypeOK, MarkedInTime
    <3>3. QED
      BY <3>1, <3>2
  <2>3. CASE JobMark(r)
    BY <2>3, RequestFields DEF TypeOK, MarkedInTime, JobMark
  <2>4. CASE JobNative(r)
    BY <2>4 DEF TypeOK, MarkedInTime, JobNative
  <2>5. CASE JobReturn(r)
    <3>1. /\ pc[r] \in InFlight /\ pc' = [pc EXCEPT ![r] = "answered"]
          /\ job' = [job EXCEPT ![r] = "done"]
          /\ marker' = [marker EXCEPT ![Req[r].session] = "unset"]
          /\ \A s \in Requests : s # r => reply'[s] = reply[s]
      BY <2>5, CompleteAnswers DEF TypeOK, JobReturn
    <3>2. QED
      BY <3>1 DEF TypeOK, MarkedInTime
  <2>6. CASE OrphanReturn(r)
    BY <2>6 DEF TypeOK, MarkedInTime, OrphanReturn
  <2>7. QED
    BY <1>1, <2>1, <2>2, <2>3, <2>4, <2>5, <2>6 DEF Thread
<1>2. ASSUME NEW r \in Requests, Counter(r)
      PROVE  MarkedInTime'
  BY <1>2 DEF MarkedInTime, Counter, CounterPlace, CounterEnd, CounterCancel
<1>3. CASE Restart
  BY <1>3 DEF TypeOK, MarkedInTime, Restart
<1>4. CASE UNCHANGED vars
  BY <1>4 DEF MarkedInTime, vars
<1>5. QED
  BY <1>1, <1>2, <1>3, <1>4, MarkedSession DEF Next

(***************************************************************************)
(* broker_called=false is only said of a write that nothing can still send.*)
(***************************************************************************)
LEMMA NotCalledStep ==
  ASSUME TypeOK, ClaimedFirst, MarkedInTime, NotCalledIsTrue, [Next]_vars
  PROVE  NotCalledIsTrue'
<1> USE DEF wire, risk, memory
<1>1. ASSUME NEW r \in Requests,
             PrecheckFail(r) \/ ClaimHit(r) \/ ClaimFull(r) \/ RiskReject(r) \/ AdapterRefuse(r)
      PROVE  NotCalledIsTrue'
  <2>1. /\ pc[r] \in {"precheck", "riskcheck", "adapter"} /\ UNCHANGED <<job, fact>>
        /\ \A s \in Requests : s # r => reply'[s] = reply[s]
    BY <1>1, CompleteAnswers DEF TypeOK, PrecheckFail, ClaimHit, ClaimFull, RiskReject,
       AdapterRefuse, AnswerWith, Answer
  <2>2. fact[r] = "none" /\ job[r] = "none"
    BY <2>1 DEF TypeOK, ClaimedFirst
  <2>3. QED
    BY <2>1, <2>2 DEF TypeOK, NotCalledIsTrue
<1>2. ASSUME NEW r \in Requests, ReceiveResolve(r) \/ ResolveOrders(r)
      PROVE  NotCalledIsTrue'
  <2>1. UNCHANGED <<job, fact>> /\ \A s \in Requests : s # r => reply'[s] = reply[s]
    BY <1>2 DEF TypeOK, ReceiveResolve, ResolveOrders, AnswerWith, Answer
  <2>2. fact[r] = "none" /\ job[r] = "none"
    BY <1>2 DEF TypeOK, ClaimedFirst, ReceiveResolve, ResolveOrders, Resolves, Writes
  <2>3. QED
    BY <2>1, <2>2 DEF TypeOK, NotCalledIsTrue
<1>3. ASSUME NEW r \in Requests, Timeout(r)
      PROVE  NotCalledIsTrue'
  <2>1. reply'[r].called # "no" /\ UNCHANGED fact
    BY <1>3 DEF TypeOK, Timeout, Answer
  <2>2. /\ \A s \in Requests : s # r => reply'[s] = reply[s]
        /\ job' = [job EXCEPT ![r] = IF @ = "queued" THEN "dropped" ELSE @]
    BY <1>3 DEF TypeOK, Timeout, Answer
  <2>3. QED
    BY <2>1, <2>2 DEF TypeOK, NotCalledIsTrue
<1>4. ASSUME NEW r \in Requests, JobReturn(r)
      PROVE  NotCalledIsTrue'
  <2>1. PICK out \in Outcomes(r) : r \in Writes /\ Complete(r, out) /\ pc[r] = "await"
    BY <1>4 DEF JobReturn
  <2>2. /\ reply' = [reply EXCEPT ![r] = [out |-> out,
                        called |-> IF out \in Errors THEN Marked(r) ELSE "unsaid"]]
        /\ job' = [job EXCEPT ![r] = "done"] /\ UNCHANGED fact
    BY <1>4, <2>1, CompleteAnswers DEF JobReturn
  <2>3. ASSUME reply'[r].called = "no"
        PROVE  fact[r] = "none"
    <3>1. marker[Req[r].session] # "yes"
      BY <2>2, <2>3 DEF TypeOK, Marked
    <3>2. QED
      BY <2>1, <3>1 DEF MarkedInTime, ClaimedFirst
  <2>4. QED
    BY <2>2, <2>3 DEF TypeOK, NotCalledIsTrue
<1>5. ASSUME NEW r \in Requests,
             \/ JobStart(r) \/ JobTakeMarker(r) \/ JobMark(r) \/ JobNative(r)
             \/ OrphanReturn(r) \/ ReceiveWrite(r) \/ ClaimNew(r) \/ AcquireLock(r)
             \/ RiskPass(r) \/ Dispatch(r)
      PROVE  NotCalledIsTrue'
  <2>1. UNCHANGED reply
    BY <1>5 DEF JobStart, JobTakeMarker, JobMark, JobNative, OrphanReturn, ReceiveWrite,
       ClaimNew, AcquireLock, RiskPass, Dispatch
  <2>2. /\ \A s \in Requests : s # r => job'[s] = job[s] /\ fact'[s] = fact[s]
        /\ job'[r] = "done" \/ job'[r] = job[r]
           \/ job[r] \in Busy \cup {"queued"} \/ pc[r] = "adapter"
        /\ fact'[r] = fact[r] \/ job[r] \in Busy
    BY <1>5 DEF TypeOK, JobStart, JobTakeMarker, JobMark, JobNative, OrphanReturn,
       ReceiveWrite, ClaimNew, AcquireLock, RiskPass, Dispatch
  <2>3. QED
    BY <2>1, <2>2 DEF TypeOK, NotCalledIsTrue, MarkedInTime
<1>6. ASSUME NEW r \in Requests, Counter(r)
      PROVE  NotCalledIsTrue'
  <2>1. /\ UNCHANGED <<reply, job>>
        /\ \A s \in Requests : fact[s] = "none" => fact'[s] = "none"
    BY <1>6 DEF TypeOK, Counter, CounterPlace, CounterEnd, CounterCancel
  <2>2. QED
    BY <2>1 DEF NotCalledIsTrue
<1>7. CASE Restart
  BY <1>7 DEF TypeOK, NotCalledIsTrue, Restart
<1>8. CASE UNCHANGED vars
  BY <1>8 DEF NotCalledIsTrue, vars
<1>9. ASSUME NEW r \in Requests, Session(r) \/ Thread(r) \/ Counter(r)
      PROVE  NotCalledIsTrue'
  BY <1>1, <1>2, <1>3, <1>4, <1>5, <1>6, <1>9 DEF Session, Thread
<1>10. QED
  BY <1>7, <1>8, <1>9 DEF Next

-----------------------------------------------------------------------------
(* How one step may change what the rest of the invariant is about. *)

(***************************************************************************)
(* How the facts of the counter can change in one step.                    *)
(***************************************************************************)
LEMMA FactMoves ==
  ASSUME TypeOK, ClaimedFirst, [Next]_vars, NEW r \in Requests
  PROVE  /\ \/ fact'[r] = fact[r]
            \/ fact[r] = "none" /\ job[r] = "armed"
            \/ fact[r] = "entered"
            \/ fact[r] = "live" /\ fact'[r] \in {"filled", "void", "canceled"}
         /\ fact'[r] = "landed" => fact[r] = "landed" \/ fact'[Req[r].about] = "canceled"
<1> DEFINE Moves ==
      /\ \/ fact'[r] = fact[r]
         \/ fact[r] = "none" /\ job[r] = "armed"
         \/ fact[r] = "entered"
         \/ fact[r] = "live" /\ fact'[r] \in {"filled", "void", "canceled"}
      /\ fact'[r] = "landed" => fact[r] = "landed" \/ fact'[Req[r].about] = "canceled"
<1> USE DEF wire, risk, memory
<1>1. ASSUME NEW s \in Requests, Session(s)
      PROVE  fact' = fact
  BY <1>1 DEF Session, ReceiveWrite, PrecheckFail, ClaimHit, ClaimFull, ClaimNew, AcquireLock,
     RiskPass, RiskReject, AdapterRefuse, Dispatch, ReceiveResolve, ResolveOrders, Timeout
<1>2. ASSUME NEW s \in Requests, Thread(s)
      PROVE  \/ fact' = fact
             \/ fact[s] = "none" /\ job[s] = "armed" /\ fact' = [fact EXCEPT ![s] = "entered"]
  BY <1>2 DEF Thread, JobStart, JobTakeMarker, JobMark, JobNative, JobReturn, OrphanReturn,
     ClaimedFirst
<1>3. ASSUME NEW s \in Requests, Counter(s)
      PROVE  Moves
  <2>1. CASE CounterPlace(s) \/ CounterEnd(s)
    BY <2>1 DEF CounterPlace, CounterEnd, TypeOK
  <2>2. CASE CounterCancel(s)
    <3>1. CASE fact' = [fact EXCEPT ![s] = "refused"]
      BY <2>2, <3>1 DEF CounterCancel, TypeOK
    <3>2. CASE /\ fact[Req[s].about] = "live"
               /\ fact' = [fact EXCEPT ![s] = "landed", ![Req[s].about] = "canceled"]
      <4>1. fact[s] = "entered" /\ Req[s].about \in Requests
        BY <2>2, RequestFields DEF CounterCancel
      <4>2. QED
        BY <3>2, <4>1 DEF TypeOK
    <3>3. QED
      BY <2>2, <3>1, <3>2 DEF CounterCancel
  <2>3. QED
    BY <1>3, <2>1, <2>2 DEF Counter
<1>4. CASE Restart \/ UNCHANGED vars
  BY <1>4 DEF Restart, vars
<1>5. QED
  <2>1. ASSUME NEW s \in Requests, Session(s) \/ Thread(s) \/ Counter(s)
        PROVE  Moves
    <3>1. CASE fact' = fact
      BY <3>1
    <3>2. CASE fact[s] = "none" /\ job[s] = "armed" /\ fact' = [fact EXCEPT ![s] = "entered"]
      BY <3>2 DEF TypeOK
    <3>3. QED
      BY <1>1, <1>2, <1>3, <2>1, <3>1, <3>2
  <2>2. QED
    BY <1>4, <2>1 DEF Next

LEMMA FactKept ==
  ASSUME TypeOK, [Next]_vars, NEW r \in Requests, fact[r] # "none"
  PROVE  fact'[r] # "none"
<1> USE DEF wire, risk, memory
<1>1. ASSUME NEW s \in Requests, Session(s)
      PROVE  fact' = fact
  BY <1>1 DEF Session, ReceiveWrite, PrecheckFail, ClaimHit, ClaimFull, ClaimNew, AcquireLock,
     RiskPass, RiskReject, AdapterRefuse, Dispatch, ReceiveResolve, ResolveOrders, Timeout
<1>2. ASSUME NEW s \in Requests, Thread(s)
      PROVE  fact'[r] # "none"
  BY <1>2 DEF TypeOK, Thread, JobStart, JobTakeMarker, JobMark, JobNative, JobReturn, OrphanReturn
<1>3. ASSUME NEW s \in Requests, Counter(s)
      PROVE  fact'[r] # "none"
  BY <1>3, RequestFields DEF TypeOK, Counter, CounterPlace, CounterEnd, CounterCancel
<1>4. CASE Restart \/ UNCHANGED vars
  BY <1>4 DEF Restart, vars
<1>5. QED
  BY <1>1, <1>2, <1>3, <1>4 DEF Next

(***************************************************************************)
(* An order that is on the book stays on the record, a canceled one stays  *)
(* canceled, and a dead one stays dead.                                    *)
(***************************************************************************)
LEMMA FactStays ==
  ASSUME TypeOK, ClaimedFirst, [Next]_vars, NEW r \in Requests
  PROVE  /\ fact[r] \in Ordered => fact'[r] \in Ordered
         /\ fact[r] \in {"canceled", "refused", "void"} => fact'[r] = fact[r]
         /\ fact[r] # "none" => fact'[r] # "none"
         /\ fact[r] = "none" /\ fact'[r] # "none" => job[r] = "armed"
<1>1. job[r] = "armed" => fact[r] = "none"
  BY DEF ClaimedFirst
<1>2. fact[r] # "none" => fact'[r] # "none"
  BY <1>1, FactKept
<1>3. QED
  BY <1>1, <1>2, FactMoves

\* A write is under way in its coroutine or in a thread.
UnderWay(r) == \/ pc[r] \in {"lockwait", "riskcheck", "adapter", "await"}
               \/ job[r] \in Busy \cup {"queued"}

(***************************************************************************)
(* The adapter answers the coroutine, before or after the executor job.    *)
(***************************************************************************)
Settles(r, out) ==
  /\ r \in Writes /\ Complete(r, out) /\ UNCHANGED fact
  /\ \/ /\ pc[r] = "adapter" /\ UNCHANGED job
        /\ out \in {"failed", "coded"} \/ (out = "rejected" /\ r \in Places)
     \/ pc[r] = "await" /\ out \in Outcomes(r) /\ job' = [job EXCEPT ![r] = "done"]

LEMMA Settled ==
  ASSUME NEW r \in Requests, AdapterRefuse(r) \/ JobReturn(r)
  PROVE  \E out \in Results \cup Errors : Settles(r, out)
<1>1. CASE AdapterRefuse(r)
  BY <1>1 DEF AdapterRefuse, Settles
<1>2. CASE JobReturn(r)
  BY <1>2, OutcomesAreAnswers DEF JobReturn, Settles
<1>3. QED
  BY <1>1, <1>2

(***************************************************************************)
(* Only a claim puts a write under way.                                    *)
(***************************************************************************)
LEMMA UnderWayMoves ==
  ASSUME TypeOK, ClaimedFirst, [Next]_vars, NEW r \in Requests, UnderWay(r)'
  PROVE  ClaimNew(r) \/ (UnderWay(r) /\ ~Restart)
<1> USE DEF wire, risk, memory
<1>1. ASSUME NEW s \in Requests, Session(s), ~ClaimNew(r)
      PROVE  UnderWay(r)
  <2>1. CASE ReceiveWrite(s) \/ AcquireLock(s) \/ RiskPass(s) \/ Dispatch(s)
    BY <2>1, <1>1 DEF TypeOK, UnderWay, ReceiveWrite, AcquireLock, RiskPass, Dispatch
  <2>2. CASE PrecheckFail(s) \/ ClaimHit(s) \/ ClaimFull(s) \/ RiskReject(s) \/ ResolveOrders(s)
    BY <2>2 DEF TypeOK, UnderWay, PrecheckFail, ClaimHit, ClaimFull, RiskReject, ResolveOrders,
       AnswerWith, Answer
  <2>3. CASE AdapterRefuse(s)
    BY <2>3 DEF TypeOK, UnderWay, AdapterRefuse, Complete, AnswerWith, Answer
  <2>4. CASE ReceiveResolve(s)
    BY <2>4 DEF TypeOK, UnderWay, ReceiveResolve, Answer
  <2>5. CASE Timeout(s)
    BY <2>5 DEF TypeOK, UnderWay, Timeout, Answer
  <2>6. CASE ClaimNew(s)
    <3>1. s # r /\ job' = job /\ \E p \in {"lockwait", "adapter"} : pc' = [pc EXCEPT ![s] = p]
      BY <2>6, <1>1 DEF ClaimNew
    <3>2. pc'[r] = pc[r]
      BY <3>1 DEF TypeOK
    <3>3. QED
      BY <3>1, <3>2 DEF UnderWay
  <2>7. QED
    BY <1>1, <2>1, <2>2, <2>3, <2>4, <2>5, <2>6 DEF Session
<1>2. ASSUME NEW s \in Requests, Thread(s)
      PROVE  UnderWay(r)
  <2>1. CASE JobReturn(s)
    BY <2>1 DEF TypeOK, UnderWay, JobReturn, Complete, AnswerWith, Answer
  <2>2. CASE JobStart(s) \/ JobTakeMarker(s) \/ JobMark(s) \/ JobNative(s) \/ OrphanReturn(s)
    BY <2>2 DEF TypeOK, UnderWay, JobStart, JobTakeMarker, JobMark, JobNative, OrphanReturn
  <2>3. QED
    BY <1>2, <2>1, <2>2 DEF Thread
<1>3. ASSUME NEW s \in Requests, Counter(s)
      PROVE  UnderWay(r)
  BY <1>3 DEF UnderWay, Counter, CounterPlace, CounterEnd, CounterCancel
<1>4. ~Restart
  BY DEF Restart, UnderWay, TypeOK
<1>5. CASE UNCHANGED vars
  <2>1. UNCHANGED <<pc, job>>
    BY <1>5 DEF vars
  <2>2. QED
    BY <2>1, <1>4 DEF UnderWay
<1>6. QED
  BY <1>1, <1>2, <1>3, <1>4, <1>5 DEF Next

(***************************************************************************)
(* A cache entry is made by a claim, given its verdict by the write that   *)
(* claimed it, and forgotten by a restart.                                 *)
(***************************************************************************)
LEMMA CacheMoves ==
  ASSUME TypeOK, [Next]_vars, NEW k \in Keys
  PROVE  \/ cache'[k] = cache[k] /\ print'[k] = print[k]
         \/ \E r \in Writes : /\ ClaimNew(r) /\ k = Req[r].key
                              /\ cache'[k] = "pending" /\ print'[k] = Fingerprint(r)
         \/ \E r \in Writes, out \in Results :
              /\ Settles(r, out) /\ k = Req[r].key /\ print'[k] = Fingerprint(r)
              /\ cache'[k] = IF out \in Final THEN out ELSE "pending"
         \/ Restart /\ cache'[k] = "absent"
<1> DEFINE Moves ==
         \/ cache'[k] = cache[k] /\ print'[k] = print[k]
         \/ \E r \in Writes : /\ ClaimNew(r) /\ k = Req[r].key
                              /\ cache'[k] = "pending" /\ print'[k] = Fingerprint(r)
         \/ \E r \in Writes, out \in Results :
              /\ Settles(r, out) /\ k = Req[r].key /\ print'[k] = Fingerprint(r)
              /\ cache'[k] = IF out \in Final THEN out ELSE "pending"
         \/ Restart /\ cache'[k] = "absent"
<1> USE DEF wire, risk, memory
<1>1. ASSUME NEW r \in Requests, AdapterRefuse(r) \/ JobReturn(r)
      PROVE  Moves
  <2>1. PICK out \in Results \cup Errors : Settles(r, out)
    BY <1>1, Settled
  <2>2. r \in Writes /\ Finalize(r, out)
    BY <2>1 DEF Settles, Complete
  <2>3. CASE out \in Results /\ k = Req[r].key
    BY <2>1, <2>2, <2>3 DEF TypeOK, Finalize
  <2>4. CASE out \notin Results \/ k # Req[r].key
    BY <2>1, <2>2, <2>4 DEF TypeOK, Finalize
  <2>5. QED
    BY <2>3, <2>4
<1>2. ASSUME NEW r \in Requests, ClaimNew(r)
      PROVE  Moves
  BY <1>2 DEF TypeOK, ClaimNew
<1>3. CASE Restart
  BY <1>3 DEF Restart
<1>4. CASE UNCHANGED <<cache, print>>
  BY <1>4
<1>5. ASSUME NEW r \in Requests, Session(r)
      PROVE  Moves
  BY <1>1, <1>2, <1>4, <1>5
     DEF Session, ReceiveWrite, PrecheckFail, ClaimHit, ClaimFull, AcquireLock, RiskPass,
         RiskReject, Dispatch, ReceiveResolve, ResolveOrders, Timeout
<1>6. ASSUME NEW r \in Requests, Thread(r) \/ Counter(r)
      PROVE  Moves
  BY <1>1, <1>4, <1>6
     DEF Thread, Counter, JobStart, JobTakeMarker, JobMark, JobNative, OrphanReturn,
         CounterPlace, CounterEnd, CounterCancel
<1>7. CASE UNCHANGED vars
  BY <1>4, <1>7 DEF vars
<1>8. QED
  BY <1>3, <1>5, <1>6, <1>7 DEF Next

(***************************************************************************)
(* Who is told a definite answer: the write the adapter answered, another  *)
(* use of its key, or a resolve, from the cache or from the counter.       *)
(***************************************************************************)
LEMMA ReplyMoves ==
  ASSUME TypeOK, [Next]_vars, NEW r \in Requests, reply'[r].out \in Final
  PROVE  \/ reply'[r] = reply[r]
         \/ /\ ClaimHit(r) /\ r \in Writes /\ UNCHANGED fact
            /\ print[Req[r].key] = Fingerprint(r) /\ cache[Req[r].key] = reply'[r].out
         \/ /\ ReceiveResolve(r) /\ r \in Resolves /\ UNCHANGED fact
            /\ ~Mismatch(r) /\ cache[Req[r].key] = reply'[r].out
         \/ /\ ResolveOrders(r) /\ pc[r] = "asking" /\ UNCHANGED fact
            /\ reply'[r].out = Evidence(r)
         \/ Settles(r, reply'[r].out)
<1> DEFINE Moves ==
         \/ reply'[r] = reply[r]
         \/ /\ ClaimHit(r) /\ r \in Writes /\ UNCHANGED fact
            /\ print[Req[r].key] = Fingerprint(r) /\ cache[Req[r].key] = reply'[r].out
         \/ /\ ReceiveResolve(r) /\ r \in Resolves /\ UNCHANGED fact
            /\ ~Mismatch(r) /\ cache[Req[r].key] = reply'[r].out
         \/ /\ ResolveOrders(r) /\ pc[r] = "asking" /\ UNCHANGED fact
            /\ reply'[r].out = Evidence(r)
         \/ Settles(r, reply'[r].out)
<1> USE DEF wire, risk, memory
<1>1. ASSUME NEW s \in Requests, NEW out, NEW called, Answer(s, out, called)
      PROVE  /\ s # r => reply'[r] = reply[r]
             /\ s = r => reply'[r].out = out
  BY <1>1 DEF TypeOK, Answer
<1>2. ASSUME NEW s \in Requests, AdapterRefuse(s) \/ JobReturn(s)
      PROVE  Moves
  <2>1. PICK out \in Results \cup Errors : Settles(s, out)
    BY <1>2, Settled
  <2>2. \E called : Answer(s, out, called)
    BY <2>1 DEF Settles, Complete, AnswerWith
  <2>3. QED
    BY <1>1, <2>1, <2>2
<1>3. ASSUME NEW s \in Requests,
             PrecheckFail(s) \/ ClaimFull(s) \/ RiskReject(s) \/ Timeout(s)
      PROVE  Moves
  <2>1. \E out, called : out \notin Final /\ Answer(s, out, called)
    BY <1>3 DEF PrecheckFail, ClaimFull, RiskReject, Timeout, AnswerWith
  <2>2. QED
    BY <1>1, <2>1
<1>4. ASSUME NEW s \in Requests, ClaimHit(s)
      PROVE  Moves
  BY <1>1, <1>4 DEF ClaimHit, AnswerWith
<1>5. ASSUME NEW s \in Requests, ReceiveResolve(s)
      PROVE  Moves
  <2>1. CASE pc' = [pc EXCEPT ![s] = "asking"] /\ UNCHANGED reply
    BY <2>1
  <2>2. CASE Answer(s, "conflict", "unsaid")
    BY <1>1, <2>2
  <2>3. CASE /\ cache[Req[s].key] \in Final /\ ~Mismatch(s)
             /\ Answer(s, cache[Req[s].key], "unsaid")
    <3>1. s = r => reply'[r].out = cache[Req[s].key]
      BY <1>1, <2>3
    <3>2. s # r => reply'[r] = reply[r]
      BY <1>1, <2>3
    <3>3. s \in Resolves /\ UNCHANGED fact
      BY <1>5 DEF ReceiveResolve
    <3>4. QED
      BY <1>5, <2>3, <3>1, <3>2, <3>3
  <2>4. QED
    BY <1>5, <2>1, <2>2, <2>3 DEF ReceiveResolve
<1>6. ASSUME NEW s \in Requests, ResolveOrders(s)
      PROVE  Moves
  BY <1>1, <1>6 DEF ResolveOrders, AnswerWith
<1>7. CASE UNCHANGED reply
  BY <1>7
<1>8. ASSUME NEW s \in Requests, Session(s)
      PROVE  Moves
  BY <1>2, <1>3, <1>4, <1>5, <1>6, <1>7, <1>8
     DEF Session, ReceiveWrite, ClaimNew, AcquireLock, RiskPass, Dispatch
<1>9. ASSUME NEW s \in Requests, Thread(s) \/ Counter(s)
      PROVE  Moves
  BY <1>2, <1>7, <1>9
     DEF Thread, Counter, JobStart, JobTakeMarker, JobMark, JobNative, OrphanReturn,
         CounterPlace, CounterEnd, CounterCancel
<1>10. CASE Restart \/ UNCHANGED vars
  BY <1>7, <1>10 DEF Restart, vars
<1>11. QED
  BY <1>8, <1>9, <1>10 DEF Next

(***************************************************************************)
(* A write under way was claimed, and read, in the current run.            *)
(***************************************************************************)
LEMMA UnderWayClaimed ==
  ASSUME TypeOK, ClaimedFirst, JobsOfRun, NEW r \in Requests, UnderWay(r)
  PROVE  r \in Writes /\ claimed[r] /\ born[r] = epoch
  BY DEF UnderWay, TypeOK, ClaimedFirst, JobsOfRun

LEMMA OnlyOneUnderWay ==
  ASSUME TypeOK, KeysClaimed, ClaimedFirst, JobsOfRun,
         NEW r \in Requests, NEW s \in Requests,
         UnderWay(r), claimed[s], born[s] = epoch, Req[r].key = Req[s].key
  PROVE  r = s
<1>1. claimed[r] /\ born[r] = epoch
  BY UnderWayClaimed
<1>2. QED
  BY <1>1 DEF KeysClaimed, SameKey

(***************************************************************************)
(* A settled write was under way and no longer is.                         *)
(***************************************************************************)
LEMMA SettledUnderWay ==
  ASSUME TypeOK, ClaimedFirst, NEW r \in Requests, NEW out, Settles(r, out)
  PROVE  UnderWay(r) /\ ~UnderWay(r)'
<1>1. pc' = [pc EXCEPT ![r] = "answered"]
  BY DEF Settles, Complete, AnswerWith, Answer
<1>2. CASE pc[r] = "adapter" /\ UNCHANGED job
  BY <1>1, <1>2 DEF TypeOK, ClaimedFirst, UnderWay
<1>3. CASE pc[r] = "await" /\ job' = [job EXCEPT ![r] = "done"]
  BY <1>1, <1>3 DEF TypeOK, UnderWay
<1>4. QED
  BY <1>2, <1>3 DEF Settles

(***************************************************************************)
(* Jobs belong to the current run, and a job past the native call has left *)
(* its trace at the counter.                                               *)
(***************************************************************************)
LEMMA JobsStep ==
  ASSUME TypeOK, ClaimedFirst, JobsOfRun, [Next]_vars
  PROVE  JobsOfRun'
<1> USE DEF wire, risk, memory
<1>1. ASSUME NEW r \in Requests,
             \/ PrecheckFail(r) \/ ClaimHit(r) \/ ClaimFull(r) \/ RiskReject(r)
             \/ ResolveOrders(r) \/ AdapterRefuse(r) \/ Timeout(r) \/ JobReturn(r)
      PROVE  JobsOfRun'
  <2>1. /\ pc' = [pc EXCEPT ![r] = "answered"]
        /\ \A s \in Requests : s # r => reply'[s] = reply[s]
    BY <1>1, CompleteAnswers DEF TypeOK, PrecheckFail, ClaimHit, ClaimFull, RiskReject,
       ResolveOrders, AdapterRefuse, Timeout, JobReturn, AnswerWith, Answer
  <2>2. /\ UNCHANGED <<fact, born, epoch>>
        /\ \A s \in Requests : job'[s] \in {job[s], "dropped", "done"}
    BY <1>1, CompleteAnswers DEF TypeOK, PrecheckFail, ClaimHit, ClaimFull, RiskReject,
       ResolveOrders, AdapterRefuse, Timeout, JobReturn
  <2>3. QED
    BY <2>1, <2>2 DEF TypeOK, JobsOfRun
<1>2. ASSUME NEW r \in Requests, ReceiveWrite(r) \/ ReceiveResolve(r)
      PROVE  JobsOfRun'
  <2>1. /\ born' = [born EXCEPT ![r] = epoch] /\ UNCHANGED <<job, fact, epoch>>
        /\ \A s \in Requests : s # r => pc'[s] = pc[s] /\ reply'[s] = reply[s]
        /\ pc[r] = "new" /\ (pc'[r] = "answered" \/ reply' = reply)
    BY <1>2 DEF TypeOK, ReceiveWrite, ReceiveResolve, Answer
  <2>2. QED
    BY <2>1 DEF TypeOK, JobsOfRun
<1>3. ASSUME NEW r \in Requests, ClaimNew(r) \/ AcquireLock(r) \/ RiskPass(r) \/ Dispatch(r)
      PROVE  JobsOfRun'
  <2>1. /\ pc[r] \in InFlight /\ UNCHANGED <<fact, reply, born, epoch>>
        /\ job' = job \/ job' = [job EXCEPT ![r] = "queued"]
        /\ \A s \in Requests : s # r => pc'[s] = pc[s]
    BY <1>3 DEF TypeOK, ClaimNew, AcquireLock, RiskPass, Dispatch
  <2>2. born[r] = epoch
    BY <2>1 DEF ClaimedFirst
  <2>3. QED
    BY <2>1, <2>2 DEF TypeOK, JobsOfRun
<1>4. ASSUME NEW r \in Requests,
             JobStart(r) \/ JobTakeMarker(r) \/ JobMark(r) \/ JobNative(r) \/ OrphanReturn(r)
      PROVE  JobsOfRun'
  <2>1. UNCHANGED <<pc, reply, born, epoch>>
    BY <1>4 DEF JobStart, JobTakeMarker, JobMark, JobNative, OrphanReturn
  <2>2. /\ \A s \in Requests : s # r => job'[s] = job[s] /\ fact'[s] = fact[s]
        /\ job'[r] = "done" \/ (/\ job[r] \in Busy \cup {"queued"}
                                /\ job'[r] = "called" => fact'[r] = "entered")
    BY <1>4 DEF TypeOK, JobStart, JobTakeMarker, JobMark, JobNative, OrphanReturn
  <2>3. QED
    BY <2>1, <2>2 DEF TypeOK, JobsOfRun
<1>5. ASSUME NEW r \in Requests, Counter(r)
      PROVE  JobsOfRun'
  <2>1. UNCHANGED <<pc, job, reply, born, epoch>>
    BY <1>5 DEF Counter, CounterPlace, CounterEnd, CounterCancel
  <2>2. QED
    BY <2>1, FactKept DEF JobsOfRun
<1>6. CASE Restart
  BY <1>6 DEF TypeOK, JobsOfRun, Restart
<1>7. CASE UNCHANGED vars
  BY <1>7 DEF JobsOfRun, vars
<1>8. ASSUME NEW r \in Requests, Session(r) \/ Thread(r)
      PROVE  JobsOfRun'
  BY <1>1, <1>2, <1>3, <1>4, <1>8 DEF Session, Thread
<1>9. QED
  BY <1>5, <1>6, <1>7, <1>8 DEF Next

(***************************************************************************)
(* The key of a write that is under way stays open: only that write could  *)
(* close it, and it ends by doing so.                                      *)
(***************************************************************************)
LEMMA KeyOpenStep ==
  ASSUME TypeOK, KeysClaimed, ClaimedFirst, JobsOfRun, KeyOpen, [Next]_vars
  PROVE  KeyOpen'
<1>1. ASSUME NEW r \in Requests, UnderWay(r)'
      PROVE  cache'[Req[r].key] = "pending"
  <2>1. Req[r].key \in Keys
    BY RequestFields
  <2>2. CASE ClaimNew(r)
    BY <2>1, <2>2 DEF TypeOK, ClaimNew
  <2>3. CASE UnderWay(r) /\ ~Restart
    <3>1. cache[Req[r].key] = "pending"
      BY <2>3 DEF UnderWay, KeyOpen
    <3>2. ASSUME NEW s \in Writes, NEW out, Settles(s, out), Req[s].key = Req[r].key
          PROVE  FALSE
      <4>1. s \in Requests
        BY DEF Writes
      <4>2. UnderWay(s) /\ ~UnderWay(s)'
        BY <3>2, <4>1, SettledUnderWay
      <4>3. claimed[s] /\ born[s] = epoch
        BY <4>1, <4>2, UnderWayClaimed
      <4>4. r = s
        BY <2>3, <3>2, <4>1, <4>3, OnlyOneUnderWay
      <4>5. QED
        BY <1>1, <4>2, <4>4
    <3>3. QED
      BY <2>1, <2>3, <3>1, <3>2, CacheMoves
  <2>4. QED
    BY <1>1, <2>2, <2>3, UnderWayMoves
<1>2. QED
  BY <1>1 DEF UnderWay, KeyOpen

(***************************************************************************)
(* Completing a write moves only the counters of its own account, by one.  *)
(***************************************************************************)
LEMMA Recorded ==
  ASSUME TypeOK, NEW r \in Writes, NEW out, Complete(r, out), NEW a \in Accounts
  PROVE  /\ trades'[a] = trades[a] \/ (/\ a = Req[r].account /\ a \in RiskOn
                                       /\ r \in Places /\ Req[r].priced
                                       /\ trades'[a] = trades[a] + 1)
         /\ cancels'[a] = cancels[a] \/ (/\ a = Req[r].account /\ a \in RiskOn
                                         /\ r \in Cancels /\ cancels'[a] = cancels[a] + 1)
<1>1. RecordRisk(r, out) /\ r \in Requests
  BY DEF Complete, Writes
<1>2. QED
  BY <1>1, RequestFields DEF TypeOK, RecordRisk, Counted, Places, Cancels

(***************************************************************************)
(* Between the check and the record the lock stays with who was checked,   *)
(* and nobody else moves the account's counters.                           *)
(***************************************************************************)
LEMMA LockKept ==
  ASSUME TypeOK, LockSpans, NEW r \in Requests,
         \A s \in Requests : s # r => pc'[s] = pc[s],
         pc'[r] \notin {"riskcheck", "adapter", "await"},
         ReleaseLock(r) \/ UNCHANGED riskLock, UNCHANGED <<trades, cancels>>
  PROVE  LockSpans'
  BY RequestFields DEF TypeOK, LockSpans, ReleaseLock

LEMMA LockStep ==
  ASSUME TypeOK, ClaimedFirst, LockSpans, [Next]_vars
  PROVE  LockSpans'
<1> USE DEF wire, risk, memory
<1>1. ASSUME NEW r \in Requests,
             \/ ReceiveWrite(r) \/ PrecheckFail(r) \/ ClaimHit(r) \/ ClaimFull(r)
             \/ ReceiveResolve(r) \/ ResolveOrders(r) \/ RiskReject(r) \/ Timeout(r)
      PROVE  LockSpans'
  <2>1. /\ \A s \in Requests : s # r => pc'[s] = pc[s]
        /\ pc'[r] \in {"precheck", "asking", "answered"}
    BY <1>1 DEF TypeOK, ReceiveWrite, PrecheckFail, ClaimHit, ClaimFull, ReceiveResolve,
       ResolveOrders, RiskReject, Timeout, AnswerWith, Answer
  <2>2. /\ ReleaseLock(r) \/ UNCHANGED riskLock
        /\ UNCHANGED <<trades, cancels>>
    BY <1>1 DEF ReceiveWrite, PrecheckFail, ClaimHit, ClaimFull, ReceiveResolve,
       ResolveOrders, RiskReject, Timeout
  <2>3. QED
    BY <2>1, <2>2, LockKept
<1>2. ASSUME NEW r \in Requests, ClaimNew(r)
      PROVE  LockSpans'
  <2>1. CASE Req[r].account \in RiskOn
    <3>1. pc' = [pc EXCEPT ![r] = "lockwait"] /\ UNCHANGED risk
      BY <1>2, <2>1 DEF ClaimNew
    <3>2. QED
      BY <3>1, LockKept DEF TypeOK
  <2>2. CASE Req[r].account \notin RiskOn
    <3>1. pc' = [pc EXCEPT ![r] = "adapter"] /\ UNCHANGED risk
      BY <1>2, <2>2 DEF ClaimNew
    <3>2. QED
      BY <2>2, <3>1 DEF TypeOK, LockSpans
  <2>3. QED
    BY <2>1, <2>2
<1>3. ASSUME NEW r \in Requests, AcquireLock(r)
      PROVE  LockSpans'
  <2>1. /\ riskLock[Req[r].account] = NoReq /\ Req[r].account \in Accounts
        /\ riskLock' = [riskLock EXCEPT ![Req[r].account] = r]
        /\ UNCHANGED <<trades, cancels>>
    BY <1>3, RequestFields DEF AcquireLock
  <2>2. \A s \in Requests : s # r => pc'[s] = pc[s]
    BY <1>3 DEF TypeOK, AcquireLock
  <2>3. /\ pc'[r] = "adapter" => r \in Places /\ ~Req[r].priced
        /\ pc'[r] # "await"
    BY <1>3 DEF TypeOK, AcquireLock
  <2>4. \A s \in Requests : /\ Req[s].account \in RiskOn /\ Req[s].account = Req[r].account
                            => pc[s] \notin {"riskcheck", "adapter", "await"}
    BY <2>1, RequestsAssumption DEF LockSpans
  <2>5. r \in Places => r \notin Cancels
    BY DEF Places, Cancels
  <2>6. QED
    BY <2>1, <2>2, <2>3, <2>4, <2>5 DEF TypeOK, LockSpans
<1>4. ASSUME NEW r \in Requests, RiskPass(r) \/ Dispatch(r)
      PROVE  LockSpans'
  <2>1. /\ \A s \in Requests : s # r => pc'[s] = pc[s]
        /\ pc[r] \in {"riskcheck", "adapter"} /\ UNCHANGED risk
        /\ pc[r] = "riskcheck" => BelowLimit(r)
    BY <1>4 DEF TypeOK, RiskPass, Dispatch
  <2>2. r \in Cancels => r \notin Places
    BY DEF Places, Cancels
  <2>3. QED
    BY <2>1, <2>2 DEF LockSpans, BelowLimit
<1>5. ASSUME NEW r \in Requests, AdapterRefuse(r) \/ JobReturn(r)
      PROVE  LockSpans'
  <2>1. PICK out \in Results \cup Errors : Settles(r, out)
    BY <1>5, Settled
  <2>2. /\ r \in Writes /\ Complete(r, out) /\ ReleaseLock(r)
        /\ pc[r] \in {"adapter", "await"} /\ pc' = [pc EXCEPT ![r] = "answered"]
    BY <2>1 DEF Settles, Complete, AnswerWith, Answer
  <2>3. ASSUME NEW s \in Requests, Req[s].account \in RiskOn,
               pc'[s] \in {"riskcheck", "adapter", "await"}
        PROVE  /\ s # r /\ pc'[s] = pc[s] /\ riskLock'[Req[s].account] = s
               /\ trades'[Req[s].account] = trades[Req[s].account]
               /\ cancels'[Req[s].account] = cancels[Req[s].account]
    <3>1. s # r /\ pc'[s] = pc[s]
      BY <2>2, <2>3 DEF TypeOK
    <3>2. Req[s].account # Req[r].account
      BY <2>2, <2>3, <3>1 DEF LockSpans
    <3>3. riskLock'[Req[s].account] = s
      BY <2>2, <2>3, <3>1, RequestFields DEF TypeOK, LockSpans, ReleaseLock
    <3>4. QED
      BY <2>2, <3>1, <3>2, <3>3, Recorded, RequestFields
  <2>4. QED
    BY <2>3 DEF LockSpans
<1>6. CASE UNCHANGED <<pc, risk>>
  BY <1>6 DEF LockSpans
<1>7. CASE Restart
  BY <1>7 DEF TypeOK, LockSpans, Restart
<1>8. ASSUME NEW r \in Requests, Session(r) \/ Thread(r)
      PROVE  LockSpans'
  BY <1>1, <1>2, <1>3, <1>4, <1>5, <1>6, <1>8
     DEF Session, Thread, JobStart, JobTakeMarker, JobMark, JobNative, OrphanReturn
<1>9. ASSUME NEW r \in Requests, Counter(r)
      PROVE  LockSpans'
  BY <1>6, <1>9 DEF Counter, CounterPlace, CounterEnd, CounterCancel
<1>10. CASE UNCHANGED vars
  BY <1>6, <1>10 DEF vars
<1>11. QED
  BY <1>7, <1>8, <1>9, <1>10 DEF Next

(***************************************************************************)
(* What is recorded was checked under the same lock, so it fits the limit. *)
(***************************************************************************)
LEMMA CountsStep ==
  ASSUME TypeOK, LockSpans, CountsWithinLimits, [Next]_vars
  PROVE  CountsWithinLimits'
<1> USE DEF wire, risk, memory
<1>1. ASSUME NEW r \in Requests, AdapterRefuse(r) \/ JobReturn(r)
      PROVE  CountsWithinLimits'
  <2>1. PICK out \in Results \cup Errors : Settles(r, out)
    BY <1>1, Settled
  <2>2. r \in Writes /\ Complete(r, out) /\ pc[r] \in {"adapter", "await"}
    BY <2>1 DEF Settles
  <2>3. ASSUME NEW a \in RiskOn
        PROVE  trades'[a] <= MaxTrades /\ cancels'[a] <= MaxCancels
    <3>1. a \in Accounts /\ trades[a] \in Nat /\ cancels[a] \in Nat
      BY LimitsAssumption DEF TypeOK
    <3>2. /\ a = Req[r].account /\ r \in Places /\ Req[r].priced => trades[a] < MaxTrades
          /\ a = Req[r].account /\ r \in Cancels => cancels[a] < MaxCancels
      BY <2>2 DEF LockSpans
    <3>3. trades[a] <= MaxTrades /\ cancels[a] <= MaxCancels
      BY DEF CountsWithinLimits
    <3>4. QED
      BY <2>2, <3>1, <3>2, <3>3, Recorded, LimitsAssumption
  <2>4. QED
    BY <2>3 DEF CountsWithinLimits
<1>2. CASE UNCHANGED <<trades, cancels>>
  BY <1>2 DEF CountsWithinLimits
<1>3. CASE Restart
  BY <1>3, LimitsAssumption DEF CountsWithinLimits, Restart
<1>4. ASSUME NEW r \in Requests, Session(r)
      PROVE  CountsWithinLimits'
  BY <1>1, <1>2, <1>4
     DEF Session, ReceiveWrite, PrecheckFail, ClaimHit, ClaimFull, ClaimNew, AcquireLock,
         RiskPass, RiskReject, Dispatch, ReceiveResolve, ResolveOrders, Timeout
<1>5. ASSUME NEW r \in Requests, Thread(r) \/ Counter(r)
      PROVE  CountsWithinLimits'
  BY <1>1, <1>2, <1>5
     DEF Thread, Counter, JobStart, JobTakeMarker, JobMark, JobNative, OrphanReturn,
         CounterPlace, CounterEnd, CounterCancel
<1>6. CASE UNCHANGED vars
  BY <1>2, <1>6 DEF vars
<1>7. QED
  BY <1>3, <1>4, <1>5, <1>6 DEF Next

(***************************************************************************)
(* The adapter calls an order accepted only when it is on the book.        *)
(***************************************************************************)
LEMMA AcceptedOutcome ==
  ASSUME NEW r \in Writes, Settles(r, "accepted")
  PROVE  /\ r \in Places => fact[r] \in Ordered
         /\ r \in Cancels => fact[Req[r].about] = "canceled"
<1>1. "accepted" \in Outcomes(r)
  BY DEF Settles
<1>2. QED
  BY <1>1, LimitsAssumption DEF Outcomes, Places, Cancels

LEMMA StoredStep ==
  ASSUME TypeOK, ClaimedFirst, StoredIsOrdered, [Next]_vars
  PROVE  StoredIsOrdered'
<1>1. ASSUME NEW k \in Keys, cache'[k] = "accepted", print'[k][1] = "place"
      PROVE  \E p \in Places : Req[p].key = k /\ Req[p].body = print'[k][2] /\ fact'[p] \in Ordered
  <2>1. CASE cache'[k] = cache[k] /\ print'[k] = print[k]
    <3>1. PICK p \in Places : Req[p].key = k /\ Req[p].body = print[k][2] /\ fact[p] \in Ordered
      BY <1>1, <2>1 DEF StoredIsOrdered
    <3>2. fact'[p] \in Ordered
      BY <3>1, FactStays DEF Places
    <3>3. QED
      BY <2>1, <3>1, <3>2
  <2>2. ASSUME NEW r \in Writes, Settles(r, "accepted"), k = Req[r].key,
               print'[k] = Fingerprint(r)
        PROVE  \E p \in Places :
                 Req[p].key = k /\ Req[p].body = print'[k][2] /\ fact'[p] \in Ordered
    <3>1. r \in Places /\ Req[r].body = print'[k][2]
      BY <1>1, <2>2 DEF Fingerprint, Writes, Places
    <3>2. fact'[r] \in Ordered
      BY <2>2, <3>1, AcceptedOutcome DEF Settles
    <3>3. QED
      BY <2>2, <3>1, <3>2
  <2>3. QED
    BY <1>1, <2>1, <2>2, CacheMoves
<1>2. QED
  BY <1>1 DEF StoredIsOrdered

(***************************************************************************)
(* Whoever is told that an order was accepted can find it on the book.     *)
(***************************************************************************)
LEMMA PlaceAnswerStep ==
  ASSUME TypeOK, ClaimedFirst, StoredIsOrdered, PlaceAnswerTrue, [Next]_vars
  PROVE  PlaceAnswerTrue'
<1>1. ASSUME NEW r \in Requests, About(r) \in Places, reply'[r].out = "accepted"
      PROVE  \E p \in Places : Answers(p, r)
  <2>1. CASE reply'[r] = reply[r]
    BY <1>1, <2>1 DEF PlaceAnswerTrue
  <2>2. ASSUME cache[Req[r].key] = "accepted", print[Req[r].key][1] = "place",
               \/ Req[r].body = print[Req[r].key][2]
               \/ r \in Resolves /\ Req[r].body = NoBody
        PROVE  \E p \in Places : Answers(p, r)
    <3>1. PICK p \in Places : /\ Req[p].key = Req[r].key
                              /\ Req[p].body = print[Req[r].key][2]
                              /\ fact[p] \in Ordered
      BY <2>2, RequestFields DEF StoredIsOrdered
    <3>2. QED
      BY <2>2, <3>1 DEF Answers, Matches
  <2>3. CASE /\ r \in Writes /\ print[Req[r].key] = Fingerprint(r)
             /\ cache[Req[r].key] = "accepted"
    <3>1. Req[r].action = "place"
      BY <1>1, <2>3 DEF About, Writes, Resolves, Places
    <3>2. QED
      BY <2>2, <2>3, <3>1 DEF Fingerprint
  <2>4. CASE r \in Resolves /\ ~Mismatch(r) /\ cache[Req[r].key] = "accepted"
    <3>1. Req[Req[r].about].action = "place"
      BY <1>1, <2>4 DEF About, Places
    <3>2. QED
      BY <2>2, <2>4, <3>1 DEF Mismatch, AskedPrint
  <2>5. CASE pc[r] = "asking" /\ reply'[r].out = Evidence(r)
    <3>1. r \in Resolves /\ Req[r].about \notin Cancels
      BY <1>1, <2>5 DEF ClaimedFirst, About, Places, Cancels
    <3>2. Cardinality(MatchingOrders(r)) = 1
      BY <1>1, <2>5, <3>1 DEF Evidence
    <3>3. MatchingOrders(r) # {}
      BY <3>2, FS_EmptySet
    <3>4. QED
      BY <3>1, <3>3 DEF MatchingOrders, Answers, Matches
  <2>6. CASE Settles(r, "accepted")
    <3>1. r \in Writes /\ r \in Places
      BY <1>1, <2>6 DEF Settles, About, Writes, Resolves
    <3>2. fact[r] \in Ordered /\ r \notin Resolves
      BY <2>6, <3>1, AcceptedOutcome DEF Places, Resolves
    <3>3. QED
      BY <3>1, <3>2 DEF Answers
  <2>7. QED
    BY <1>1, <2>1, <2>3, <2>4, <2>5, <2>6, ReplyMoves
<1>2. \A r \in Requests, p \in Places : Answers(p, r) => Answers(p, r)'
  BY FactStays DEF Answers, Matches, Places
<1>3. QED
  BY <1>1, <1>2 DEF PlaceAnswerTrue, About, Places, Resolves

(***************************************************************************)
(* The invariant is inductive.                                             *)
(***************************************************************************)
LEMMA InvStep ==
  ASSUME IInv, [Next]_vars
  PROVE  IInv'
  BY StepType, KeysStep, ClaimedStep, MarkedStep, NotCalledStep, JobsStep, KeyOpenStep, LockStep,
     CountsStep, StoredStep, PlaceAnswerStep DEF IInv

LEMMA InitInv == Init => IInv
<1>1. Init => TypeOK /\ CountsWithinLimits
  BY InitType, LimitsAssumption DEF Init, CountsWithinLimits
<1>2. QED
  BY <1>1 DEF Init, IInv, TypeOK, KeysClaimed, SameKey, ClaimedFirst, MarkedInTime,
     NotCalledIsTrue, JobsOfRun, KeyOpen, LockSpans, StoredIsOrdered, PlaceAnswerTrue

(***************************************************************************)
(* The strengthened invariant holds in every reachable state.              *)
(***************************************************************************)
THEOREM Invariance == Spec => []IInv
  BY InitInv, InvStep, PTL DEF Spec

(***************************************************************************)
(* In one server run at most one request of a key reaches the counter,     *)
(* whatever times out, is retried or outlives its coroutine.               *)
(***************************************************************************)
THEOREM AtMostOnce == Spec => []AtMostOneNativeCall
<1>1. IInv => AtMostOneNativeCall
  BY DEF IInv, TypeOK, KeysClaimed, ClaimedFirst, AtMostOneNativeCall, Writes
<1>2. QED
  BY Invariance, <1>1, PTL

(***************************************************************************)
(* An error that carries broker_called=false is true now and for ever: the *)
(* write has not reached the counter and no thread is left to send it.     *)
(***************************************************************************)
THEOREM NotCalledHolds == Spec => []NotCalledIsTrue
<1>1. IInv => NotCalledIsTrue
  BY DEF IInv
<1>2. QED
  BY Invariance, <1>1, PTL
(***************************************************************************)
(* The day's counters of orders and cancels never pass their limits, for   *)
(* every number of sessions that trade on one account at the same time.    *)
(***************************************************************************)
THEOREM CountsHold == Spec => []CountsWithinLimits
<1>1. IInv => CountsWithinLimits
  BY DEF IInv
<1>2. QED
  BY Invariance, <1>1, PTL

(***************************************************************************)
(* Whoever is told that an order was accepted, by the write itself, by a   *)
(* replay or by resolve_submission, also across restarts, is told of an    *)
(* order of that key and payload that is on the book.                      *)
(***************************************************************************)
THEOREM PlaceAnswersAreTrue == Spec => []PlaceAnswerTrue
<1>1. IInv => PlaceAnswerTrue
  BY DEF IInv
<1>2. QED
  BY Invariance, <1>1, PTL

-----------------------------------------------------------------------------
(* A rejected order stays dead. *)

\* The order is dead at the counter, or was not sent and nothing will send it.
Dead(p) == \/ fact[p] \in {"refused", "void"}
           \/ fact[p] = "none" /\ ~UnderWay(p)

RejectedStored ==
  \A k \in Keys : cache[k] = "rejected" /\ print[k][1] = "place" =>
    \A p \in Places : Req[p].key = k /\ born[p] = epoch => Dead(p)

\* A resolve reads the book, which outlives the server run: it is only true of the
\* run when there is one run.
RejectedTold ==
  \A r \in Requests :
    /\ r \in Writes \/ MaxEpoch = 0
    /\ About(r) \in Places /\ reply[r].out = "rejected"
    => /\ born[r] = epoch => cache[Req[r].key] # "absent"
       /\ \A p \in Places : SameKey(p, r) => Dead(p)

RejectedInv == IInv /\ epoch <= MaxEpoch /\ RejectedStored /\ RejectedTold

(***************************************************************************)
(* A request gets its server run when it is read, before it is claimed.    *)
(***************************************************************************)
LEMMA BornMoves ==
  ASSUME TypeOK, ClaimedFirst, [Next]_vars, NEW r \in Requests
  PROVE  /\ \/ born'[r] = born[r]
            \/ /\ pc[r] = "new" /\ ~UnderWay(r)' /\ fact[r] = "none" /\ fact'[r] = "none"
               /\ epoch' = epoch /\ cache' = cache
         /\ Restart \/ epoch' = epoch
<1> USE DEF wire, risk, memory
<1>1. ASSUME NEW s \in Requests, ReceiveWrite(s) \/ ReceiveResolve(s)
      PROVE  /\ \/ born'[r] = born[r]
                \/ /\ pc[r] = "new" /\ ~UnderWay(r)' /\ fact[r] = "none" /\ fact'[r] = "none"
             /\ epoch' = epoch /\ cache' = cache
  <2>1. /\ born' = [born EXCEPT ![s] = epoch] /\ UNCHANGED <<job, fact, cache, epoch>>
        /\ pc[s] = "new" /\ \E p \in {"precheck", "asking", "answered"} : pc' = [pc EXCEPT ![s] = p]
    BY <1>1 DEF ReceiveWrite, ReceiveResolve, Answer
  <2>2. job[s] = "none" /\ fact[s] = "none"
    BY <2>1 DEF ClaimedFirst
  <2>3. QED
    BY <2>1, <2>2 DEF TypeOK, UnderWay
<1>2. CASE UNCHANGED <<born, epoch>>
  BY <1>2
<1>3. ASSUME NEW s \in Requests, AdapterRefuse(s) \/ JobReturn(s)
      PROVE  UNCHANGED <<born, epoch>>
  BY <1>3, CompleteAnswers DEF AdapterRefuse, JobReturn
<1>4. ASSUME NEW s \in Requests, Session(s), ~(ReceiveWrite(s) \/ ReceiveResolve(s))
      PROVE  UNCHANGED <<born, epoch>>
  BY <1>3, <1>4
     DEF Session, PrecheckFail, ClaimHit, ClaimFull, ClaimNew, AcquireLock, RiskPass, RiskReject,
         Dispatch, ResolveOrders, Timeout
<1>5. ASSUME NEW s \in Requests, Thread(s) \/ Counter(s)
      PROVE  UNCHANGED <<born, epoch>>
  BY <1>3, <1>5
     DEF Thread, Counter, JobStart, JobTakeMarker, JobMark, JobNative, OrphanReturn,
         CounterPlace, CounterEnd, CounterCancel
<1>6. CASE Restart
  BY <1>6 DEF Restart
<1>7. CASE UNCHANGED vars
  BY <1>2, <1>7 DEF vars
<1>8. QED
  BY <1>1, <1>2, <1>4, <1>5, <1>6, <1>7 DEF Next

LEMMA DeadStays ==
  ASSUME TypeOK, ClaimedFirst, [Next]_vars, NEW p \in Requests, Dead(p),
         pc[p] = "precheck" => cache[Req[p].key] # "absent"
  PROVE  Dead(p)'
<1>1. fact[p] \in {"refused", "void"} => fact'[p] = fact[p]
  BY FactStays
<1>2. ASSUME fact[p] = "none", ~UnderWay(p)
      PROVE  fact'[p] = "none" /\ ~UnderWay(p)'
  <2>1. ~ClaimNew(p)
    BY DEF ClaimNew
  <2>2. job[p] # "armed"
    BY <1>2 DEF UnderWay
  <2>3. QED
    BY <1>2, <2>1, <2>2, FactStays, UnderWayMoves
<1>3. QED
  BY <1>1, <1>2 DEF Dead

(***************************************************************************)
(* The key of a claimed write of this run is nobody else's.                *)
(***************************************************************************)
LEMMA RivalsAreDead ==
  ASSUME IInv, NEW r \in Requests, claimed[r], born[r] = epoch,
         NEW p \in Requests, p # r, Req[p].key = Req[r].key, born[p] = epoch
  PROVE  Dead(p) /\ cache[Req[p].key] # "absent"
<1>1. ~claimed[p]
  BY DEF IInv, KeysClaimed, SameKey
<1>2. fact[p] = "none" /\ ~UnderWay(p)
  BY <1>1, UnderWayClaimed DEF IInv, ClaimedFirst
<1>3. QED
  BY <1>2 DEF Dead, IInv, KeysClaimed

LEMMA RejectedOutcome ==
  ASSUME TypeOK, ClaimedFirst, NEW r \in Places, Settles(r, "rejected")
  PROVE  fact[r] \in {"none", "refused", "void"}
<1>1. CASE pc[r] = "adapter"
  BY <1>1 DEF ClaimedFirst, Places
<1>2. CASE "rejected" \in Outcomes(r)
  BY <1>2, LimitsAssumption DEF Outcomes, ClaimedFirst, Places, Cancels
<1>3. QED
  BY <1>1, <1>2 DEF Settles

(***************************************************************************)
(* Once the adapter rejects an order nothing of its key is left to send.   *)
(***************************************************************************)
LEMMA SettledDead ==
  ASSUME IInv, [Next]_vars, NEW r \in Places, Settles(r, "rejected"),
         NEW p \in Places, Req[p].key = Req[r].key, born[p] = epoch
  PROVE  Dead(p)'
<1>1. TypeOK /\ ClaimedFirst /\ JobsOfRun /\ r \in Requests /\ p \in Requests
  BY DEF IInv, Places
<1>2. UnderWay(r) /\ ~UnderWay(r)'
  BY <1>1, SettledUnderWay
<1>3. claimed[r] /\ born[r] = epoch
  BY <1>1, <1>2, UnderWayClaimed
<1>4. CASE p = r
  <2>1. fact'[r] \in {"none", "refused", "void"}
    BY <1>1, RejectedOutcome DEF Settles
  <2>2. QED
    BY <1>2, <1>4, <2>1 DEF Dead
<1>5. CASE p # r
  BY <1>1, <1>3, <1>5, RivalsAreDead, DeadStays
<1>6. QED
  BY <1>4, <1>5

LEMMA RejectedStoredStep ==
  ASSUME IInv, RejectedStored, [Next]_vars
  PROVE  RejectedStored'
<1>0. TypeOK /\ ClaimedFirst
  BY DEF IInv
<1>1. ASSUME NEW k \in Keys, cache'[k] = "rejected", print'[k][1] = "place",
             NEW p \in Places, Req[p].key = k, born'[p] = epoch'
      PROVE  Dead(p)'
  <2>1. p \in Requests /\ ~Restart
    BY <1>1 DEF Restart, Places
  <2>2. CASE born'[p] # born[p]
    BY <1>0, <2>1, <2>2, BornMoves DEF Dead
  <2>3. CASE born[p] = epoch /\ cache'[k] = cache[k] /\ print'[k] = print[k]
    <3>1. Dead(p)
      BY <1>1, <2>3 DEF RejectedStored
    <3>2. QED
      BY <1>0, <1>1, <2>1, <2>3, <3>1, DeadStays
  <2>4. ASSUME born[p] = epoch, NEW r \in Writes, Settles(r, "rejected"), k = Req[r].key,
               print'[k] = Fingerprint(r)
        PROVE  Dead(p)'
    <3>1. r \in Places
      BY <1>1, <2>4 DEF Fingerprint, Writes, Places
    <3>2. QED
      BY <1>1, <2>4, <3>1, SettledDead
  <2>5. CASE born[p] = epoch
    BY <1>0, <1>1, <2>1, <2>3, <2>4, <2>5, CacheMoves
  <2>6. QED
    BY <1>0, <1>1, <2>1, <2>2, <2>5, BornMoves
<1>2. QED
  BY <1>1 DEF RejectedStored

(***************************************************************************)
(* In the run in which a key was rejected it stays in the cache.           *)
(***************************************************************************)
LEMMA EntryStays ==
  ASSUME TypeOK, [Next]_vars, ~Restart, NEW k \in Keys, cache[k] # "absent"
  PROVE  cache'[k] # "absent"
  BY CacheMoves

(***************************************************************************)
(* Who was told rejected before the step: the order is as dead after it.   *)
(***************************************************************************)
LEMMA ToldStaysDead ==
  ASSUME IInv, [Next]_vars, NEW r \in Requests, pc[r] = "answered",
         born[r] = epoch => cache[Req[r].key] # "absent",
         \A p \in Places : SameKey(p, r) => Dead(p)
  PROVE  /\ born'[r] = epoch' => cache'[Req[r].key] # "absent"
         /\ \A p \in Places : SameKey(p, r)' => Dead(p)'
<1>0. /\ TypeOK /\ KeysClaimed /\ ClaimedFirst /\ Req[r].key \in Keys
      /\ epoch \in Nat /\ born[r] \in Nat
  BY RequestFields DEF IInv, TypeOK
<1>1. born'[r] = born[r]
  BY <1>0, BornMoves
<1>2. ASSUME born'[r] = epoch'
      PROVE  cache'[Req[r].key] # "absent"
  <2>1. ~Restart
    BY <1>0, <1>1, <1>2 DEF Restart, KeysClaimed
  <2>2. QED
    BY <1>0, <1>1, <1>2, <2>1, EntryStays, BornMoves
<1>3. ASSUME NEW p \in Places, SameKey(p, r)'
      PROVE  Dead(p)'
  <2>1. p \in Requests /\ Req[p].key = Req[r].key /\ born'[p] = born[r]
    BY <1>1, <1>3 DEF SameKey, Places
  <2>2. CASE born[p] = born[r]
    <3>1. Dead(p)
      BY <2>1, <2>2 DEF SameKey
    <3>2. pc[p] = "precheck" => born[p] = epoch
      BY <2>1 DEF IInv, ClaimedFirst
    <3>3. QED
      BY <1>0, <2>1, <2>2, <3>1, <3>2, DeadStays
  <2>3. CASE born[p] # born'[p]
    BY <1>0, <2>1, <2>3, BornMoves DEF Dead
  <2>4. QED
    BY <2>1, <2>2, <2>3
<1>4. QED
  BY <1>2, <1>3

(***************************************************************************)
(* The counter's verdict on the only matching order, in a single run.      *)
(***************************************************************************)
LEMMA VoidIsDead ==
  ASSUME IInv, epoch <= MaxEpoch, MaxEpoch = 0, NEW q \in Requests, pc[q] = "asking",
         Req[q].about \in Places, Evidence(q) = "rejected"
  PROVE  /\ cache[Req[q].key] # "absent"
         /\ \A p \in Places : SameKey(p, q) => Dead(p)
<1>1. \A p \in Requests : born[p] = epoch
  BY DEF IInv, TypeOK, KeysClaimed
<1>2. PICK v \in MatchingOrders(q) : fact[v] = "void"
  BY DEF Evidence, Places, Cancels
<1>3. v \in Places /\ v \in Requests /\ Req[v].key = Req[q].key
  BY <1>2 DEF MatchingOrders, Matches, Places
<1>4. claimed[v] /\ Dead(v)
  BY <1>2, <1>3 DEF IInv, ClaimedFirst, Dead
<1>5. cache[Req[q].key] # "absent"
  BY <1>1, <1>3, <1>4 DEF IInv, KeysClaimed
<1>6. ASSUME NEW p \in Places, SameKey(p, q)
      PROVE  Dead(p)
  BY <1>1, <1>3, <1>4, <1>6, RivalsAreDead DEF SameKey, Places
<1>7. QED
  BY <1>5, <1>6

LEMMA RejectedToldStep ==
  ASSUME RejectedInv, [Next]_vars
  PROVE  RejectedTold'
<1>0. /\ IInv /\ TypeOK /\ ClaimedFirst /\ RejectedStored /\ RejectedTold
      /\ epoch <= MaxEpoch
  BY DEF RejectedInv, IInv
<1>1. ASSUME NEW r \in Requests, r \in Writes \/ MaxEpoch = 0,
             About(r) \in Places, reply'[r].out = "rejected"
      PROVE  /\ born'[r] = epoch' => cache'[Req[r].key] # "absent"
             /\ \A p \in Places : SameKey(p, r)' => Dead(p)'
  <2>0. Req[r].key \in Keys
    BY RequestFields
  <2>1. CASE reply'[r] = reply[r]
    <3>1. pc[r] = "answered"
      BY <1>0, <1>1, <2>1 DEF IInv, JobsOfRun
    <3>2. /\ born[r] = epoch => cache[Req[r].key] # "absent"
          /\ \A p \in Places : SameKey(p, r) => Dead(p)
      BY <1>0, <1>1, <2>1 DEF RejectedTold
    <3>3. QED
      BY <1>0, <3>1, <3>2, ToldStaysDead
  \* The cache says so: of every order of the key in this run.
  <2>2. ASSUME cache[Req[r].key] # "absent", ~Restart,
               born'[r] = epoch, epoch' = epoch,
               \A p \in Places : Req[p].key = Req[r].key /\ born[p] = epoch => Dead(p)
        PROVE  /\ born'[r] = epoch' => cache'[Req[r].key] # "absent"
               /\ \A p \in Places : SameKey(p, r)' => Dead(p)'
    <3>1. cache'[Req[r].key] # "absent"
      BY <1>0, <2>0, <2>2, EntryStays
    <3>2. ASSUME NEW p \in Places, SameKey(p, r)'
          PROVE  Dead(p)'
      <4>1. p \in Requests /\ Req[p].key = Req[r].key /\ born'[p] = epoch
        BY <2>2, <3>2 DEF SameKey, Places
      <4>2. CASE born[p] = epoch
        BY <1>0, <2>2, <4>1, <4>2, DeadStays
      <4>3. CASE born[p] # epoch
        BY <1>0, <4>1, <4>3, BornMoves DEF Dead
      <4>4. QED
        BY <4>2, <4>3
    <3>3. QED
      BY <3>1, <3>2
  <2>3. CASE /\ ClaimHit(r) /\ r \in Writes /\ print[Req[r].key] = Fingerprint(r)
             /\ cache[Req[r].key] = "rejected"
    <3>1. Req[r].action = "place"
      BY <1>1, <2>3 DEF About, Writes, Resolves, Places
    <3>2. born[r] = epoch /\ born' = born /\ epoch' = epoch /\ cache' = cache
      BY <1>0, <2>3 DEF ClaimHit, ClaimedFirst, memory
    <3>3. ~Restart
      BY <1>0, <3>2 DEF Restart, TypeOK
    <3>4. QED
      BY <1>0, <2>0, <2>2, <2>3, <3>1, <3>2, <3>3 DEF RejectedStored, Fingerprint
  <2>4. CASE /\ ReceiveResolve(r) /\ r \in Resolves /\ ~Mismatch(r)
             /\ cache[Req[r].key] = "rejected"
    <3>1. print[Req[r].key][1] = "place"
      BY <1>1, <2>4 DEF About, Places, Mismatch, AskedPrint
    <3>2. born'[r] = epoch /\ epoch' = epoch
      BY <1>0, <2>4 DEF ReceiveResolve, TypeOK
    <3>3. ~Restart
      BY <1>0, <3>2 DEF Restart, TypeOK
    <3>4. QED
      BY <1>0, <2>0, <2>2, <2>4, <3>1, <3>2, <3>3 DEF RejectedStored
  <2>5. CASE ResolveOrders(r) /\ pc[r] = "asking" /\ Evidence(r) = "rejected"
    <3>1. r \in Resolves /\ Req[r].about \in Places /\ MaxEpoch = 0
      BY <1>0, <1>1, <2>5 DEF ClaimedFirst, About, Writes, Resolves
    <3>2. /\ cache[Req[r].key] # "absent"
          /\ \A p \in Places : SameKey(p, r) => Dead(p)
      BY <1>0, <2>5, <3>1, VoidIsDead
    <3>3. born[r] = epoch /\ born' = born /\ epoch' = epoch
      BY <1>0, <2>5 DEF ResolveOrders, ClaimedFirst
    <3>4. ~Restart
      BY <1>0, <3>3 DEF Restart, TypeOK
    <3>5. QED
      BY <2>2, <3>2, <3>3, <3>4 DEF SameKey
  <2>6. CASE Settles(r, "rejected")
    <3>1. r \in Places
      BY <1>1, <2>6 DEF Settles, About, Writes, Resolves
    <3>2. cache'[Req[r].key] # "absent" /\ born' = born /\ epoch' = epoch
      BY <1>0, <2>0, <2>6 DEF Settles, Complete, Finalize, TypeOK
    <3>3. born[r] = epoch
      BY <1>0, <2>6, SettledUnderWay, UnderWayClaimed DEF IInv
    <3>4. \A p \in Places : SameKey(p, r)' => Dead(p)'
      BY <1>0, <2>6, <3>1, <3>2, <3>3, SettledDead DEF SameKey
    <3>5. QED
      BY <3>2, <3>4
  <2>7. QED
    BY <1>0, <1>1, <2>1, <2>3, <2>4, <2>5, <2>6, ReplyMoves
<1>2. QED
  BY <1>1 DEF RejectedTold, About, Places, Resolves

LEMMA RejectedInvariance == Spec => []RejectedInv
<1>1. Init => RejectedInv
  BY InitInv, LimitsAssumption DEF Init, RejectedInv, RejectedStored, RejectedTold
<1>2. RejectedInv /\ [Next]_vars => RejectedInv'
  <2>1. ASSUME RejectedInv, [Next]_vars
        PROVE  epoch' <= MaxEpoch
    <3>1. TypeOK /\ ClaimedFirst /\ epoch <= MaxEpoch
      BY <2>1 DEF RejectedInv, IInv
    <3>2. CASE Restart
      BY <3>1, <3>2, LimitsAssumption DEF Restart, TypeOK
    <3>3. CASE \E r \in Requests : Session(r) \/ Thread(r) \/ Counter(r)
      <4>1. PICK r \in Requests : Session(r) \/ Thread(r) \/ Counter(r)
        BY <3>3
      <4>2. Restart \/ epoch' = epoch
        BY <2>1, <3>1, <4>1, BornMoves
      <4>3. QED
        BY <3>1, <3>2, <4>2
    <3>4. CASE UNCHANGED vars
      BY <3>1, <3>4 DEF vars
    <3>5. QED
      BY <2>1, <3>2, <3>3, <3>4 DEF Next
  <2>2. QED
    BY <2>1, InvStep, RejectedStoredStep, RejectedToldStep DEF RejectedInv
<1>3. QED
  BY <1>1, <1>2, PTL DEF Spec

\* RejectedStaysDead, of the answers to writes.
RejectedWritesStayDead ==
  \A r \in Places : reply[r].out = "rejected" =>
    \A p \in Places : SameKey(p, r) => fact[p] \in {"none", "refused", "void"}

(***************************************************************************)
(* A write that was answered with rejected, or told so by a replay, stays  *)
(* dead with every other order its server run sent for the key, however    *)
(* often the server restarts.                                              *)
(***************************************************************************)
THEOREM RejectedWrites == Spec => []RejectedWritesStayDead
<1>1. RejectedInv => RejectedWritesStayDead
  BY DEF RejectedInv, RejectedTold, RejectedWritesStayDead, Dead, About, Places, Writes, Resolves
<1>2. QED
  BY RejectedInvariance, <1>1, PTL

(***************************************************************************)
(* Within one run of the server a resolve keeps to it too: what it calls   *)
(* rejected stays dead.  (Across a restart it may speak of the order of an *)
(* earlier run while the same key is sent again.)                          *)
(***************************************************************************)
THEOREM RejectedDead ==
  ASSUME MaxEpoch = 0
  PROVE  Spec => []RejectedStaysDead
<1>1. RejectedInv => RejectedStaysDead
  BY DEF RejectedInv, RejectedTold, RejectedStaysDead, Dead
<1>2. QED
  BY RejectedInvariance, <1>1, PTL

-----------------------------------------------------------------------------
(* A canceled order was canceled. *)

StoredIsCanceled ==
  \A k \in Keys : cache[k] = "accepted" /\ print[k][1] = "cancel" =>
    \E w \in Cancels : /\ Req[w].key = k /\ Req[w].body = print[k][2]
                       /\ fact[Req[w].about] = "canceled"

LEMMA StoredCancelStep ==
  ASSUME TypeOK, ClaimedFirst, StoredIsCanceled, [Next]_vars
  PROVE  StoredIsCanceled'
<1>1. ASSUME NEW k \in Keys, cache'[k] = "accepted", print'[k][1] = "cancel"
      PROVE  \E w \in Cancels : /\ Req[w].key = k /\ Req[w].body = print'[k][2]
                                /\ fact'[Req[w].about] = "canceled"
  <2>1. CASE cache'[k] = cache[k] /\ print'[k] = print[k]
    <3>1. PICK w \in Cancels : /\ Req[w].key = k /\ Req[w].body = print[k][2]
                               /\ fact[Req[w].about] = "canceled"
      BY <1>1, <2>1 DEF StoredIsCanceled
    <3>2. Req[w].about \in Requests
      BY RequestFields DEF Cancels
    <3>3. fact'[Req[w].about] = "canceled"
      BY <3>1, <3>2, FactStays
    <3>4. QED
      BY <2>1, <3>1, <3>3
  <2>2. ASSUME NEW r \in Writes, Settles(r, "accepted"), k = Req[r].key,
               print'[k] = Fingerprint(r)
        PROVE  \E w \in Cancels : /\ Req[w].key = k /\ Req[w].body = print'[k][2]
                                  /\ fact'[Req[w].about] = "canceled"
    <3>1. r \in Cancels /\ Req[r].body = print'[k][2]
      BY <1>1, <2>2 DEF Fingerprint, Writes, Cancels
    <3>2. fact'[Req[r].about] = "canceled"
      BY <2>2, <3>1, AcceptedOutcome DEF Settles
    <3>3. QED
      BY <2>2, <3>1, <3>2
  <2>3. QED
    BY <1>1, <2>1, <2>2, CacheMoves
<1>2. QED
  BY <1>1 DEF StoredIsCanceled

LEMMA CancelAnswerStep ==
  ASSUME CancelsNameOrders, TypeOK, ClaimedFirst, StoredIsCanceled, CancelAnswerTrue, [Next]_vars
  PROVE  CancelAnswerTrue'
<1>1. ASSUME NEW r \in Requests, About(r) \in Cancels, reply'[r].out = "accepted"
      PROVE  fact[Req[About(r)].about] = "canceled"
  <2>1. CASE reply'[r] = reply[r]
    BY <1>1, <2>1 DEF CancelAnswerTrue
  <2>2. ASSUME cache[Req[r].key] = "accepted", print[Req[r].key][1] = "cancel",
               Req[r].body \in {print[Req[r].key][2], NoBody}
        PROVE  fact[Req[About(r)].about] = "canceled"
    <3>1. PICK w \in Cancels : /\ Req[w].key = Req[r].key /\ Req[w].body = print[Req[r].key][2]
                               /\ fact[Req[w].about] = "canceled"
      BY <2>2, RequestFields DEF StoredIsCanceled
    <3>2. Req[About(r)].about = Req[w].about
      BY <1>1, <2>2, <3>1 DEF CancelsNameOrders
    <3>3. QED
      BY <3>1, <3>2
  <2>3. CASE /\ r \in Writes /\ print[Req[r].key] = Fingerprint(r)
             /\ cache[Req[r].key] = "accepted"
    <3>1. Req[r].action = "cancel"
      BY <1>1, <2>3 DEF About, Writes, Resolves, Cancels
    <3>2. QED
      BY <2>2, <2>3, <3>1 DEF Fingerprint
  <2>4. CASE r \in Resolves /\ ~Mismatch(r) /\ cache[Req[r].key] = "accepted"
    <3>1. Req[Req[r].about].action = "cancel"
      BY <1>1, <2>4 DEF About, Cancels
    <3>2. QED
      BY <2>2, <2>4, <3>1 DEF Mismatch, AskedPrint
  <2>5. CASE pc[r] = "asking" /\ reply'[r].out = Evidence(r)
    <3>1. About(r) = Req[r].about /\ Req[r].about \in Cancels
      BY <1>1, <2>5 DEF ClaimedFirst, About
    <3>2. QED
      BY <1>1, <2>5, <3>1 DEF Evidence
  <2>6. CASE Settles(r, "accepted")
    <3>1. r \in Writes /\ r \in Cancels /\ About(r) = r
      BY <1>1, <2>6 DEF Settles, About, Writes, Resolves
    <3>2. QED
      BY <2>6, <3>1, AcceptedOutcome
  <2>7. QED
    BY <1>1, <2>1, <2>3, <2>4, <2>5, <2>6, ReplyMoves
<1>2. \A r \in Requests : About(r) \in Requests /\ Req[About(r)].about \in Requests
  BY RequestFields DEF About
<1>3. QED
  BY <1>1, <1>2, FactStays DEF CancelAnswerTrue, About, Cancels, Resolves

(***************************************************************************)
(* When a cancel's payload names its order, whoever is told that a cancel  *)
(* is done, by the cancel itself, a replay or resolve_submission, is told  *)
(* of an order that is canceled: never of one that was filled.             *)
(***************************************************************************)
THEOREM CancelAnswersAreTrue ==
  ASSUME CancelsNameOrders
  PROVE  Spec => []CancelAnswerTrue
<1> DEFINE CInv == IInv /\ StoredIsCanceled /\ CancelAnswerTrue
<1>1. Init => CInv
  BY InitInv DEF Init, StoredIsCanceled, CancelAnswerTrue
<1>2. CInv /\ [Next]_vars => CInv'
  BY InvStep, StoredCancelStep, CancelAnswerStep DEF IInv
<1>3. QED
  BY <1>1, <1>2, PTL DEF Spec

-----------------------------------------------------------------------------
(* The server implements WriteOnce. *)

Sent(k)    == \E r \in Current(k) : fact[r] # "none"
Verdict(k) == IF cache[k] \in Final THEN cache[k] ELSE "open"
Told(k)    == {reply[r].out : r \in Current(k)} \cap Final

(***************************************************************************)
(* What a key's users were told changes only with a definite answer.       *)
(***************************************************************************)
LEMMA ToldKept ==
  ASSUME NEW k \in Keys, epoch' = epoch,
         \A r \in Writes : Req[r].key = k =>
           /\ born'[r] = born[r] \/ reply[r].out = "none"
           /\ reply'[r].out = reply[r].out \/ {reply[r].out, reply'[r].out} \cap Final = {}
  PROVE  Told(k)' = Told(k)
<1>1. ASSUME NEW v \in Final
      PROVE  v \in Told(k)' <=> v \in Told(k)
  BY DEF Told, Current
<1>2. QED
  BY <1>1 DEF Told

LEMMA ToldAdds ==
  ASSUME NEW r \in Writes, UNCHANGED <<born, epoch>>, born[r] = epoch,
         reply'[r].out \in Final, reply[r].out = "none",
         \A s \in Writes : s # r => reply'[s] = reply[s],
         NEW k \in Keys
  PROVE  Told(k)' = Told(k) \cup (IF k = Req[r].key THEN {reply'[r].out} ELSE {})
<1>1. ASSUME NEW v \in Final
      PROVE  v \in Told(k)' <=> v \in Told(k) \/ (k = Req[r].key /\ v = reply'[r].out)
  BY DEF Told, Current
<1>2. QED
  BY <1>1 DEF Told

(***************************************************************************)
(* Every step of the server that is not the native call, a definite answer *)
(* to a write or a restart leaves the promise where it was.                *)
(***************************************************************************)
LEMMA SentMoves ==
  ASSUME IInv, [Next]_vars, ~Restart, NEW k \in Keys
  PROVE  Sent(k)' <=> Sent(k) \/ \E r \in Current(k) : fact[r] = "none" /\ fact'[r] # "none"
<1>1. TypeOK /\ ClaimedFirst /\ JobsOfRun
  BY DEF IInv
<1>2. ASSUME NEW r \in Writes
      PROVE  /\ fact[r] # "none" => fact'[r] # "none" /\ born'[r] = born[r]
             /\ fact[r] = "none" /\ fact'[r] # "none" => born'[r] = born[r] /\ born[r] = epoch
             /\ epoch' = epoch
  <2>1. r \in Requests
    BY DEF Writes
  <2>2. fact[r] = "none" /\ fact'[r] # "none" => born[r] = epoch
    BY <1>1, <2>1, FactStays, UnderWayClaimed DEF UnderWay
  <2>3. QED
    BY <1>1, <2>1, <2>2, FactStays, BornMoves
<1>3. QED
  BY <1>2 DEF Sent, Current

LEMMA NativeSends ==
  ASSUME TypeOK, ClaimedFirst, [Next]_vars, NEW r \in Requests,
         fact[r] = "none", fact'[r] # "none"
  PROVE  JobNative(r)
<1> USE DEF wire, risk, memory
<1>1. ASSUME NEW s \in Requests, Session(s)
      PROVE  fact' = fact
  BY <1>1 DEF Session, ReceiveWrite, PrecheckFail, ClaimHit, ClaimFull, ClaimNew, AcquireLock,
     RiskPass, RiskReject, AdapterRefuse, Dispatch, ReceiveResolve, ResolveOrders, Timeout
<1>2. ASSUME NEW s \in Requests, Thread(s)
      PROVE  fact' = fact \/ (JobNative(s) /\ fact' = [fact EXCEPT ![s] = "entered"])
  BY <1>2 DEF Thread, JobStart, JobTakeMarker, JobMark, JobNative, JobReturn, OrphanReturn
<1>3. ASSUME NEW s \in Requests, Counter(s)
      PROVE  fact'[r] = "none"
  <2>1. CASE CounterPlace(s) \/ CounterEnd(s)
    BY <2>1 DEF CounterPlace, CounterEnd, TypeOK
  <2>2. CASE CounterCancel(s)
    BY <2>2, RequestFields DEF CounterCancel, TypeOK
  <2>3. QED
    BY <1>3, <2>1, <2>2 DEF Counter
<1>4. ~(Restart \/ UNCHANGED vars)
  BY DEF Restart, vars
<1>5. QED
  BY <1>1, <1>2, <1>3, <1>4 DEF Next, TypeOK

(***************************************************************************)
(* A request is answered once.                                             *)
(***************************************************************************)
LEMMA AnsweredOnce ==
  ASSUME TypeOK, JobsOfRun, [Next]_vars, NEW r \in Requests, reply[r].out # "none"
  PROVE  reply'[r] = reply[r]
<1> USE DEF wire, risk, memory
<1>1. pc[r] = "answered"
  BY DEF JobsOfRun
<1>2. ASSUME NEW s \in Requests, pc[s] # "answered", NEW out, NEW called, Answer(s, out, called)
      PROVE  reply'[r] = reply[r]
  BY <1>1, <1>2 DEF TypeOK, Answer
<1>3. ASSUME NEW s \in Requests,
             \/ PrecheckFail(s) \/ ClaimHit(s) \/ ClaimFull(s) \/ RiskReject(s)
             \/ ResolveOrders(s) \/ AdapterRefuse(s) \/ Timeout(s) \/ JobReturn(s)
      PROVE  reply'[r] = reply[r]
  <2>1. pc[s] # "answered"
    BY <1>3 DEF PrecheckFail, ClaimHit, ClaimFull, RiskReject, ResolveOrders, AdapterRefuse,
       Timeout, JobReturn
  <2>2. \E out, called : Answer(s, out, called)
    BY <1>3 DEF PrecheckFail, ClaimHit, ClaimFull, RiskReject, ResolveOrders, AdapterRefuse,
       Timeout, JobReturn, Complete, AnswerWith
  <2>3. QED
    BY <1>2, <2>1, <2>2
<1>4. ASSUME NEW s \in Requests, ReceiveResolve(s)
      PROVE  reply'[r] = reply[r]
  <2>1. pc[s] # "answered"
    BY <1>4 DEF ReceiveResolve
  <2>2. UNCHANGED reply \/ \E out, called : Answer(s, out, called)
    BY <1>4 DEF ReceiveResolve
  <2>3. QED
    BY <1>2, <2>1, <2>2
<1>5. ASSUME NEW s \in Requests, Session(s)
      PROVE  reply'[r] = reply[r]
  BY <1>3, <1>4, <1>5 DEF Session, ReceiveWrite, ClaimNew, AcquireLock, RiskPass, Dispatch
<1>6. ASSUME NEW s \in Requests, Thread(s) \/ Counter(s)
      PROVE  reply'[r] = reply[r]
  BY <1>3, <1>6
     DEF Thread, Counter, JobStart, JobTakeMarker, JobMark, JobNative, OrphanReturn,
         CounterPlace, CounterEnd, CounterCancel
<1>7. CASE Restart \/ UNCHANGED vars
  BY <1>7 DEF Restart, vars
<1>8. QED
  BY <1>5, <1>6, <1>7 DEF Next

(***************************************************************************)
(* The native call sends the key: it was not sent before in this run, and  *)
(* nothing was decided about it.                                           *)
(***************************************************************************)
SentNow    == [k \in Keys |-> Sent(k)]
VerdictNow == [k \in Keys |-> Verdict(k)]
ToldNow    == [k \in Keys |-> Told(k)]

LEMMA NativeIsSend ==
  ASSUME IInv, [Next]_vars, NEW r \in Requests, JobNative(r)
  PROVE  Promise!Send(Req[r].key)
<1> DEFINE k == Req[r].key
<1>1. /\ TypeOK /\ KeysClaimed /\ ClaimedFirst /\ JobsOfRun
      /\ UnderWay(r) /\ fact[r] = "none" /\ k \in Keys
  BY RequestFields DEF IInv, JobNative, UnderWay, ClaimedFirst
<1>2. r \in Current(k) /\ claimed[r]
  BY <1>1, UnderWayClaimed DEF Current
<1>3. ~Sent(k)
  BY <1>1, <1>2, OnlyOneUnderWay DEF Sent, Current, ClaimedFirst, Writes
<1>4. Verdict(k) = "open"
  BY <1>1 DEF IInv, KeyOpen, UnderWay, Verdict
<1>5. /\ UNCHANGED <<cache, reply, born, epoch>>
      /\ fact' = [fact EXCEPT ![r] = "entered"]
  BY DEF JobNative, wire, memory
<1>6. ASSUME NEW j \in Keys
      PROVE  /\ Sent(j)' <=> (j = k \/ Sent(j))
             /\ Verdict(j)' = Verdict(j) /\ Told(j)' = Told(j)
  BY <1>1, <1>2, <1>5 DEF TypeOK, Sent, Verdict, Told, Current, Writes
<1>7. /\ SentNow' = [SentNow EXCEPT ![k] = TRUE]
      /\ UNCHANGED <<VerdictNow, ToldNow>>
  BY <1>1, <1>6 DEF SentNow, VerdictNow, ToldNow, Sent
<1>8. QED
  BY <1>1, <1>3, <1>4, <1>7 DEF Promise!Send, SentNow, VerdictNow, ToldNow, Sent, Verdict, Told

LEMMA SettleIsDecide ==
  ASSUME IInv, [Next]_vars, NEW r \in Requests, NEW out \in Final, Settles(r, out)
  PROVE  Promise!Decide(Req[r].key, out)
<1> DEFINE k == Req[r].key
<1>1. /\ TypeOK /\ KeysClaimed /\ ClaimedFirst /\ JobsOfRun /\ k \in Keys
      /\ r \in Writes /\ pc[r] \in {"adapter", "await"} /\ reply[r].out = "none"
  BY RequestFields DEF IInv, Settles, JobsOfRun
<1>2. UnderWay(r) /\ r \in Current(k)
  BY <1>1, SettledUnderWay, UnderWayClaimed DEF Current
<1>3. Verdict(k) = "open"
  BY <1>1, <1>2 DEF IInv, KeyOpen, UnderWay, Verdict
<1>4. out = "accepted" => Sent(k)
  <2>1. ASSUME "accepted" \in Outcomes(r)
        PROVE  job[r] = "called"
    BY <2>1, LimitsAssumption DEF Outcomes
  <2>2. out = "accepted" => fact[r] # "none"
    BY <1>1, <2>1 DEF Settles, JobsOfRun
  <2>3. QED
    BY <1>2, <2>2 DEF Sent
<1>5. /\ UNCHANGED <<fact, born, epoch>>
      /\ cache' = [cache EXCEPT ![k] = out]
      /\ reply'[r].out = out /\ \A s \in Writes : s # r => reply'[s] = reply[s]
  <2>1. Complete(r, out) /\ UNCHANGED fact /\ r \in Requests
    BY <1>1 DEF Settles, Writes
  <2>2. cache' = [cache EXCEPT ![k] = out]
    BY <2>1 DEF Complete, Finalize
  <2>3. /\ UNCHANGED <<born, epoch>>
        /\ reply' = [reply EXCEPT ![r] = [out |-> out,
                        called |-> IF out \in Errors THEN Marked(r) ELSE "unsaid"]]
    BY <1>1, <2>1, CompleteAnswers
  <2>4. QED
    BY <1>1, <2>1, <2>2, <2>3 DEF TypeOK, Writes
<1>6. ASSUME NEW j \in Keys
      PROVE  /\ Sent(j)' <=> Sent(j)
             /\ Verdict(j)' = IF j = k THEN out ELSE Verdict(j)
             /\ Told(j)' = IF j = k THEN Told(j) \cup {out} ELSE Told(j)
  <2>1. Sent(j)' <=> Sent(j)
    BY <1>5 DEF Sent, Current
  <2>2. Verdict(j)' = IF j = k THEN out ELSE Verdict(j)
    BY <1>1, <1>5 DEF Verdict, TypeOK
  <2>3. Told(j)' = Told(j) \cup (IF j = k THEN {out} ELSE {})
    BY <1>1, <1>2, <1>5, ToldAdds DEF Current
  <2>4. QED
    BY <2>1, <2>2, <2>3
<1>7. /\ SentNow' = SentNow
      /\ VerdictNow' = [VerdictNow EXCEPT ![k] = out]
      /\ ToldNow' = [ToldNow EXCEPT ![k] = @ \cup {out}]
  BY <1>1, <1>6 DEF SentNow, VerdictNow, ToldNow, Sent
<1>8. QED
  BY <1>1, <1>3, <1>4, <1>7 DEF Promise!Decide, SentNow, VerdictNow, ToldNow, Sent, Verdict, Told

LEMMA HitIsRepeat ==
  ASSUME IInv, [Next]_vars, NEW r \in Requests, ClaimHit(r), reply'[r].out \in Final,
         cache[Req[r].key] = reply'[r].out
  PROVE  Promise!Repeat(Req[r].key)
<1> DEFINE k == Req[r].key
<1>1. /\ TypeOK /\ ClaimedFirst /\ JobsOfRun /\ k \in Keys
      /\ r \in Writes /\ born[r] = epoch /\ reply[r].out = "none"
  BY RequestFields DEF IInv, ClaimHit, JobsOfRun, ClaimedFirst
<1>2. /\ UNCHANGED <<fact, cache, born, epoch>>
      /\ \A s \in Writes : s # r => reply'[s] = reply[s]
  BY <1>1 DEF ClaimHit, AnswerWith, Answer, TypeOK, Writes, memory
<1>3. Verdict(k) = reply'[r].out
  BY DEF Verdict
<1>4. ASSUME NEW j \in Keys
      PROVE  /\ Sent(j)' <=> Sent(j)
             /\ Verdict(j)' = Verdict(j)
             /\ Told(j)' = IF j = k THEN Told(j) \cup {Verdict(k)} ELSE Told(j)
  <2>1. (Sent(j)' <=> Sent(j)) /\ Verdict(j)' = Verdict(j)
    BY <1>2 DEF Sent, Current, Verdict
  <2>2. Told(j)' = Told(j) \cup (IF j = k THEN {reply'[r].out} ELSE {})
    BY <1>1, <1>2, ToldAdds
  <2>3. QED
    BY <1>3, <2>1, <2>2
<1>5. /\ UNCHANGED <<SentNow, VerdictNow>>
      /\ ToldNow' = [ToldNow EXCEPT ![k] = @ \cup {VerdictNow[k]}]
  BY <1>1, <1>4 DEF SentNow, VerdictNow, ToldNow, Sent
<1>6. QED
  BY <1>1, <1>3, <1>5 DEF Promise!Repeat, SentNow, VerdictNow, ToldNow, Sent, Verdict, Told

LEMMA RestartIsForget ==
  ASSUME IInv, Restart
  PROVE  Promise!Forget
<1>1. \A j \in Keys : Current(j)' = {}
  BY DEF IInv, TypeOK, KeysClaimed, Restart, Current, Writes
<1>2. ASSUME NEW j \in Keys
      PROVE  ~Sent(j)' /\ Verdict(j)' = "open" /\ Told(j)' = {}
  BY <1>1, <1>2 DEF Restart, Sent, Verdict, Told
<1>3. /\ SentNow' = [j \in Keys |-> FALSE] /\ VerdictNow' = [j \in Keys |-> "open"]
      /\ ToldNow' = [j \in Keys |-> {}]
  BY <1>2 DEF SentNow, VerdictNow, ToldNow, Sent
<1>4. QED
  BY <1>3 DEF Promise!Forget, SentNow, VerdictNow, ToldNow, Sent, Verdict, Told

(***************************************************************************)
(* Nothing else shows.                                                     *)
(***************************************************************************)
LEMMA RestStutters ==
  ASSUME IInv, [Next]_vars, ~Restart,
         \A r \in Requests : ~JobNative(r),
         \A r \in Requests, out \in Final : ~Settles(r, out),
         \A r \in Requests : ClaimHit(r) /\ reply'[r].out \in Final =>
                               cache[Req[r].key] # reply'[r].out
  PROVE  UNCHANGED <<SentNow, VerdictNow, ToldNow>>
<1>1. /\ TypeOK /\ ClaimedFirst /\ JobsOfRun /\ epoch' = epoch
      /\ \A r \in Writes : r \in Requests /\ r \notin Resolves
  <2>1. TypeOK /\ ClaimedFirst /\ JobsOfRun
    BY DEF IInv
  <2>2. epoch' = epoch
    <3>1. CASE UNCHANGED vars
      BY <3>1 DEF vars
    <3>2. CASE \E r \in Requests : Session(r) \/ Thread(r) \/ Counter(r)
      BY <2>1, <3>2, BornMoves
    <3>3. QED
      BY <3>1, <3>2 DEF Next
  <2>3. QED
    BY <2>1, <2>2 DEF Writes, Resolves
<1>2. ASSUME NEW k \in Keys
      PROVE  Sent(k)' <=> Sent(k)
  BY <1>1, SentMoves, NativeSends DEF Current
<1>3. ASSUME NEW k \in Keys
      PROVE  Verdict(k)' = Verdict(k)
  <2>1. CASE cache'[k] = cache[k]
    BY <2>1 DEF Verdict
  <2>2. ASSUME NEW r \in Writes, ClaimNew(r), k = Req[r].key, cache'[k] = "pending"
        PROVE  Verdict(k)' = Verdict(k)
    BY <2>2 DEF ClaimNew, Verdict
  <2>3. ASSUME NEW r \in Writes, NEW out \in Results, Settles(r, out), k = Req[r].key,
               cache'[k] = IF out \in Final THEN out ELSE "pending"
        PROVE  Verdict(k)' = Verdict(k)
    <3>1. cache[k] = "pending"
      BY <1>1, <2>3, SettledUnderWay DEF IInv, KeyOpen, UnderWay
    <3>2. cache'[k] = "pending"
      BY <1>1, <2>3
    <3>3. QED
      BY <3>1, <3>2 DEF Verdict
  <2>4. QED
    BY <1>1, <2>1, <2>2, <2>3, CacheMoves
<1>4. ASSUME NEW r \in Writes
      PROVE  /\ born'[r] = born[r] \/ reply[r].out = "none"
             /\ reply'[r].out = reply[r].out \/ {reply[r].out, reply'[r].out} \cap Final = {}
  <2>1. r \in Requests
    BY <1>1
  <2>2. born'[r] = born[r] \/ reply[r].out = "none"
    BY <1>1, <2>1, BornMoves DEF JobsOfRun
  <2>3. reply'[r].out \in Final => reply'[r] = reply[r]
    BY <1>1, <2>1, ReplyMoves DEF ClaimedFirst
  <2>4. reply[r].out \in Final => reply'[r] = reply[r]
    BY <1>1, <2>1, AnsweredOnce
  <2>5. QED
    BY <2>2, <2>3, <2>4
<1>5. ASSUME NEW k \in Keys
      PROVE  Told(k)' = Told(k)
  BY <1>1, <1>4, ToldKept
<1>6. QED
  BY <1>2, <1>3, <1>5 DEF SentNow, VerdictNow, ToldNow, Sent

(***************************************************************************)
(* The write path implements WriteOnce: whatever sessions, threads, locks  *)
(* and timeouts do, each key is sent at most once in a server run, decided *)
(* at most once and only as the counter allows, and every definite answer  *)
(* to a write that used the key is that decision.                          *)
(***************************************************************************)
THEOREM Refinement == Spec => KeepsPromise
<1>1. ASSUME Init PROVE Promise!Init
  <2>1. ASSUME NEW k \in Keys
        PROVE  ~Sent(k) /\ Verdict(k) = "open" /\ Told(k) = {}
    BY <1>1 DEF Init, Sent, Verdict, Told, Current, Writes
  <2>2. /\ SentNow = [k \in Keys |-> FALSE] /\ VerdictNow = [k \in Keys |-> "open"]
        /\ ToldNow = [k \in Keys |-> {}]
    BY <2>1 DEF SentNow, VerdictNow, ToldNow, Sent
  <2>3. QED
    BY <2>2 DEF Promise!Init, SentNow, VerdictNow, ToldNow, Sent, Verdict, Told
<1>2. ASSUME IInv, [Next]_vars
      PROVE  Promise!Next \/ UNCHANGED <<SentNow, VerdictNow, ToldNow>>
  <2>1. \A r \in Requests : Req[r].key \in Keys
    BY RequestFields
  <2>2. CASE \E r \in Requests : JobNative(r)
    BY <1>2, <2>1, <2>2, NativeIsSend DEF Promise!Next
  <2>3. CASE \E r \in Requests, out \in Final : Settles(r, out)
    BY <1>2, <2>1, <2>3, SettleIsDecide DEF Promise!Next, Promise!Verdicts
  <2>4. CASE \E r \in Requests : ClaimHit(r) /\ reply'[r].out \in Final
                                 /\ cache[Req[r].key] = reply'[r].out
    BY <1>2, <2>1, <2>4, HitIsRepeat DEF Promise!Next
  <2>5. CASE Restart
    BY <1>2, <2>5, RestartIsForget DEF Promise!Next
  <2>6. QED
    BY <1>2, <2>2, <2>3, <2>4, <2>5, RestStutters
<1>3. QED
  BY <1>1, <1>2, Invariance, PTL
     DEF Spec, KeepsPromise, Promise!Spec, SentNow, VerdictNow, ToldNow, Sent, Verdict, Told

=============================================================================
