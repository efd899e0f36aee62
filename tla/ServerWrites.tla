---------------------------- MODULE ServerWrites ----------------------------
(***************************************************************************)
(* The write path of the remote trading server: ClientSession reads one    *)
(* request at a time, ServerApplication claims the idempotency key, takes  *)
(* the account's risk lock, hands the native call to an executor thread of *)
(* the adapter, and finalises the key with what came back.  Every await is *)
(* a place where another session, the executor thread, the counter (the    *)
(* broker's matching front) or the session's timeout may act first.        *)
(*                                                                         *)
(* A "place" sends an order, a "cancel" cancels the order of request       *)
(* Req[r].about, a "resolve" asks read-only what became of the write       *)
(* Req[r].about.  What the counter really did is kept in `fact', which the *)
(* server never reads directly.                                            *)
(***************************************************************************)
EXTENDS Naturals, FiniteSets

CONSTANTS
  Requests,       \* requests that clients may put on the wire
  Sessions,       \* TCP sessions; each serves one request at a time
  Keys,           \* idempotency cache keys: (account, sub-account, key)
  Bodies,         \* normalised payloads, as far as fingerprints tell them apart
  Contract,       \* what of an order's payload the order list shows: security, side, amount
  Accounts,       \* parent accounts
  Req,            \* what each request asks for
  NoReq,          \* not a request: the owner of a free risk lock
  NoBody,         \* a resolve that carries no request_payload
  MaxEntries,     \* idempotency_max_entries
  RiskOn,         \* accounts with a RiskController (order_risk_enabled)
  MaxTrades,      \* max_daily_trades
  MaxCancels,     \* max_daily_cancels
  MarkInThread,   \* the adapter marks the native call in its thread (Huaxin)
  SingleWorker,   \* the adapter's executor has one thread (Huaxin)
  NativeErrors,   \* how an exception after the native call leaves the adapter
  MaxEpoch        \* bound: how many times the server may restart

Request == [session : Sessions, key : Keys, action : {"place", "cancel", "resolve"},
            body : Bodies, account : Accounts, about : Requests, priced : BOOLEAN]

ASSUME RequestsAssumption ==
  /\ NoReq \notin Requests
  /\ Req \in [Requests -> Request]
  /\ \A r \in Requests : Req[Req[r].about].action # "resolve"
  /\ \A r, s \in Requests : Req[r].key = Req[s].key => Req[r].account = Req[s].account
  /\ DOMAIN Contract = Bodies

ASSUME LimitsAssumption ==
  /\ MaxEntries \in Nat \ {0} /\ MaxTrades \in Nat /\ MaxCancels \in Nat /\ MaxEpoch \in Nat
  /\ RiskOn \subseteq Accounts
  /\ MarkInThread \in BOOLEAN /\ SingleWorker \in BOOLEAN
  /\ NativeErrors \subseteq {"failed", "coded"}

VARIABLES
  pc,        \* where the session's coroutine is with each request
  job,       \* the executor job of each write
  fact,      \* what really happened to each write at the counter
  cache,     \* _idempotency_cache: absent, pending, or the final result
  print,     \* the fingerprint stored with each cache entry
  marker,    \* _current_broker_called of each session
  riskLock,  \* owner of _risk_locks[account]
  trades,    \* RiskStats.daily_trades of each account
  cancels,   \* RiskStats.daily_cancels of each account
  reply,     \* the answer put on the wire
  claimed,   \* history: the request was given its key
  born,      \* history: the server run in which the request was read
  epoch      \* the current server run

wire   == <<reply, born>>
risk   == <<riskLock, trades, cancels>>
memory == <<cache, print, claimed>>
vars   == <<pc, job, fact, cache, print, marker, riskLock, trades, cancels,
            reply, claimed, born, epoch>>

Writes   == {r \in Requests : Req[r].action # "resolve"}
Places   == {r \in Requests : Req[r].action = "place"}
Cancels  == {r \in Requests : Req[r].action = "cancel"}
Resolves == {r \in Requests : Req[r].action = "resolve"}

NoPrint == <<"none", NoBody>>
Fingerprint(r) == <<Req[r].action, Req[r].body>>
Prints == ({"place", "cancel"} \X Bodies) \cup {NoPrint}

InFlight == {"precheck", "lockwait", "riskcheck", "adapter", "await", "asking"}
Results  == {"accepted", "rejected", "unknown"}
Errors   == {"failed", "coded", "conflict", "full", "timeout"}
Final    == {"accepted", "rejected"}
\* A native thread is executing this job.
Busy     == {"running", "holding", "armed", "called"}
\* The counter has the order on its book, whatever became of it.
Ordered  == {"live", "filled", "canceled", "void"}

TypeOK ==
  /\ pc \in [Requests -> {"new", "answered", "lost"} \cup InFlight]
  /\ job \in [Requests -> {"none", "queued", "dropped", "done"} \cup Busy]
  /\ fact \in [Requests -> {"none", "entered", "refused", "landed"} \cup Ordered]
  /\ cache \in [Keys -> {"absent", "pending"} \cup Final]
  /\ print \in [Keys -> Prints]
  /\ marker \in [Sessions -> {"unset", "no", "yes"}]
  /\ riskLock \in [Accounts -> Requests \cup {NoReq}]
  /\ trades \in [Accounts -> Nat]
  /\ cancels \in [Accounts -> Nat]
  /\ reply \in [Requests -> [out : {"none"} \cup Results \cup Errors,
                             called : {"unsaid", "no", "yes"}]]
  /\ claimed \in [Requests -> BOOLEAN]
  /\ born \in [Requests -> Nat]
  /\ epoch \in Nat

Init ==
  /\ pc = [r \in Requests |-> "new"]
  /\ job = [r \in Requests |-> "none"]
  /\ fact = [r \in Requests |-> "none"]
  /\ cache = [k \in Keys |-> "absent"]
  /\ print = [k \in Keys |-> NoPrint]
  /\ marker = [s \in Sessions |-> "unset"]
  /\ riskLock = [a \in Accounts |-> NoReq]
  /\ trades = [a \in Accounts |-> 0]
  /\ cancels = [a \in Accounts |-> 0]
  /\ reply = [r \in Requests |-> [out |-> "none", called |-> "unsaid"]]
  /\ claimed = [r \in Requests |-> FALSE]
  /\ born = [r \in Requests |-> 0]
  /\ epoch = 0

-----------------------------------------------------------------------------
(* Answers.  _loop sends the response or the error and forgets the marker. *)

Idle(s) == \A x \in Requests : Req[x].session = s => pc[x] \notin InFlight

\* broker_called as an error carries it: the session's fact, or nothing when
\* the request is not a write.
Marked(r) == IF marker[Req[r].session] = "unset" THEN "unsaid" ELSE marker[Req[r].session]

Answer(r, out, called) ==
  /\ pc' = [pc EXCEPT ![r] = "answered"]
  /\ reply' = [reply EXCEPT ![r] = [out |-> out, called |-> called]]
  /\ marker' = [marker EXCEPT ![Req[r].session] = "unset"]

\* Results carry no broker_called; an exception carries the session's fact.
AnswerWith(r, out) == Answer(r, out, IF out \in Errors THEN Marked(r) ELSE "unsaid")

ReleaseLock(r) ==
  riskLock' = [riskLock EXCEPT ![Req[r].account] = IF @ = r THEN NoReq ELSE @]

(***************************************************************************)
(* The tail of _dispatch_broker after the adapter answered: record the     *)
(* trade or cancel while the lock is still held, release it, finalise the  *)
(* key, answer.  It runs on the event loop without an await in between.    *)
(* An exception skips all of it but the release.                           *)
(***************************************************************************)
Counted(r, out) ==
  /\ Req[r].account \in RiskOn
  /\ \/ Req[r].action = "place" /\ Req[r].priced /\ out \in Results
     \/ Req[r].action = "cancel" /\ out \in {"accepted", "unknown"}

RecordRisk(r, out) ==
  /\ trades' = [trades EXCEPT ![Req[r].account] =
                  IF Counted(r, out) /\ Req[r].action = "place" THEN @ + 1 ELSE @]
  /\ cancels' = [cancels EXCEPT ![Req[r].account] =
                  IF Counted(r, out) /\ Req[r].action = "cancel" THEN @ + 1 ELSE @]

Finalize(r, out) ==
  /\ cache' = [cache EXCEPT ![Req[r].key] =
                 IF out \in Final THEN out ELSE IF out \in Results THEN "pending" ELSE @]
  /\ print' = [print EXCEPT ![Req[r].key] = IF out \in Results THEN Fingerprint(r) ELSE @]

Complete(r, out) ==
  /\ RecordRisk(r, out)
  /\ ReleaseLock(r)
  /\ Finalize(r, out)
  /\ AnswerWith(r, out)
  /\ UNCHANGED <<claimed, born, epoch>>

-----------------------------------------------------------------------------
(* The session's coroutine, up to the adapter. *)

\* _loop reads the next request of an idle session and resets the marker;
\* a write then runs into its first await (halt check, price, sub-account
\* limit), a resolve reads the cache before any await.
ReceiveWrite(r) ==
  /\ r \in Writes /\ pc[r] = "new" /\ Idle(Req[r].session)
  /\ pc' = [pc EXCEPT ![r] = "precheck"]
  /\ marker' = [marker EXCEPT ![Req[r].session] = "no"]
  /\ born' = [born EXCEPT ![r] = epoch]
  /\ UNCHANGED <<job, fact, risk, memory, reply, epoch>>

\* Anything refused before the key is claimed: malformed key, no fresh quote,
\* sub-account limit, missing order_id.
PrecheckFail(r) ==
  /\ r \in Writes /\ pc[r] = "precheck"
  /\ AnswerWith(r, "failed")
  /\ UNCHANGED <<job, fact, risk, memory, born, epoch>>

\* The key is already in the cache: replay the stored result, or refuse when
\* the same key names another write.
ClaimHit(r) ==
  /\ r \in Writes /\ pc[r] = "precheck" /\ cache[Req[r].key] # "absent"
  /\ AnswerWith(r, IF print[Req[r].key] # Fingerprint(r) THEN "conflict"
                   ELSE IF cache[Req[r].key] = "pending" THEN "unknown"
                   ELSE cache[Req[r].key])
  /\ UNCHANGED <<job, fact, risk, memory, born, epoch>>

Held == {k \in Keys : cache[k] # "absent"}

\* Mutant: a full cache makes room by dropping an older entry.
ClaimFullEvicts(r) ==
  /\ r \in Writes /\ pc[r] = "precheck" /\ cache[Req[r].key] = "absent"
  /\ Cardinality(Held) >= MaxEntries
  /\ \E k \in Held : /\ cache' = [cache EXCEPT ![k] = "absent"]
                     /\ print' = [print EXCEPT ![k] = NoPrint]
  /\ UNCHANGED <<pc, job, fact, marker, risk, wire, claimed, epoch>>

\* A full cache admits no new key; the error says the broker was not called.
ClaimFull(r) ==
  /\ r \in Writes /\ pc[r] = "precheck" /\ cache[Req[r].key] = "absent"
  /\ Cardinality(Held) >= MaxEntries
  /\ Answer(r, "full", "no")
  /\ UNCHANGED <<job, fact, risk, memory, born, epoch>>

\* Entering the tracked write: a cancel is marked as called straight away.
EnterMark(r) ==
  marker' = [marker EXCEPT ![Req[r].session] = IF r \in Cancels THEN "yes" ELSE @]

\* Mutant: the key enters the cache only when the result is known.
ClaimNewLate(r) ==
  /\ r \in Writes /\ pc[r] = "precheck" /\ cache[Req[r].key] = "absent"
  /\ Cardinality(Held) < MaxEntries
  /\ claimed' = [claimed EXCEPT ![r] = TRUE]
  /\ pc' = [pc EXCEPT ![r] = IF Req[r].account \in RiskOn THEN "lockwait" ELSE "adapter"]
  /\ UNCHANGED <<job, fact, cache, print, marker, risk, wire, epoch>>

\* The key is taken before anything reaches the adapter.
ClaimNew(r) ==
  /\ r \in Writes /\ pc[r] = "precheck" /\ cache[Req[r].key] = "absent"
  /\ Cardinality(Held) < MaxEntries
  /\ cache' = [cache EXCEPT ![Req[r].key] = "pending"]
  /\ print' = [print EXCEPT ![Req[r].key] = Fingerprint(r)]
  /\ claimed' = [claimed EXCEPT ![r] = TRUE]
  /\ \/ Req[r].account \in RiskOn /\ pc' = [pc EXCEPT ![r] = "lockwait"] /\ UNCHANGED marker
     \/ Req[r].account \notin RiskOn /\ pc' = [pc EXCEPT ![r] = "adapter"] /\ EnterMark(r)
  /\ UNCHANGED <<job, fact, risk, wire, epoch>>

\* Mutant: the lock is not waited for.
AcquireLockShared(r) ==
  /\ pc[r] = "lockwait"
  /\ riskLock' = [riskLock EXCEPT ![Req[r].account] = r]
  /\ pc' = [pc EXCEPT ![r] = IF r \in Places /\ ~Req[r].priced THEN "adapter" ELSE "riskcheck"]
  /\ UNCHANGED <<job, fact, marker, trades, cancels, memory, wire, epoch>>

\* async with lock: a priced order goes on to query positions and assets, a
\* cancel to its check; an order without an estimate skips the check.
AcquireLock(r) ==
  /\ pc[r] = "lockwait" /\ riskLock[Req[r].account] = NoReq
  /\ riskLock' = [riskLock EXCEPT ![Req[r].account] = r]
  /\ \/ r \in Places /\ ~Req[r].priced /\ pc' = [pc EXCEPT ![r] = "adapter"]
     \/ (r \in Cancels \/ Req[r].priced) /\ pc' = [pc EXCEPT ![r] = "riskcheck"]
  /\ UNCHANGED <<job, fact, marker, trades, cancels, memory, wire, epoch>>

WorkerFree == ~SingleWorker \/ \A x \in Requests : job[x] \notin Busy

BelowLimit(r) == IF r \in Places THEN trades[Req[r].account] < MaxTrades
                                 ELSE cancels[Req[r].account] < MaxCancels

\* check_order reads positions and assets through the adapter's executor first.
RiskPass(r) ==
  /\ pc[r] = "riskcheck" /\ (r \in Places => WorkerFree) /\ BelowLimit(r)
  /\ pc' = [pc EXCEPT ![r] = "adapter"]
  /\ EnterMark(r)
  /\ UNCHANGED <<job, fact, risk, memory, wire, epoch>>

\* The daily count or any other rule refuses; the key stays taken.
RiskReject(r) ==
  /\ pc[r] = "riskcheck"
  /\ ReleaseLock(r)
  /\ AnswerWith(r, "failed")
  /\ UNCHANGED <<job, fact, trades, cancels, memory, born, epoch>>

-----------------------------------------------------------------------------
(* The adapter and its executor thread. *)

\* The adapter refuses with a result (consolidation gate) or raises (runtime
\* not ready, invalid lot, no price) before it hands anything to a thread.
AdapterRefuse(r) ==
  /\ r \in Writes /\ pc[r] = "adapter"
  /\ \E out \in {"failed", "coded"} \cup (IF r \in Places THEN {"rejected"} ELSE {}) :
       Complete(r, out)
  /\ UNCHANGED <<job, fact>>

Dispatch(r) ==
  /\ pc[r] = "adapter"
  /\ pc' = [pc EXCEPT ![r] = "await"]
  /\ job' = [job EXCEPT ![r] = "queued"]
  /\ marker' = [marker EXCEPT ![Req[r].session] = IF MarkInThread THEN @ ELSE "yes"]
  /\ UNCHANGED <<fact, risk, memory, wire, epoch>>

JobStart(r) ==
  /\ job[r] = "queued" /\ WorkerFree
  /\ job' = [job EXCEPT ![r] = "running"]
  /\ UNCHANGED <<pc, fact, marker, risk, memory, wire, epoch>>

\* The thread takes the marker out of the payload, unless the cancelled
\* coroutine's finally has already removed it.
JobTakeMarker(r) ==
  /\ job[r] = "running"
  /\ job' = [job EXCEPT ![r] =
               IF MarkInThread /\ r \in Places /\ pc[r] = "await" THEN "holding" ELSE "armed"]
  /\ UNCHANGED <<pc, fact, marker, risk, memory, wire, epoch>>

\* ... and calls it: the fact lands on the session, whatever it serves now.
JobMark(r) ==
  /\ job[r] = "holding"
  /\ job' = [job EXCEPT ![r] = "armed"]
  /\ marker' = [marker EXCEPT ![Req[r].session] = "yes"]
  /\ UNCHANGED <<pc, fact, risk, memory, wire, epoch>>

\* The native order or cancel call: from here the counter may have it.
JobNative(r) ==
  /\ job[r] = "armed"
  /\ job' = [job EXCEPT ![r] = "called"]
  /\ fact' = [fact EXCEPT ![r] = "entered"]
  /\ UNCHANGED <<pc, marker, risk, memory, wire, epoch>>

\* Mutant: an order response that does not arrive in time counts as a rejection.
OutcomesTimeoutRejects(r) ==
  IF job[r] # "called" THEN {} ELSE
  IF r \in Places /\ fact[r] \in Ordered THEN {"accepted"} ELSE {"rejected"}

\* Mutant: a cancel the counter did not refuse counts as done.
OutcomesCancelSent(r) ==
  IF job[r] # "called" THEN {} ELSE
  IF fact[r] = "refused" THEN {"rejected"} ELSE {"accepted"}

\* What the adapter can return or raise, given what it can have seen.
Outcomes(r) ==
  CASE job[r] = "running" /\ MarkInThread /\ r \in Places -> {"rejected", "failed", "coded"}
    [] job[r] \in {"running", "armed"} -> {"failed", "coded"}
    [] job[r] = "called" /\ r \in Places ->
         {"unknown"} \cup NativeErrors
           \cup (IF fact[r] \in Ordered THEN {"accepted"} ELSE {})
           \cup (IF fact[r] \in {"refused", "void"} THEN {"rejected"} ELSE {})
    [] job[r] = "called" /\ r \in Cancels ->
         {"unknown"} \cup NativeErrors
           \cup (IF fact[Req[r].about] = "canceled" THEN {"accepted"} ELSE {})
           \cup (IF fact[r] = "refused" \/ fact[Req[r].about] \in {"filled", "void"}
                 THEN {"rejected"} ELSE {})
    [] OTHER -> {}

\* The thread ends while the coroutine still awaits it.
JobReturn(r) ==
  /\ r \in Writes /\ pc[r] = "await"
  /\ \E out \in Outcomes(r) : Complete(r, out)
  /\ job' = [job EXCEPT ![r] = "done"]
  /\ UNCHANGED fact

\* The thread ends after the coroutine was cancelled: nobody takes the result.
OrphanReturn(r) ==
  /\ pc[r] # "await" /\ Outcomes(r) # {}
  /\ job' = [job EXCEPT ![r] = "done"]
  /\ UNCHANGED <<pc, fact, marker, risk, memory, wire, epoch>>

-----------------------------------------------------------------------------
(* The counter, outside this repository: what it may do with a native call. *)

CounterPlace(r) ==
  /\ r \in Places /\ fact[r] = "entered"
  /\ \E f \in {"live", "refused"} : fact' = [fact EXCEPT ![r] = f]
  /\ UNCHANGED <<pc, job, marker, risk, memory, wire, epoch>>

\* Filled, refused late, or canceled by the counter itself (what an order of
\* immediate execution leaves over).
CounterEnd(r) ==
  /\ r \in Places /\ fact[r] = "live"
  /\ \E f \in {"filled", "void", "canceled"} : fact' = [fact EXCEPT ![r] = f]
  /\ UNCHANGED <<pc, job, marker, risk, memory, wire, epoch>>

CounterCancel(r) ==
  /\ r \in Cancels /\ fact[r] = "entered"
  /\ \/ /\ fact[Req[r].about] = "live"
        /\ fact' = [fact EXCEPT ![r] = "landed", ![Req[r].about] = "canceled"]
     \/ fact' = [fact EXCEPT ![r] = "refused"]
  /\ UNCHANGED <<pc, job, marker, risk, memory, wire, epoch>>

-----------------------------------------------------------------------------
(* resolve_submission. *)

\* The fingerprint of the write a resolve names, with the payload it repeats.
AskedPrint(q) == <<Req[Req[q].about].action, Req[q].body>>

Mismatch(q) ==
  LET entry == print[Req[q].key] IN
  IF Req[q].body = NoBody THEN entry[1] # Req[Req[q].about].action ELSE entry # AskedPrint(q)

ReceiveResolve(q) ==
  /\ q \in Resolves /\ pc[q] = "new" /\ Idle(Req[q].session)
  /\ born' = [born EXCEPT ![q] = epoch]
  /\ LET entry == cache[Req[q].key] IN
     \/ /\ entry # "absent" /\ Mismatch(q)
        /\ Answer(q, "conflict", "unsaid")
     \/ /\ entry \in Final /\ ~Mismatch(q)
        /\ Answer(q, entry, "unsaid")
     \/ /\ entry = "absent" \/ (entry = "pending" /\ ~Mismatch(q))
        /\ pc' = [pc EXCEPT ![q] = "asking"]
        /\ marker' = [marker EXCEPT ![Req[q].session] = "unset"]
        /\ UNCHANGED reply
  /\ UNCHANGED <<job, fact, risk, memory, epoch>>

\* A row of the order list carries the key and shows security, side and amount;
\* a resolve that repeats no payload matches no order.
Matches(q, p) == /\ Req[p].key = Req[q].key /\ Req[q].body # NoBody
                 /\ Contract[Req[p].body] = Contract[Req[q].body]

\* Mutant: an order counts as found as soon as its native call was made.
MatchingSent(q) == {p \in Places : Matches(q, p) /\ fact[p] # "none"}

\* Orders on the counter's book that match what the resolve asks about.
MatchingOrders(q) == {p \in Places : Matches(q, p) /\ fact[p] \in Ordered}

\* The verdict of _format_order_evidence on an order's status.
Evidence(q) ==
  LET w == Req[q].about IN
  IF w \in Cancels
  THEN CASE fact[Req[w].about] = "canceled"          -> "accepted"
         [] fact[Req[w].about] \in {"filled", "void"} -> "rejected"
         [] OTHER                                     -> "unknown"
  ELSE IF Cardinality(MatchingOrders(q)) # 1 THEN "unknown"
  ELSE IF \E p \in MatchingOrders(q) : fact[p] = "void" THEN "rejected" ELSE "accepted"

\* The order query answers after the cache was read; a query that fails or
\* finds nothing leaves the write unknown.
ResolveOrders(q) ==
  /\ pc[q] = "asking" /\ WorkerFree
  /\ \E out \in {Evidence(q), "unknown"} : AnswerWith(q, out)
  /\ UNCHANGED <<job, fact, risk, memory, born, epoch>>

-----------------------------------------------------------------------------
(* Timeout and restart. *)

\* Mutant: an unset marker is reported as proof that the broker was not called.
TimeoutSaysNo(r) ==
  /\ pc[r] \in InFlight
  /\ Answer(r, "timeout", Marked(r))
  /\ ReleaseLock(r)
  /\ job' = [job EXCEPT ![r] = IF @ = "queued" THEN "dropped" ELSE @]
  /\ UNCHANGED <<fact, trades, cancels, memory, born, epoch>>

\* Mutant: the lock is not released on cancellation.
TimeoutKeepsLock(r) ==
  /\ pc[r] \in InFlight
  /\ Answer(r, "timeout", "unsaid")
  /\ job' = [job EXCEPT ![r] = IF @ = "queued" THEN "dropped" ELSE @]
  /\ UNCHANGED <<fact, risk, memory, born, epoch>>

\* wait_for cancels the coroutine wherever it is suspended: the lock is
\* released, a queued job is cancelled, a started one runs on unobserved.
Timeout(r) ==
  /\ pc[r] \in InFlight
  /\ Answer(r, "timeout", IF marker[Req[r].session] = "yes" THEN "yes" ELSE "unsaid")
  /\ ReleaseLock(r)
  /\ job' = [job EXCEPT ![r] = IF @ = "queued" THEN "dropped" ELSE @]
  /\ UNCHANGED <<fact, trades, cancels, memory, born, epoch>>

\* The process dies and starts again: everything it held in memory is gone.
Restart ==
  /\ epoch < MaxEpoch
  /\ epoch' = epoch + 1
  /\ pc' = [r \in Requests |-> IF pc[r] \in InFlight THEN "lost" ELSE pc[r]]
  /\ job' = [r \in Requests |-> IF job[r] \in Busy \cup {"queued"} THEN "dropped" ELSE job[r]]
  /\ cache' = [k \in Keys |-> "absent"]
  /\ print' = [k \in Keys |-> NoPrint]
  /\ marker' = [s \in Sessions |-> "unset"]
  /\ riskLock' = [a \in Accounts |-> NoReq]
  /\ trades' = [a \in Accounts |-> 0]
  /\ cancels' = [a \in Accounts |-> 0]
  /\ UNCHANGED <<fact, reply, claimed, born>>

-----------------------------------------------------------------------------
Session(r) ==
  \/ ReceiveWrite(r) \/ PrecheckFail(r) \/ ClaimHit(r) \/ ClaimFull(r) \/ ClaimNew(r)
  \/ AcquireLock(r) \/ RiskPass(r) \/ RiskReject(r)
  \/ AdapterRefuse(r) \/ Dispatch(r)
  \/ ReceiveResolve(r) \/ ResolveOrders(r) \/ Timeout(r)

Thread(r) ==
  \/ JobStart(r) \/ JobTakeMarker(r) \/ JobMark(r) \/ JobNative(r)
  \/ JobReturn(r) \/ OrphanReturn(r)

Counter(r) == CounterPlace(r) \/ CounterEnd(r) \/ CounterCancel(r)

Next == (\E r \in Requests : Session(r) \/ Thread(r) \/ Counter(r)) \/ Restart

Spec == Init /\ [][Next]_vars

(***************************************************************************)
(* Fairness: asyncio.wait_for fires for every request that stays in        *)
(* flight.  Nothing is assumed of the native thread or of the counter,     *)
(* which may hang for ever.                                                *)
(***************************************************************************)
FairSpec == Spec /\ \A r \in Requests : WF_vars(Timeout(r))

-----------------------------------------------------------------------------
(* Properties. *)

SameKey(r, s) == Req[r].key = Req[s].key /\ born[r] = born[s]

(***************************************************************************)
(* Within one server run a key reaches the counter at most once, whatever  *)
(* times out, is retried on another session, or outlives its coroutine in  *)
(* the executor (_claim_idempotent_write before the adapter).              *)
(***************************************************************************)
AtMostOneNativeCall ==
  \A r, s \in Writes :
    r # s /\ SameKey(r, s) /\ fact[r] # "none" => fact[s] = "none"

(***************************************************************************)
(* An error that says broker_called=false is true for ever: the write has  *)
(* not reached the counter and no thread is left that could still send it  *)
(* (the marker and the timeout's silence in session._loop).                *)
(***************************************************************************)
NotCalledIsTrue ==
  \A r \in Requests :
    reply[r].called = "no" => fact[r] = "none" /\ job[r] \notin Busy \cup {"queued"}

(***************************************************************************)
(* A definite answer about an order is true of the counter, also when it   *)
(* is replayed to another session or comes from resolve_submission:        *)
(* accepted means an order of that key is on the book, to the write with   *)
(* its very payload and to a resolve with the security, side and amount    *)
(* that the resolve repeats, if it repeats any                             *)
(* (_order_matches_submission_contract); rejected means that no order this *)
(* run sent for the key will ever be alive.                                *)
(***************************************************************************)
About(r) == IF r \in Resolves THEN Req[r].about ELSE r

Answers(p, r) ==
  /\ Req[p].key = Req[r].key /\ fact[p] \in Ordered
  /\ IF r \in Resolves THEN Req[r].body = NoBody \/ Matches(r, p) ELSE Req[p].body = Req[r].body

PlaceAnswerTrue ==
  \A r \in Requests : About(r) \in Places /\ reply[r].out = "accepted" =>
    \E p \in Places : Answers(p, r)

RejectedStaysDead ==
  \A r \in Requests : About(r) \in Places /\ reply[r].out = "rejected" =>
    \A p \in Places : SameKey(p, r) => fact[p] \in {"none", "refused", "void"}

(***************************************************************************)
(* A cancel answered as done, or resolved as accepted, is one whose exact  *)
(* order is canceled: a filled order is never reported as canceled         *)
(* (_enforce_cancel_result_semantics, _format_order_evidence).             *)
(***************************************************************************)
CancelAnswerTrue ==
  \A r \in Requests : About(r) \in Cancels /\ reply[r].out = "accepted" =>
    fact[Req[About(r)].about] = "canceled"

\* The payload that a cancel's fingerprint covers names the order: whatever asks
\* about a cancel of the same key and payload asks about the same order
\* (order_id in _build_write_fingerprint; a resolve repeats it).
CancelsNameOrders ==
  \A w \in Cancels, r \in Requests :
    /\ About(r) \in Cancels /\ Req[w].key = Req[r].key
    /\ Req[r].body \in {Req[w].body, NoBody}
    => Req[About(r)].about = Req[w].about

(***************************************************************************)
(* The daily counters stay within their limits although the check and the  *)
(* record are an adapter call apart: the account's lock spans both.        *)
(***************************************************************************)
CountsWithinLimits ==
  \A a \in RiskOn : trades[a] <= MaxTrades /\ cancels[a] <= MaxCancels

(***************************************************************************)
(* The strengthening that makes AtMostOneNativeCall and NotCalledIsTrue    *)
(* inductive.  Keys: a claimed key stays in the cache of its run, and no   *)
(* two requests of a run claim the same key.                               *)
(***************************************************************************)
KeysClaimed ==
  \A r \in Requests :
    /\ born[r] <= epoch
    /\ claimed[r] /\ born[r] = epoch => cache[Req[r].key] # "absent"
    /\ \A s \in Requests : claimed[r] /\ claimed[s] /\ SameKey(r, s) => r = s

\* Only a claimed request has a job or a trace at the counter.
ClaimedFirst ==
  \A r \in Requests :
    /\ job[r] # "none" \/ fact[r] # "none" => claimed[r]
    /\ claimed[r] => r \in Writes
    /\ pc[r] \in {"new", "precheck"} => ~claimed[r]
    /\ pc[r] = "asking" => r \in Resolves
    /\ pc[r] \in InFlight => born[r] = epoch
    /\ pc[r] \in {"lockwait", "riskcheck", "adapter", "await"} => r \in Writes /\ claimed[r]
    /\ pc[r] \in {"lockwait", "riskcheck", "adapter"} => job[r] = "none"
    /\ job[r] \in {"none", "queued", "running", "holding", "armed"} => fact[r] = "none"

\* A session serves one request, and knows when the thread is past the marker.
MarkedInTime ==
  /\ \A r, s \in Requests : pc[r] \in InFlight /\ pc[s] \in InFlight
                            /\ Req[r].session = Req[s].session => r = s
  /\ \A r \in Requests :
       /\ pc[r] = "adapter" /\ r \in Cancels => marker[Req[r].session] = "yes"
       /\ pc[r] = "await" /\ marker[Req[r].session] # "yes" =>
            MarkInThread /\ r \in Places /\ job[r] \in {"queued", "running", "holding"}
       /\ reply[r].called = "no" => pc[r] = "answered"

\* A request that is not answered has no answer; what runs in the executor was
\* read in this run, and has left its trace once it is past the native call.
JobsOfRun ==
  \A r \in Requests :
    /\ pc[r] # "answered" => reply[r].out = "none"
    /\ job[r] \in Busy \cup {"queued"} => born[r] = epoch
    /\ job[r] = "called" => fact[r] # "none"

\* The key of a write that is under way, in its coroutine or in a thread nobody
\* waits for, is still open.
KeyOpen ==
  \A r \in Requests :
    pc[r] \in {"lockwait", "riskcheck", "adapter", "await"} \/ job[r] \in Busy \cup {"queued"} =>
      cache[Req[r].key] = "pending"

\* From the check to the record the account's lock is held by who was checked, so
\* what it found is still so when it is counted.
LockSpans ==
  \A r \in Requests : Req[r].account \in RiskOn =>
    /\ pc[r] \in {"riskcheck", "adapter", "await"} => riskLock[Req[r].account] = r
    /\ pc[r] \in {"adapter", "await"} /\ r \in Places /\ Req[r].priced =>
         trades[Req[r].account] < MaxTrades
    /\ pc[r] \in {"adapter", "await"} /\ r \in Cancels => cancels[Req[r].account] < MaxCancels

\* What the cache calls accepted is an order on the book with the payload stored.
StoredIsOrdered ==
  \A k \in Keys : cache[k] = "accepted" /\ print[k][1] = "place" =>
    \E p \in Places : Req[p].key = k /\ Req[p].body = print[k][2] /\ fact[p] \in Ordered

IInv ==
  /\ TypeOK /\ KeysClaimed /\ ClaimedFirst /\ MarkedInTime /\ NotCalledIsTrue
  /\ JobsOfRun /\ KeyOpen /\ LockSpans /\ CountsWithinLimits
  /\ StoredIsOrdered /\ PlaceAnswerTrue

(***************************************************************************)
(* The server keeps the promise of WriteOnce.  A key is sent when a write  *)
(* of the current run reached the counter with it; its verdict is the      *)
(* final entry of the cache; what was told are the definite replies.       *)
(***************************************************************************)
Current(k) == {r \in Writes : Req[r].key = k /\ born[r] = epoch}

Promise == INSTANCE WriteOnce WITH
  sent    <- [k \in Keys |-> \E r \in Current(k) : fact[r] # "none"],
  verdict <- [k \in Keys |-> IF cache[k] \in Final THEN cache[k] ELSE "open"],
  told    <- [k \in Keys |-> {reply[r].out : r \in Current(k)} \cap Final]

KeepsPromise == Promise!Spec

(***************************************************************************)
(* No account's risk lock is held for ever, even when native calls hang:   *)
(* every way out of the section under the lock, the cancellation by the    *)
(* session's timeout included, gives it back                               *)
(* (_place_order_with_server_risk).                                        *)
(***************************************************************************)
LockIsReleased ==
  \A a \in Accounts, r \in Requests : (riskLock[a] = r) ~> (riskLock[a] # r)
=============================================================================
