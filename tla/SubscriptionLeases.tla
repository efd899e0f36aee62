------------------------- MODULE SubscriptionLeases -------------------------
(***************************************************************************)
(* SubscriptionLeaseManager and SubscriptionActionCoordinator as the feed  *)
(* drives them: leases of whole markets (full scopes) and of symbols       *)
(* (partial scopes) are merged into one set of adapter subscriptions, and  *)
(* the difference to what the vendor confirmed is dispatched as actions.   *)
(* The feed's threads take turns (_delivery_lock); the vendor answers on a *)
(* thread of its own or inside submit, late, wrongly ordered or never, and *)
(* whichever thread pumps, the other may act between any two of its steps. *)
(***************************************************************************)
EXTENDS Naturals, FiniteSets

CONSTANTS
  Leases,       \* subscription ids
  Scopes,       \* adapter scopes
  Full,         \* the scopes without a symbol: a whole market
  GroupOf,      \* module, event type and market of a scope
  ScopesOf,     \* initial_scopes of each lease
  MaxActions,   \* bound: adapter actions ever planned
  MaxEpoch,     \* bound: connects and disconnects
  MaxFaults     \* bound: refusals, denials, expiries, lost and early answers

Ops == {"subscribe", "unsubscribe"}
Threads == {"feed", "vendor"}
Reasons == {"establish", "release", "full_to_partial", "partial_to_full"}
Action == [id : 1..MaxActions, epoch : 0..MaxEpoch, op : Ops, scope : Scopes, why : Reasons]
NoAction == [id |-> 0]

ASSUME ScopesAssumption ==
  /\ Full \subseteq Scopes /\ DOMAIN GroupOf = Scopes
  /\ \A s, t \in Full : GroupOf[s] = GroupOf[t] => s = t
  /\ ScopesOf \in [Leases -> SUBSET Scopes \ {{}}]
  /\ MaxActions \in Nat /\ MaxEpoch \in Nat /\ MaxFaults \in Nat /\ IsFiniteSet(Scopes)

VARIABLES
  asked,      \* epoch that a subscribe or unsubscribe under way has seen, or 0
  known,      \* leases in _leases, tombstones included
  active,     \* active_scopes of each lease
  sent,       \* _sent
  confirmed,  \* _confirmed
  planned,    \* _planned
  inflight,   \* _inflight, and _waiting of the coordinator
  uncertain,  \* _uncertain, of both
  failures,   \* keys of _failures
  seq,        \* _action_sequence
  epoch,      \* _session_epoch
  connected,  \* the feed is connected
  pc,         \* where each thread is in pump()
  again,      \* _redispatch_requested
  todo, cur,  \* the pumping thread's batch, and the action it submits
  skipped,    \* history: a dispatch that was due has been given up
  truth,      \* scopes the vendor really pushes on this connection
  wire,       \* accepted actions the vendor has not carried out
  did,        \* actions it has carried out
  answers,    \* callbacks still to come
  faults      \* what went wrong so far

lease  == <<known, active, asked>>
book   == <<sent, confirmed, planned, inflight, uncertain, failures>>
pump   == <<pc, again, todo, cur, skipped>>
vendor == <<truth, wire, did, answers, faults>>
vars   == <<lease, book, seq, epoch, connected, pump, vendor>>

\* Plans and actions under way are of the current epoch.
Current == {a \in Action : a.epoch = epoch}

LeaseOK ==
  /\ asked \in [Leases -> 0..MaxEpoch] /\ known \subseteq Leases /\ active \in [Leases -> SUBSET Scopes]

BookOK ==
  /\ sent \subseteq Scopes /\ confirmed \subseteq Scopes
  /\ planned \subseteq Current /\ inflight \subseteq Current /\ uncertain \subseteq Current
  /\ failures \subseteq Ops \X Scopes
  /\ seq \in 0..MaxActions /\ epoch \in 0..MaxEpoch /\ connected \in BOOLEAN

PumpOK ==
  /\ pc \in [Threads -> {"idle", "pump", "take", "batch", "submit", "finish"}]
  /\ again \in BOOLEAN /\ skipped \in BOOLEAN
  /\ todo \subseteq Action /\ cur \in Action \cup {NoAction}

VendorOK ==
  /\ truth \subseteq Scopes /\ wire \subseteq Action /\ did \subseteq Action
  /\ answers \subseteq Action \X {"confirmed", "rejected"} /\ faults \in 0..MaxFaults

TypeOK == LeaseOK /\ BookOK /\ PumpOK /\ VendorOK

Init ==
  /\ asked = [l \in Leases |-> 0] /\ known = {} /\ active = [l \in Leases |-> {}]
  /\ sent = {} /\ confirmed = {} /\ planned = {} /\ inflight = {} /\ uncertain = {}
  /\ failures = {} /\ seq = 0 /\ epoch = 0 /\ connected = FALSE
  /\ pc = [t \in Threads |-> "idle"] /\ again = FALSE /\ todo = {} /\ cur = NoAction
  /\ skipped = FALSE
  /\ truth = {} /\ wire = {} /\ did = {} /\ answers = {} /\ faults = 0

-----------------------------------------------------------------------------
Fault == faults < MaxFaults /\ faults' = faults + 1

(* What is wanted, and what may be removed. *)

Covers(s, o) == GroupOf[s] = GroupOf[o] /\ (s \in Full \/ s = o)
Overlaps(s, o) == GroupOf[s] = GroupOf[o] /\ (s \in Full \/ o \in Full \/ s = o)

Desired == UNION {active[l] : l \in Leases}

\* Mutant: an action in doubt does not count.
OthersKnown(plans, a) == (plans \cup inflight) \ {a}

\* Actions of planned, inflight and uncertain, but for the excluded one.
Others(plans, a) == (plans \cup inflight \cup uncertain) \ {a}
HasActive(plans, op, s, a) == \E b \in Others(plans, a) : b.op = op /\ b.scope = s

\* Groups whose full scope was rejected: their partial scopes are wanted then.
RejectedFull(plans) ==
  {s \in Full : /\ <<"subscribe", s>> \in failures /\ s \in Desired \ confirmed
                /\ ~HasActive(plans, "subscribe", s, NoAction)}

Effective(plans) ==
  LET rejected == {GroupOf[s] : s \in RejectedFull(plans)}
      full     == {GroupOf[s] : s \in Full \cap Desired}
  IN {s \in Desired : IF s \in Full THEN GroupOf[s] \notin rejected
                      ELSE GroupOf[s] \notin full \/ GroupOf[s] \in rejected}

\* Confirmed scopes that no pending removal threatens.
Stable(plans, a) == confirmed \ {b.scope : b \in {b \in Others(plans, a) : b.op = "unsubscribe"}}

\* Mutant: whatever is not wanted may be removed.
CanRemoveAlways(plans, s, a) == TRUE

CanRemove(plans, s, a) ==
  \A o \in {o \in Desired : Overlaps(s, o)} :
    \E c \in Stable(plans, a) \ {s} : Covers(c, IF o \in Full /\ s \notin Full THEN s ELSE o)

Why(op, s) ==
  IF op = "subscribe"
  THEN IF \E c \in confirmed : GroupOf[c] = GroupOf[s] /\ (c \in Full) # (s \in Full)
       THEN IF s \in Full THEN "partial_to_full" ELSE "full_to_partial"
       ELSE "establish"
  ELSE IF \E o \in Desired : Overlaps(s, o) /\ (o \in Full) # (s \in Full)
       THEN IF s \in Full THEN "full_to_partial" ELSE "partial_to_full"
       ELSE "release"

\* _is_action_currently_needed, for an action of this epoch and revision.
Needed(a) ==
  /\ <<a.op, a.scope>> \notin failures /\ ~HasActive(planned, a.op, a.scope, a)
  /\ a.why = Why(a.op, a.scope)
  /\ IF a.op = "subscribe"
     THEN a.scope \in Effective(planned) \ sent
     ELSE a.scope \in confirmed \ Effective(planned) /\ CanRemove(planned, a.scope, a)

\* _purge_obsolete_subscribe_state: what is still of use of sent and failures.
Kept(want, conf, acts) == want \cup conf \cup {a.scope : a \in acts}
KeptFailures(fails, kept) == {f \in fails : f[1] = "unsubscribe" \/ f[2] \in kept}

-----------------------------------------------------------------------------
(* Lease operations, on the feed's thread; the feed pumps when connected. *)

Goto(t, where) == pc' = [pc EXCEPT ![t] = where]
ThenPump(now) == Goto("feed", IF now THEN "pump" ELSE "idle")

\* Mutant: the subscription in flight is forgotten with its lease.
AdvanceForgets(want) ==
  /\ planned' = {}
  /\ failures' = KeptFailures(failures, Kept(want, confirmed, {}))
  /\ sent' = sent \cap Kept(want, confirmed, {})
  /\ UNCHANGED <<confirmed, inflight, uncertain>>

\* The intent changed: plans that were not claimed are void, and what is
\* neither wanted nor in doubt is forgotten.
Advance(want) ==
  LET kept == Kept(want, confirmed, inflight \cup uncertain) IN
  /\ planned' = {}
  /\ failures' = KeptFailures(failures, kept)
  /\ sent' = sent \cap kept
  /\ UNCHANGED <<confirmed, inflight, uncertain>>

Become(leases, acts) ==
  /\ known' = leases /\ active' = acts
  /\ Advance(UNION {acts[l] : l \in Leases})

\* subscribe and unsubscribe read the epoch before they wait for the lock.
Ask(l) ==
  /\ asked[l] = 0
  /\ IF l \in known THEN active[l] # {} ELSE connected
  /\ asked' = [asked EXCEPT ![l] = epoch]
  /\ UNCHANGED <<known, active, book, seq, epoch, connected, pump, vendor>>

\* The call dispatches only if it is still the epoch that it has read.
Answered(l) ==
  /\ asked' = [asked EXCEPT ![l] = 0]
  /\ ThenPump(connected /\ asked[l] = epoch)
  /\ skipped' = (skipped \/ (connected /\ asked[l] # epoch))
  /\ UNCHANGED <<seq, epoch, connected, again, todo, cur, vendor>>

AddLease(l) ==
  /\ pc["feed"] = "idle" /\ asked[l] # 0 /\ l \notin known
  /\ Become(known \cup {l}, [active EXCEPT ![l] = ScopesOf[l]])
  /\ Answered(l)

RemoveLease(l) ==
  /\ pc["feed"] = "idle" /\ asked[l] # 0 /\ active[l] # {}
  /\ Become(known, [active EXCEPT ![l] = {}])
  /\ Answered(l)

\* The feed has one session: every lease goes, once no call is under way.
CloseSession ==
  /\ pc["feed"] = "idle" /\ known # {} /\ \A l \in Leases : asked[l] = 0
  /\ IF Desired # {}
     THEN Become({}, [l \in Leases |-> {}])
     ELSE LET kept == Kept({}, confirmed, inflight \cup uncertain) IN
          /\ known' = {} /\ failures' = KeptFailures(failures, kept) /\ sent' = sent \cap kept
          /\ UNCHANGED <<active, confirmed, planned, inflight, uncertain>>
  /\ ThenPump(connected)
  /\ UNCHANGED <<asked, seq, epoch, connected, again, todo, cur, skipped, vendor>>

\* retry_subscription: the failures of a lease are cleared.
RetryFailed(l) ==
  LET latched == {f \in failures : f[2] \in ScopesOf[l]} IN
  /\ pc["feed"] = "idle" /\ connected /\ l \in known /\ latched # {}
  /\ failures' = failures \ latched
  /\ sent' = sent \ ({f[2] : f \in {f \in latched : f[1] = "subscribe"}} \ confirmed)
  /\ Goto("feed", "pump")
  /\ UNCHANGED <<lease, confirmed, planned, inflight, uncertain, seq, epoch, connected, again,
                 todo, cur, skipped, vendor>>

\* connect and disconnect begin a new epoch: the leases stay, every proof of
\* what was sent or confirmed goes.  The vendor's side starts from nothing.
BeginEpoch ==
  /\ pc["feed"] = "idle" /\ epoch < MaxEpoch
  /\ epoch' = epoch + 1 /\ connected' = ~connected
  /\ sent' = {} /\ confirmed' = {} /\ planned' = {} /\ inflight' = {} /\ uncertain' = {}
  /\ failures' = {}
  /\ Goto("feed", IF connected THEN "idle" ELSE "pump")
  /\ truth' = {} /\ wire' = {} /\ did' = {}
  /\ UNCHANGED <<lease, seq, again, todo, cur, skipped, answers, faults>>

-----------------------------------------------------------------------------
(* What became of an action. *)

\* A callback while the action is in flight or in doubt.
Land(a, out) ==
  LET fails == IF out = "rejected" THEN failures \cup {<<a.op, a.scope>>}
               ELSE failures \ {<<a.op, a.scope>>}
      conf  == IF out = "rejected" THEN confirmed
               ELSE IF a.op = "subscribe" THEN confirmed \cup {a.scope} ELSE confirmed \ {a.scope}
      snt   == IF out = "rejected"
               THEN IF a.op = "subscribe" THEN sent \ {a.scope} ELSE sent
               ELSE IF a.op = "subscribe" THEN sent \cup {a.scope} ELSE sent \ {a.scope}
      kept  == Kept(Desired, conf, (inflight \cup uncertain) \ {a})
  IN
  /\ confirmed' = conf
  /\ inflight' = inflight \ {a} /\ uncertain' = uncertain \ {a}
  /\ IF out = "rejected"
     THEN failures' = KeptFailures(fails, kept) /\ sent' = snt \cap kept
     ELSE failures' = fails /\ sent' = snt
  /\ UNCHANGED planned

\* Mutant: the answer of an earlier epoch is taken for one of this epoch.
CurrentAnswerStale(a) == a \in inflight \cup uncertain \/ a.epoch < epoch

\* The callback of an older epoch, or of an action that was reconciled, raises.
CurrentAnswer(a) == a \in inflight \cup uncertain

Deliver(a, out) ==
  /\ pc["vendor"] = "idle" /\ <<a, out>> \in answers
  /\ answers' = answers \ {<<a, out>>} /\ did' = did \ {a}
  /\ IF CurrentAnswer(a)
     THEN Land(a, out) /\ Goto("vendor", "pump")
     ELSE UNCHANGED <<book, pc>>
  /\ UNCHANGED <<lease, seq, epoch, connected, again, todo, cur, skipped, truth, wire,
                 faults>>

\* No answer within the deadline.
Expire(a) ==
  /\ a \in inflight /\ Fault
  /\ inflight' = inflight \ {a} /\ uncertain' = uncertain \cup {a}
  /\ UNCHANGED <<lease, sent, confirmed, planned, failures, seq, epoch, connected, pump,
                 truth, wire, did, answers>>

\* Evidence of the vendor, once it will not change any more: whether the action
\* was carried out.
Reconcile(a) ==
  LET applied == a \in did
      on      == (a.op = "subscribe") = applied
  IN
  /\ pc["feed"] = "idle" /\ a \in uncertain \ wire /\ a # cur
  /\ uncertain' = uncertain \ {a}
  /\ sent' = IF a.op = "unsubscribe" /\ ~applied THEN sent
             ELSE IF on THEN sent \cup {a.scope} ELSE sent \ {a.scope}
  /\ confirmed' = IF a.op = "unsubscribe" /\ ~applied THEN confirmed
                  ELSE IF on THEN confirmed \cup {a.scope} ELSE confirmed \ {a.scope}
  /\ failures' = failures \ {<<a.op, a.scope>>}
  /\ did' = did \ {a}
  /\ Goto("feed", "pump")
  /\ UNCHANGED <<lease, planned, inflight, seq, epoch, connected, again, todo, cur, skipped,
                 truth, wire, answers, faults>>

-----------------------------------------------------------------------------
(* pump(). *)

Dispatching == \E t \in Threads : pc[t] \in {"take", "batch", "submit", "finish"}

\* Mutant: a pump that finds another one running is not remembered.
EnterDrops(t) ==
  /\ pc[t] = "pump"
  /\ Goto(t, IF Dispatching THEN "idle" ELSE "take")
  /\ again' = FALSE
  /\ UNCHANGED <<lease, book, seq, epoch, connected, todo, cur, skipped, vendor>>

Enter(t) ==
  /\ pc[t] = "pump"
  /\ Goto(t, IF Dispatching THEN "idle" ELSE "take")
  /\ again' = Dispatching
  /\ UNCHANGED <<lease, book, seq, epoch, connected, todo, cur, skipped, vendor>>

\* What is wanted and not sent, and what is confirmed and not wanted, unless it
\* is latched or under way.  A group has one full scope, so no removal of a
\* batch counts on another one's scope.
Missing(plans) ==
  LET want == Effective(plans)
      free(op, s) == <<op, s>> \notin failures /\ ~HasActive(plans, op, s, NoAction)
  IN ({"subscribe"} \X {s \in want \ sent : free("subscribe", s)})
     \cup ({"unsubscribe"} \X {s \in confirmed \ want :
                                 free("unsubscribe", s) /\ CanRemove(plans, s, NoAction)})

Numbering(new) == CHOOSE f \in [new -> (seq + 1)..(seq + Cardinality(new))] :
                    \A x, y \in new : f[x] = f[y] => x = y

\* take_actions: plans that are still needed stay, what is missing is planned.
Take(t) ==
  LET old  == {a \in planned : Needed(a)}
      new  == Missing(old)
      plan == old \cup {[id |-> Numbering(new)[x], epoch |-> epoch, op |-> x[1], scope |-> x[2],
                         why |-> Why(x[1], x[2])] : x \in new}
  IN
  /\ pc[t] = "take" /\ seq + Cardinality(new) <= MaxActions
  /\ seq' = seq + Cardinality(new)
  /\ planned' = plan /\ todo' = plan
  /\ Goto(t, IF plan = {} THEN "finish" ELSE "batch")
  /\ skipped' = (skipped /\ plan # {})
  /\ UNCHANGED <<lease, sent, confirmed, inflight, uncertain, failures, epoch, connected, again,
                 cur, vendor>>

\* An exception leaves pump() by its finally: the request to pump again goes too.
Abort(t) ==
  /\ Goto(t, "idle")
  /\ again' = FALSE /\ todo' = {} /\ cur' = NoAction /\ skipped' = TRUE

\* Subscriptions come first.
First(a) == a \in todo /\ (a.op = "unsubscribe" => \A b \in todo : b.op = "unsubscribe")

Claim(t, a) ==
  /\ pc[t] = "batch" /\ First(a) /\ a \in planned /\ Needed(a)
  /\ planned' = planned \ {a} /\ inflight' = inflight \cup {a}
  /\ sent' = IF a.op = "subscribe" THEN sent \cup {a.scope} ELSE sent
  /\ Goto(t, "submit") /\ todo' = todo \ {a} /\ cur' = a
  /\ UNCHANGED <<lease, confirmed, uncertain, failures, seq, epoch, connected, again, skipped,
                 vendor>>

\* The epoch or the leases changed since take_actions, or it is needed no more.
ClaimStale(t, a) ==
  /\ pc[t] = "batch" /\ First(a) /\ ~(a \in planned /\ Needed(a))
  /\ planned' = planned \ {a}
  /\ Abort(t)
  /\ UNCHANGED <<lease, sent, confirmed, inflight, uncertain, failures, seq, epoch, connected,
                 vendor>>

Submitted(t) == Goto(t, IF todo = {} THEN "take" ELSE "batch") /\ cur' = NoAction

\* The adapter serves the connection of the action's epoch.
Reaches(a) == connected /\ a.epoch = epoch

\* Accepted: the answer will come on the vendor's thread.
Submit(t) ==
  /\ pc[t] = "submit" /\ Submitted(t)
  /\ wire' = IF Reaches(cur) THEN wire \cup {cur} ELSE wire
  /\ UNCHANGED <<lease, book, seq, epoch, connected, again, todo, skipped, truth, did, answers,
                 faults>>

Carried(a) == IF a.op = "subscribe" THEN truth \cup {a.scope} ELSE truth \ {a.scope}

\* Answered inside submit, whose nested pump finds this one running.
SubmitAnswered(t, out) ==
  /\ pc[t] = "submit" /\ Reaches(cur) /\ CurrentAnswer(cur) /\ Submitted(t)
  /\ truth' = IF out = "confirmed" THEN Carried(cur) ELSE truth
  /\ Land(cur, out)
  /\ again' = TRUE /\ Fault
  /\ UNCHANGED <<lease, seq, epoch, connected, todo, skipped, wire, did, answers>>

\* accepted = False.
SubmitRefused(t) ==
  /\ pc[t] = "submit" /\ Fault
  /\ IF cur \in inflight
     THEN Land(cur, "rejected") /\ Submitted(t) /\ UNCHANGED <<again, todo, skipped>>
     ELSE Abort(t) /\ UNCHANGED book
  /\ UNCHANGED <<lease, seq, epoch, connected, truth, wire, did, answers>>

\* submit raised: the vendor may have the action or not.
SubmitRaised(t) ==
  /\ pc[t] = "submit" /\ Fault
  /\ IF cur \in inflight
     THEN /\ inflight' = inflight \ {cur} /\ uncertain' = uncertain \cup {cur}
          /\ Submitted(t) /\ UNCHANGED <<sent, confirmed, planned, failures, again, todo, skipped>>
     ELSE Abort(t) /\ UNCHANGED book
  /\ wire' \in {wire, IF Reaches(cur) THEN wire \cup {cur} ELSE wire}
  /\ UNCHANGED <<lease, seq, epoch, connected, truth, did, answers>>

\* finally: run again if somebody asked meanwhile.
Finish(t) ==
  /\ pc[t] = "finish"
  /\ Goto(t, IF again THEN "pump" ELSE "idle")
  /\ again' = FALSE
  /\ UNCHANGED <<lease, book, seq, epoch, connected, todo, cur, skipped, vendor>>

-----------------------------------------------------------------------------
(* The vendor, in any order; its answer may be lost. *)

Answer(a, out) ==
  \/ answers' = answers \cup {<<a, out>>} /\ UNCHANGED faults
  \/ UNCHANGED answers /\ Fault

CarryOut(a) ==
  /\ a \in wire
  /\ wire' = wire \ {a} /\ truth' = Carried(a) /\ did' = did \cup {a}
  /\ Answer(a, "confirmed")
  /\ UNCHANGED <<lease, book, seq, epoch, connected, pump>>

Deny(a) ==
  /\ a \in wire /\ Fault
  /\ wire' = wire \ {a} /\ answers' = answers \cup {<<a, "rejected">>}
  /\ UNCHANGED <<lease, book, seq, epoch, connected, pump, truth, did>>

-----------------------------------------------------------------------------
Feed ==
  \/ CloseSession \/ BeginEpoch
  \/ \E l \in Leases : Ask(l) \/ AddLease(l) \/ RemoveLease(l) \/ RetryFailed(l)

Outcome ==
  \/ \E x \in answers : Deliver(x[1], x[2])
  \/ \E a \in inflight : Expire(a)
  \/ \E a \in uncertain : Reconcile(a)

Pump(t) ==
  \/ Enter(t) \/ Take(t) \/ Finish(t)
  \/ \E a \in todo : Claim(t, a) \/ ClaimStale(t, a)
  \/ Submit(t) \/ SubmitRefused(t) \/ SubmitRaised(t)
  \/ \E out \in {"confirmed", "rejected"} : SubmitAnswered(t, out)

Vendor == \E a \in wire : CarryOut(a) \/ Deny(a)

Next == Feed \/ Outcome \/ Vendor \/ \E t \in Threads : Pump(t)

Spec == Init /\ [][Next]_vars

-----------------------------------------------------------------------------
(* Properties. *)

\* At most one action of a scope is planned, under way or in doubt, and what is
\* confirmed is known as sent: the vendor is never asked to subscribe and to
\* unsubscribe a scope at the same time, nor twice.
OneActionPerScope ==
  /\ \A a, b \in planned \cup inflight \cup uncertain : a.scope = b.scope => a = b
  /\ confirmed \subseteq sent

\* Whatever the vendor pushes on this connection is on record as sent, through
\* lost, late and denied answers: nothing is subscribed that nobody would remove.
NoStray == connected => truth \subseteq sent

LeaseConfirmed(l) ==
  /\ active[l] # {}
  /\ \A s \in active[l] : \E c \in Stable(planned, NoAction) : Covers(c, s)

\* A lease that is reported as confirmed is really served by the vendor.
ConfirmedIsCovered ==
  \A l \in Leases : LeaseConfirmed(l) => \A s \in active[l] : \E c \in truth : Covers(c, s)

\* Other leases come and go, a market is merged or split up: within an epoch a
\* confirmed lease stays confirmed for as long as it is not changed.
CoverageIsKept ==
  [][\A l \in Leases : LeaseConfirmed(l) /\ active'[l] = active[l] /\ epoch' = epoch
                         => LeaseConfirmed(l)']_vars

Idle == \A t \in Threads : pc[t] = "idle"

\* pump drives the plans "until there is no new action or a callback is awaited":
\* when no thread pumps, nothing is left to plan.
AllDispatched == connected /\ Idle => planned = {} /\ Missing(planned) = {}

\* The same, but for what an exception in pump or a call that found another
\* epoch has given up.
DispatchedUnlessSkipped == ~skipped => AllDispatched

-----------------------------------------------------------------------------
(* What a proof of these by induction rests on. *)

Open   == inflight \cup uncertain
Spoken == {x[1] : x \in answers}
Busy(t) == pc[t] \in {"take", "batch", "submit", "finish"}

\* One thread dispatches; an action of this connection that it submits is open.
OneDispatch ==
  /\ \A t, u \in Threads : Busy(t) /\ Busy(u) => t = u
  /\ \A t \in Threads : pc[t] = "submit" =>
       /\ cur \in Action /\ cur \notin wire \cup did \cup Spoken
       /\ cur.epoch <= epoch /\ (cur.epoch = epoch => cur \in Open)

\* What an open action says of its scope, and what the failures say of it.
OpenOnRecord ==
  \A a \in Open :
    /\ IF a.op = "subscribe" THEN a.scope \in sent \ confirmed ELSE a.scope \in confirmed
    /\ <<a.op, a.scope>> \notin failures

\* Every action has a number of its own, and goes its way once.
Numbered ==
  /\ \A a \in planned \cup Open \cup wire \cup did \cup Spoken : a.id <= seq
  /\ planned \cap (Open \cup wire \cup did \cup Spoken) = {} /\ inflight \cap uncertain = {}
  /\ wire \subseteq Open /\ wire \cap (did \cup Spoken) = {}

\* The answers still to come say what was done.
AnswersTrue ==
  \A a \in Open : /\ <<a, "confirmed">> \in answers => a \in did
                  /\ <<a, "rejected">> \in answers => a \notin did

\* What the vendor pushes is what is confirmed, but for the scopes of open actions that
\* it has carried out.
TruthOnRecord ==
  /\ \A a \in Open \cap did : a.scope \in truth <=> a.op = "subscribe"
  /\ \A s \in Scopes : (\A a \in Open \cap did : a.scope # s) => (s \in truth <=> s \in confirmed)

IInv ==
  /\ TypeOK /\ OneDispatch /\ OneActionPerScope /\ OpenOnRecord /\ Numbered /\ AnswersTrue
  /\ TruthOnRecord
\* Whoever has left something to plan is still at it, or has asked the thread that
\* dispatches to pump once more; a thread at its finally has nothing of its own left.
Attended == again \/ \E t \in Threads : pc[t] \in {"pump", "take", "batch", "submit"}

WorkIsAttended ==
  /\ again => Dispatching
  /\ ~skipped /\ connected /\ ~Attended => planned = {} /\ Missing(planned) = {}
=============================================================================
