------------------------- MODULE AssetConsolidation -------------------------
(***************************************************************************)
(* The daily consolidation of assets from a source node of the counter to  *)
(* the target node the server trades on (Huaxin).  A plan with one action  *)
(* per asset is journalled in a file; each action is submitted at most     *)
(* once, then only queried, until the counter's record and the assets of   *)
(* both nodes agree.  Orders are let through when the day is complete.     *)
(*                                                                         *)
(* A round (drive_once) reads the two asset snapshots, then acts on them;  *)
(* the counter works, snapshots age and arrive, and the process dies       *)
(* between any two of its steps.  Rounds and orders share the one thread   *)
(* of the Trader executor.                                                 *)
(***************************************************************************)
EXTENDS Naturals, FiniteSets, FiniteSetsExt

CONSTANTS
  Assets,         \* transferable rows of the source node: positions and the fund
  Rank,           \* their order in a plan
  Securities,     \* what target holdings are summed by
  KeyOf,          \* _position_key of each asset
  Holdings,       \* source holdings at the start of a day
  Base,           \* what the target node holds of each security at the start
  Modes,          \* configured modes to consider
  CanaryVolume,   \* canary_position_volume, canary_fund_amount
  StableSamples,  \* stable_samples
  MaxDay,         \* bound: trading days
  MaxFaults,      \* bound: crashes, lost or refused requests, lost sessions, bad queries
  MaxLate,        \* bound: assets that reach the source node during a day
  MaxOrders,      \* bound: orders of the strategy
  MaxAmount       \* bound: what a node holds of one asset

Amount == 0..MaxAmount
Source == [Assets -> Amount]
Target == [Securities -> Amount]

ASSUME AssetsAssumption ==
  /\ Rank \in [Assets -> Nat] /\ \A a, b \in Assets : Rank[a] = Rank[b] => a = b
  /\ KeyOf \in [Assets -> Securities]
  /\ Holdings \subseteq Source /\ Base \in Target
  /\ Modes \subseteq {"dry_run", "canary", "full"}
  /\ CanaryVolume \in Nat \ {0} /\ StableSamples \in Nat \ {0}
  /\ MaxDay \in Nat \ {0} /\ MaxFaults \in Nat /\ MaxLate \in Nat /\ MaxOrders \in Nat
  /\ MaxAmount \in Nat

VARIABLES
  mode,      \* config.mode
  plan,      \* state of the day's plan in the journal file, "none" if it has none
  act,       \* state of each action of the plan
  amount,    \* volume or amount, source_before, target_before of each action
  baseline,  \* conservation_baseline
  health,    \* _health["state"]
  healthDay, \* _health["trading_day"]
  seen,      \* _observed_fingerprint
  stable,    \* _stable_count
  pc,        \* where the executor's thread is in a round
  cur,       \* the action it submits
  held,      \* the snapshots this round has read
  file,      \* the installed source snapshot
  stale,     \* the installed one is older than snapshot_max_age_seconds
  counted,   \* it is not newer than the last stable sample
  day,       \* trading day of the counter
  early,     \* before earliest_time
  up,        \* the brokers are ready
  asked,     \* orders in the executor's queue
  booked,    \* orders on the counter's book
  made,      \* orders ever admitted
  fate,      \* what the counter made of each transfer
  moved,     \* transfers whose assets have moved
  shown,     \* transfers whose final record the queries return
  src, tgt,  \* what the two nodes really hold
  calls,     \* history: native transfer calls of each action of the day
  faults, late

journal == <<plan, act, amount, baseline>>
memory  == <<health, healthDay, seen, stable>>
thread  == <<pc, cur, held>>
relay   == <<file, stale, counted>>
clock   == <<day, early, up>>
orders  == <<asked, booked, made>>
counter == <<fate, moved, shown, src, tgt, calls>>
bounds  == <<faults, late>>
vars    == <<mode, journal, memory, thread, relay, clock, orders, counter, bounds>>

PlanStates   == {"planned", "transferring", "reconciling", "unknown", "blocked",
                 "complete", "canary_complete", "dry_run"}
ActionStates == {"planned", "submit_started", "reconciling", "unknown", "rejected", "succeeded"}

NoDoc  == [day |-> 0]
Doc    == [day : 1..MaxDay, src : Source, after : BOOLEAN]  \* after: captured after the last submission
NoView == [day |-> 0]
View   == [day : 1..MaxDay, src : Source, tgt : Target, after : BOOLEAN, new : BOOLEAN]
Figures == [amt : Amount, src : Amount, tgt : Amount]

JournalType == /\ plan \in PlanStates \cup {"none"} /\ act \in [Assets -> ActionStates \cup {"absent"}]
               /\ amount \in [Assets -> Figures] /\ DOMAIN baseline = Securities
MemoryType  == /\ health \in PlanStates \cup {"observing"} /\ healthDay \in 0..MaxDay
               /\ seen \in {NoView} \cup [day : 1..MaxDay, src : Source, tgt : Target]
               /\ stable \in Nat
ThreadType  == /\ pc \in {"idle", "held", "native", "reply"} /\ cur \in Assets
               /\ held \in {NoView} \cup View
RelayType   == file \in {NoDoc} \cup Doc /\ stale \in BOOLEAN /\ counted \in BOOLEAN
ClockType   == day \in 1..MaxDay /\ early \in BOOLEAN /\ up \in BOOLEAN
OrdersType  == asked \in 0..MaxOrders /\ booked \in 0..MaxOrders /\ made \in 0..MaxOrders
CounterType == /\ fate \in [Assets -> {"none", "sent", "lost", "success", "failed"}]
               /\ moved \subseteq Assets /\ shown \subseteq Assets
               /\ src \in Source /\ tgt \in Target /\ calls \in [Assets -> Nat]
BoundsType  == faults \in 0..MaxFaults /\ late \in 0..MaxLate

TypeOK == /\ mode \in Modes /\ JournalType /\ MemoryType /\ ThreadType /\ RelayType
          /\ ClockType /\ OrdersType /\ CounterType /\ BoundsType

NoFigures == [amt |-> 0, src |-> 0, tgt |-> 0]

Init ==
  /\ mode \in Modes
  /\ plan = "none" /\ act = [a \in Assets |-> "absent"]
  /\ amount = [a \in Assets |-> NoFigures] /\ baseline = [k \in Securities |-> 0]
  /\ health = "observing" /\ healthDay = 0 /\ seen = NoView /\ stable = 0
  /\ pc = "idle" /\ cur \in {a \in Assets : \A b \in Assets : Rank[a] <= Rank[b]} /\ held = NoView
  /\ file = NoDoc /\ stale = FALSE /\ counted = FALSE
  /\ day = 1 /\ early = TRUE /\ up = TRUE
  /\ asked = 0 /\ booked = 0 /\ made = 0
  /\ fate = [a \in Assets |-> "none"] /\ moved = {} /\ shown = {}
  /\ src \in Holdings /\ tgt = Base /\ calls = [a \in Assets |-> 0]
  /\ faults = 0 /\ late = 0

Fault == faults < MaxFaults /\ faults' = faults + 1 /\ UNCHANGED late

-----------------------------------------------------------------------------
(* Health and the order gate. *)

\* _publish_plan_health
Publish(p) == health' = p /\ healthDay' = day

\* drive_once on HuaxinAssetConsolidationWaiting
AfterWait(h) == IF h \in {"transferring", "reconciling", "unknown"} THEN h ELSE "observing"

OrderAllowed == health = "complete"

\* place_order on the event loop: the gate, then the executor's queue.
AdmitOrder ==
  /\ up /\ OrderAllowed /\ made < MaxOrders
  /\ asked' = asked + 1 /\ made' = made + 1 /\ UNCHANGED booked
  /\ UNCHANGED <<mode, journal, memory, thread, relay, clock, counter, bounds>>

\* Mutant: the gate is not asked again in the executor.
SubmitOrderOnce ==
  /\ up /\ pc = "idle" /\ asked > 0
  /\ asked' = asked - 1 /\ booked' = booked + 1 /\ UNCHANGED made
  /\ UNCHANGED <<mode, journal, memory, thread, relay, clock, counter, bounds>>

\* _submit_order_with_gate in the executor's thread: the gate again.
SubmitOrder ==
  /\ up /\ pc = "idle" /\ asked > 0
  /\ asked' = asked - 1 /\ booked' = (IF OrderAllowed THEN booked + 1 ELSE booked) /\ UNCHANGED made
  /\ UNCHANGED <<mode, journal, memory, thread, relay, clock, counter, bounds>>

-----------------------------------------------------------------------------
(* A round: what it reads. *)

Quiet == UNCHANGED <<mode, relay, clock, orders, counter, bounds>>
EndRound == pc' = "idle" /\ held' = NoView /\ UNCHANGED cur
Driving == up /\ pc = "idle"

\* The counter answers queries only while the session lives.
DriveEarly ==
  /\ Driving /\ early
  /\ health' = AfterWait(health) /\ UNCHANGED healthDay
  /\ UNCHANGED <<journal, seen, stable, thread>> /\ Quiet

\* No fresh source snapshot: wait, unless the day's plan is complete.
DriveBlind ==
  /\ Driving /\ ~early /\ (file = NoDoc \/ stale)
  /\ IF plan = "complete" THEN Publish(plan)
     ELSE health' = AfterWait(health) /\ UNCHANGED healthDay
  /\ UNCHANGED <<journal, seen, stable, thread>> /\ Quiet

\* The snapshots are of different trading days.
DriveMismatch ==
  /\ Driving /\ ~early /\ file # NoDoc /\ ~stale /\ file.day # day
  /\ health' = "blocked" /\ UNCHANGED healthDay
  /\ UNCHANGED <<journal, seen, stable, thread>> /\ Quiet

\* The file is read, then the target node is queried.
DriveRead ==
  /\ Driving /\ ~early /\ file # NoDoc /\ ~stale /\ file.day = day
  /\ pc' = "held" /\ UNCHANGED cur
  /\ held' = [day |-> file.day, src |-> file.src, tgt |-> tgt, after |-> file.after, new |-> ~counted]
  /\ counted' = TRUE
  /\ UNCHANGED <<mode, journal, memory, file, stale, clock, orders, counter, bounds>>

-----------------------------------------------------------------------------
(* What it does when the day has no plan: wait for samples that agree. *)

Observed == [day |-> held.day, src |-> held.src, tgt |-> held.tgt]
Samples  == IF seen # Observed THEN 1 ELSE IF held.new THEN stable + 1 ELSE stable
Enough   == Samples >= StableSamples /\ (seen # Observed \/ held.new)

Observe == seen' = Observed /\ stable' = Samples

StaysUnstable ==
  /\ pc = "held" /\ plan = "none" /\ ~Enough
  /\ Observe /\ health' = "observing" /\ healthDay' = held.day
  /\ EndRound /\ UNCHANGED journal /\ Quiet

Planned(a)  == IF mode = "canary" /\ held.src[a] > CanaryVolume THEN CanaryVolume ELSE held.src[a]
Total(k, s, t) == t[k] + MapThenSumSet(LAMBDA a : s[a], {a \in Assets : KeyOf[a] = k})

\* _build_plan and its save; the round goes on with the new plan.
BuildPlan ==
  /\ pc = "held" /\ plan = "none" /\ Enough
  /\ Observe
  /\ plan' = "planned" /\ Publish("planned")
  /\ act' = [a \in Assets |-> IF held.src[a] > 0 THEN "planned" ELSE "absent"]
  /\ amount' = [a \in Assets |-> [amt |-> Planned(a), src |-> held.src[a], tgt |-> held.tgt[KeyOf[a]]]]
  /\ baseline' = [k \in Securities |-> Total(k, held.src, held.tgt)]
  /\ UNCHANGED thread /\ Quiet

-----------------------------------------------------------------------------
(* What it does with a plan.  Every save replaces the whole file. *)

Actions == {a \in Assets : act[a] # "absent"}

\* Mutant: only the actions not yet tried are looked for.
CurrentUntried(a) == act[a] = "planned" /\ \A b \in Actions : act[b] = "planned" => Rank[a] <= Rank[b]

\* The first action that has not succeeded.
Current(a) ==
  /\ act[a] \notin {"absent", "succeeded"}
  /\ \A b \in Actions : act[b] # "succeeded" => Rank[a] <= Rank[b]

Acting == pc = "held" /\ plan \notin {"none", "complete", "canary_complete", "dry_run"}

\* _query_action_fact: by the ApplySerial of the action.
Fact(a) == IF a \notin shown THEN "unknown" ELSE IF fate[a] = "success" THEN "succeeded" ELSE "rejected"

\* The new state of an action and of the plan, saved and published.
Save(a, s, p) == act' = [act EXCEPT ![a] = s] /\ plan' = p /\ Publish(p) /\ UNCHANGED <<amount, baseline, seen, stable>>
SavePlan(p)   == plan' = p /\ Publish(p) /\ UNCHANGED <<act, amount, baseline, seen, stable>>

\* A round that raises leaves the file as it was.
Raise == health' = "blocked" /\ healthDay' = day /\ UNCHANGED <<journal, seen, stable>>
Wait  == health' = AfterWait(plan) /\ healthDay' = day /\ UNCHANGED <<journal, seen, stable>>

\* Some other check or query of the round raises.
RoundFails ==
  /\ pc = "held" /\ Fault
  /\ health' = "blocked" /\ UNCHANGED <<healthDay, journal, seen, stable>>
  /\ EndRound /\ UNCHANGED <<mode, relay, clock, orders, counter>>

\* dry_run and canary_complete stay; dry_run never submits.
Rests ==
  /\ pc = "held" /\ plan \in {"canary_complete", "dry_run"}
  /\ SavePlan(plan) /\ EndRound /\ Quiet

RestsDry ==
  /\ Acting /\ mode = "dry_run"
  /\ \E a \in Actions : Current(a) /\ act[a] = "planned"
  /\ SavePlan("dry_run") /\ EndRound /\ Quiet

\* _submit_action_once up to the native call: submit_started is on disk first.
StartSubmit(a) ==
  /\ Acting /\ Current(a) /\ act[a] = "planned" /\ mode # "dry_run"
  /\ held.src[a] >= amount[a].amt
  /\ Save(a, "submit_started", "transferring")
  /\ file' = (IF file = NoDoc THEN file ELSE [file EXCEPT !.after = FALSE])
  /\ pc' = "native" /\ cur' = a /\ UNCHANGED held
  /\ UNCHANGED <<mode, stale, counted, clock, orders, counter, bounds>>

\* The native call: the counter will have the request, or the connection loses it.
CallNative ==
  /\ pc = "native"
  /\ calls' = [calls EXCEPT ![cur] = @ + 1]
  /\ \/ fate' = [fate EXCEPT ![cur] = "sent"] /\ UNCHANGED bounds
     \/ fate' = [fate EXCEPT ![cur] = "lost"] /\ Fault
  /\ pc' = "reply" /\ UNCHANGED <<cur, held>>
  /\ UNCHANGED <<mode, journal, memory, relay, clock, orders, moved, shown, src, tgt>>

\* It raises before the request leaves: the runtime is not ready.
CallRaises ==
  /\ pc = "native" /\ Fault
  /\ Save(cur, "unknown", "unknown") /\ EndRound
  /\ UNCHANGED <<mode, relay, clock, orders, counter>>

\* _submit_transfer_once: final events, or the timeout or a dropped event.
Outcomes(a) ==
  {"unknown"} \cup (IF fate[a] = "success" THEN {"reconciling"} ELSE {})
              \cup (IF fate[a] = "failed" THEN {"rejected"} ELSE {})

PlanFor(s) == IF s = "rejected" THEN "blocked" ELSE s

CallReturns ==
  /\ pc = "reply"
  /\ \E s \in Outcomes(cur) : Save(cur, s, PlanFor(s))
  /\ EndRound /\ Quiet

\* Mutant: an action without a record is planned again.
RecoverRetries(a) ==
  /\ Acting /\ Current(a) /\ act[a] \in {"submit_started", "unknown"}
  /\ IF Fact(a) = "unknown" THEN Save(a, "planned", "planned")
     ELSE Save(a, IF Fact(a) = "succeeded" THEN "reconciling" ELSE "rejected",
                  IF Fact(a) = "succeeded" THEN "reconciling" ELSE "blocked")
  /\ EndRound /\ Quiet

\* Mutant: an action found as submit_started is left to the process that died.
RecoverUnknown(a) ==
  /\ Acting /\ Current(a) /\ act[a] = "unknown"
  /\ LET s == CASE Fact(a) = "succeeded" -> "reconciling"
                [] Fact(a) = "rejected"  -> "rejected"
                [] OTHER                 -> "unknown"
     IN Save(a, s, PlanFor(s))
  /\ EndRound /\ Quiet

\* _recover_unknown_action: asks only, never submits again.
Recover(a) ==
  /\ Acting /\ Current(a) /\ act[a] \in {"submit_started", "unknown"}
  /\ LET s == CASE Fact(a) = "succeeded" -> "reconciling"
                [] Fact(a) = "rejected"  -> "rejected"
                [] OTHER                 -> "unknown"
     IN Save(a, s, PlanFor(s))
  /\ EndRound /\ Quiet

\* Mutant: the record is enough.
MatchedByRecord(a) == TRUE

\* The assets of both nodes changed by what was submitted.
Matched(a) == /\ held.src[a] + amount[a].amt = amount[a].src
              /\ held.tgt[KeyOf[a]] = amount[a].tgt + amount[a].amt
Unchanged(a) == held.src[a] = amount[a].src /\ held.tgt[KeyOf[a]] = amount[a].tgt

\* _reconcile_action
Reconcile(a) ==
  /\ Acting /\ Current(a) /\ act[a] = "reconciling"
  /\ \/ Fact(a) = "rejected" /\ Save(a, "rejected", "blocked")
     \/ /\ Fact(a) = "unknown" \/ (Fact(a) = "succeeded" /\ (~held.after \/ Unchanged(a)))
        /\ Wait
     \/ Fact(a) = "succeeded" /\ held.after /\ ~Unchanged(a) /\ ~Matched(a) /\ Raise
     \/ /\ Fact(a) = "succeeded" /\ held.after /\ Matched(a)
        /\ Save(a, "succeeded",
                IF \A b \in Actions \ {a} : act[b] = "succeeded" THEN "reconciling" ELSE "planned")
  /\ EndRound /\ Quiet

\* A rejected action needs a person.
StaysRejected(a) ==
  /\ Acting /\ Current(a) /\ act[a] = "rejected"
  /\ Raise /\ EndRound /\ Quiet

-----------------------------------------------------------------------------
(* All actions have succeeded. *)

AllSucceeded == \A a \in Actions : act[a] = "succeeded"
Residual  == \E a \in Assets : held.src[a] > 0
NoPending == \A a \in Actions : Fact(a) = "succeeded"
Conserved == \A k \in Securities : baseline[k] = Total(k, held.src, held.tgt)

\* _finish_plan: the residual of a canary is expected, that of a full plan is not.
Finish ==
  /\ Acting /\ AllSucceeded
  /\ IF mode = "canary" THEN SavePlan("canary_complete")
     ELSE IF ~Residual /\ NoPending /\ Conserved /\ (\E k \in Securities : held.tgt[k] > 0)
          THEN SavePlan("complete")
          ELSE Raise
  /\ EndRound /\ Quiet

\* A complete plan is checked again: new transferable assets, or a transfer
\* that is not final, revoke it.
Recheck ==
  /\ pc = "held" /\ plan = "complete"
  /\ IF Residual \/ ~NoPending THEN SavePlan("blocked") ELSE SavePlan(plan)
  /\ EndRound /\ Quiet

Step(a) == StartSubmit(a) \/ Recover(a) \/ Reconcile(a) \/ StaysRejected(a)

Act == \/ StaysUnstable \/ BuildPlan \/ Rests \/ RestsDry \/ Finish \/ Recheck
       \/ \E a \in Assets : Step(a)

-----------------------------------------------------------------------------
(* The relay: the source node captures its assets with a new generation,   *)
(* the target installs what is newer than what it has.  One that is still  *)
(* on its way is like an installed one that no round has read yet, so both *)
(* are one step, and generations never go back.                            *)

Relay ==
  /\ file' = [day |-> day, src |-> src, after |-> TRUE]
  /\ stale' = FALSE /\ counted' = FALSE
  /\ UNCHANGED <<mode, journal, memory, thread, clock, orders, counter, bounds>>

\* No snapshot arrives for snapshot_max_age_seconds.
Age ==
  /\ file # NoDoc /\ ~stale /\ Fault
  /\ stale' = TRUE
  /\ UNCHANGED <<mode, journal, memory, thread, file, counted, clock, orders, counter>>

-----------------------------------------------------------------------------
(* The counter, outside this repository.  A transfer succeeds or fails; its *)
(* record becomes visible and its assets move independently of each other.  *)

Inside == UNCHANGED <<mode, journal, memory, thread, relay, clock, orders>>

Decide(a) ==
  /\ fate[a] = "sent"
  /\ \/ src[a] >= amount[a].amt /\ fate' = [fate EXCEPT ![a] = "success"] /\ UNCHANGED bounds
     \/ fate' = [fate EXCEPT ![a] = "failed"] /\ Fault
  /\ UNCHANGED <<moved, shown, src, tgt, calls>> /\ Inside

Move(a) ==
  /\ fate[a] = "success" /\ a \notin moved
  /\ tgt[KeyOf[a]] + amount[a].amt <= MaxAmount
  /\ moved' = moved \cup {a}
  /\ src' = [src EXCEPT ![a] = @ - amount[a].amt]
  /\ tgt' = [tgt EXCEPT ![KeyOf[a]] = @ + amount[a].amt]
  /\ UNCHANGED <<fate, shown, calls, bounds>> /\ Inside

Show(a) ==
  /\ fate[a] \in {"success", "failed"} /\ a \notin shown
  /\ shown' = shown \cup {a}
  /\ UNCHANGED <<fate, moved, src, tgt, calls, bounds>> /\ Inside

\* Assets reach the source node during the day: a deposit, a thawed position.
Arrive(a) ==
  /\ late < MaxLate /\ src[a] < MaxAmount
  /\ late' = late + 1 /\ src' = [src EXCEPT ![a] = @ + 1]
  /\ UNCHANGED <<fate, moved, shown, tgt, calls, faults>> /\ Inside

\* An order of the strategy is filled.
Trade(k) ==
  /\ booked > 0
  /\ booked' = booked - 1 /\ UNCHANGED <<asked, made>>
  /\ \/ tgt[k] < MaxAmount /\ tgt' = [tgt EXCEPT ![k] = @ + 1]
     \/ tgt[k] > 0 /\ tgt' = [tgt EXCEPT ![k] = @ - 1]
  /\ UNCHANGED <<mode, journal, memory, thread, relay, clock, fate, moved, shown, src, calls, bounds>>

Counter(a) == Decide(a) \/ Move(a) \/ Show(a)

-----------------------------------------------------------------------------
(* Time, sessions, crashes. *)

\* earliest_time passes.
Open ==
  /\ early /\ early' = FALSE
  /\ UNCHANGED <<mode, journal, memory, thread, relay, day, up, orders, counter, bounds>>

\* The session is lost; an executor call under way returns.
Lose ==
  /\ up /\ pc = "idle" /\ Fault
  /\ up' = FALSE
  /\ UNCHANGED <<mode, journal, memory, thread, relay, day, early, orders, counter>>

\* The watchdog has rebuilt the brokers.
Rebuild ==
  /\ ~up /\ up' = TRUE
  /\ UNCHANGED <<mode, journal, memory, thread, relay, day, early, orders, counter, bounds>>

\* The process dies and starts again: what is not in the file is gone.
Crash ==
  /\ Fault
  /\ health' = "observing" /\ healthDay' = 0 /\ seen' = NoView /\ stable' = 0
  /\ EndRound /\ up' = FALSE /\ asked' = 0 /\ UNCHANGED <<booked, made>>
  /\ UNCHANGED <<mode, journal, relay, day, early, counter>>

Settled(a) == fate[a] \in {"none", "lost"} \/ (a \in shown /\ (fate[a] = "success" => a \in moved))

\* Over night the counter ends every session and begins a new trading day; the
\* journal has no plan for it.
NewDay ==
  /\ day < MaxDay /\ pc = "idle" /\ \A a \in Assets : Settled(a)
  /\ day' = day + 1 /\ early' = TRUE /\ up' = FALSE
  /\ plan' = "none" /\ act' = [a \in Assets |-> "absent"]
  /\ amount' = [a \in Assets |-> NoFigures] /\ baseline' = [k \in Securities |-> 0]
  /\ asked' = 0 /\ booked' = 0 /\ UNCHANGED made
  /\ fate' = [a \in Assets |-> "none"] /\ moved' = {} /\ shown' = {}
  /\ calls' = [a \in Assets |-> 0]
  /\ UNCHANGED <<mode, memory, thread, relay, src, tgt, bounds>>

Next ==
  \/ AdmitOrder \/ SubmitOrder
  \/ DriveEarly \/ DriveBlind \/ DriveMismatch \/ DriveRead
  \/ Act \/ RoundFails \/ CallNative \/ CallRaises \/ CallReturns
  \/ Relay \/ Age
  \/ \E a \in Assets : Counter(a) \/ Arrive(a)
  \/ \E k \in Securities : Trade(k)
  \/ Open \/ Lose \/ Rebuild \/ Crash \/ NewDay

Spec == Init /\ [][Next]_vars

(***************************************************************************)
(* Fairness: the loop keeps driving, a native call returns (it has a       *)
(* timeout), snapshots keep coming, the watchdog rebuilds the session, the *)
(* clock runs, and the counter works off what it has got.                  *)
(***************************************************************************)
FairSpec ==
  /\ Spec
  /\ WF_vars(DriveRead) /\ WF_vars(Act) /\ WF_vars(CallNative) /\ WF_vars(CallReturns)
  /\ WF_vars(Relay) /\ WF_vars(Open) /\ WF_vars(Rebuild)
  /\ \A a \in Assets : WF_vars(Decide(a)) /\ WF_vars(Move(a)) /\ WF_vars(Show(a))

-----------------------------------------------------------------------------
(* Properties. *)

(***************************************************************************)
(* Within a trading day no asset's transfer is submitted twice, whatever   *)
(* crashes or goes unanswered: submit_started is in the file before the    *)
(* native call, and from there on the action is only queried.              *)
(***************************************************************************)
AtMostOneTransfer == \A a \in Assets : calls[a] <= 1

(***************************************************************************)
(* Transfers are made one after the other: while one may still be worked   *)
(* on by the counter, or its assets are not yet seen to have moved, no     *)
(* other is under way.  The frozen figures of an action are only           *)
(* comparable because of it.                                               *)
(***************************************************************************)
UnderWay(a) == fate[a] = "sent" \/ (fate[a] = "success" /\ act[a] # "succeeded")

OneAtATime == \A a, b \in Assets : UnderWay(a) /\ UnderWay(b) => a = b

(***************************************************************************)
(* An action that the journal calls succeeded has really moved its assets, *)
(* and one it calls rejected never will.                                   *)
(***************************************************************************)
JournalIsTrue ==
  \A a \in Assets :
    /\ act[a] = "succeeded" => a \in moved
    /\ act[a] = "rejected" => fate[a] = "failed"

(***************************************************************************)
(* The strengthening that makes these inductive.  The journal is ahead of  *)
(* the counter: what is planned has not been called, what is called is on  *)
(* record.  Actions are tried in order.  And until its assets have moved,  *)
(* neither the source node nor any snapshot that a round may still read    *)
(* shows less of an asset than its action was planned with.                *)
(***************************************************************************)
JournalAhead ==
  /\ \A a \in Assets :
       /\ calls[a] <= 1
       /\ plan = "none" => act[a] = "absent"
       /\ act[a] \in {"absent", "planned"} => calls[a] = 0
       /\ calls[a] = 0 => fate[a] = "none"
       /\ a \in shown => fate[a] \in {"success", "failed"}
       /\ a \in moved => fate[a] = "success"
       /\ act[a] = "succeeded" => fate[a] = "success" /\ a \in moved
       /\ act[a] = "rejected" => fate[a] = "failed"
  /\ pc \in {"native", "reply"} => act[cur] = "submit_started"
  /\ pc = "native" => calls[cur] = 0

Tried(a) == act[a] \notin {"absent", "planned", "succeeded"}

InOrder == \A a, b \in Assets : Tried(b) /\ Rank[a] < Rank[b] => act[a] \in {"absent", "succeeded"}

NothingHidden ==
  /\ file.day <= day
  /\ pc = "held" => held # NoView /\ held.day = day /\ file # NoDoc /\ file.day = day
  /\ \A a \in Assets :
       /\ act[a] # "absent" => 0 < amount[a].amt /\ amount[a].amt <= amount[a].src
       /\ plan # "none" /\ a \notin moved =>
            /\ amount[a].src <= src[a]
            /\ file.day = day => amount[a].src <= file.src[a]
            /\ pc = "held" => amount[a].src <= held.src[a]
       /\ plan = "none" =>
            /\ file.day = day => file.src[a] <= src[a]
            /\ pc = "held" => held.src[a] <= file.src[a]

OrdersCounted == asked + booked <= made

IInv == TypeOK /\ JournalAhead /\ InOrder /\ NothingHidden /\ OrdersCounted

(***************************************************************************)
(* An order reaches the counter only while the journal calls the day       *)
(* complete, although the gate reads memory, the order waits in the        *)
(* executor's queue after the first look at it, and rounds run in between  *)
(* (apart from what is left in memory of the day before).                  *)
(***************************************************************************)
OrdersOnlyWhenComplete ==
  [][booked' > booked => plan = "complete" \/ healthDay # day]_vars

(***************************************************************************)
(* A full consolidation completes, through crashes and lost sessions, if   *)
(* every transfer recorded as started reached the counter and succeeded    *)
(* and the source node got no new assets.                                  *)
(***************************************************************************)
NeedsPerson ==
  pc = "idle" /\ \E a \in Actions : act[a] \notin {"planned", "succeeded"} /\ fate[a] \in {"none", "lost", "failed"}

DayCompletes ==
  mode = "full" ~> plan = "complete" \/ NeedsPerson \/ late > 0 \/ day > 1
=============================================================================
