---------------------- MODULE AssetConsolidationProofs ----------------------
(***************************************************************************)
(* Proofs that the journal of AssetConsolidation is written ahead of the   *)
(* counter, and that orders wait for the consolidation, for any assets,    *)
(* days, crashes, faults and orders.                                       *)
(***************************************************************************)
EXTENDS AssetConsolidation, TLAPS

USE DEF Amount, Source, Target

LEMMA InitIInv == Init => IInv
<1> SUFFICES ASSUME Init PROVE IInv
  OBVIOUS
<1> USE AssetsAssumption
<1>0. NoFigures \in Figures
  BY DEF NoFigures, Figures
<1>1. mode \in Modes /\ JournalType
  <2>1. plan = "none" /\ act = [a \in Assets |-> "absent"] /\ amount = [a \in Assets |-> NoFigures]
        /\ DOMAIN baseline = Securities /\ mode \in Modes
    BY DEF Init
  <2> QED
    BY <1>0, <2>1 DEF JournalType
<1>2. MemoryType /\ RelayType
  <2>1. /\ health = "observing" /\ healthDay = 0 /\ seen = NoView /\ stable = 0
        /\ file = NoDoc /\ stale = FALSE /\ counted = FALSE
    BY DEF Init
  <2>2. healthDay \in 0..MaxDay
    BY <2>1
  <2>3. RelayType
    BY <2>1 DEF RelayType
  <2> QED
    BY <2>1, <2>2, <2>3 DEF MemoryType
<1>7. ThreadType
  BY DEF Init, ThreadType
<1>3. ClockType /\ OrdersType /\ BoundsType
  BY DEF Init, ClockType, OrdersType, BoundsType
<1>4. CounterType
  BY DEF Init, CounterType
<1>5. JournalAhead /\ InOrder /\ OrdersCounted
  BY DEF Init, JournalAhead, InOrder, Tried, OrdersCounted
<1>6. NothingHidden
  BY DEF Init, NothingHidden, NoDoc
<1> QED
  BY <1>1, <1>2, <1>3, <1>4, <1>5, <1>6, <1>7 DEF IInv, TypeOK

-----------------------------------------------------------------------------
(* Types: a step keeps the type of every group of variables. *)

LEMMA Unchanged_ ==
  ASSUME TypeOK
  PROVE  /\ UNCHANGED mode => mode' \in Modes
         /\ UNCHANGED journal => JournalType'
         /\ UNCHANGED memory => MemoryType'
         /\ UNCHANGED thread => ThreadType'
         /\ UNCHANGED relay => RelayType'
         /\ UNCHANGED clock => ClockType'
         /\ UNCHANGED orders => OrdersType'
         /\ UNCHANGED counter => CounterType'
         /\ UNCHANGED bounds => BoundsType'
BY DEF TypeOK, journal, memory, thread, relay, clock, orders, counter, bounds,
   JournalType, MemoryType, ThreadType, RelayType, ClockType, OrdersType, CounterType, BoundsType

LEMMA FaultType == TypeOK /\ Fault => BoundsType'
BY AssetsAssumption DEF Fault, TypeOK, BoundsType

\* Saving: the action and the plan get states, and health shows the plan.
LEMMA SaveType ==
  ASSUME TypeOK, NEW a \in Assets, NEW s \in ActionStates, NEW p \in PlanStates,
         Save(a, s, p) \/ SavePlan(p)
  PROVE  JournalType' /\ MemoryType'
<1>1. plan' \in PlanStates /\ act' \in [Assets -> ActionStates \cup {"absent"}]
      /\ UNCHANGED <<amount, baseline, seen, stable>> /\ health' \in PlanStates /\ healthDay' = day
  BY DEF Save, SavePlan, Publish, TypeOK, JournalType
<1> QED
  BY <1>1 DEF TypeOK, JournalType, MemoryType, ClockType

LEMMA QuietHealth ==
  ASSUME TypeOK, health' \in PlanStates \cup {"observing"}, healthDay' \in {healthDay, day},
         UNCHANGED <<seen, stable>>
  PROVE  MemoryType'
BY DEF TypeOK, MemoryType, ClockType

LEMMA RaiseWaitType == TypeOK /\ (Raise \/ Wait) => JournalType' /\ MemoryType'
<1> SUFFICES ASSUME TypeOK, Raise \/ Wait PROVE JournalType' /\ MemoryType'
  OBVIOUS
<1>1. UNCHANGED journal /\ UNCHANGED <<seen, stable>> /\ healthDay' = day
      /\ health' \in PlanStates \cup {"observing"}
  BY DEF Raise, Wait, AfterWait, PlanStates
<1> QED
  BY <1>1, Unchanged_, QuietHealth

LEMMA EndRoundType == TypeOK /\ EndRound => ThreadType'
BY DEF TypeOK, ThreadType, EndRound

LEMMA TypeStep == IInv /\ [Next]_vars => TypeOK'
<1> SUFFICES ASSUME IInv, [Next]_vars PROVE TypeOK'
  OBVIOUS
<1>0. TypeOK
  BY DEF IInv
<1> USE <1>0, Unchanged_, AssetsAssumption
<1>1. CASE UNCHANGED vars
  BY <1>1 DEF vars, TypeOK
<1>2. CASE AdmitOrder \/ SubmitOrder
  <2>1. OrdersType'
    BY <1>2 DEF AdmitOrder, SubmitOrder, TypeOK, OrdersType, OrdersCounted, IInv
  <2> QED
    BY <1>2, <2>1 DEF AdmitOrder, SubmitOrder, TypeOK
<1>3. CASE DriveEarly \/ DriveBlind \/ DriveMismatch
  <2>1. MemoryType'
    BY <1>3, QuietHealth DEF DriveEarly, DriveBlind, DriveMismatch, Publish, AfterWait, PlanStates,
       TypeOK, MemoryType
  <2> QED
    BY <1>3, <2>1 DEF DriveEarly, DriveBlind, DriveMismatch, Quiet, TypeOK
<1>4. CASE DriveRead
  <2>1. held' \in View
    BY <1>4 DEF DriveRead, View, TypeOK, RelayType, CounterType, ClockType, Doc, NoDoc
  <2>2. ThreadType' /\ RelayType'
    BY <1>4, <2>1 DEF DriveRead, TypeOK, ThreadType, RelayType
  <2> QED
    BY <1>4, <2>2 DEF DriveRead, TypeOK
<1>5. CASE StaysUnstable \/ BuildPlan
  <2>1. held \in View
    BY <1>5 DEF StaysUnstable, BuildPlan, IInv, NothingHidden, TypeOK, ThreadType
  <2>2. held.day \in 1..MaxDay /\ held.src \in Source /\ held.tgt \in Target
    BY <2>1 DEF View
  <2>3. Observed \in [day : 1..MaxDay, src : Source, tgt : Target]
    BY <2>2 DEF Observed
  <2>4. Samples \in Nat
    BY DEF Samples, TypeOK, MemoryType
  <2>5. seen' = Observed /\ stable' = Samples
    BY <1>5 DEF StaysUnstable, BuildPlan, Observe
  <2>6. health' \in {"observing", "planned"} /\ healthDay' \in 1..MaxDay
    BY <1>5, <2>2 DEF StaysUnstable, BuildPlan, Publish, TypeOK, ClockType
  <2>7. MemoryType'
    BY <2>3, <2>4, <2>5, <2>6 DEF MemoryType, PlanStates
  <2>8. JournalType' /\ ThreadType'
    <3>1. CASE StaysUnstable
      BY <3>1, EndRoundType DEF StaysUnstable
    <3>2. CASE BuildPlan
      <4>1. \A a \in Assets : KeyOf[a] \in Securities /\ Planned(a) \in Amount
        BY <2>2 DEF Planned
      <4>2. \A a \in Assets : [amt |-> Planned(a), src |-> held.src[a], tgt |-> held.tgt[KeyOf[a]]] \in Figures
        BY <2>2, <4>1 DEF Figures
      <4>3. amount' \in [Assets -> Figures]
        BY <3>2, <4>2 DEF BuildPlan
      <4>4. act' \in [Assets -> ActionStates \cup {"absent"}]
        BY <3>2 DEF BuildPlan, ActionStates
      <4>5. plan' \in PlanStates /\ DOMAIN baseline' = Securities /\ ThreadType'
        BY <3>2 DEF BuildPlan, PlanStates
      <4> QED
        BY <4>3, <4>4, <4>5 DEF JournalType
    <3> QED
      BY <1>5, <3>1, <3>2
  <2> QED
    BY <1>5, <2>7, <2>8 DEF StaysUnstable, BuildPlan, Quiet, TypeOK
<1>6. CASE Rests \/ RestsDry \/ Finish \/ Recheck
  <2>1. \E p \in PlanStates : SavePlan(p) \/ Raise
    BY <1>6 DEF Rests, RestsDry, Finish, Recheck, PlanStates
  <2>2. JournalType' /\ MemoryType'
    <3>1. CASE Raise
      BY <3>1, RaiseWaitType
    <3>2. ASSUME NEW p \in PlanStates, SavePlan(p) PROVE JournalType' /\ MemoryType'
      BY <3>2 DEF SavePlan, Publish, TypeOK, JournalType, MemoryType, ClockType
    <3> QED
      BY <2>1, <3>1, <3>2
  <2> QED
    BY <1>6, <2>2, EndRoundType DEF Rests, RestsDry, Finish, Recheck, Quiet, TypeOK
<1>7. ASSUME NEW a \in Assets, Step(a) PROVE TypeOK'
  <2>1. CASE StartSubmit(a)
    <3>1. JournalType' /\ MemoryType'
      BY <2>1, SaveType DEF StartSubmit, ActionStates, PlanStates
    <3>2. RelayType' /\ ThreadType'
      <4>1. file # NoDoc => [file EXCEPT !.after = FALSE] \in Doc
        BY DEF TypeOK, RelayType, Doc
      <4> QED
        BY <2>1, <4>1 DEF StartSubmit, TypeOK, RelayType, ThreadType
    <3> QED
      BY <2>1, <3>1, <3>2 DEF StartSubmit, TypeOK
  <2>2. CASE StaysRejected(a)
    BY <2>2, RaiseWaitType, EndRoundType DEF StaysRejected, Quiet, TypeOK
  <2>3. CASE Recover(a)
    <3>1. \E s \in ActionStates, p \in PlanStates : Save(a, s, p)
      BY <2>3 DEF Recover, PlanFor, ActionStates, PlanStates
    <3>2. JournalType' /\ MemoryType'
      BY <3>1, SaveType
    <3> QED
      BY <2>3, <3>2, EndRoundType DEF Recover, Quiet, TypeOK
  <2>4. CASE Reconcile(a)
    <3>1. (\E s \in ActionStates, p \in PlanStates : Save(a, s, p)) \/ Raise \/ Wait
      BY <2>4 DEF Reconcile, ActionStates, PlanStates
    <3>2. JournalType' /\ MemoryType'
      BY <3>1, SaveType, RaiseWaitType
    <3> QED
      BY <2>4, <3>2, EndRoundType DEF Reconcile, Quiet, TypeOK
  <2> QED
    BY <1>7, <2>1, <2>2, <2>3, <2>4 DEF Step
<1>8. CASE RoundFails
  BY <1>8, EndRoundType, FaultType, QuietHealth DEF RoundFails, TypeOK, PlanStates
<1>9. CASE CallNative
  <2>1. BoundsType'
    BY <1>9, FaultType DEF CallNative, TypeOK
  <2>2. CounterType' /\ ThreadType'
    BY <1>9 DEF CallNative, TypeOK, CounterType, ThreadType
  <2> QED
    BY <1>9, <2>1, <2>2 DEF CallNative, TypeOK
<1>10. CASE CallRaises \/ CallReturns
  <2>0. cur \in Assets
    BY DEF TypeOK, ThreadType
  <2>1. \E s \in ActionStates, p \in PlanStates : Save(cur, s, p)
    BY <1>10 DEF CallRaises, CallReturns, Outcomes, PlanFor, ActionStates, PlanStates
  <2>2. JournalType' /\ MemoryType'
    BY <2>0, <2>1, SaveType
  <2>3. BoundsType'
    BY <1>10, FaultType DEF CallRaises, CallReturns, Quiet, TypeOK
  <2> QED
    BY <1>10, <2>2, <2>3, EndRoundType DEF CallRaises, CallReturns, Quiet, TypeOK
<1>11. CASE Relay \/ Age
  <2>1. RelayType' /\ BoundsType'
    <3>1. CASE Relay
      <4>1. file' \in Doc
        BY <3>1 DEF Relay, Doc, TypeOK, CounterType, ClockType
      <4> QED
        BY <3>1, <4>1 DEF Relay, RelayType, TypeOK
    <3>2. CASE Age
      BY <3>2, FaultType DEF Age, RelayType, TypeOK
    <3> QED
      BY <1>11, <3>1, <3>2
  <2> QED
    BY <1>11, <2>1 DEF Relay, Age, TypeOK
<1>12. ASSUME NEW a \in Assets, Counter(a) \/ Arrive(a) PROVE TypeOK'
  <2>1. BoundsType'
    BY <1>12, FaultType DEF Counter, Decide, Move, Show, Arrive, TypeOK, BoundsType
  <2>2. CounterType'
    <3>1. CASE Decide(a) \/ Show(a)
      BY <3>1 DEF Decide, Show, TypeOK, CounterType
    <3>2. CASE Move(a)
      <4>1. amount[a].amt \in Nat /\ src[a] \in Amount /\ tgt[KeyOf[a]] \in Amount /\ KeyOf[a] \in Securities
        BY DEF TypeOK, JournalType, Figures, CounterType
      <4>2. amount[a].amt <= src[a]
        <5>1. act[a] # "absent" /\ plan # "none" /\ a \notin moved
          BY <3>2 DEF Move, IInv, JournalAhead
        <5>2. amount[a].amt <= amount[a].src /\ amount[a].src <= src[a] /\ amount[a].src \in Nat
          BY <5>1 DEF IInv, NothingHidden, TypeOK, JournalType, Figures
        <5> QED
          BY <4>1, <5>2
      <4>3. src[a] - amount[a].amt \in Amount /\ tgt[KeyOf[a]] + amount[a].amt \in Amount
        BY <3>2, <4>1, <4>2 DEF Move
      <4>4. src' = [src EXCEPT ![a] = src[a] - amount[a].amt] /\ moved' = moved \cup {a}
            /\ tgt' = [tgt EXCEPT ![KeyOf[a]] = tgt[KeyOf[a]] + amount[a].amt] /\ UNCHANGED <<fate, shown, calls>>
        BY <3>2 DEF Move
      <4> QED
        BY <4>3, <4>4 DEF TypeOK, CounterType
    <3>3. CASE Arrive(a)
      BY <3>3 DEF Arrive, TypeOK, CounterType
    <3> QED
      BY <1>12, <3>1, <3>2, <3>3 DEF Counter
  <2> QED
    BY <1>12, <2>1, <2>2 DEF Counter, Decide, Move, Show, Arrive, Inside, TypeOK
<1>13. ASSUME NEW k \in Securities, Trade(k) PROVE TypeOK'
  <2>1. CounterType' /\ OrdersType'
    BY <1>13 DEF Trade, TypeOK, CounterType, OrdersType
  <2> QED
    BY <1>13, <2>1 DEF Trade, TypeOK
<1>14. CASE Open \/ Lose \/ Rebuild
  <2>1. ClockType' /\ BoundsType'
    BY <1>14, FaultType DEF Open, Lose, Rebuild, TypeOK, ClockType
  <2> QED
    BY <1>14, <2>1 DEF Open, Lose, Rebuild, TypeOK
<1>15. CASE Crash
  <2>1. MemoryType'
    <3>1. health' = "observing" /\ healthDay' = 0 /\ seen' = NoView /\ stable' = 0 /\ 0 \in 0..MaxDay
      BY <1>15 DEF Crash
    <3> QED
      BY <3>1 DEF MemoryType
  <2>2. ThreadType' /\ BoundsType'
    BY <1>15, FaultType, EndRoundType DEF Crash
  <2>3. ClockType' /\ OrdersType'
    <3>1. asked' = 0 /\ booked' = booked /\ made' = made /\ up' = FALSE /\ day' = day /\ early' = early
      BY <1>15 DEF Crash
    <3>2. ClockType /\ OrdersType /\ 0 \in 0..MaxOrders
      BY DEF TypeOK
    <3> QED
      BY ONLY <3>1, <3>2 DEF ClockType, OrdersType
  <2> QED
    BY <1>15, <2>1, <2>2, <2>3 DEF Crash, TypeOK
<1>16. CASE NewDay
  <2>1. JournalType'
    <3>1. NoFigures \in Figures
      BY DEF NoFigures, Figures
    <3>2. plan' = "none" /\ act' = [a \in Assets |-> "absent"] /\ amount' = [a \in Assets |-> NoFigures]
          /\ DOMAIN baseline' = Securities
      BY <1>16 DEF NewDay
    <3> QED
      BY <3>1, <3>2 DEF JournalType
  <2>2. CounterType'
    BY <1>16 DEF NewDay, TypeOK, CounterType
  <2>3. ClockType' /\ OrdersType'
    <3>1. day + 1 \in 1..MaxDay
      BY <1>16 DEF NewDay, TypeOK, ClockType
    <3>2. asked' = 0 /\ booked' = 0 /\ made' = made /\ day' = day + 1 /\ early' = TRUE /\ up' = FALSE
      BY <1>16 DEF NewDay
    <3>3. OrdersType /\ 0 \in 0..MaxOrders
      BY DEF TypeOK
    <3> QED
      BY ONLY <3>1, <3>2, <3>3 DEF ClockType, OrdersType
  <2> QED
    BY <1>16, <2>1, <2>2, <2>3 DEF NewDay, TypeOK
<1> QED
  BY <1>1, <1>2, <1>3, <1>4, <1>5, <1>6, <1>7, <1>8, <1>9, <1>10, <1>11, <1>12, <1>13, <1>14,
     <1>15, <1>16 DEF Next, Act

-----------------------------------------------------------------------------
(* The journal is ahead of the counter, and actions are tried in order.     *)

\* No action and no transfer changes.
LEMMA StillAhead ==
  ASSUME IInv, UNCHANGED <<act, fate, moved, shown, calls>>, plan' = plan \/ plan' # "none",
         pc' \in {"idle", "held"} \/ UNCHANGED <<pc, cur>>
  PROVE  JournalAhead' /\ InOrder'
<1>1. JournalAhead'
  BY DEF IInv, JournalAhead
<1>2. InOrder'
  BY DEF IInv, InOrder, Tried
<1> QED
  BY <1>1, <1>2

\* One action gets a state.  It is the first that has not succeeded, or one that
\* has been tried, and its new state is true of the counter.
LEMMA SavedAhead ==
  ASSUME IInv, NEW a \in Assets, Current(a) \/ Tried(a),
         NEW s \in ActionStates \ {"planned"}, NEW p \in PlanStates, Save(a, s, p),
         UNCHANGED <<fate, moved, shown, calls>>,
         s = "succeeded" => fate[a] = "success" /\ a \in moved,
         s = "rejected" => fate[a] = "failed",
         pc' = "idle" \/ (pc' = "native" /\ cur' = a /\ s = "submit_started" /\ calls[a] = 0)
  PROVE  JournalAhead' /\ InOrder'
<1>1. act \in [Assets -> ActionStates \cup {"absent"}] /\ act' = [act EXCEPT ![a] = s] /\ plan' # "none"
  BY DEF Save, PlanStates, IInv, TypeOK, JournalType
<1>2. act'[a] = s /\ s \notin {"absent", "planned"} /\ \A b \in Assets : b # a => act'[b] = act[b]
  BY <1>1 DEF ActionStates
<1>3. JournalAhead'
  BY <1>1, <1>2 DEF JournalAhead, IInv
<1>4. InOrder'
  <2> SUFFICES ASSUME NEW b \in Assets, NEW c \in Assets, Tried(c)', Rank[b] < Rank[c]
               PROVE  act'[b] \in {"absent", "succeeded"}
    BY DEF InOrder
  <2> USE AssetsAssumption
  <2>1. CASE c # a /\ b # a
    BY <1>2, <2>1 DEF IInv, InOrder, Tried
  <2>2. CASE c = a
    <3>1. b # a
      BY <2>2
    <3>2. act[b] \in {"absent", "succeeded"}
      BY <2>2 DEF IInv, InOrder, Current, Actions
    <3> QED
      BY <3>1, <3>2, <1>2
  <2>3. CASE b = a /\ c # a
    <3>1. Tried(c)
      BY <1>2, <2>3 DEF Tried
    <3>2. act[a] \in {"absent", "succeeded"}
      BY <3>1, <2>3 DEF IInv, InOrder
    <3> QED
      BY <3>2 DEF Current, Tried
  <2> QED
    BY <2>1, <2>2, <2>3
<1> QED
  BY <1>3, <1>4

LEMMA AheadStep == IInv /\ [Next]_vars => JournalAhead' /\ InOrder'
<1> SUFFICES ASSUME IInv, [Next]_vars PROVE JournalAhead' /\ InOrder'
  OBVIOUS
<1>1. CASE \/ UNCHANGED vars \/ AdmitOrder \/ SubmitOrder \/ DriveEarly \/ DriveBlind \/ DriveMismatch
           \/ DriveRead \/ StaysUnstable \/ RoundFails
  BY <1>1, StillAhead DEF vars, journal, memory, thread, counter, AdmitOrder, SubmitOrder, DriveEarly,
     DriveBlind, DriveMismatch, DriveRead, StaysUnstable, RoundFails, Quiet, EndRound
<1>2. CASE \/ Relay \/ Age \/ (\E a \in Assets : Arrive(a)) \/ (\E k \in Securities : Trade(k))
           \/ Open \/ Lose \/ Rebuild \/ Crash
  BY <1>2, StillAhead DEF journal, thread, counter, Relay, Age, Arrive, Inside, Trade, Open, Lose, Rebuild,
     Crash, EndRound
<1>3. CASE Rests \/ RestsDry \/ Finish \/ Recheck
  <2>1. UNCHANGED <<act, fate, moved, shown, calls>> /\ pc' = "idle" /\ (plan' = plan \/ plan' # "none")
    BY <1>3 DEF Rests, RestsDry, Finish, Recheck, SavePlan, Raise, journal, EndRound, Quiet, counter
  <2> QED
    BY <2>1, StillAhead
<1>4. CASE BuildPlan
  <2>1. /\ plan = "none" /\ plan' = "planned" /\ UNCHANGED <<fate, moved, shown, calls, pc, cur>> /\ pc = "held"
        /\ act' = [a \in Assets |-> IF held.src[a] > 0 THEN "planned" ELSE "absent"]
    BY <1>4 DEF BuildPlan, Quiet, thread, counter
  <2>2. \A a \in Assets : act[a] = "absent" /\ act'[a] \in {"planned", "absent"}
    BY <2>1 DEF IInv, JournalAhead
  <2>3. JournalAhead'
    BY <2>1, <2>2 DEF IInv, JournalAhead
  <2>4. InOrder'
    BY <2>2 DEF InOrder, Tried
  <2> QED
    BY <2>3, <2>4
<1>5. ASSUME NEW a \in Assets, Step(a) PROVE JournalAhead' /\ InOrder'
  <2>1. CASE StartSubmit(a)
    <3>1. /\ Current(a) /\ Save(a, "submit_started", "transferring") /\ UNCHANGED <<fate, moved, shown, calls>>
          /\ pc' = "native" /\ cur' = a
      BY <2>1 DEF StartSubmit, counter
    <3>2. calls[a] = 0
      BY <2>1 DEF StartSubmit, IInv, JournalAhead
    <3>3. "submit_started" \in ActionStates \ {"planned"} /\ "transferring" \in PlanStates
      BY DEF ActionStates, PlanStates
    <3> QED
      BY <3>1, <3>2, <3>3, SavedAhead
  <2>2. CASE StaysRejected(a)
    BY <2>2, StillAhead DEF StaysRejected, Raise, journal, EndRound, Quiet, counter
  <2>3. CASE Recover(a)
    <3>1. Current(a) /\ UNCHANGED <<fate, moved, shown, calls>> /\ pc' = "idle"
      BY <2>3 DEF Recover, EndRound, Quiet, counter
    <3>2. PICK s \in {"reconciling", "rejected", "unknown"} :
             Save(a, s, PlanFor(s)) /\ (s = "rejected" => Fact(a) = "rejected")
      BY <2>3, Zenon DEF Recover
    <3>3. s = "rejected" => fate[a] = "failed"
      BY <3>2 DEF Fact, IInv, JournalAhead
    <3>4. s \in ActionStates \ {"planned"} /\ PlanFor(s) \in PlanStates /\ s # "succeeded" /\ s # "submit_started"
      BY DEF ActionStates, PlanStates, PlanFor
    <3> QED
      BY <3>1, <3>2, <3>3, <3>4, SavedAhead
  <2>4. CASE Reconcile(a)
    <3>1. Current(a) /\ UNCHANGED <<fate, moved, shown, calls>> /\ pc' = "idle"
      BY <2>4 DEF Reconcile, EndRound, Quiet, counter
    <3>2. CASE Wait \/ Raise
      BY <3>1, <3>2, StillAhead DEF Wait, Raise, journal
    <3>3. CASE Fact(a) = "rejected" /\ Save(a, "rejected", "blocked")
      <4>1. fate[a] = "failed"
        BY <3>3 DEF Fact, IInv, JournalAhead
      <4>2. "rejected" \in ActionStates \ {"planned"} /\ "blocked" \in PlanStates
        BY DEF ActionStates, PlanStates
      <4> QED
        BY <3>1, <3>3, <4>1, <4>2, SavedAhead
    <3>4. ASSUME Fact(a) = "succeeded", Matched(a),
                 NEW p \in {"reconciling", "planned"}, Save(a, "succeeded", p)
          PROVE  JournalAhead' /\ InOrder'
      <4>1. fate[a] = "success"
        BY <3>4 DEF Fact
      <4>2. a \in moved
        <5>1. pc = "held" /\ plan # "none" /\ act[a] # "absent"
          BY <2>4 DEF Reconcile, Acting
        <5>2. /\ 0 < amount[a].amt /\ amount[a].amt \in Nat
              /\ a \notin moved => amount[a].src <= held.src[a]
          BY <5>1 DEF IInv, NothingHidden, TypeOK, JournalType, Figures
        <5>3. held.src[a] \in Nat
          BY <5>1, AssetsAssumption DEF IInv, NothingHidden, TypeOK, ThreadType, View
        <5>4. held.src[a] + amount[a].amt = amount[a].src
          BY <3>4 DEF Matched
        <5> QED
          BY <5>2, <5>3, <5>4
      <4>3. "succeeded" \in ActionStates \ {"planned"} /\ p \in PlanStates
        BY DEF ActionStates, PlanStates
      <4> QED
        BY <3>1, <3>4, <4>1, <4>2, <4>3, SavedAhead
    <3> QED
      BY <2>4, <3>2, <3>3, <3>4 DEF Reconcile
  <2> QED
    BY <1>5, <2>1, <2>2, <2>3, <2>4 DEF Step
<1>6. CASE CallNative
  <2>1. /\ pc = "native" /\ pc' = "reply" /\ cur' = cur /\ cur \in Assets
        /\ calls' = [calls EXCEPT ![cur] = @ + 1] /\ UNCHANGED <<plan, act, moved, shown>>
        /\ \E f \in {"sent", "lost"} : fate' = [fate EXCEPT ![cur] = f]
    BY <1>6 DEF CallNative, journal, IInv, TypeOK, ThreadType
  <2>2. calls[cur] = 0 /\ act[cur] = "submit_started" /\ fate[cur] = "none"
    BY <2>1 DEF IInv, JournalAhead
  <2>3. calls \in [Assets -> Nat] /\ fate \in [Assets -> {"none", "sent", "lost", "success", "failed"}]
    BY DEF IInv, TypeOK, CounterType
  <2>4. calls'[cur] = 1 /\ fate'[cur] \in {"sent", "lost"}
        /\ \A b \in Assets : b # cur => calls'[b] = calls[b] /\ fate'[b] = fate[b]
    BY <2>1, <2>2, <2>3
  <2>5. JournalAhead'
    BY <2>1, <2>2, <2>4 DEF JournalAhead, IInv
  <2>6. InOrder'
    BY <2>1 DEF IInv, InOrder, Tried
  <2> QED
    BY <2>5, <2>6
<1>7. CASE CallRaises \/ CallReturns
  <2>1. /\ cur \in Assets /\ Tried(cur) /\ UNCHANGED <<fate, moved, shown, calls>> /\ pc' = "idle"
    BY <1>7 DEF CallRaises, CallReturns, EndRound, Quiet, counter, IInv, JournalAhead, TypeOK, ThreadType, Tried
  <2>2. PICK s \in {"unknown", "reconciling", "rejected"} :
          Save(cur, s, PlanFor(s)) /\ (s = "rejected" => fate[cur] = "failed")
    BY <1>7 DEF CallRaises, CallReturns, Outcomes, PlanFor
  <2>3. s \in ActionStates \ {"planned"} /\ PlanFor(s) \in PlanStates /\ s # "succeeded"
    BY DEF ActionStates, PlanStates, PlanFor
  <2> QED
    BY <2>1, <2>2, <2>3, SavedAhead
<1>8. ASSUME NEW a \in Assets, Counter(a) PROVE JournalAhead' /\ InOrder'
  <2>1. UNCHANGED <<plan, act, pc, cur, calls>>
    BY <1>8 DEF Counter, Decide, Move, Show, Inside, journal, thread
  <2>2. InOrder'
    BY <2>1 DEF IInv, InOrder, Tried
  <2>3. CASE Decide(a)
    <3>1. /\ fate[a] = "sent" /\ UNCHANGED <<moved, shown>>
          /\ \E f \in {"success", "failed"} : fate' = [fate EXCEPT ![a] = f]
      BY <2>3 DEF Decide
    <3>2. fate'[a] \in {"success", "failed"} /\ \A b \in Assets : b # a => fate'[b] = fate[b]
      BY <3>1 DEF IInv, TypeOK, CounterType
    <3> QED
      BY <2>1, <2>2, <3>1, <3>2 DEF IInv, JournalAhead
  <2>4. CASE Move(a) \/ Show(a)
    BY <2>1, <2>2, <2>4 DEF Move, Show, IInv, JournalAhead
  <2> QED
    BY <1>8, <2>3, <2>4 DEF Counter
<1>9. CASE NewDay
  <2>1. /\ plan' = "none" /\ act' = [a \in Assets |-> "absent"] /\ fate' = [a \in Assets |-> "none"]
        /\ moved' = {} /\ shown' = {} /\ calls' = [a \in Assets |-> 0] /\ pc' = "idle"
    BY <1>9 DEF NewDay, thread
  <2> QED
    BY <2>1 DEF JournalAhead, InOrder, Tried
<1> QED
  BY <1>1, <1>2, <1>3, <1>4, <1>5, <1>6, <1>7, <1>8, <1>9 DEF Next, Act

-----------------------------------------------------------------------------
(* Nothing that may still be read shows less than was planned.              *)

LEMMA OrdersStep == IInv /\ [Next]_vars => OrdersCounted'
<1> SUFFICES ASSUME IInv, [Next]_vars PROVE OrdersCounted'
  OBVIOUS
<1>1. asked \in Nat /\ booked \in Nat /\ made \in Nat /\ asked + booked <= made
  BY AssetsAssumption DEF IInv, TypeOK, OrdersType, OrdersCounted
<1>2. \/ UNCHANGED orders
      \/ asked' = asked + 1 /\ made' = made + 1 /\ booked' = booked
      \/ asked > 0 /\ asked' = asked - 1 /\ booked' \in {booked, booked + 1} /\ made' = made
      \/ booked > 0 /\ booked' = booked - 1 /\ asked' = asked /\ made' = made
      \/ asked' = 0 /\ booked' \in {booked, 0} /\ made' = made
  <2>1. CASE AdmitOrder \/ SubmitOrder
    BY <2>1 DEF AdmitOrder, SubmitOrder
  <2>2. CASE Crash \/ NewDay \/ (\E k \in Securities : Trade(k))
    BY <2>2 DEF Crash, NewDay, Trade
  <2>3. CASE UNCHANGED vars \/ DriveEarly \/ DriveBlind \/ DriveMismatch \/ DriveRead \/ Act
    BY <2>3 DEF vars, DriveEarly, DriveBlind, DriveMismatch, DriveRead, Quiet, Act, StaysUnstable, BuildPlan,
       Rests, RestsDry, Finish, Recheck, Step, StartSubmit, Recover, Reconcile, StaysRejected
  <2>4. CASE RoundFails \/ CallNative \/ CallRaises \/ CallReturns \/ Relay \/ Age \/ Open \/ Lose \/ Rebuild
    BY <2>4 DEF RoundFails, CallNative, CallRaises, CallReturns, Quiet, Relay, Age, Open, Lose, Rebuild
  <2>5. CASE \E a \in Assets : Counter(a) \/ Arrive(a)
    BY <2>5 DEF Counter, Decide, Move, Show, Arrive, Inside
  <2> QED
    BY <2>1, <2>2, <2>3, <2>4, <2>5 DEF Next
<1> QED
  BY <1>1, <1>2 DEF OrdersCounted, orders

\* What the two nodes hold, what was planned and what has moved stay the same.
LEMMA StillShown ==
  ASSUME IInv, UNCHANGED <<amount, moved, src, day>>, UNCHANGED file,
         \A a \in Assets : act'[a] # "absent" => act[a] # "absent",
         plan' = plan \/ (plan # "none" /\ plan' # "none"),
         pc' # "held" \/ UNCHANGED <<pc, held>>
  PROVE  NothingHidden'
BY DEF IInv, NothingHidden

LEMMA SavedShown ==
  ASSUME IInv, NEW a \in Assets, act[a] # "absent", NEW s, NEW p \in PlanStates, Save(a, s, p),
         plan # "none", UNCHANGED <<moved, src, day, file>>, pc' # "held"
  PROVE  NothingHidden'
<1>1. act' = [act EXCEPT ![a] = s] /\ plan' = p /\ UNCHANGED amount /\ p # "none"
  BY DEF Save, PlanStates
<1>2. \A b \in Assets : act'[b] # "absent" => act[b] # "absent"
  BY <1>1 DEF IInv, TypeOK, JournalType
<1> QED
  BY <1>1, <1>2, StillShown

LEMMA ShownStep == IInv /\ [Next]_vars => NothingHidden'
<1> SUFFICES ASSUME IInv, [Next]_vars PROVE NothingHidden'
  OBVIOUS
<1>1. CASE \/ UNCHANGED vars \/ AdmitOrder \/ SubmitOrder \/ DriveEarly \/ DriveBlind \/ DriveMismatch
           \/ StaysUnstable \/ RoundFails
  BY <1>1, StillShown DEF vars, journal, memory, thread, relay, clock, counter, AdmitOrder, SubmitOrder,
     DriveEarly, DriveBlind, DriveMismatch, StaysUnstable, RoundFails, Quiet, EndRound
<1>2. CASE \/ Age \/ (\E k \in Securities : Trade(k)) \/ Open \/ Lose \/ Rebuild \/ Crash
           \/ CallNative \/ (\E a \in Assets : Decide(a) \/ Show(a))
  BY <1>2, StillShown DEF journal, thread, relay, clock, counter, Age, Trade, Open, Lose, Rebuild,
     Crash, EndRound, CallNative, Decide, Show, Inside
<1>3. CASE Rests \/ RestsDry \/ Finish \/ Recheck
  <2>1. /\ UNCHANGED <<act, amount, moved, src, day, file>> /\ pc' = "idle"
        /\ plan' = plan \/ (plan # "none" /\ plan' # "none")
    BY <1>3 DEF Rests, RestsDry, Finish, Recheck, SavePlan, Raise, journal, EndRound, Quiet, counter, relay,
       clock, Acting
  <2> QED
    BY <2>1, StillShown
<1>4. CASE DriveRead
  <2>1. /\ pc' = "held" /\ held' = [day |-> file.day, src |-> file.src, tgt |-> tgt, after |-> file.after, new |-> ~counted]
        /\ file # NoDoc /\ file.day = day /\ UNCHANGED <<plan, act, amount, moved, src, day, file>>
    BY <1>4 DEF DriveRead, journal, clock, counter
  <2>2. held'.src = file.src /\ held'.day = file.day
    BY <2>1
  <2>3. held' # NoView
    BY <2>1, <2>2 DEF NoView, IInv, TypeOK, ClockType
  <2>4. \A a \in Assets : src[a] \in Nat /\ file.src[a] \in Nat /\ amount[a].src \in Nat
    BY <2>1, AssetsAssumption DEF IInv, TypeOK, CounterType, RelayType, Doc, JournalType, Figures
  <2> QED
    BY <2>1, <2>2, <2>3, <2>4 DEF IInv, NothingHidden
<1>5. CASE BuildPlan
  <2>1. /\ plan = "none" /\ plan' = "planned" /\ pc = "held" /\ UNCHANGED <<pc, held, moved, src, day, file>>
        /\ act' = [a \in Assets |-> IF held.src[a] > 0 THEN "planned" ELSE "absent"]
        /\ amount' = [a \in Assets |-> [amt |-> Planned(a), src |-> held.src[a], tgt |-> held.tgt[KeyOf[a]]]]
    BY <1>5 DEF BuildPlan, Quiet, thread, counter, relay, clock
  <2>2. held \in View /\ file \in Doc
    BY <2>1 DEF IInv, NothingHidden, TypeOK, ThreadType, RelayType
  <2>3. \A a \in Assets : held.src[a] \in Nat /\ file.src[a] \in Nat /\ src[a] \in Nat
    BY <2>2, AssetsAssumption DEF View, Doc, IInv, TypeOK, CounterType
  <2>4. \A a \in Assets : held.src[a] <= file.src[a] /\ file.src[a] <= src[a]
    BY <2>1 DEF IInv, NothingHidden
  <2>5. \A a \in Assets : Planned(a) <= held.src[a] /\ (held.src[a] > 0 => Planned(a) > 0)
    BY <2>3, AssetsAssumption DEF Planned
  <2>6. \A a \in Assets : amount'[a].amt = Planned(a) /\ amount'[a].src = held.src[a]
                           /\ (act'[a] # "absent" => held.src[a] > 0)
    BY <2>1
  <2>7. held # NoView /\ held.day = day /\ file # NoDoc /\ file.day = day /\ file'.day <= day'
    BY <2>1 DEF IInv, NothingHidden
  <2>8. \A a \in Assets : amount'[a].src <= src[a]
    BY <2>3, <2>4, <2>6
  <2> QED
    BY <2>1, <2>3, <2>4, <2>5, <2>6, <2>7, <2>8 DEF NothingHidden
<1>6. ASSUME NEW a \in Assets, Step(a) PROVE NothingHidden'
  <2>0. Acting /\ Current(a) /\ act[a] # "absent" /\ plan # "none" /\ UNCHANGED <<moved, src, day>>
    BY <1>6 DEF Step, StartSubmit, Recover, Reconcile, StaysRejected, Acting, Current, Quiet,
       counter, clock
  <2>1. CASE StartSubmit(a)
    <3>1. /\ pc' = "native" /\ plan' = "transferring" /\ act' = [act EXCEPT ![a] = "submit_started"]
          /\ file' = (IF file = NoDoc THEN file ELSE [file EXCEPT !.after = FALSE]) /\ UNCHANGED amount
      BY <2>1 DEF StartSubmit, Save
    <3>2. file # NoDoc => file'.day = file.day /\ file'.src = file.src
      BY <3>1 DEF IInv, TypeOK, RelayType, Doc
    <3>3. \A b \in Assets : act'[b] # "absent" => act[b] # "absent"
      BY <2>0, <3>1 DEF IInv, TypeOK, JournalType
    <3>4. file = NoDoc => file' = NoDoc
      BY <3>1
    <3>5. file'.day <= day'
      BY <2>0, <3>2, <3>4 DEF IInv, NothingHidden
    <3>6. pc' = "native" /\ plan' = "transferring" /\ UNCHANGED amount
      BY <3>1
    <3>7. ASSUME NEW b \in Assets
          PROVE  /\ act'[b] # "absent" => 0 < amount'[b].amt /\ amount'[b].amt <= amount'[b].src
                 /\ b \notin moved' => amount'[b].src <= src'[b]
      BY <2>0, <3>3, <3>6 DEF IInv, NothingHidden
    <3>8. ASSUME NEW b \in Assets, b \notin moved', file'.day = day'
          PROVE  amount'[b].src <= file'.src[b]
      <4>1. file # NoDoc
        BY <2>0, <3>4, <3>8 DEF NoDoc, IInv, TypeOK, ClockType
      <4>2. file'.src = file.src /\ file.day = day
        BY <2>0, <3>2, <3>8, <4>1
      <4> QED
        BY <2>0, <3>6, <3>8, <4>2 DEF IInv, NothingHidden
    <3> QED
      BY <3>5, <3>6, <3>7, <3>8 DEF NothingHidden
  <2>2. CASE StaysRejected(a) \/ (Reconcile(a) /\ (Wait \/ Raise))
    BY <2>0, <2>2, StillShown DEF StaysRejected, Reconcile, Raise, Wait, journal, EndRound, Quiet, relay
  <2>3. CASE Recover(a) \/ (Reconcile(a) /\ ~(Wait \/ Raise))
    <3>1. UNCHANGED file /\ pc' # "held"
      BY <2>3 DEF Recover, Reconcile, EndRound, Quiet, relay
    <3>2. \E s \in ActionStates, p \in PlanStates : Save(a, s, p)
      BY <2>3 DEF Recover, Reconcile, PlanFor, ActionStates, PlanStates
    <3> QED
      BY <2>0, <3>1, <3>2, SavedShown
  <2> QED
    BY <1>6, <2>1, <2>2, <2>3 DEF Step
<1>7. CASE CallRaises \/ CallReturns
  <2>1. /\ cur \in Assets /\ act[cur] # "absent" /\ plan # "none" /\ UNCHANGED <<moved, src, day, file>>
        /\ pc' # "held"
    BY <1>7 DEF CallRaises, CallReturns, EndRound, Quiet, counter, clock, relay, IInv, JournalAhead, TypeOK, ThreadType
  <2>2. \E s \in ActionStates, p \in PlanStates : Save(cur, s, p)
    BY <1>7 DEF CallRaises, CallReturns, Outcomes, PlanFor, ActionStates, PlanStates
  <2> QED
    BY <2>1, <2>2, SavedShown
<1>8. CASE Relay
  <2>1. /\ file' = [day |-> day, src |-> src, after |-> TRUE]
        /\ UNCHANGED <<plan, act, amount, pc, held, day, moved, src>>
    BY <1>8 DEF Relay, journal, thread, clock, counter
  <2>2. file'.day = day /\ file'.src = src
    BY <2>1
  <2>3. file' # NoDoc
    BY <2>2 DEF NoDoc, IInv, TypeOK, ClockType
  <2>4. \A a \in Assets : pc = "held" => held.src[a] \in Nat /\ file.src[a] \in Nat
    BY AssetsAssumption DEF IInv, NothingHidden, TypeOK, ThreadType, RelayType, View, Doc
  <2>5. \A a \in Assets : src[a] \in Nat /\ amount[a].src \in Nat
    BY AssetsAssumption DEF IInv, TypeOK, CounterType, JournalType, Figures
  <2>6. file'.day <= day'
    BY <2>1, <2>2 DEF IInv, TypeOK, ClockType
  <2> QED
    BY <2>1, <2>2, <2>3, <2>4, <2>5, <2>6 DEF IInv, NothingHidden
<1>9. ASSUME NEW a \in Assets, Move(a) PROVE NothingHidden'
  <2>1. /\ moved' = moved \cup {a} /\ src' = [src EXCEPT ![a] = @ - amount[a].amt] /\ fate[a] = "success"
        /\ UNCHANGED <<plan, act, amount, pc, held, day, file>>
    BY <1>9 DEF Move, Inside, journal, thread, clock, relay
  <2>2. plan # "none"
    BY <2>1 DEF IInv, JournalAhead
  <2>3. \A b \in Assets : b \notin moved' => b \notin moved /\ src'[b] = src[b]
    BY <2>1 DEF IInv, TypeOK, CounterType
  <2> QED
    BY <2>1, <2>2, <2>3 DEF IInv, NothingHidden
<1>10. ASSUME NEW a \in Assets, Arrive(a) PROVE NothingHidden'
  <2>1. src' = [src EXCEPT ![a] = @ + 1] /\ UNCHANGED <<plan, act, amount, pc, held, day, file, moved>>
    BY <1>10 DEF Arrive, Inside, journal, thread, clock, relay
  <2>2. \A b \in Assets : src[b] \in Nat /\ src'[b] \in Nat /\ src[b] <= src'[b] /\ amount[b].src \in Nat
    BY <2>1, AssetsAssumption DEF IInv, TypeOK, CounterType, JournalType, Figures
  <2>3. \A b \in Assets : file.day = day => file.src[b] \in Nat
    BY AssetsAssumption DEF IInv, TypeOK, RelayType, ClockType, Doc, NoDoc
  <2> QED
    BY <2>1, <2>2, <2>3 DEF IInv, NothingHidden
<1>11. CASE NewDay
  <2>1. /\ plan' = "none" /\ act' = [a \in Assets |-> "absent"] /\ pc' = "idle" /\ day' = day + 1
        /\ UNCHANGED <<file>>
    BY <1>11 DEF NewDay, thread, relay
  <2>2. file.day \in Nat /\ day \in Nat
    BY AssetsAssumption DEF IInv, TypeOK, RelayType, ClockType, Doc, NoDoc
  <2>3. file.day # day' /\ file'.day <= day'
    BY <2>1, <2>2 DEF IInv, NothingHidden
  <2> QED
    BY <2>1, <2>3 DEF NothingHidden
<1> QED
  BY <1>1, <1>2, <1>3, <1>4, <1>5, <1>6, <1>7, <1>8, <1>9, <1>10, <1>11 DEF Next, Act, Counter

-----------------------------------------------------------------------------
(* The theorems.                                                            *)

(***************************************************************************)
(* The strengthened invariant is inductive: what the journal says is never *)
(* behind the counter, and actions are tried one after the other.          *)
(***************************************************************************)
THEOREM Invariance == Spec => []IInv
<1>1. IInv /\ [Next]_vars => IInv'
  BY TypeStep, AheadStep, ShownStep, OrdersStep DEF IInv
<1> QED
  BY InitIInv, <1>1, PTL DEF Spec

(***************************************************************************)
(* Every variable stays in its type (_drive_once and its handlers never    *)
(* write a state the next round would reject as unsupported).              *)
(***************************************************************************)
THEOREM TypeCorrect == Spec => []TypeOK
BY Invariance, PTL DEF IInv

(***************************************************************************)
(* No transfer is submitted twice in a day, for any assets and any number  *)
(* of crashes, lost requests and lost sessions (_submit_action_once saves  *)
(* before it calls, _recover_unknown_action never submits).                *)
(***************************************************************************)
THEOREM SubmitsOnce == Spec => []AtMostOneTransfer
<1>1. IInv => AtMostOneTransfer
  BY DEF IInv, JournalAhead, AtMostOneTransfer
<1> QED
  BY Invariance, <1>1, PTL

(***************************************************************************)
(* At most one transfer is under way (_drive_once takes the first action   *)
(* that has not succeeded and no other).                                   *)
(***************************************************************************)
THEOREM TransfersInTurn == Spec => []OneAtATime
<1>1. IInv => OneAtATime
  <2> SUFFICES ASSUME IInv, NEW a \in Assets, NEW b \in Assets, UnderWay(a), UnderWay(b)
               PROVE  a = b
    BY DEF OneAtATime
  <2>1. Tried(a) /\ Tried(b)
    BY DEF UnderWay, Tried, IInv, JournalAhead
  <2>2. Rank[a] \in Nat /\ Rank[b] \in Nat /\ (Rank[a] = Rank[b] => a = b)
    BY AssetsAssumption
  <2>3. ~(Rank[a] < Rank[b]) /\ ~(Rank[b] < Rank[a])
    BY <2>1 DEF IInv, InOrder, Tried
  <2> QED
    BY <2>2, <2>3
<1> QED
  BY Invariance, <1>1, PTL

(***************************************************************************)
(* What the journal calls succeeded has moved, what it calls rejected      *)
(* never will (_reconcile_action, _complete_submitted_action).             *)
(***************************************************************************)
THEOREM JournalHolds == Spec => []JournalIsTrue
<1>1. IInv => JournalIsTrue
  BY DEF IInv, JournalAhead, JournalIsTrue
<1> QED
  BY Invariance, <1>1, PTL

-----------------------------------------------------------------------------
(* The order gate.                                                          *)

\* What the gate reads in memory is what the file says of the same day.
GateTrue ==
  /\ healthDay <= day
  /\ health = "complete" /\ healthDay = day => plan = "complete"

\* What is published is what is saved; what waits or raises is not complete.
LEMMA GateKept ==
  ASSUME IInv, GateTrue, UNCHANGED day, healthDay' \in {healthDay, day},
         \/ health' # "complete"
         \/ health' = plan' /\ healthDay' = day
         \/ UNCHANGED <<health, healthDay, plan>>
  PROVE  GateTrue'
<1>1. day \in Nat
  BY DEF IInv, TypeOK, ClockType
<1> QED
  BY <1>1 DEF GateTrue

LEMMA GateStep == IInv /\ GateTrue /\ [Next]_vars => GateTrue'
<1> SUFFICES ASSUME IInv, GateTrue, [Next]_vars PROVE GateTrue'
  OBVIOUS
<1>1. CASE \/ UNCHANGED vars \/ AdmitOrder \/ SubmitOrder \/ DriveRead \/ CallNative \/ Relay \/ Age
           \/ Open \/ Lose \/ Rebuild \/ (\E a \in Assets : Counter(a) \/ Arrive(a))
           \/ (\E k \in Securities : Trade(k))
  <2>1. UNCHANGED <<day, health, healthDay, plan>>
    BY <1>1 DEF vars, journal, memory, clock, AdmitOrder, SubmitOrder, DriveRead, CallNative, Relay, Age,
       Open, Lose, Rebuild, Counter, Decide, Move, Show, Arrive, Inside, Trade
  <2> QED
    BY <2>1, GateKept
<1>2. CASE DriveEarly \/ DriveBlind \/ DriveMismatch \/ RoundFails
  <2>1. UNCHANGED <<day, plan>> /\ healthDay' \in {healthDay, day}
    BY <1>2 DEF DriveEarly, DriveBlind, DriveMismatch, RoundFails, Publish, Quiet, clock, journal
  <2>2. health' # "complete" \/ (health' = plan' /\ healthDay' = day)
    BY <1>2, <2>1 DEF DriveEarly, DriveBlind, DriveMismatch, RoundFails, Publish, AfterWait
  <2> QED
    BY <2>1, <2>2, GateKept
<1>3. CASE StaysUnstable \/ BuildPlan
  <2>1. UNCHANGED day /\ healthDay' = day
    BY <1>3 DEF StaysUnstable, BuildPlan, Publish, Quiet, clock, IInv, NothingHidden
  <2>2. health' # "complete"
    BY <1>3 DEF StaysUnstable, BuildPlan, Publish
  <2> QED
    BY <2>1, <2>2, GateKept
<1>4. CASE Rests \/ RestsDry \/ Finish \/ Recheck
  <2>1. UNCHANGED day /\ healthDay' = day
    BY <1>4 DEF Rests, RestsDry, Finish, Recheck, SavePlan, Raise, Publish, Quiet, clock
  <2>2. health' # "complete" \/ health' = plan'
    BY <1>4 DEF Rests, RestsDry, Finish, Recheck, SavePlan, Raise, Publish
  <2> QED
    BY <2>1, <2>2, GateKept
<1>5. ASSUME NEW a \in Assets, Step(a) PROVE GateTrue'
  <2>1. UNCHANGED day
    BY <1>5 DEF Step, StartSubmit, Recover, Reconcile, StaysRejected, Quiet, clock
  <2>2. Raise \/ Wait \/ \E s, p : Save(a, s, p)
    BY <1>5 DEF Step, StartSubmit, Recover, Reconcile, StaysRejected
  <2>3. healthDay' = day /\ (health' # "complete" \/ health' = plan')
    BY <2>2 DEF Save, Raise, Wait, AfterWait, Publish
  <2> QED
    BY <2>1, <2>3, GateKept
<1>6. CASE CallRaises \/ CallReturns
  <2>1. UNCHANGED day /\ \E s, p : Save(cur, s, p)
    BY <1>6 DEF CallRaises, CallReturns, Quiet, clock
  <2> QED
    BY <2>1, GateKept DEF Save, Publish
<1>7. CASE Crash
  BY <1>7 DEF Crash, GateTrue, IInv, TypeOK, ClockType
<1>8. CASE NewDay
  <2>1. day' = day + 1 /\ UNCHANGED <<health, healthDay>>
    BY <1>8 DEF NewDay, memory
  <2>2. day \in Nat /\ healthDay \in Nat
    BY AssetsAssumption DEF IInv, TypeOK, ClockType, MemoryType
  <2> QED
    BY <2>1, <2>2 DEF GateTrue
<1> QED
  BY <1>1, <1>2, <1>3, <1>4, <1>5, <1>6, <1>7, <1>8 DEF Next, Act

(***************************************************************************)
(* An order is put on the counter's book only while the journal calls the  *)
(* day complete, for any number of orders waiting in the executor, rounds  *)
(* that revoke the plan, crashes and lost sessions: _publish_plan_health   *)
(* runs with every save, and the executor asks the gate again.  (What is   *)
(* left in memory of the day before is the exception the formula names.)   *)
(***************************************************************************)
THEOREM GatedOrders == Spec => OrdersOnlyWhenComplete
<1>1. Init => GateTrue
  BY DEF Init, GateTrue
<1>2. IInv /\ GateTrue /\ [Next]_vars => [booked' > booked => plan = "complete" \/ healthDay # day]_vars
  <2> SUFFICES ASSUME IInv, GateTrue, [Next]_vars, booked' > booked
               PROVE  plan = "complete" \/ healthDay # day
    OBVIOUS
  <2>0. booked \in Nat
    BY DEF IInv, TypeOK, OrdersType
  <2>1. CASE SubmitOrder
    BY <2>0, <2>1 DEF SubmitOrder, OrderAllowed, GateTrue
  <2>2. CASE AdmitOrder \/ Crash \/ NewDay \/ (\E k \in Securities : Trade(k))
    BY <2>0, <2>2 DEF AdmitOrder, Crash, NewDay, Trade
  <2>3. CASE UNCHANGED vars \/ DriveEarly \/ DriveBlind \/ DriveMismatch \/ DriveRead \/ Act
    BY <2>0, <2>3 DEF vars, orders, DriveEarly, DriveBlind, DriveMismatch, DriveRead, Quiet, Act, StaysUnstable,
       BuildPlan, Rests, RestsDry, Finish, Recheck, Step, StartSubmit, Recover, Reconcile, StaysRejected
  <2>4. CASE \/ RoundFails \/ CallNative \/ CallRaises \/ CallReturns \/ Relay \/ Age \/ Open \/ Lose
             \/ Rebuild \/ (\E a \in Assets : Counter(a) \/ Arrive(a))
    BY <2>0, <2>4 DEF orders, RoundFails, CallNative, CallRaises, CallReturns, Quiet, Relay, Age, Open, Lose,
       Rebuild, Counter, Decide, Move, Show, Arrive, Inside
  <2> QED
    BY <2>1, <2>2, <2>3, <2>4 DEF Next
<1> QED
  BY <1>1, <1>2, GateStep, Invariance, PTL DEF Spec, OrdersOnlyWhenComplete
=============================================================================
