------------------------ MODULE ControlDeliveryProofs ------------------------
(***************************************************************************)
(* Proofs about ControlDelivery: what the consumer knows of losses and of  *)
(* degraded scopes when it gets data, for any scopes, callers, capacities  *)
(* and number of signals; the queue implements ContinuityContract.         *)
(***************************************************************************)
EXTENDS ControlDelivery, FiniteSetTheorems, TLAPS

\* What the provers need of the constants.
LEMMA Bounds ==
  /\ Capacity \in Nat \ {0} /\ ScopeCapacity \in Nat \ {0} /\ MaxSignals \in Nat
  /\ None \notin Ids /\ None \notin Callers
BY QueueAssumption DEF QueueAssumption

\* The data area has a size.
LEMMA DepthIsCount ==
  ASSUME snaps \subseteq Scopes PROVE Cardinality(snaps) \in Nat
<1>1. IsFiniteSet(snaps)
  BY FS_Subset, QueueAssumption DEF QueueAssumption
<1> QED
  BY <1>1, FS_CardinalityType

-----------------------------------------------------------------------------
(* Types *)

\* The producer leaves the types of the queue alone.
LEMMA ProduceQueue ==
  ASSUME QueueOK, NEW s \in Scopes, Produce(s) PROVE QueueOK'
<1> USE Bounds DEF QueueOK, Says, data, lineage, window, Outside
<1>1. CASE PutData(s)
  <2>1. Cardinality(snaps) \in Nat
    BY DepthIsCount
  <2> QED
    BY <1>1, <2>1 DEF PutData, Depth
<1>2. CASE Overflow(s)
  BY <1>2 DEF Overflow, Boundary, Activate
<1>3. CASE SourceGap(s)
  BY <1>3 DEF SourceGap, Boundary, Activate
<1>4. CASE SourceBad(s)
  BY <1>4 DEF SourceBad, Activate
<1>5. ASSUME NEW id \in Ids \cup {None}, SourceGood(s, id) PROVE QueueOK'
  BY <1>5 DEF SourceGood
<1>6. CASE Raises(s)
  BY <1>6 DEF Raises
<1>7. ASSUME NEW id \in Ids, Authorize(s, id) PROVE QueueOK'
  BY <1>7 DEF Authorize
<1> QED
  BY <1>1, <1>2, <1>3, <1>4, <1>5, <1>6, <1>7 DEF Produce

\* So do those who take from it.
LEMMA ConsumeQueue ==
  ASSUME QueueOK, LegacyDrain \/ DrainData \/ (\E c \in Callers : Call(c)) PROVE QueueOK'
<1> USE Bounds DEF QueueOK, Says, Nothing, data, lineage, window, delivery, dispatch, consumer,
     Queue, EmptyWindow
<1>1. CASE LegacyDrain
  BY <1>1 DEF LegacyDrain
<1>2. CASE DrainData
  BY <1>2 DEF DrainData
<1>3. ASSUME NEW c \in Callers, Dispatch(c) PROVE QueueOK'
  BY <1>3 DEF Dispatch, Take
<1>4. ASSUME NEW c \in Callers, SinkFails(c) \/ SinkAccepts(c) PROVE QueueOK'
  BY <1>4 DEF SinkFails, SinkAccepts
<1>5. ASSUME NEW c \in Callers, Acknowledge(c) PROVE QueueOK'
  BY <1>5 DEF Acknowledge
<1> QED
  BY <1>1, <1>2, <1>3, <1>4, <1>5 DEF Call

\* What freezing the window puts into a delivery.
LEMMA FrozenTypes ==
  ASSUME HistoryOK
  PROVE /\ [s \in Scopes |-> Frozen(s)] \in Says
        /\ [s \in Scopes |-> IF s \in gapped THEN losses[s] ELSE 0] \in Counts
BY DEF HistoryOK, Says, Counts, Frozen

LEMMA DeliveryStep ==
  ASSUME QueueOK, DeliveryOK, HistoryOK, [Next]_vars PROVE DeliveryOK'
<1> USE Bounds DEF DeliveryOK, delivery, dispatch
<1>1. Nothing \in Says /\ Zero \in Counts /\ NoDelivery \in [says : Says, upto : Counts]
  BY DEF Nothing, Zero, NoDelivery, Says, Counts
<1>2. ASSUME NEW c \in Callers, Dispatch(c) PROVE DeliveryOK'
  <2>1. sent' \in BOOLEAN /\ batch' \in Says /\ upto' \in Counts /\ bounds' \subseteq Scopes
    <3>1. CASE Take
      BY <3>1, FrozenTypes DEF Take, QueueOK
    <3>2. CASE UNCHANGED delivery
      BY <3>2
    <3> QED
      BY <1>2, <3>1, <3>2 DEF Dispatch
  <2> QED
    BY <1>2, <2>1 DEF Dispatch
<1>3. ASSUME NEW c \in Callers, SinkFails(c) PROVE DeliveryOK'
  BY <1>1, <1>3 DEF SinkFails, Leave
<1>4. ASSUME NEW c \in Callers, SinkAccepts(c) PROVE DeliveryOK'
  BY <1>4 DEF SinkAccepts
<1>5. ASSUME NEW c \in Callers, Acknowledge(c) PROVE DeliveryOK'
  BY <1>1, <1>5 DEF Acknowledge, Leave
<1>6. ASSUME NEW s \in Scopes, Produce(s) PROVE DeliveryOK'
  <2>1. UNCHANGED <<delivery, dispatch>>
    BY <1>6 DEF Produce, PutData, Overflow, SourceGap, SourceBad, SourceGood, Raises, Authorize,
       Outside
  <2> QED
    BY <2>1
<1>7. CASE LegacyDrain \/ DrainData \/ UNCHANGED vars
  BY <1>7 DEF LegacyDrain, DrainData, vars
<1> QED
  BY <1>2, <1>3, <1>4, <1>5, <1>6, <1>7 DEF Next, Call

\* What the consumer knows after it has processed the scopes in S.
LEMMA Learned ==
  ASSUME HistoryOK, NEW says \in Says, NEW n \in Counts, NEW S \in SUBSET Scopes, Learns(says, n, S)
  PROVE /\ view' \subseteq Scopes /\ known' \in Counts
        /\ \A s \in Scopes :
             /\ known'[s] = IF s \in S /\ n[s] > known[s] THEN n[s] ELSE known[s]
             /\ s \in view' <=> IF s \in S /\ says[s] # "nothing" THEN says[s] = "broken"
                                                                 ELSE s \in view
BY DEF HistoryOK, Learns, Says, Counts

LEMMA HistoryStep ==
  ASSUME QueueOK, DeliveryOK, HistoryOK, [Next]_vars PROVE HistoryOK'
<1> USE Bounds DEF HistoryOK, Counts, consumer
<1>1. ASSUME NEW s \in Scopes, Produce(s) PROVE HistoryOK'
  <2> USE DEF Outside, Signal, Lost, Boundary
  <2>1. CASE PutData(s)
    BY <2>1 DEF PutData
  <2>2. CASE Overflow(s) \/ SourceGap(s)
    BY <2>2 DEF Overflow, SourceGap
  <2>3. CASE SourceBad(s)
    BY <2>3 DEF SourceBad
  <2>4. ASSUME NEW id \in Ids \cup {None}, SourceGood(s, id) PROVE HistoryOK'
    BY <2>4 DEF SourceGood
  <2>5. CASE Raises(s)
    BY <2>5 DEF Raises
  <2>6. ASSUME NEW id \in Ids, Authorize(s, id) PROVE HistoryOK'
    BY <2>6 DEF Authorize
  <2> QED
    BY <1>1, <2>1, <2>2, <2>3, <2>4, <2>5, <2>6 DEF Produce
<1>2. CASE LegacyDrain
  <2>1. view' \subseteq Scopes /\ known' \in Counts
    BY <1>2, FrozenTypes, Learned DEF LegacyDrain
  <2> QED
    BY <1>2, <2>1 DEF LegacyDrain
<1>3. CASE DrainData
  BY <1>3 DEF DrainData
<1>4. ASSUME NEW c \in Callers, Call(c) PROVE HistoryOK'
  <2>1. held[c].says \in Says /\ held[c].upto \in Counts
    BY DEF DeliveryOK
  <2>2. UNCHANGED <<losses, got, raised, signals>>
    BY <1>4 DEF Call, Dispatch, SinkFails, SinkAccepts, Acknowledge, Queue
  <2>3. view' \subseteq Scopes /\ known' \in Counts
    <3>1. CASE Dispatch(c) \/ Acknowledge(c)
      BY <3>1 DEF Dispatch, Acknowledge
    <3>2. CASE SinkFails(c) \/ SinkAccepts(c)
      BY <2>1, <3>2, Learned DEF SinkFails, SinkAccepts
    <3> QED
      BY <1>4, <3>1, <3>2 DEF Call
  <2> QED
    BY <2>2, <2>3
<1>5. CASE UNCHANGED vars
  BY <1>5 DEF vars
<1> QED
  BY <1>1, <1>2, <1>3, <1>4, <1>5 DEF Next

LEMMA TypeStep == ASSUME TypeOK, [Next]_vars PROVE TypeOK'
<1>1. QueueOK'
  <2>1. CASE UNCHANGED vars
    BY <2>1 DEF vars, data, lineage, window, TypeOK, QueueOK
  <2> QED
    BY <2>1, ProduceQueue, ConsumeQueue DEF Next, TypeOK
<1> QED
  BY <1>1, DeliveryStep, HistoryStep DEF TypeOK

-----------------------------------------------------------------------------
(* The invariant *)

\* The gate keeps others away from the delivery in flight.
LEMMA OneDeliveryStep ==
  ASSUME TypeOK, OneDelivery, [Next]_vars PROVE OneDelivery'
<1> USE Bounds DEF OneDelivery, delivery, dispatch
<1>0. DeliveryOK
  BY DEF TypeOK
<1>1. ASSUME NEW c \in Callers, Dispatch(c) PROVE OneDelivery'
  <2>1. /\ gate = None /\ gate' = c /\ c \in current' /\ sent'
        /\ pc' = [pc EXCEPT ![c] = "publish"]
        /\ held' = [held EXCEPT ![c] = [says |-> batch', upto |-> upto']]
    BY <1>1 DEF Dispatch, GateFree, Take
  <2>2. \A d \in Callers : pc[d] = "idle"
    BY <2>1, <1>0 DEF DeliveryOK
  <2> QED
    BY <1>0, <2>1, <2>2 DEF DeliveryOK
<1>2. ASSUME NEW c \in Callers, SinkFails(c) PROVE OneDelivery'
  <2>1. /\ gate = c /\ \A d \in Callers : d # c => pc[d] = "idle"
    BY <1>2 DEF SinkFails
  <2> QED
    BY <1>0, <1>2, <2>1 DEF SinkFails, Leave, DeliveryOK
<1>3. ASSUME NEW c \in Callers, SinkAccepts(c) PROVE OneDelivery'
  BY <1>0, <1>3 DEF SinkAccepts, DeliveryOK
<1>4. ASSUME NEW c \in Callers, Acknowledge(c) PROVE OneDelivery'
  <2>1. /\ gate = c /\ c \in current /\ \A d \in Callers : d # c => pc[d] = "idle"
    BY <1>4 DEF Acknowledge
  <2> QED
    BY <1>0, <1>4, <2>1 DEF Acknowledge, Leave, DeliveryOK
<1>5. ASSUME NEW s \in Scopes, Produce(s) PROVE OneDelivery'
  <2>1. UNCHANGED <<delivery, dispatch>>
    BY <1>5 DEF Produce, PutData, Overflow, SourceGap, SourceBad, SourceGood, Raises, Authorize,
       Outside
  <2> QED
    BY <2>1
<1>6. CASE LegacyDrain \/ DrainData \/ UNCHANGED vars
  BY <1>6 DEF LegacyDrain, DrainData, vars
<1> QED
  BY <1>1, <1>2, <1>3, <1>4, <1>5, <1>6 DEF Next, Call

\* Beside the types and the one delivery.
OnRecord ==
  /\ LossesOnRecord /\ StatusOnRecord /\ ConfirmedIsLearned
  /\ AuthorisedIsTold /\ UnackedIsOutstanding

\* A loss enters the window, of this queue or of the source.
LEMMA BoundaryStep ==
  ASSUME TypeOK, OnRecord, NEW s \in Scopes, Overflow(s) \/ SourceGap(s) PROVE OnRecord'
<1>1. /\ pend' = pend \cup {s} /\ gapped' = gapped \cup {s} /\ unacked' = unacked \cup {s}
      /\ active' = active \cup {s} /\ auth' = [auth EXCEPT ![s] = None]
      /\ losses' = [losses EXCEPT ![s] = @ + 1]
      /\ UNCHANGED <<legacy, status, raised, batch, upto, bounds, pc, known, view>>
  BY DEF Overflow, SourceGap, Boundary, Activate, Lost, Outside, delivery, dispatch, consumer
<1>2. LossesOnRecord'
  BY <1>1 DEF TypeOK, QueueOK, DeliveryOK, HistoryOK, Counts, OnRecord, LossesOnRecord
<1>3. StatusOnRecord'
  BY <1>1 DEF OnRecord, StatusOnRecord
<1>4. ConfirmedIsLearned'
  BY <1>1 DEF OnRecord, ConfirmedIsLearned
<1>5. AuthorisedIsTold' /\ UnackedIsOutstanding'
  BY <1>1 DEF TypeOK, QueueOK, OnRecord, AuthorisedIsTold, UnackedIsOutstanding
<1> QED
  BY <1>2, <1>3, <1>4, <1>5 DEF OnRecord

\* The source degrades or recovers, the recovery is authorised, the producer is refused.
LEMMA SourceStep ==
  ASSUME TypeOK, OnRecord, NEW s \in Scopes,
         \/ PutData(s) \/ SourceBad(s) \/ Raises(s)
         \/ \E id \in Ids \cup {None} : SourceGood(s, id)
         \/ \E id \in Ids : Authorize(s, id)
  PROVE  OnRecord'
<1> USE DEF Outside, delivery, dispatch, consumer, lineage, window
<1>1. CASE PutData(s)
  BY <1>1 DEF PutData, OnRecord, LossesOnRecord, StatusOnRecord, ConfirmedIsLearned,
     AuthorisedIsTold, UnackedIsOutstanding
<1>2. CASE SourceBad(s)
  <2>1. /\ pend' = pend \cup {s} /\ status' = [status EXCEPT ![s] = "broken"]
        /\ active' = active \cup {s} /\ auth' = [auth EXCEPT ![s] = None]
        /\ UNCHANGED <<legacy, unacked, gapped, losses, raised, batch, upto, bounds, pc, known, view>>
    BY <1>2 DEF SourceBad, Activate
  <2> QED
    BY <2>1 DEF TypeOK, QueueOK, OnRecord, LossesOnRecord, StatusOnRecord, ConfirmedIsLearned,
       AuthorisedIsTold, UnackedIsOutstanding
<1>3. ASSUME NEW id \in Ids \cup {None}, SourceGood(s, id) PROVE OnRecord'
  <2>1. /\ pend' = pend \cup {s}
        /\ UNCHANGED <<legacy, unacked, gapped, losses, raised, batch, upto, bounds, pc, known, view>>
    BY <1>3 DEF SourceGood
  <2>2. CASE Recovers(s, id)
    <3>1. /\ active' = active \ {s} /\ auth' = [auth EXCEPT ![s] = None]
          /\ status' = [status EXCEPT ![s] = "whole"] /\ auth[s] # None
      BY <1>3, <2>2 DEF SourceGood, Recovers
    <3>2. LossesOnRecord'
      BY <2>1, <3>1 DEF TypeOK, QueueOK, OnRecord, LossesOnRecord
    <3>3. StatusOnRecord'
      BY <2>1, <3>1 DEF TypeOK, QueueOK, Says, OnRecord, StatusOnRecord
    <3>4. ConfirmedIsLearned' /\ AuthorisedIsTold' /\ UnackedIsOutstanding'
      BY <2>1, <3>1 DEF TypeOK, QueueOK, OnRecord, ConfirmedIsLearned, AuthorisedIsTold,
         UnackedIsOutstanding
    <3> QED
      BY <3>2, <3>3, <3>4 DEF OnRecord
  <2>3. CASE ~Recovers(s, id)
    <3>1. /\ status' = [status EXCEPT ![s] = IF s \in active THEN "broken" ELSE "whole"]
          /\ UNCHANGED <<active, auth>>
      BY <1>3, <2>3 DEF SourceGood
    <3>2. LossesOnRecord'
      BY <2>1, <3>1 DEF TypeOK, QueueOK, OnRecord, LossesOnRecord
    <3>3. StatusOnRecord'
      BY <2>1, <3>1 DEF TypeOK, QueueOK, Says, OnRecord, StatusOnRecord
    <3>4. ConfirmedIsLearned' /\ AuthorisedIsTold' /\ UnackedIsOutstanding'
      BY <2>1, <3>1 DEF TypeOK, QueueOK, OnRecord, ConfirmedIsLearned, AuthorisedIsTold,
         UnackedIsOutstanding
    <3> QED
      BY <3>2, <3>3, <3>4 DEF OnRecord
  <2> QED
    BY <2>2, <2>3
<1>4. CASE Raises(s)
  <2>1. /\ raised' = raised \cup {s}
        /\ losses' = [losses EXCEPT ![s] = @ + 1] \/ UNCHANGED losses
        /\ UNCHANGED <<legacy, lineage, window, batch, upto, bounds, pc, known, view>>
    BY <1>4 DEF Raises, Lost
  <2>2. LossesOnRecord'
    BY <2>1 DEF TypeOK, DeliveryOK, HistoryOK, Counts, OnRecord, LossesOnRecord
  <2> QED
    BY <2>1, <2>2 DEF OnRecord, StatusOnRecord, ConfirmedIsLearned, AuthorisedIsTold,
       UnackedIsOutstanding
<1>5. ASSUME NEW id \in Ids, Authorize(s, id) PROVE OnRecord'
  <2>1. /\ s \in active /\ s \notin unacked /\ auth' = [auth EXCEPT ![s] = id]
        /\ UNCHANGED <<legacy, active, unacked, window, losses, raised, batch, upto, bounds, pc, known, view>>
    BY <1>5 DEF Authorize
  <2> QED
    BY <2>1 DEF TypeOK, QueueOK, OnRecord, LossesOnRecord, StatusOnRecord, ConfirmedIsLearned,
       AuthorisedIsTold, UnackedIsOutstanding
<1> QED
  BY <1>1, <1>2, <1>3, <1>4, <1>5

\* The window as it is frozen says of its scopes what they are.
LEMMA FrozenIsTrue ==
  ASSUME TypeOK, OnRecord, NEW t \in Scopes
  PROVE /\ t \notin pend => Frozen(t) = "nothing"
        /\ t \in pend => Frozen(t) = IF t \in active THEN "broken" ELSE "whole"
<1>1. t \in queued => t \in active
  BY DEF TypeOK, QueueOK, OnRecord, UnackedIsOutstanding, LossesOnRecord
<1>2. t \in pend /\ t \notin active => status[t] = "whole"
  BY DEF OnRecord, StatusOnRecord
<1> QED
  BY <1>1, <1>2 DEF Frozen

LEMMA LegacyDrainStep ==
  ASSUME TypeOK, OneDelivery, OnRecord, LegacyDrain PROVE OnRecord'
<1> DEFINE says == [s \in Scopes |-> Frozen(s)]
           n == [s \in Scopes |-> IF s \in gapped THEN losses[s] ELSE 0]
<1>1. /\ legacy /\ bounds = {} /\ batch = Nothing /\ \A c \in Callers : pc[c] = "idle"
      /\ pend' = {} /\ gapped' = {}
      /\ UNCHANGED <<legacy, active, auth, unacked, losses, raised, batch, upto, bounds, pc>>
  BY DEF LegacyDrain, OneDelivery, EmptyWindow, lineage, delivery, dispatch
<1>2. \A t \in Scopes :
        /\ known'[t] = IF n[t] > known[t] THEN n[t] ELSE known[t]
        /\ t \in view' <=> IF says[t] # "nothing" THEN says[t] = "broken" ELSE t \in view
  <2>1. HistoryOK /\ says \in Says /\ n \in Counts /\ Learns(says, n, Scopes)
    BY FrozenTypes DEF TypeOK, LegacyDrain
  <2> QED
    BY <2>1, Learned
<1>3. ASSUME NEW t \in Scopes
      PROVE /\ known'[t] <= losses'[t] /\ upto'[t] <= losses'[t]
            /\ t \notin raised' => known'[t] = losses'[t]
  <2>1. /\ known[t] \in Nat /\ losses[t] \in Nat /\ known[t] <= losses[t] /\ upto[t] <= losses[t]
        /\ t \notin gapped \cup raised => known[t] = losses[t]
    BY <1>1 DEF TypeOK, HistoryOK, Counts, OnRecord, LossesOnRecord
  <2> QED
    BY <1>1, <1>2, <2>1
<1>4. LossesOnRecord'
  BY <1>1, <1>3 DEF OnRecord, LossesOnRecord
<1>5. ASSUME NEW t \in Scopes PROVE t \in active' <=> t \in view'
  <2>1. t \notin pend => (t \in active <=> t \in view)
    BY <1>1 DEF OnRecord, StatusOnRecord, Nothing
  <2>2. says[t] = IF t \notin pend THEN "nothing" ELSE IF t \in active THEN "broken" ELSE "whole"
    BY FrozenIsTrue
  <2> HIDE DEF says
  <2> QED
    BY <1>1, <1>2, <2>1, <2>2
<1>6. StatusOnRecord'
  BY <1>1, <1>5 DEF StatusOnRecord, Nothing
<1>7. ConfirmedIsLearned' /\ AuthorisedIsTold' /\ UnackedIsOutstanding'
  BY <1>1 DEF OnRecord, ConfirmedIsLearned, AuthorisedIsTold, UnackedIsOutstanding
<1> QED
  BY <1>4, <1>6, <1>7 DEF OnRecord

\* Nothing of the record changes when data leaves.
LEMMA DrainDataStep == ASSUME OnRecord, DrainData \/ UNCHANGED vars PROVE OnRecord'
BY DEF DrainData, vars, lineage, window, delivery, dispatch, consumer, OnRecord, LossesOnRecord,
   StatusOnRecord, ConfirmedIsLearned, AuthorisedIsTold, UnackedIsOutstanding

LEMMA DispatchStep ==
  ASSUME TypeOK, OneDelivery, OnRecord, NEW c \in Callers, Dispatch(c) PROVE OnRecord'
<1>1. /\ \A d \in Callers : pc[d] = "idle"
      /\ pc' = [pc EXCEPT ![c] = "publish"]
      /\ UNCHANGED <<legacy, lineage, losses, raised, known, view>>
  BY Bounds DEF Dispatch, GateFree, OneDelivery, TypeOK, DeliveryOK, Queue, consumer
<1>2. ConfirmedIsLearned'
  BY <1>1 DEF ConfirmedIsLearned, TypeOK, DeliveryOK
<1>3. CASE UNCHANGED <<delivery, window>>
  BY <1>1, <1>2, <1>3 DEF OnRecord, LossesOnRecord, StatusOnRecord, AuthorisedIsTold,
     UnackedIsOutstanding, delivery, window, lineage
<1>4. CASE Take
  <2>1. /\ batch' = [s \in Scopes |-> Frozen(s)]
        /\ upto' = [s \in Scopes |-> IF s \in gapped THEN losses[s] ELSE 0]
        /\ bounds' = gapped /\ pend' = {} /\ gapped' = {}
        /\ bounds = {} /\ batch = Nothing
    BY <1>4 DEF Take, EmptyWindow, OneDelivery
  <2>2. LossesOnRecord'
    BY <1>1, <2>1 DEF TypeOK, HistoryOK, Counts, OnRecord, LossesOnRecord, lineage
  <2>3. ASSUME NEW t \in Scopes
        PROVE t \in active' <=> IF batch'[t] = "nothing" THEN t \in view' ELSE batch'[t] = "broken"
    <3>1. t \notin pend => (t \in active <=> t \in view)
      BY <2>1 DEF OnRecord, StatusOnRecord, Nothing
    <3>2. batch'[t] = IF t \notin pend THEN "nothing" ELSE IF t \in active THEN "broken" ELSE "whole"
      BY <2>1, FrozenIsTrue
    <3> QED
      BY <1>1, <3>1, <3>2 DEF lineage
  <2>4. StatusOnRecord'
    BY <2>1, <2>3 DEF StatusOnRecord
  <2>5. AuthorisedIsTold' /\ UnackedIsOutstanding'
    BY <1>1, <2>1 DEF OnRecord, AuthorisedIsTold, UnackedIsOutstanding, lineage
  <2> QED
    BY <1>2, <2>2, <2>4, <2>5 DEF OnRecord
<1> QED
  BY <1>3, <1>4 DEF Dispatch

\* The consumer processes the delivery, or a part of it.
LEMMA SinkStep ==
  ASSUME TypeOK, OneDelivery, OnRecord, NEW c \in Callers, SinkFails(c) \/ SinkAccepts(c)
  PROVE  OnRecord'
<1>1. /\ \A d \in Callers : d # c => pc[d] = "idle"
      /\ held[c] = [says |-> batch, upto |-> upto]
      /\ UNCHANGED <<legacy, lineage, window, batch, upto, bounds, losses, raised>>
      /\ pc' = [pc EXCEPT ![c] = "idle"] \/ pc' = [pc EXCEPT ![c] = "ack"]
  BY DEF SinkFails, SinkAccepts, Leave, OneDelivery, Queue, delivery
<1>2. PICK S \in SUBSET Scopes :
        Learns(batch, upto, S) /\ (pc' = [pc EXCEPT ![c] = "ack"] => S = Scopes)
  <2>1. CASE SinkAccepts(c)
    BY <1>1, <2>1 DEF SinkAccepts
  <2>2. CASE SinkFails(c)
    <3>1. pc' # [pc EXCEPT ![c] = "ack"]
      BY <2>2 DEF SinkFails, Leave, TypeOK, DeliveryOK
    <3> QED
      BY <1>1, <2>2, <3>1 DEF SinkFails
  <2> QED
    BY <2>1, <2>2
<1>3. \A t \in Scopes :
        /\ known'[t] = IF t \in S /\ upto[t] > known[t] THEN upto[t] ELSE known[t]
        /\ t \in view' <=> IF t \in S /\ batch[t] # "nothing" THEN batch[t] = "broken" ELSE t \in view
  BY <1>2, Learned DEF TypeOK, DeliveryOK
<1>4. \A t \in Scopes : known[t] \in Nat /\ upto[t] \in Nat /\ losses[t] \in Nat
  BY DEF TypeOK, DeliveryOK, HistoryOK, Counts
<1>5. LossesOnRecord'
  BY <1>1, <1>3, <1>4 DEF OnRecord, LossesOnRecord, lineage, window
<1>6. StatusOnRecord'
  BY <1>1, <1>3 DEF OnRecord, StatusOnRecord, lineage, window
<1>7. ConfirmedIsLearned'
  <2>1. \A d \in Callers : pc'[d] = "ack" => S = Scopes
    BY <1>1, <1>2 DEF TypeOK, DeliveryOK
  <2> QED
    BY <1>1, <1>3, <1>4, <2>1 DEF ConfirmedIsLearned
<1>8. AuthorisedIsTold' /\ UnackedIsOutstanding'
  BY <1>1 DEF OnRecord, AuthorisedIsTold, UnackedIsOutstanding, lineage, window
<1> QED
  BY <1>5, <1>6, <1>7, <1>8 DEF OnRecord

\* The delivery is over; what it told is known by then.
LEMMA AcknowledgeStep ==
  ASSUME TypeOK, OneDelivery, OnRecord, NEW c \in Callers, Acknowledge(c) PROVE OnRecord'
<1>1. /\ pc[c] = "ack" /\ \A d \in Callers : d # c => pc[d] = "idle"
      /\ pc' = [pc EXCEPT ![c] = "idle"]
      /\ batch' = Nothing /\ upto' = Zero /\ bounds' = {} /\ unacked' = unacked \ (bounds \ gapped)
      /\ UNCHANGED <<legacy, active, auth, window, losses, raised, known, view>>
  BY DEF Acknowledge, Leave, OneDelivery, Queue, consumer, Settled
<1>2. \A t \in Scopes : /\ known[t] >= upto[t]
                        /\ batch[t] # "nothing" => (t \in view <=> batch[t] = "broken")
  BY <1>1 DEF OnRecord, ConfirmedIsLearned
<1>3. \A t \in Scopes : known[t] \in Nat /\ upto[t] \in Nat /\ losses[t] \in Nat
  BY DEF TypeOK, DeliveryOK, HistoryOK, Counts
<1>4. LossesOnRecord'
  BY <1>1, <1>2, <1>3 DEF OnRecord, LossesOnRecord, window, Zero
<1>5. StatusOnRecord'
  BY <1>1, <1>2 DEF OnRecord, StatusOnRecord, window, Nothing
<1>6. ConfirmedIsLearned'
  BY <1>1 DEF ConfirmedIsLearned, TypeOK, DeliveryOK
<1>7. AuthorisedIsTold' /\ UnackedIsOutstanding'
  BY <1>1 DEF OnRecord, AuthorisedIsTold, UnackedIsOutstanding, window
<1> QED
  BY <1>4, <1>5, <1>6, <1>7 DEF OnRecord

LEMMA OnRecordStep ==
  ASSUME TypeOK, OneDelivery, OnRecord, [Next]_vars PROVE OnRecord'
<1>1. ASSUME NEW s \in Scopes, Produce(s) PROVE OnRecord'
  BY <1>1, BoundaryStep, SourceStep DEF Produce
<1>2. ASSUME NEW c \in Callers, Call(c) PROVE OnRecord'
  BY <1>2, DispatchStep, SinkStep, AcknowledgeStep DEF Call
<1> QED
  BY <1>1, <1>2, LegacyDrainStep, DrainDataStep DEF Next

LEMMA InitInv == ASSUME Init PROVE IInv
<1> USE Bounds DEF Init, Nothing, Zero, NoDelivery, Says, Counts
<1>1. QueueOK
  BY DEF QueueOK
<1>2. DeliveryOK
  BY DEF DeliveryOK
<1>3. HistoryOK
  BY DEF HistoryOK
<1>4. OneDelivery
  BY DEF OneDelivery
<1>5. LossesOnRecord /\ StatusOnRecord /\ ConfirmedIsLearned /\ AuthorisedIsTold /\ UnackedIsOutstanding
  BY DEF LossesOnRecord, StatusOnRecord, ConfirmedIsLearned, AuthorisedIsTold, UnackedIsOutstanding
<1> QED
  BY <1>1, <1>2, <1>3, <1>4, <1>5 DEF IInv, TypeOK

LEMMA StepInv == ASSUME IInv, [Next]_vars PROVE IInv'
BY TypeStep, OneDeliveryStep, OnRecordStep DEF IInv, OnRecord

\* The inductive invariant: what is lost or degraded is in the window, in flight or
\* known to the consumer.
THEOREM Invariance == Spec => []IInv
BY InitInv, StepInv, PTL DEF Spec

\* Every variable of the queue, its dispatcher and the consumer stays in its type, whatever
\* is lost, refused or delivered again.
THEOREM TypeCorrect == Spec => []TypeOK
BY Invariance, PTL DEF IInv

\* A recovery is authorised only when no boundary of the scope is under way.
THEOREM AuthorisedAreTold == Spec => []AuthorisedIsTold
BY Invariance, PTL DEF IInv

\* A boundary counts as unconfirmed exactly while it is in the window or in flight.
THEOREM UnackedOutstanding == Spec => []UnackedIsOutstanding
BY Invariance, PTL DEF IInv

-----------------------------------------------------------------------------
(* The contract *)

\* What the producer does is a loss, a degradation, a recovery or a refusal.
LEMMA ProduceKeeps ==
  ASSUME TypeOK, OnRecord, NEW s \in Scopes, Produce(s)
  PROVE  Contract!Next \/ UNCHANGED Contract!vars
<1> USE DEF Outside, consumer, Contract!vars
<1>1. CASE Overflow(s) \/ SourceGap(s)
  <2>1. Contract!Lose(s)
    BY <1>1 DEF Overflow, SourceGap, Boundary, Activate, Lost, Contract!Lose
  <2> QED
    BY <2>1 DEF Contract!Next
<1>2. CASE SourceBad(s)
  <2>1. Contract!Degrade(s)
    BY <1>2 DEF SourceBad, Activate, Contract!Degrade
  <2> QED
    BY <2>1 DEF Contract!Next
<1>3. ASSUME NEW id \in Ids \cup {None}, SourceGood(s, id)
      PROVE Contract!Next \/ UNCHANGED Contract!vars
  <2>1. CASE Recovers(s, id)
    <3>1. s \in raised \/ known[s] = losses[s]
      BY <2>1 DEF Recovers, OnRecord, AuthorisedIsTold, LossesOnRecord
    <3>2. Contract!Recover(s)
      BY <1>3, <2>1, <3>1 DEF SourceGood, Contract!Recover
    <3> QED
      BY <3>2 DEF Contract!Next
  <2>2. CASE ~Recovers(s, id)
    BY <1>3, <2>2 DEF SourceGood
  <2> QED
    BY <2>1, <2>2
<1>4. CASE Raises(s)
  <2>1. Contract!Refuse(s)
    BY <1>4 DEF Raises, Lost, lineage, Contract!Refuse
  <2> QED
    BY <2>1 DEF Contract!Next
<1>5. CASE PutData(s)
  BY <1>5 DEF PutData, lineage
<1>6. ASSUME NEW id \in Ids, Authorize(s, id) PROVE UNCHANGED Contract!vars
  BY <1>6 DEF Authorize
<1> QED
  BY <1>1, <1>2, <1>3, <1>4, <1>5, <1>6 DEF Produce

\* What the consumer processes makes it know more, never more than was lost.
LEMMA Hears ==
  ASSUME HistoryOK, NEW says \in Says, NEW n \in Counts, NEW S \in SUBSET Scopes,
         Learns(says, n, S), \A s \in Scopes : known[s] <= losses[s] /\ n[s] <= losses[s]
  PROVE  Contract!Heard /\ view' \subseteq Scopes
<1>1. \A s \in Scopes : known[s] \in Nat /\ n[s] \in Nat /\ losses[s] \in Nat
  BY DEF HistoryOK, Counts
<1> QED
  BY <1>1, Learned DEF Contract!Heard, Counts

\* When nothing is in the window and nothing in flight, the consumer knows.
LEMMA IdleIsKnown ==
  ASSUME OneDelivery, OnRecord, HistoryOK, QueueOK, ~sent, pend = {}
  PROVE  view = active /\ \A s \in Scopes \ raised : known[s] = losses[s]
BY DEF OneDelivery, OnRecord, LossesOnRecord, StatusOnRecord, HistoryOK, QueueOK, Nothing

LEMMA LegacyDrainKeeps ==
  ASSUME TypeOK, OneDelivery, OnRecord, LegacyDrain PROVE Contract!Next
<1>1. HistoryOK /\ QueueOK
  BY DEF TypeOK
<1>2. Contract!Heard /\ view' \subseteq Scopes
  <2> DEFINE says == [s \in Scopes |-> Frozen(s)]
             n == [s \in Scopes |-> IF s \in gapped THEN losses[s] ELSE 0]
  <2>1. says \in Says /\ n \in Counts /\ Learns(says, n, Scopes)
    BY <1>1, FrozenTypes DEF LegacyDrain
  <2>2. \A s \in Scopes : known[s] <= losses[s] /\ n[s] <= losses[s]
    BY <1>1 DEF HistoryOK, Counts, OnRecord, LossesOnRecord
  <2> HIDE DEF says, n
  <2> QED
    BY <1>1, <2>1, <2>2, Hears
<1>3. CASE UNCHANGED <<data, got>>
  <2>1. Contract!Tell
    BY <1>2, <1>3 DEF LegacyDrain, lineage, Contract!Tell
  <2> QED
    BY <2>1 DEF Contract!Next
<1>4. CASE got' = 1 - got
  <2>1. OneDelivery' /\ OnRecord' /\ HistoryOK' /\ QueueOK'
    BY LegacyDrainStep, OneDeliveryStep, TypeStep DEF Next, TypeOK
  <2>2. ~sent' /\ pend' = {}
    BY DEF LegacyDrain, EmptyWindow, delivery
  <2>3. view' = active' /\ \A s \in Scopes \ raised' : known'[s] = losses'[s]
    <3>1. gapped' = {} /\ bounds' = {} /\ batch' = Nothing /\ view' \subseteq Scopes /\ active' \subseteq Scopes
      BY <2>1, <2>2 DEF OneDelivery, HistoryOK, QueueOK
    <3>2. \A s \in Scopes : s \in active' <=> s \in view'
      BY <2>1, <2>2, <3>1 DEF OnRecord, StatusOnRecord, Nothing
    <3>3. \A s \in Scopes \ raised' : known'[s] = losses'[s]
      BY <2>1, <3>1 DEF OnRecord, LossesOnRecord
    <3> QED
      BY <3>1, <3>2, <3>3
  <2>4. Contract!Release
    BY <1>2, <1>4, <2>3 DEF LegacyDrain, lineage, Contract!Release
  <2> QED
    BY <2>4 DEF Contract!Next
<1> QED
  BY <1>3, <1>4 DEF LegacyDrain

LEMMA DrainDataKeeps ==
  ASSUME TypeOK, OneDelivery, OnRecord, DrainData PROVE Contract!Next
<1>1. view = active /\ \A s \in Scopes \ raised : known[s] = losses[s]
  BY IdleIsKnown DEF TypeOK, DrainData
<1>2. Contract!Heard
  <2>1. UNCHANGED known /\ \A s \in Scopes : known[s] \in Nat /\ known[s] <= losses[s]
    BY DEF DrainData, TypeOK, HistoryOK, Counts, OnRecord, LossesOnRecord
  <2> QED
    BY <2>1 DEF Contract!Heard, TypeOK, HistoryOK, Counts
<1>3. Contract!Release
  BY <1>1, <1>2 DEF DrainData, lineage, Contract!Release
<1> QED
  BY <1>3 DEF Contract!Next

\* The dispatcher tells, or changes nothing that the contract speaks of.
LEMMA CallKeeps ==
  ASSUME TypeOK, OneDelivery, OnRecord, NEW c \in Callers, Call(c)
  PROVE  Contract!Next \/ UNCHANGED Contract!vars
<1>1. CASE Dispatch(c)
  BY <1>1 DEF Dispatch, Queue, lineage, consumer, Contract!vars
<1>2. CASE Acknowledge(c)
  BY <1>2 DEF Acknowledge, Queue, consumer, Contract!vars
<1>3. CASE SinkFails(c) \/ SinkAccepts(c)
  <2>1. held[c] = [says |-> batch, upto |-> upto]
    BY <1>3 DEF SinkFails, SinkAccepts, OneDelivery
  <2>2. PICK S \in SUBSET Scopes : Learns(batch, upto, S)
    BY <1>3, <2>1 DEF SinkFails, SinkAccepts
  <2>3. Contract!Heard /\ view' \subseteq Scopes
    BY <2>2, Hears DEF TypeOK, DeliveryOK, OnRecord, LossesOnRecord
  <2>4. Contract!Tell
    BY <1>3, <2>3 DEF SinkFails, SinkAccepts, Queue, lineage, Contract!Tell
  <2> QED
    BY <2>4 DEF Contract!Next
<1> QED
  BY <1>1, <1>2, <1>3 DEF Call

\* The queue and its dispatcher implement the contract: no data before the losses.
THEOREM Refinement == Spec => KeepsContract
<1>1. ASSUME Init PROVE Contract!Init
  BY <1>1 DEF Init, Zero, Contract!Init
<1>2. ASSUME IInv, [Next]_vars PROVE [Contract!Next]_(Contract!vars)
  <2>1. TypeOK /\ OneDelivery /\ OnRecord
    BY <1>2 DEF IInv, OnRecord
  <2>2. CASE UNCHANGED vars
    BY <2>2 DEF vars, lineage, consumer, Contract!vars
  <2> QED
    BY <1>2, <2>1, <2>2, ProduceKeeps, LegacyDrainKeeps, DrainDataKeeps, CallKeeps DEF Next
<1> QED
  BY <1>1, <1>2, Invariance, PTL DEF Spec, KeepsContract, Contract!Spec
=============================================================================
