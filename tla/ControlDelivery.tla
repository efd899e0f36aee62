-------------------------- MODULE ControlDelivery --------------------------
(***************************************************************************)
(* The bounded queue of typed market data and the dispatcher that delivers *)
(* its control events (gaps, connection states) ahead of the data.  When   *)
(* the data area is full an event is lost; the loss is kept, per scope, in *)
(* a window beside the data, frozen into a delivery that the sink must     *)
(* acknowledge, and until then no data may leave the queue.  A scope with  *)
(* a loss stays degraded until the producer's recovery is authorised.      *)
(*                                                                         *)
(* Every method of the queue runs under its lock and is one step.  Several *)
(* threads may dispatch; the sink's call is outside the lock.              *)
(***************************************************************************)
EXTENDS Naturals, FiniteSets

CONSTANTS
  Scopes,         \* provider, capability, level, epoch, stream, channel, exchange
  Callers,        \* threads that dispatch
  Ids,            \* recovery ids
  None,           \* no caller, no recovery id
  Capacity,       \* capacity
  ScopeCapacity,  \* control_scope_capacity
  MaxSignals      \* bound: losses, source controls and refused ones

ASSUME QueueAssumption ==
  /\ Capacity \in Nat \ {0} /\ ScopeCapacity \in Nat \ {0} /\ MaxSignals \in Nat
  /\ None \notin Ids \cup Callers /\ IsFiniteSet(Scopes)

VARIABLES
  legacy,   \* allow_legacy_control_drain
  snaps,    \* scopes with a snapshot in the data area
  plain,    \* how many other events are in it
  active,   \* _active_degraded_scopes
  auth,     \* _recovery_authorizations
  unacked,  \* _unacked_loss_scopes
  pend,     \* scopes in _pending_controls
  gapped,   \* of them, those with a loss boundary
  queued,   \* of these, those with a loss of this queue
  status,   \* the last source status of each
  sent,     \* _inflight_control is there
  batch,    \* what it says of each scope
  upto,     \* and of how many losses
  bounds,   \* _inflight_loss_scopes
  gate,     \* who holds _dispatch_gate
  pc,       \* where each caller is in dispatch_control_once
  held,     \* the delivery it publishes
  current,  \* callers whose delivery is the one in flight: ids are unique
  losses,   \* history: losses of each scope
  known,    \* history: how many of them the consumer knows of
  view,     \* scopes that the consumer takes for degraded
  got,      \* history: data drains, modulo 2
  raised,   \* history: scopes whose producer got a capacity error
  signals

data     == <<snaps, plain>>
lineage  == <<active, auth, unacked>>
window   == <<pend, gapped, queued, status>>
delivery == <<sent, batch, upto, bounds>>
dispatch == <<gate, pc, held, current>>
consumer == <<known, view, got>>
vars == <<legacy, data, lineage, window, delivery, dispatch, losses, consumer, raised, signals>>

Says == [Scopes -> {"nothing", "whole", "broken"}]
Counts == [Scopes -> Nat]

QueueOK ==
  /\ legacy \in BOOLEAN
  /\ snaps \subseteq Scopes /\ plain \in 0..Capacity
  /\ active \subseteq Scopes /\ auth \in [Scopes -> Ids \cup {None}] /\ unacked \subseteq Scopes
  /\ pend \subseteq Scopes /\ gapped \subseteq pend /\ queued \subseteq gapped
  /\ status \in Says

DeliveryOK ==
  /\ sent \in BOOLEAN /\ batch \in Says /\ upto \in Counts /\ bounds \subseteq Scopes
  /\ gate \in Callers \cup {None} /\ pc \in [Callers -> {"idle", "publish", "ack"}]
  /\ held \in [Callers -> [says : Says, upto : Counts]] /\ current \subseteq Callers

HistoryOK ==
  /\ losses \in Counts /\ known \in Counts /\ view \subseteq Scopes /\ got \in {0, 1}
  /\ raised \subseteq Scopes /\ signals \in 0..MaxSignals

TypeOK == QueueOK /\ DeliveryOK /\ HistoryOK

Nothing == [s \in Scopes |-> "nothing"]
Zero    == [s \in Scopes |-> 0]
NoDelivery == [says |-> Nothing, upto |-> Zero]

Init ==
  /\ legacy \in BOOLEAN
  /\ snaps = {} /\ plain = 0
  /\ active = {} /\ auth = [s \in Scopes |-> None] /\ unacked = {}
  /\ pend = {} /\ gapped = {} /\ queued = {} /\ status = Nothing
  /\ sent = FALSE /\ batch = Nothing /\ upto = Zero /\ bounds = {}
  /\ gate = None /\ pc = [c \in Callers |-> "idle"]
  /\ held = [c \in Callers |-> NoDelivery] /\ current = {}
  /\ losses = Zero /\ known = Zero /\ view = {} /\ got = 0 /\ raised = {} /\ signals = 0

-----------------------------------------------------------------------------
(* The producer: put_nowait and authorize_continuity_recovery. *)

Depth  == Cardinality(snaps) + plain
Signal == signals < MaxSignals /\ signals' = signals + 1
Outside == UNCHANGED <<legacy, delivery, dispatch, consumer>>

\* A snapshot replaces the one of its scope; other events need room.
PutData(s) ==
  /\ \/ s \in snaps /\ UNCHANGED data
     \/ s \notin snaps /\ Depth < Capacity /\ snaps' = snaps \cup {s} /\ UNCHANGED plain
     \/ Depth < Capacity /\ plain' = plain + 1 /\ UNCHANGED snaps
  /\ UNCHANGED <<lineage, window, losses, raised, signals>> /\ Outside

\* _ensure_active_degraded_capacity_locked: no scope is ever dropped for another.
ActiveRoom(s) == s \in active \/ Cardinality(active) < 2 * ScopeCapacity
\* _get_or_create_pending_scope_locked
WindowRoom(s) == s \in pend \/ Cardinality(pend) < ScopeCapacity
Room(s)       == ActiveRoom(s) /\ WindowRoom(s)

\* Mutant: an authorisation survives a later loss.
ActivateKeeps(s) == active' = active \cup {s} /\ UNCHANGED auth

\* _activate_degraded_scope_locked
Activate(s) == active' = active \cup {s} /\ auth' = [auth EXCEPT ![s] = None]

Lost(s) == losses' = [losses EXCEPT ![s] = @ + 1]

\* A loss boundary enters the window.
Boundary(s) ==
  /\ pend' = pend \cup {s} /\ gapped' = gapped \cup {s} /\ unacked' = unacked \cup {s}
  /\ Activate(s) /\ Lost(s)

\* _record_overflow_locked
Overflow(s) ==
  /\ Depth >= Capacity /\ Room(s) /\ Signal
  /\ Boundary(s) /\ queued' = queued \cup {s}
  /\ UNCHANGED <<data, status, raised>> /\ Outside

\* The source reports a gap.
SourceGap(s) ==
  /\ Room(s) /\ Signal
  /\ Boundary(s)
  /\ UNCHANGED <<data, queued, status, raised>> /\ Outside

\* An unhealthy state, or a healthy one that does not claim continuity.
SourceBad(s) ==
  /\ Room(s) /\ Signal
  /\ pend' = pend \cup {s} /\ status' = [status EXCEPT ![s] = "broken"]
  /\ Activate(s)
  /\ UNCHANGED <<data, unacked, gapped, queued, losses, raised>> /\ Outside

\* _is_matching_recovery_locked, for a healthy state that carries id.
Recovers(s, id) == s \in active /\ id # None /\ auth[s] = id

\* A healthy state with continuity, with or without the evidence of a recovery.
SourceGood(s, id) ==
  /\ WindowRoom(s) /\ Signal
  /\ pend' = pend \cup {s}
  /\ IF Recovers(s, id)
     THEN /\ active' = active \ {s} /\ auth' = [auth EXCEPT ![s] = None]
          /\ status' = [status EXCEPT ![s] = "whole"]
     ELSE /\ status' = [status EXCEPT ![s] = IF s \in active THEN "broken" ELSE "whole"]
          /\ UNCHANGED <<active, auth>>
  /\ UNCHANGED <<data, unacked, gapped, queued, losses, raised>> /\ Outside

\* MarketEventControlCapacityError: the event is lost, or its control, and the
\* producer is told by the exception.
Raises(s) ==
  /\ ~Room(s) /\ Signal
  /\ raised' = raised \cup {s}
  /\ Lost(s) \/ UNCHANGED losses
  /\ UNCHANGED <<data, lineage, window>> /\ Outside

\* authorize_continuity_recovery
Authorize(s, id) ==
  /\ s \in active /\ s \notin unacked /\ auth[s] = None
  /\ auth' = [auth EXCEPT ![s] = id]
  /\ UNCHANGED <<data, active, unacked, window, losses, raised, signals>> /\ Outside

-----------------------------------------------------------------------------
(* The window is frozen: take_control, or drain in the legacy mode. *)

\* Mutant: the last source status is believed as it came.
FrozenAsReported(s) == IF s \notin pend THEN "nothing" ELSE IF status[s] = "nothing" THEN "broken" ELSE status[s]

\* What the gap and the status of a scope tell together: a loss of the queue or
\* a scope that is degraded by now outweighs a healthy status.
Frozen(s) ==
  IF s \notin pend THEN "nothing"
  ELSE IF status[s] = "whole" /\ s \notin queued /\ s \notin active THEN "whole" ELSE "broken"

\* _build_pending_control_events_locked clears the accumulators it turned into events.
EmptyWindow == pend' = {} /\ gapped' = {} /\ queued' = {} /\ status' = Nothing

\* take_control, if nothing is in flight.
Take ==
  /\ ~sent /\ pend # {}
  /\ sent' = TRUE
  /\ batch' = [s \in Scopes |-> Frozen(s)] /\ upto' = [s \in Scopes |-> IF s \in gapped THEN losses[s] ELSE 0]
  /\ bounds' = gapped /\ EmptyWindow

\* The consumer processes what a delivery says of the scopes in S.
Learns(says, n, S) ==
  /\ view' = {s \in Scopes : IF s \in S /\ says[s] # "nothing" THEN says[s] = "broken" ELSE s \in view}
  /\ known' = [s \in Scopes |-> IF s \in S /\ n[s] > known[s] THEN n[s] ELSE known[s]]

Queue == UNCHANGED <<legacy, data, losses, raised, signals>>

\* drain or drain_control in the legacy mode: nothing is ever acknowledged.
LegacyDrain ==
  /\ legacy /\ ~sent /\ pend # {}
  /\ Learns([s \in Scopes |-> Frozen(s)], [s \in Scopes |-> IF s \in gapped THEN losses[s] ELSE 0], Scopes)
  /\ EmptyWindow
  /\ \/ UNCHANGED <<data, got>>
     \/ snaps' \in SUBSET snaps /\ plain' \in 0..plain /\ got' = 1 - got
  /\ UNCHANGED <<legacy, losses, raised, signals, lineage, delivery, dispatch>>

\* drain_data: the oldest events leave, which ones they are does not matter here.
DrainData ==
  /\ ~sent /\ pend = {} /\ Depth > 0
  /\ snaps' \in SUBSET snaps /\ plain' \in 0..plain /\ got' = 1 - got
  /\ UNCHANGED <<legacy, lineage, window, delivery, dispatch, losses, known, view, raised, signals>>

-----------------------------------------------------------------------------
(* The dispatcher. *)

\* _dispatch_gate.acquire(blocking=False); who does not get it returns.
GateFree == gate = None

\* dispatch_control_once up to the sink: the window, or the delivery in flight.
Dispatch(c) ==
  /\ pc[c] = "idle" /\ GateFree
  /\ \/ Take /\ UNCHANGED lineage
     \/ sent /\ UNCHANGED <<lineage, delivery, window>>
  /\ gate' = c /\ pc' = [pc EXCEPT ![c] = "publish"]
  /\ held' = [held EXCEPT ![c] = [says |-> batch', upto |-> upto']]
  /\ current' = current \cup {c}
  /\ UNCHANGED consumer /\ Queue

\* Mutant: the gate stays closed after an exception.
LeaveKeepsGate(c) == pc' = [pc EXCEPT ![c] = "idle"] /\ held' = [held EXCEPT ![c] = NoDelivery] /\ UNCHANGED gate

\* The finally clause.
Leave(c) == pc' = [pc EXCEPT ![c] = "idle"] /\ held' = [held EXCEPT ![c] = NoDelivery] /\ gate' = None

\* publish_control raises or does not confirm the delivery, having processed
\* a part of it or all.
SinkFails(c) ==
  /\ pc[c] = "publish"
  /\ \E S \in SUBSET Scopes : Learns(held[c].says, held[c].upto, S)
  /\ Leave(c) /\ current' = current \ {c}
  /\ UNCHANGED <<lineage, window, delivery, got>> /\ Queue

\* It confirms the delivery by its id.
SinkAccepts(c) ==
  /\ pc[c] = "publish"
  /\ Learns(held[c].says, held[c].upto, Scopes)
  /\ pc' = [pc EXCEPT ![c] = "ack"] /\ UNCHANGED <<gate, held, current>>
  /\ UNCHANGED <<lineage, window, delivery, got>> /\ Queue

\* Mutant: a boundary that came while the delivery was under way is forgotten.
SettledAll == bounds

\* The scopes of the delivery that have no new boundary.
Settled == bounds \ gapped

\* ack_control, by the exact id.
Acknowledge(c) ==
  /\ pc[c] = "ack"
  /\ IF c \in current
     THEN /\ sent' = FALSE /\ batch' = Nothing /\ upto' = Zero /\ bounds' = {}
          /\ unacked' = unacked \ Settled /\ current' = {}
     ELSE UNCHANGED <<delivery, unacked, current>>
  /\ Leave(c)
  /\ UNCHANGED <<active, auth, window, consumer>> /\ Queue

-----------------------------------------------------------------------------

Produce(s) ==
  \/ PutData(s) \/ Overflow(s) \/ SourceGap(s) \/ SourceBad(s) \/ Raises(s)
  \/ \E id \in Ids \cup {None} : SourceGood(s, id)
  \/ \E id \in Ids : Authorize(s, id)

Call(c) == Dispatch(c) \/ SinkFails(c) \/ SinkAccepts(c) \/ Acknowledge(c)

Next == (\E s \in Scopes : Produce(s)) \/ LegacyDrain \/ DrainData \/ (\E c \in Callers : Call(c))

Spec == Init /\ [][Next]_vars

(***************************************************************************)
(* Fairness: every caller dispatches again and again, and a delivery that  *)
(* is published again and again is in the end accepted.                    *)
(***************************************************************************)
FairSpec ==
  /\ Spec
  /\ WF_vars(\E c \in Callers : Dispatch(c))
  /\ \A c \in Callers : WF_vars(Acknowledge(c)) /\ WF_vars(SinkFails(c) \/ SinkAccepts(c)) /\ SF_vars(SinkAccepts(c))

-----------------------------------------------------------------------------
(* Properties. *)

(***************************************************************************)
(* The queue and its dispatcher keep the contract: data reaches the        *)
(* consumer only when it knows of every loss and of the state of every     *)
(* scope, and no recovery comes before all losses have been told.          *)
(***************************************************************************)
Contract == INSTANCE ContinuityContract WITH
  lost <- losses, told <- known, broken <- active, shown <- view, excused <- raised

KeepsContract == Contract!Spec

(***************************************************************************)
(* A recovery is authorised only for what the consumer knows: no boundary  *)
(* of the scope is under way, however losses, deliveries and confirmations *)
(* crossed each other.                                                     *)
(***************************************************************************)
AuthorisedIsTold ==
  \A s \in Scopes : auth[s] # None => s \in active /\ s \notin gapped \cup bounds

(***************************************************************************)
(* A boundary counts as unconfirmed exactly while it is in the window or   *)
(* in flight; otherwise its scope could never recover, or recover too      *)
(* early.  The legacy drain leaves it unconfirmed.                         *)
(***************************************************************************)
UnackedIsOutstanding ==
  /\ gapped \cup bounds \subseteq unacked
  /\ legacy \/ unacked = gapped \cup bounds

(***************************************************************************)
(* Every loss that the queue took note of is made known to the consumer.   *)
(***************************************************************************)
LossIsTold == \A s \in Scopes : known[s] < losses[s] ~> (known[s] = losses[s] \/ s \in raised)

-----------------------------------------------------------------------------
(* What a proof of these by induction rests on. *)

\* Only the holder of the gate is at work, and on the delivery in flight.
OneDelivery ==
  /\ \A c \in Callers : pc[c] # "idle" =>
       gate = c /\ sent /\ c \in current /\ held[c] = [says |-> batch, upto |-> upto]
  /\ ~sent => bounds = {} /\ batch = Nothing

\* A loss is in the window, in flight, known, or was refused with an exception; a
\* scope whose losses are not confirmed stays degraded.
LossesOnRecord ==
  \A s \in Scopes :
    /\ known[s] <= losses[s] /\ upto[s] <= losses[s]
    /\ s \notin gapped \cup bounds \cup raised => known[s] = losses[s]
    /\ s \in bounds /\ s \notin gapped \cup raised => upto[s] = losses[s]
    /\ s \in unacked => s \in active /\ auth[s] = None

\* What the consumer takes a scope for once the window and the delivery in flight
\* have reached it is what it is.
StatusOnRecord ==
  \A s \in Scopes :
    /\ s \in pend /\ s \notin active => status[s] = "whole"
    /\ s \notin pend => (s \in active <=> IF batch[s] = "nothing" THEN s \in view
                                                              ELSE batch[s] = "broken")

\* A delivery that was confirmed has been processed as a whole.
ConfirmedIsLearned ==
  \A c \in Callers : pc[c] = "ack" =>
    \A s \in Scopes :
      /\ known[s] >= upto[s]
      /\ batch[s] # "nothing" => (s \in view <=> batch[s] = "broken")

IInv ==
  /\ TypeOK /\ OneDelivery /\ LossesOnRecord /\ StatusOnRecord /\ ConfirmedIsLearned
  /\ AuthorisedIsTold /\ UnackedIsOutstanding
=============================================================================
