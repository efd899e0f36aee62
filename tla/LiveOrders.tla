----------------------------- MODULE LiveOrders -----------------------------
(* What the live engine knows of the orders it has sent (core/live_engine.py,
   core/orders.py).

   An order waits in the queue, is taken from it under the order lock, and is
   sent to the broker by a coroutine that waits for the broker's number.  From
   then on its status is what snapshots of the broker's orders say, and those
   are read and applied by three kinds of readers that nothing keeps in order:
   the processing of the orders itself, a periodic task whose read runs in a
   thread, and every get_orders of the strategy.  A cancel writes "canceling"
   into the same field when its own answer arrives.

   A reader applies what it read as it was then: another may have applied
   something newer meanwhile. *)
EXTENDS Integers, FiniteSets

CONSTANTS
  Orders,      \* the orders of the strategy
  Size,        \* bound: an order is filled in as many parts
  Readers,     \* threads of the strategy that call get_orders
  Sync,        \* the periodic task of the engine (order_sync_enabled)
  MaxCancels,  \* bound: cancels of one order
  None         \* nobody, nothing

ASSUME OrdersAssumption ==
  /\ Size \in Nat \ {0} /\ MaxCancels \in Nat
  /\ Sync \notin Readers /\ None \notin Orders

VARIABLES
  local,     \* Order.status and Order.filled
  queue,     \* _order_queue
  taken,     \* what _process_orders has taken and not dealt with
  busy,      \* it holds the order lock
  calling,   \* the order whose broker.buy or broker.sell it awaits
  indexed,   \* _broker_order_index: orders whose broker number is known
  unsure,    \* history: orders whose call raised although they may have arrived
  read,      \* snapshots that were read and not yet applied, by reader
  cancel,    \* cancels the broker has not answered, or whose answer is unheard
  tries,     \* how often an order was cancelled
  broker     \* the broker's book: status and filled part of each order

engineVars == <<queue, taken, busy, calling, indexed, unsure>>
cancelVars == <<cancel, tries>>
vars == <<local, engineVars, read, cancelVars, broker>>

OpenStates  == {"new", "open", "filling", "canceling"}     \* get_open_orders
FinalStates == {"filled", "canceled", "partly_canceled", "rejected"}
Absent   == [status |-> "none", filled |-> 0]
Alive(o) == broker[o].status = "open"
Everyone == Readers \cup {Sync}

Init ==
  /\ local = [o \in Orders |-> Absent] /\ broker = [o \in Orders |-> Absent]
  /\ queue = {} /\ taken = {} /\ busy = FALSE /\ calling = None /\ indexed = {} /\ unsure = {}
  /\ read = [r \in Everyone |-> None]
  /\ cancel = [o \in Orders |-> "no"] /\ tries = [o \in Orders |-> 0]

Mark(o, status) == local' = [local EXCEPT ![o].status = status]

-----------------------------------------------------------------------------
(* The strategy's orders, and their way to the broker *)

\* order() registers the order at once: it is "new" until it has a broker number.
Place(o) ==
  /\ local[o].status = "none"
  /\ Mark(o, "new") /\ queue' = queue \cup {o}
  /\ UNCHANGED <<taken, busy, calling, indexed, unsure, read, cancelVars, broker>>

\* cancel_order of an order that is still in the queue.
\* Mutant: one that _process_orders has just taken is called canceled too.
CancelableTaken == queue \cup taken
Cancelable == queue

CancelQueued(o) ==
  /\ o \in Cancelable
  /\ Mark(o, "canceled") /\ queue' = queue \ {o}
  /\ UNCHANGED <<taken, busy, calling, indexed, unsure, read, cancelVars, broker>>

Take ==
  /\ ~busy /\ queue # {}
  /\ taken' = queue /\ queue' = {} /\ busy' = TRUE
  /\ UNCHANGED <<local, calling, indexed, unsure, read, cancelVars, broker>>

\* No plan, no price, risk control: the order never leaves.
Refuse(o) ==
  /\ o \in taken /\ calling = None
  /\ \E status \in {"rejected", "canceled"} : Mark(o, status)
  /\ taken' = taken \ {o}
  /\ UNCHANGED <<queue, busy, calling, indexed, unsure, read, cancelVars, broker>>

Send(o) ==
  /\ o \in taken /\ calling = None /\ calling' = o /\ taken' = taken \ {o}
  /\ UNCHANGED <<local, queue, busy, indexed, unsure, read, cancelVars, broker>>

\* The broker's number came: _broker_order_index, then status "open", whatever
\* became of the order meanwhile.
Returned ==
  /\ calling # None /\ broker[calling].status # "none"
  /\ indexed' = indexed \cup {calling} /\ Mark(calling, "open") /\ calling' = None
  /\ UNCHANGED <<queue, taken, busy, unsure, read, cancelVars, broker>>

\* Any exception of the call makes the order "rejected": the broker refused it, or
\* its answer was lost and the order has arrived or still will.
Raised ==
  /\ calling # None
  /\ \/ broker[calling].status = "none" /\ unsure' = unsure
     \/ unsure' = unsure \cup {calling}
  /\ Mark(calling, "rejected") /\ calling' = None
  /\ UNCHANGED <<queue, taken, busy, indexed, read, cancelVars, broker>>

-----------------------------------------------------------------------------
(* The broker *)

Arrive(o) ==
  /\ (o = calling \/ o \in unsure) /\ broker[o].status = "none"
  /\ broker' = [broker EXCEPT ![o].status = "open"]
  /\ UNCHANGED <<local, engineVars, read, cancelVars>>

Fill(o) ==
  /\ Alive(o)
  /\ LET part == broker[o].filled + 1 IN
       broker' = [broker EXCEPT ![o] =
         [status |-> IF part = Size THEN "filled" ELSE "open", filled |-> part]]
  /\ UNCHANGED <<local, engineVars, read, cancelVars>>

\* The counter rejects an order it had taken.
CounterRejects(o) ==
  /\ Alive(o) /\ broker[o].filled = 0
  /\ broker' = [broker EXCEPT ![o].status = "rejected"]
  /\ UNCHANGED <<local, engineVars, read, cancelVars>>

\* The broker accepts a cancel or does not, for a living order and for one that has
\* ended; an exception counts as "no", and whether it landed is seen by the order.
AnswerCancel(o) ==
  /\ cancel[o] = "asked"
  /\ \E answer \in {"accepted", "no"} : cancel' = [cancel EXCEPT ![o] = answer]
  /\ UNCHANGED <<local, engineVars, read, tries, broker>>

CounterCancels(o) ==
  /\ Alive(o) /\ tries[o] > 0 /\ cancel[o] # "asked"
  /\ broker' = [broker EXCEPT ![o].status = IF broker[o].filled > 0
                                              THEN "partly_canceled" ELSE "canceled"]
  /\ UNCHANGED <<local, engineVars, read, cancelVars>>

-----------------------------------------------------------------------------
(* What the engine hears *)

\* cancel_order of a sent order, whatever its status; the answer is awaited in a
\* thread of the strategy or by a task of the loop.
Cancel(o) ==
  /\ o \in indexed /\ cancel[o] = "no" /\ tries[o] < MaxCancels
  /\ cancel' = [cancel EXCEPT ![o] = "asked"] /\ tries' = [tries EXCEPT ![o] = @ + 1]
  /\ UNCHANGED <<local, engineVars, read, broker>>

\* The accepted cancel marks the order, whatever became of it meanwhile.
CancelHeard(o) ==
  /\ cancel[o] = "accepted" /\ cancel' = [cancel EXCEPT ![o] = "no"]
  /\ Mark(o, "canceling")
  /\ UNCHANGED <<engineVars, read, tries, broker>>

\* The status of an order in the broker's list.
\* Mutant: an order with fills is a filled one.
ListedFilled(b) == IF b.filled > 0 THEN "filled" ELSE b.status
Listed(b) == IF b.status = "open" /\ b.filled > 0 THEN "filling" ELSE b.status

\* _snapshot_filled_amount.
\* Mutant: an order that has ended is filled to its amount.
FillsOfAmount(b) == IF b.status = "open" THEN b.filled ELSE Size
Fills(b) == b.filled

\* _apply_order_snapshots: each listed order whose number is known.
\* Mutant: an order that is being canceled is left alone.
AppliedToOpen(snapshot, o) ==
  o \in indexed /\ snapshot[o].status # "none" /\ local[o].status # "canceling"
Applied(snapshot, o) == o \in indexed /\ snapshot[o].status # "none"

Apply(snapshot) ==
  local' = [o \in Orders |->
    IF Applied(snapshot, o)
      THEN [status |-> Listed(snapshot[o]), filled |-> Fills(snapshot[o])]
      ELSE local[o]]

\* get_orders of a thread, and the read of the periodic task in its own.
Read(r) ==
  /\ read[r] = None /\ read' = [read EXCEPT ![r] = broker]
  /\ UNCHANGED <<local, engineVars, cancelVars, broker>>

ApplyRead(r) ==
  /\ read[r] # None /\ Apply(read[r]) /\ read' = [read EXCEPT ![r] = None]
  /\ UNCHANGED <<engineVars, cancelVars, broker>>

\* The end of _process_orders: it reads and applies on the loop, unless its query
\* fails, and gives the lock back.
Idle == taken = {} /\ calling = None

Finish ==
  /\ busy /\ Idle /\ busy' = FALSE
  /\ Apply(broker) \/ UNCHANGED local
  /\ UNCHANGED <<queue, taken, calling, indexed, unsure, read, cancelVars, broker>>

Next ==
  \/ \E o \in Orders :
       \/ Place(o) \/ CancelQueued(o) \/ Refuse(o) \/ Send(o)
       \/ Arrive(o) \/ Fill(o) \/ CounterRejects(o) \/ AnswerCancel(o) \/ CounterCancels(o)
       \/ Cancel(o) \/ CancelHeard(o)
  \/ Take \/ Returned \/ Raised \/ Finish
  \/ \E r \in Everyone : Read(r) \/ ApplyRead(r)

Spec == Init /\ [][Next]_vars

\* The periodic task goes on for as long as the engine runs, and the loop or the
\* thread that awaits a cancel hears its answer.  Nothing is assumed of the
\* strategy, of the processing or of the broker beyond its answers to cancels.
Fairness ==
  /\ WF_vars(Read(Sync)) /\ WF_vars(ApplyRead(Sync))
  /\ \A o \in Orders : WF_vars(AnswerCancel(o)) /\ WF_vars(CancelHeard(o))

FairSpec == Spec /\ Fairness

-----------------------------------------------------------------------------
(* Properties *)

BookEntry == [status : {"none", "open"} \cup FinalStates, filled : 0 .. Size]
Entry == [status : {"none"} \cup OpenStates \cup FinalStates, filled : 0 .. Size]

OrdersOK ==
  /\ local \in [Orders -> Entry] /\ broker \in [Orders -> BookEntry]
  /\ \A o \in Orders : broker[o].status \in {"none", "open"} => broker[o].filled < Size
  /\ cancel \in [Orders -> {"no", "asked", "accepted"}]
  /\ tries \in [Orders -> 0 .. MaxCancels]

EngineOK ==
  /\ queue \subseteq Orders /\ taken \subseteq Orders
  /\ indexed \subseteq Orders /\ unsure \subseteq Orders
  /\ queue \cap taken = {} /\ calling \notin queue \cup taken
  /\ busy \in BOOLEAN /\ calling \in Orders \cup {None}
  /\ ~busy => taken = {} /\ calling = None

ReadsOK == read \in [Everyone -> {None} \cup [Orders -> BookEntry]]

TypeOK == OrdersOK /\ EngineOK /\ ReadsOK

\* An order the engine calls filled, (partly) canceled or rejected has ended so: at the
\* broker with that status, or without ever having reached it.  The exception is an
\* order whose call raised in doubt: the engine calls it rejected.
FinalIsTrue ==
  \A o \in Orders \ unsure : local[o].status \in FinalStates =>
    \/ broker[o].status = local[o].status
    \/ broker[o].status = "none" /\ local[o].status # "filled" /\ o \notin queue \cup taken

\* An order that lives at the broker is on the list of open orders, or its call has
\* not returned, or has raised in doubt (get_open_orders).
AliveIsOpen ==
  \A o \in Orders \ unsure : Alive(o) =>
    o = calling \/ (o \in indexed /\ local[o].status \in OpenStates)

\* No fill is reported that the broker has not made.
FillsAreReal == \A o \in Orders : local[o].filled <= broker[o].filled

\* Whatever overtakes whatever, what the engine says of an order that has ended is in
\* the end what the broker says, for good.
StatusSettles ==
  \A o \in Orders : <>[](broker[o].status \in FinalStates /\ o \in indexed => local[o] = broker[o])

-----------------------------------------------------------------------------
(* What a proof of these by induction rests on *)

\* An order on its way has no number yet and has never been heard of.
WaitsUnknown ==
  \A o \in Orders :
    /\ o \in queue \cup taken \/ o = calling =>
         local[o].status = "new" /\ o \notin indexed \cup unsure
    /\ o \in queue \cup taken \/ local[o].status = "none" => broker[o].status = "none"

\* The engine has the number of every order that arrived, but for the one whose call
\* is under way and those in doubt.
KnownByNumber ==
  \A o \in Orders :
    /\ o \in indexed => broker[o].status # "none"
    /\ o \in indexed \cup unsure => local[o].status # "none"
    /\ broker[o].status # "none" => o = calling \/ o \in indexed \cup unsure
    /\ cancel[o] # "no" => o \in indexed

\* A snapshot is never ahead of the book, and final only if the book is.
ReadsAreBehind ==
  \A r \in Everyone : read[r] # None =>
    \A o \in Orders :
      /\ read[r][o].filled <= broker[o].filled
      /\ read[r][o].status \in FinalStates => read[r][o].status = broker[o].status

IInv == TypeOK /\ WaitsUnknown /\ KnownByNumber /\ ReadsAreBehind
          /\ FinalIsTrue /\ AliveIsOpen /\ FillsAreReal
=============================================================================
