-------------------------- MODULE LiveOrdersProofs --------------------------
(* Proofs about LiveOrders: what the engine says of its orders is true of the
   broker's book, for any orders, readers, cancels and sizes. *)
EXTENDS LiveOrders, TLAPS

\* What the provers need of the constants.
LEMMA Bounds ==
  /\ Size \in Nat \ {0} /\ MaxCancels \in Nat
  /\ Sync \notin Readers /\ None \notin Orders
BY OrdersAssumption DEF OrdersAssumption

\* An order's status is changed, and nothing else of it.
LEMMA Marked ==
  ASSUME OrdersOK, NEW o \in Orders, NEW status, Mark(o, status)
  PROVE \A p \in Orders : /\ local'[p].filled = local[p].filled
                          /\ local'[p].status = IF p = o THEN status ELSE local[p].status
BY DEF OrdersOK, Mark, Entry

LEMMA MarkedType ==
  ASSUME OrdersOK, NEW o \in Orders, NEW status \in OpenStates \cup FinalStates, Mark(o, status)
  PROVE local' \in [Orders -> Entry]
BY DEF OrdersOK, Mark, Entry

\* A snapshot that is applied sets the listed orders whose number is known.
LEMMA AppliedTo ==
  ASSUME OrdersOK, NEW snapshot \in [Orders -> BookEntry], Apply(snapshot)
  PROVE /\ local' \in [Orders -> Entry]
        /\ \A p \in Orders :
             IF p \in indexed /\ snapshot[p].status # "none"
               THEN /\ local'[p].filled = snapshot[p].filled
                    /\ local'[p].status = Listed(snapshot[p])
               ELSE local'[p] = local[p]
<1>1. \A b \in BookEntry : b.status # "none" =>
        Listed(b) \in OpenStates \cup FinalStates /\ b.filled \in 0 .. Size
  BY DEF BookEntry, Listed, OpenStates, FinalStates
<1>2. \A p \in Orders : local'[p] = IF p \in indexed /\ snapshot[p].status # "none"
        THEN [status |-> Listed(snapshot[p]), filled |-> snapshot[p].filled] ELSE local[p]
  BY DEF Apply, Applied, Fills
<1>3. local' = [p \in Orders |-> local'[p]]
  BY DEF Apply
<1>4. ASSUME NEW p \in Orders PROVE local'[p] \in Entry
  <2>1. CASE p \in indexed /\ snapshot[p].status # "none"
    <3>1. snapshot[p] \in BookEntry
      OBVIOUS
    <3>2. local'[p] = [status |-> Listed(snapshot[p]), filled |-> snapshot[p].filled]
      BY <1>2, <2>1
    <3> QED
      BY <1>1, <2>1, <3>1, <3>2 DEF Entry
  <2>2. CASE ~(p \in indexed /\ snapshot[p].status # "none")
    BY <1>2, <2>2 DEF OrdersOK
  <2> QED
    BY <2>1, <2>2
<1> QED
  BY <1>2, <1>3, <1>4

\* The orders, here and at the broker, keep their types.
LEMMA OrdersStep == ASSUME OrdersOK, EngineOK, ReadsOK, [Next]_vars PROVE OrdersOK'
<1> USE Bounds DEF OrdersOK, engineVars, cancelVars
<1>1. ASSUME NEW o \in Orders, Place(o) PROVE OrdersOK'
  BY <1>1, MarkedType DEF Place, OpenStates
<1>2. ASSUME NEW o \in Orders, CancelQueued(o) PROVE OrdersOK'
  BY <1>2, MarkedType DEF CancelQueued, FinalStates
<1>3. ASSUME NEW o \in Orders, Refuse(o) PROVE OrdersOK'
  BY <1>3, MarkedType DEF Refuse, FinalStates
<1>4. ASSUME NEW o \in Orders, Send(o) PROVE OrdersOK'
  BY <1>4 DEF Send
<1>5. ASSUME NEW o \in Orders, Arrive(o) PROVE OrdersOK'
  BY <1>5 DEF Arrive, BookEntry
<1>6. ASSUME NEW o \in Orders, Fill(o) PROVE OrdersOK'
  BY <1>6 DEF Fill, Alive, BookEntry, FinalStates
<1>7. ASSUME NEW o \in Orders, CounterRejects(o) PROVE OrdersOK'
  BY <1>7 DEF CounterRejects, BookEntry, FinalStates
<1>8. ASSUME NEW o \in Orders, AnswerCancel(o) PROVE OrdersOK'
  BY <1>8 DEF AnswerCancel
<1>9. ASSUME NEW o \in Orders, CounterCancels(o) PROVE OrdersOK'
  BY <1>9 DEF CounterCancels, BookEntry, FinalStates
<1>10. ASSUME NEW o \in Orders, Cancel(o) PROVE OrdersOK'
  BY <1>10 DEF Cancel
<1>11. ASSUME NEW o \in Orders, CancelHeard(o) PROVE OrdersOK'
  BY <1>11, MarkedType DEF CancelHeard, OpenStates
<1>12. CASE Take
  BY <1>12 DEF Take
<1>13. CASE Returned
  BY <1>13, MarkedType DEF Returned, OpenStates, EngineOK
<1>14. CASE Raised
  BY <1>14, MarkedType DEF Raised, FinalStates, EngineOK
<1>15. CASE Finish
  BY <1>15, AppliedTo DEF Finish
<1>16. ASSUME NEW r \in Everyone, Read(r) PROVE OrdersOK'
  BY <1>16 DEF Read
<1>17. ASSUME NEW r \in Everyone, ApplyRead(r) PROVE OrdersOK'
  BY <1>17, AppliedTo DEF ApplyRead, ReadsOK
<1>18. CASE UNCHANGED vars
  BY <1>18 DEF vars
<1> QED
  BY <1>1, <1>2, <1>3, <1>4, <1>5, <1>6, <1>7, <1>8, <1>9, <1>10, <1>11, <1>12, <1>13,
     <1>14, <1>15, <1>16, <1>17, <1>18 DEF Next

\* The engine's own state keeps its type, and the order lock its meaning.
LEMMA EngineStep == ASSUME EngineOK, WaitsUnknown, [Next]_vars PROVE EngineOK'
<1> USE Bounds DEF EngineOK, engineVars, cancelVars
<1>1. ASSUME NEW o \in Orders, Place(o) PROVE EngineOK'
  BY <1>1 DEF Place, WaitsUnknown
<1>2. ASSUME NEW o \in Orders, CancelQueued(o) PROVE EngineOK'
  BY <1>2 DEF CancelQueued
<1>3. ASSUME NEW o \in Orders, Refuse(o) PROVE EngineOK'
  BY <1>3 DEF Refuse
<1>4. ASSUME NEW o \in Orders, Send(o) PROVE EngineOK'
  BY <1>4 DEF Send
<1>5. ASSUME NEW o \in Orders,
        Arrive(o) \/ Fill(o) \/ CounterRejects(o) \/ AnswerCancel(o) \/ CounterCancels(o)
          \/ Cancel(o) \/ CancelHeard(o)
      PROVE EngineOK'
  BY <1>5 DEF Arrive, Fill, CounterRejects, AnswerCancel, CounterCancels, Cancel, CancelHeard
<1>6. CASE Take
  BY <1>6 DEF Take
<1>7. CASE Returned
  BY <1>7 DEF Returned
<1>8. CASE Raised
  BY <1>8 DEF Raised
<1>9. CASE Finish
  BY <1>9 DEF Finish, Idle
<1>10. ASSUME NEW r \in Everyone, Read(r) \/ ApplyRead(r) PROVE EngineOK'
  BY <1>10 DEF Read, ApplyRead
<1>11. CASE UNCHANGED vars
  BY <1>11 DEF vars
<1> QED
  BY <1>1, <1>2, <1>3, <1>4, <1>5, <1>6, <1>7, <1>8, <1>9, <1>10, <1>11 DEF Next

\* What was read keeps its type.
LEMMA ReadsStep == ASSUME ReadsOK, OrdersOK, [Next]_vars PROVE ReadsOK'
<1>1. ASSUME NEW r \in Everyone, Read(r) PROVE ReadsOK'
  BY <1>1 DEF Read, ReadsOK, OrdersOK
<1>2. ASSUME NEW r \in Everyone, ApplyRead(r) PROVE ReadsOK'
  BY <1>2 DEF ApplyRead, ReadsOK
<1>3. ASSUME UNCHANGED read PROVE ReadsOK'
  BY <1>3 DEF ReadsOK
<1> QED
  BY <1>1, <1>2, <1>3 DEF Next, vars, Place, CancelQueued, Refuse, Send, Arrive, Fill,
     CounterRejects, AnswerCancel, CounterCancels, Cancel, CancelHeard, Take, Returned, Raised, Finish

-----------------------------------------------------------------------------
(* The broker's book only goes forward *)

\* An order that has arrived stays, its fills grow, and its end is final.
Forward ==
  \A o \in Orders :
    /\ broker[o].filled <= broker'[o].filled
    /\ broker[o].status # "none" => broker'[o].status # "none"
    /\ broker[o].status \in FinalStates => broker'[o].status = broker[o].status

LEMMA BookStep == ASSUME OrdersOK, [Next]_vars PROVE Forward
<1> USE DEF OrdersOK, BookEntry, FinalStates, Forward
<1>1. ASSUME NEW o \in Orders, Arrive(o) PROVE Forward
  BY <1>1 DEF Arrive
<1>2. ASSUME NEW o \in Orders, Fill(o) PROVE Forward
  BY <1>2 DEF Fill, Alive
<1>3. ASSUME NEW o \in Orders, CounterRejects(o) PROVE Forward
  BY <1>3 DEF CounterRejects, Alive
<1>4. ASSUME NEW o \in Orders, CounterCancels(o) PROVE Forward
  BY <1>4 DEF CounterCancels, Alive
<1>5. ASSUME UNCHANGED broker PROVE Forward
  BY <1>5
<1> QED
  BY <1>1, <1>2, <1>3, <1>4, <1>5 DEF Next, vars, Place, CancelQueued, Refuse, Send,
     AnswerCancel, Cancel, CancelHeard, Take, Returned, Raised, Finish, Read, ApplyRead

\* A reader gets what the book says now, keeps what it has, or drops it.
LEMMA OneRead ==
  ASSUME ReadsOK, [Next]_vars, NEW r \in Everyone, read'[r] # None
  PROVE read'[r] = read[r] \/ (read'[r] = broker /\ UNCHANGED broker)
<1>1. ASSUME NEW q \in Everyone, Read(q)
      PROVE read'[r] = read[r] \/ (read'[r] = broker /\ UNCHANGED broker)
  BY <1>1 DEF Read, ReadsOK
<1>2. ASSUME NEW q \in Everyone, ApplyRead(q) PROVE read'[r] = read[r]
  BY <1>2 DEF ApplyRead, ReadsOK
<1> QED
  BY <1>1, <1>2 DEF Next, vars, Place, CancelQueued, Refuse, Send, Arrive, Fill, CounterRejects,
     AnswerCancel, CounterCancels, Cancel, CancelHeard, Take, Returned, Raised, Finish

\* So a snapshot, once behind, stays behind.
LEMMA BehindStep ==
  ASSUME ReadsAreBehind, OrdersOK, EngineOK, ReadsOK, [Next]_vars PROVE ReadsAreBehind'
<1>1. Forward
  BY BookStep
<1>2. ASSUME NEW r \in Everyone, read'[r] # None, NEW o \in Orders
      PROVE /\ read'[r][o].filled <= broker'[o].filled
            /\ read'[r][o].status \in FinalStates => read'[r][o].status = broker'[o].status
  <2>1. CASE read'[r] = read[r]
    <3>1. read[r][o] \in BookEntry
      BY <1>2, <2>1 DEF ReadsOK
    <3>2. /\ read[r][o].filled <= broker[o].filled
          /\ read[r][o].status \in FinalStates => read[r][o].status = broker[o].status
      BY <1>2, <2>1 DEF ReadsAreBehind
    <3>3. broker[o] \in BookEntry
      BY DEF OrdersOK
    <3>4. broker'[o] \in BookEntry
      BY OrdersStep DEF OrdersOK
    <3> QED
      BY <1>1, <2>1, <3>1, <3>2, <3>3, <3>4 DEF Forward, BookEntry
  <2>2. CASE read'[r] = broker /\ UNCHANGED broker
    BY <2>2 DEF OrdersOK, BookEntry
  <2> QED
    BY <1>2, <2>1, <2>2, OneRead
<1> QED
  BY <1>2 DEF ReadsAreBehind

-----------------------------------------------------------------------------
(* One order and one step *)

\* What the parts of IInv say of one order.
Waits(p) ==
  /\ p \in queue \cup taken \/ p = calling =>
       local[p].status = "new" /\ p \notin indexed \cup unsure
  /\ p \in queue \cup taken \/ local[p].status = "none" => broker[p].status = "none"
Known(p) ==
  /\ p \in indexed => broker[p].status # "none"
  /\ p \in indexed \cup unsure => local[p].status # "none"
  /\ broker[p].status # "none" => p = calling \/ p \in indexed \cup unsure
  /\ cancel[p] # "no" => p \in indexed
Final(p) ==
  p \notin unsure /\ local[p].status \in FinalStates =>
    \/ broker[p].status = local[p].status
    \/ broker[p].status = "none" /\ local[p].status # "filled" /\ p \notin queue \cup taken
Listing(p) ==
  p \notin unsure /\ Alive(p) => p = calling \/ (p \in indexed /\ local[p].status \in OpenStates)
Real(p) == local[p].filled <= broker[p].filled
Good(p) == Waits(p) /\ Known(p) /\ Final(p) /\ Listing(p) /\ Real(p)

LEMMA OneByOne ==
  /\ IInv <=> TypeOK /\ ReadsAreBehind /\ \A p \in Orders : Good(p)
  /\ IInv' <=> TypeOK' /\ ReadsAreBehind' /\ \A p \in Orders : Good(p)'
BY DEF IInv, Good, Waits, Known, Final, Listing, Real, WaitsUnknown, KnownByNumber, FinalIsTrue,
   AliveIsOpen, FillsAreReal

\* A snapshot that is applied leaves every order good.
LEMMA ApplyGood ==
  ASSUME OrdersOK, NEW snapshot \in [Orders -> BookEntry], Apply(snapshot),
         \A o \in Orders : /\ snapshot[o].filled <= broker[o].filled
                           /\ snapshot[o].status \in FinalStates => snapshot[o].status = broker[o].status,
         NEW p \in Orders, Good(p),
         p \in queue' \cup taken' => p \in queue \cup taken, calling' = calling,
         UNCHANGED <<indexed, unsure, cancel, broker>>
  PROVE Good(p)'
<1>1. CASE p \in indexed /\ snapshot[p].status # "none"
  <2>1. /\ local'[p].filled = snapshot[p].filled
        /\ local'[p].status = Listed(snapshot[p])
    BY <1>1, AppliedTo
  <2>2. snapshot[p] \in BookEntry /\ broker[p] \in BookEntry
    BY DEF OrdersOK
  <2>3. \/ snapshot[p].status \in FinalStates /\ Listed(snapshot[p]) = snapshot[p].status
        \/ snapshot[p].status = "open" /\ Listed(snapshot[p]) \in {"open", "filling"}
    BY <1>1, <2>2 DEF Listed, BookEntry, FinalStates
  <2>4. Listed(snapshot[p]) # "none" /\ p \notin queue \cup taken /\ p # calling
    BY <1>1, <2>3 DEF FinalStates, Good, Waits
  <2>5. Waits(p)' /\ Known(p)'
    BY <1>1, <2>1, <2>4 DEF Good, Waits, Known
  <2>6. Final(p)'
    BY <1>1, <2>1, <2>3 DEF Final, FinalStates
  <2>7. Listing(p)'
    BY <1>1, <2>1, <2>3 DEF Listing, Alive, FinalStates, OpenStates
  <2>8. Real(p)'
    BY <2>1 DEF Real
  <2> QED
    BY <2>5, <2>6, <2>7, <2>8 DEF Good
<1>2. CASE ~(p \in indexed /\ snapshot[p].status # "none")
  <2>1. local'[p] = local[p]
    BY <1>2, AppliedTo
  <2> QED
    BY <2>1 DEF Good, Waits, Known, Final, Listing, Real, Alive
<1> QED
  BY <1>1, <1>2

\* Every step leaves every order good.
LEMMA GoodStep ==
  ASSUME TypeOK, ReadsAreBehind, \A p \in Orders : Good(p), [Next]_vars, NEW p \in Orders
  PROVE Good(p)'
<1> USE Bounds DEF engineVars, cancelVars, Good, Waits, Known, Final, Listing,
     Real, Alive, OpenStates, FinalStates
<1>1. Good(p) /\ OrdersOK /\ EngineOK /\ ReadsOK
  BY DEF TypeOK
<1>2. ASSUME NEW o \in Orders, Place(o) PROVE Good(p)'
  <2>1. /\ local'[p].filled = local[p].filled
        /\ local'[p].status = IF p = o THEN "new" ELSE local[p].status
    BY <1>1, <1>2, Marked DEF Place
  <2> QED
    BY <1>1, <1>2, <2>1 DEF Place
<1>3. ASSUME NEW o \in Orders, CancelQueued(o) PROVE Good(p)'
  <2>1. /\ local'[p].filled = local[p].filled
        /\ local'[p].status = IF p = o THEN "canceled" ELSE local[p].status
    BY <1>1, <1>3, Marked DEF CancelQueued
  <2> QED
    BY <1>1, <1>3, <2>1 DEF CancelQueued, Cancelable, EngineOK
<1>4. ASSUME NEW o \in Orders, Refuse(o) PROVE Good(p)'
  <2>1. PICK status \in {"rejected", "canceled"} : Mark(o, status)
    BY <1>4 DEF Refuse
  <2>2. /\ local'[p].filled = local[p].filled
        /\ local'[p].status = IF p = o THEN status ELSE local[p].status
    BY <1>1, <2>1, Marked
  <2> QED
    BY <1>1, <1>4, <2>2 DEF Refuse, EngineOK
<1>5. ASSUME NEW o \in Orders, Send(o) PROVE Good(p)'
  BY <1>1, <1>5 DEF Send, EngineOK
<1>6. ASSUME NEW o \in Orders, Arrive(o) PROVE Good(p)'
  <2>1. /\ broker'[p].filled = broker[p].filled
        /\ broker'[p].status = IF p = o THEN "open" ELSE broker[p].status
    BY <1>1, <1>6 DEF Arrive, OrdersOK, BookEntry
  <2> QED
    BY <1>1, <1>6, <2>1 DEF Arrive, EngineOK
<1>7. ASSUME NEW o \in Orders, Fill(o) \/ CounterRejects(o) \/ CounterCancels(o) PROVE Good(p)'
  <2>1. Alive(o) /\ UNCHANGED <<local, queue, taken, calling, indexed, unsure, cancel>>
    BY <1>7 DEF Fill, CounterRejects, CounterCancels
  <2>2. broker'[p] = broker[p] \/ (p = o /\ broker'[p].status \in FinalStates \cup {"open"})
    BY <1>1, <1>7 DEF Fill, CounterRejects, CounterCancels, OrdersOK, BookEntry
  <2>3. broker[p].filled <= broker'[p].filled
    BY <1>1, BookStep DEF Forward
  <2>4. local[p].filled \in Nat /\ broker[p].filled \in Nat /\ broker'[p].filled \in Nat
    BY <1>1, OrdersStep DEF OrdersOK, Entry, BookEntry
  <2> QED
    BY <1>1, <2>1, <2>2, <2>3, <2>4
<1>8. ASSUME NEW o \in Orders, AnswerCancel(o) PROVE Good(p)'
  BY <1>1, <1>8 DEF AnswerCancel, OrdersOK
<1>9. ASSUME NEW o \in Orders, Cancel(o) PROVE Good(p)'
  BY <1>1, <1>9 DEF Cancel, OrdersOK
<1>10. ASSUME NEW o \in Orders, CancelHeard(o) PROVE Good(p)'
  <2>1. /\ local'[p].filled = local[p].filled
        /\ local'[p].status = IF p = o THEN "canceling" ELSE local[p].status
    BY <1>1, <1>10, Marked DEF CancelHeard
  <2>2. cancel'[p] # "no" => cancel[p] # "no"
    BY <1>1, <1>10 DEF CancelHeard, OrdersOK
  <2>3. o \in indexed
    BY <1>10 DEF CancelHeard
  <2> QED
    BY <1>1, <1>10, <2>1, <2>2, <2>3 DEF CancelHeard
<1>11. CASE Take
  BY <1>1, <1>11 DEF Take, EngineOK
<1>12. CASE Returned
  <2>1. calling \in Orders
    BY <1>1, <1>12 DEF Returned, EngineOK
  <2>2. /\ local'[p].filled = local[p].filled
        /\ local'[p].status = IF p = calling THEN "open" ELSE local[p].status
    BY <1>1, <1>12, <2>1, Marked DEF Returned
  <2> QED
    BY <1>1, <1>12, <2>1, <2>2 DEF Returned, EngineOK
<1>13. CASE Raised
  <2>1. calling \in Orders
    BY <1>1, <1>13 DEF Raised, EngineOK
  <2>2. /\ local'[p].filled = local[p].filled
        /\ local'[p].status = IF p = calling THEN "rejected" ELSE local[p].status
    BY <1>1, <1>13, <2>1, Marked DEF Raised
  <2> QED
    BY <1>1, <1>13, <2>1, <2>2 DEF Raised, EngineOK
<1>14. CASE Finish
  <2>1. CASE Apply(broker)
    <3>1. \A o \in Orders : /\ broker[o].filled <= broker[o].filled
                            /\ broker[o].status \in FinalStates => broker[o].status = broker[o].status
      BY <1>1 DEF OrdersOK, BookEntry
    <3> QED
      BY <1>1, <1>14, <2>1, <3>1, ApplyGood DEF Finish, OrdersOK
  <2>2. CASE UNCHANGED local
    BY <1>1, <1>14, <2>2 DEF Finish
  <2> QED
    BY <1>14, <2>1, <2>2 DEF Finish
<1>15. ASSUME NEW r \in Everyone, ApplyRead(r) PROVE Good(p)'
  <2>1. read[r] \in [Orders -> BookEntry]
    BY <1>1, <1>15 DEF ApplyRead, ReadsOK
  <2>2. \A o \in Orders :
          /\ read[r][o].filled <= broker[o].filled
          /\ read[r][o].status \in FinalStates => read[r][o].status = broker[o].status
    BY <1>15 DEF ApplyRead, ReadsAreBehind
  <2> QED
    BY <1>1, <1>15, <2>1, <2>2, ApplyGood DEF ApplyRead
<1>16. ASSUME NEW r \in Everyone, Read(r) PROVE Good(p)'
  BY <1>1, <1>16 DEF Read
<1>17. CASE UNCHANGED vars
  BY <1>1, <1>17 DEF vars
<1> QED
  BY <1>2, <1>3, <1>4, <1>5, <1>6, <1>7, <1>8, <1>9, <1>10, <1>11, <1>12, <1>13, <1>14, <1>15,
     <1>16, <1>17 DEF Next

-----------------------------------------------------------------------------
(* Theorems *)

LEMMA InitGood == Init => IInv
<1> SUFFICES ASSUME Init PROVE IInv
  OBVIOUS
<1> USE Bounds DEF Init, Absent
<1>1. OrdersOK /\ EngineOK /\ ReadsOK
  <2>1. Absent \in Entry /\ Absent \in BookEntry /\ Absent.filled < Size
    BY DEF Entry, BookEntry
  <2>2. OrdersOK
    BY <2>1 DEF OrdersOK
  <2>3. EngineOK
    BY DEF EngineOK
  <2>4. ReadsOK
    BY DEF ReadsOK
  <2> QED
    BY <2>2, <2>3, <2>4
<1>2. ReadsAreBehind
  BY DEF ReadsAreBehind
<1>3. ASSUME NEW p \in Orders PROVE Good(p)
  BY <1>3 DEF Good, Waits, Known, Final, Listing, Real, Alive, OpenStates, FinalStates
<1> QED
  BY <1>1, <1>2, <1>3, OneByOne DEF TypeOK

\* The engine's picture of its orders is never ahead of the broker's book, in any
\* order of reads and answers (_apply_order_snapshots, _process_orders).
THEOREM Invariance == Spec => []IInv
<1>1. IInv /\ [Next]_vars => IInv'
  <2> SUFFICES ASSUME IInv, [Next]_vars PROVE IInv'
    OBVIOUS
  <2>1. /\ TypeOK /\ ReadsAreBehind /\ WaitsUnknown /\ OrdersOK /\ EngineOK /\ ReadsOK
        /\ \A p \in Orders : Good(p)
    BY OneByOne DEF IInv, TypeOK
  <2>2. TypeOK'
    BY <2>1, OrdersStep, EngineStep, ReadsStep DEF TypeOK
  <2>3. ReadsAreBehind'
    BY <2>1, BehindStep
  <2>4. \A p \in Orders : Good(p)'
    BY <2>1, GoodStep
  <2> QED
    BY <2>2, <2>3, <2>4, OneByOne
<1> QED
  BY InitGood, <1>1, PTL DEF Spec

\* Every variable keeps its type.
THEOREM TypeCorrect == Spec => []TypeOK
<1>1. IInv => TypeOK
  BY DEF IInv
<1> QED
  BY <1>1, Invariance, PTL

\* A final status is true of the broker's book (get_orders), unless the call of the
\* order raised in doubt.
THEOREM FinalStatusIsTrue == Spec => []FinalIsTrue
<1>1. IInv => FinalIsTrue
  BY DEF IInv
<1> QED
  BY <1>1, Invariance, PTL

\* An order that lives at the broker is listed as open once its call has returned
\* (get_open_orders).
THEOREM LivingIsListed == Spec => []AliveIsOpen
<1>1. IInv => AliveIsOpen
  BY DEF IInv
<1> QED
  BY <1>1, Invariance, PTL

\* No fill is reported that the broker has not made (_snapshot_filled_amount).
THEOREM ReportedFillsAreReal == Spec => []FillsAreReal
<1>1. IInv => FillsAreReal
  BY DEF IInv
<1> QED
  BY <1>1, Invariance, PTL
=============================================================================
