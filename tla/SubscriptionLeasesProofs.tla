---------------------- MODULE SubscriptionLeasesProofs ----------------------
(***************************************************************************)
(* Proofs about SubscriptionLeases, for any leases, scopes and answers of  *)
(* the vendor: what is reported as confirmed is served and stays served,   *)
(* and nothing is served that is not on record; and whoever leaves work    *)
(* behind is attended to, so that no lease stays undispatched unless a     *)
(* pump was skipped.                                                       *)
(***************************************************************************)
EXTENDS SubscriptionLeases, FiniteSetTheorems, FunctionTheorems, TLAPS

\* What the provers need of the constants.
LEMMA Bounds ==
  /\ Full \subseteq Scopes /\ ScopesOf \in [Leases -> SUBSET Scopes \ {{}}]
  /\ \A s, t \in Full : GroupOf[s] = GroupOf[t] => s = t
  /\ MaxActions \in Nat /\ MaxEpoch \in Nat /\ MaxFaults \in Nat
BY ScopesAssumption DEF ScopesAssumption

-----------------------------------------------------------------------------
(* Numbers for new actions. *)

LEMMA MissingPairs ==
  ASSUME LeaseOK, BookOK, NEW plans PROVE Missing(plans) \subseteq Ops \X Scopes
<1>1. Desired \subseteq Scopes
  BY DEF Desired, LeaseOK
<1> QED
  BY <1>1 DEF Missing, Effective, Ops, BookOK

LEMMA PairsAreFinite == ASSUME NEW S \in SUBSET (Ops \X Scopes) PROVE IsFiniteSet(S)
<1>1. IsFiniteSet(Ops)
  <2>1. IsFiniteSet({"subscribe"})
    BY FS_Singleton
  <2>2. IsFiniteSet({"subscribe"} \cup {"unsubscribe"})
    BY <2>1, FS_AddElement
  <2>3. Ops = {"subscribe"} \cup {"unsubscribe"}
    BY DEF Ops
  <2> QED
    BY <2>2, <2>3
<1>2. IsFiniteSet(Ops \X Scopes)
  BY <1>1, FS_Product, ScopesAssumption DEF ScopesAssumption
<1> QED
  BY <1>2, FS_Subset

LEMMA NumberingIsOneToOne ==
  ASSUME seq \in Nat, NEW new, IsFiniteSet(new)
  PROVE  /\ Cardinality(new) \in Nat
         /\ Numbering(new) \in [new -> (seq + 1)..(seq + Cardinality(new))]
         /\ \A x, y \in new : Numbering(new)[x] = Numbering(new)[y] => x = y
<1> DEFINE n == Cardinality(new)
<1>1. n \in Nat /\ ExistsBijection(1..n, new)
  BY FS_CardinalityType
<1>2. PICK f \in Bijection(new, 1..n) : TRUE
  BY <1>1, Fun_ExistsBijSymmetric DEF ExistsBijection
<1>3. f \in [new -> 1..n] /\ \A x, y \in new : f[x] = f[y] => x = y
  BY <1>2 DEF Bijection, Injection, IsInjective
<1> HIDE DEF n
<1> DEFINE g == [x \in new |-> seq + f[x]]
<1>4. g \in [new -> (seq + 1)..(seq + n)]
  BY <1>1, <1>3
<1>5. \A x, y \in new : g[x] = g[y] => x = y
  BY <1>1, <1>3
<1> HIDE DEF g
<1>6. /\ Numbering(new) \in [new -> (seq + 1)..(seq + n)]
      /\ \A x, y \in new : Numbering(new)[x] = Numbering(new)[y] => x = y
  BY <1>4, <1>5 DEF Numbering, n
<1> QED
  BY <1>1, <1>6 DEF n

\* What take_actions plans.
NewAction(x) ==
  [id |-> Numbering(Missing({a \in planned : Needed(a)}))[x], epoch |-> epoch, op |-> x[1],
   scope |-> x[2], why |-> Why(x[1], x[2])]

LEMMA TakePlans ==
  ASSUME LeaseOK, BookOK, NEW t \in Threads, Take(t)
  PROVE  LET old == {a \in planned : Needed(a)}
             new == Missing(old)
         IN /\ planned' = old \cup {NewAction(x) : x \in new}
            /\ seq' \in 0..MaxActions /\ seq <= seq'
            /\ \A x \in new : /\ NewAction(x) \in Action
                              /\ NewAction(x).epoch = epoch
                              /\ NewAction(x).id > seq /\ NewAction(x).id <= seq'
            /\ \A x, y \in new : NewAction(x).id = NewAction(y).id => x = y
<1> USE Bounds
<1> DEFINE old == {a \in planned : Needed(a)}
           new == Missing(old)
<1>1. new \subseteq Ops \X Scopes /\ seq \in Nat /\ epoch \in 0..MaxEpoch
  BY MissingPairs DEF BookOK
<1>2. IsFiniteSet(new)
  BY <1>1, PairsAreFinite
<1>3. /\ planned' = old \cup {NewAction(x) : x \in new}
      /\ seq' = seq + Cardinality(new) /\ seq + Cardinality(new) <= MaxActions
  BY DEF Take, NewAction
<1>4. \A x \in new : NewAction(x) = [id |-> Numbering(new)[x], epoch |-> epoch, op |-> x[1],
                                     scope |-> x[2], why |-> Why(x[1], x[2])]
  BY DEF NewAction
<1>5. /\ Cardinality(new) \in Nat
      /\ Numbering(new) \in [new -> (seq + 1)..(seq + Cardinality(new))]
      /\ \A x, y \in new : Numbering(new)[x] = Numbering(new)[y] => x = y
  BY <1>1, <1>2, NumberingIsOneToOne
<1>6. \A x \in new : Why(x[1], x[2]) \in Reasons
  BY DEF Why, Reasons
<1> HIDE DEF old, new
<1>7. ASSUME NEW x \in new
      PROVE  /\ NewAction(x) \in Action /\ NewAction(x).epoch = epoch
             /\ NewAction(x).id > seq /\ NewAction(x).id <= seq'
  <2>1. x[1] \in Ops /\ x[2] \in Scopes /\ Numbering(new)[x] \in (seq + 1)..(seq + Cardinality(new))
    BY <1>1, <1>5
  <2>2. Numbering(new)[x] \in 1..MaxActions
    BY <1>1, <1>3, <1>5, <2>1
  <2> QED
    BY <1>1, <1>3, <1>4, <1>5, <1>6, <2>1, <2>2 DEF Action
<1>8. \A x, y \in new : NewAction(x).id = NewAction(y).id => x = y
  BY <1>4, <1>5
<1>9. seq' \in 0..MaxActions /\ seq <= seq'
  BY <1>1, <1>3, <1>5
<1> QED
  BY <1>3, <1>7, <1>8, <1>9 DEF old, new

-----------------------------------------------------------------------------
(* Types *)

\* What an action that landed leaves behind.
LEMMA LandTypes ==
  ASSUME BookOK, NEW a \in Action, NEW out, Land(a, out)
  PROVE  /\ sent' \subseteq Scopes /\ confirmed' \subseteq Scopes /\ planned' = planned
         /\ inflight' = inflight \ {a} /\ uncertain' = uncertain \ {a}
         /\ failures' \subseteq Ops \X Scopes
<1>1. a.op \in Ops /\ a.scope \in Scopes
  BY DEF Action
<1> QED
  BY <1>1 DEF Land, BookOK, KeptFailures

LEMMA BookStep == ASSUME TypeOK, OneDispatch, [Next]_vars PROVE BookOK'
<1> USE Bounds DEF TypeOK, BookOK, Current
<1>1. ASSUME NEW l \in Leases, Ask(l) PROVE BookOK'
  BY <1>1 DEF Ask, book
<1>2. ASSUME NEW l \in Leases, AddLease(l) \/ RemoveLease(l) PROVE BookOK'
  BY <1>2 DEF AddLease, RemoveLease, Become, Advance, Answered, KeptFailures
<1>3. CASE CloseSession
  BY <1>3 DEF CloseSession, Become, Advance, KeptFailures
<1>4. ASSUME NEW l \in Leases, RetryFailed(l) PROVE BookOK'
  BY <1>4 DEF RetryFailed
<1>5. CASE BeginEpoch
  BY <1>5 DEF BeginEpoch
<1>6. ASSUME NEW x \in answers, Deliver(x[1], x[2]) PROVE BookOK'
  <2>1. UNCHANGED <<seq, epoch, connected>> /\ (UNCHANGED book \/ Land(x[1], x[2]))
    BY <1>6 DEF Deliver
  <2>2. x[1] \in Action
    BY DEF VendorOK
  <2> QED
    BY <2>1, <2>2, LandTypes DEF book
<1>7. ASSUME NEW a \in inflight, Expire(a) PROVE BookOK'
  BY <1>7 DEF Expire
<1>8. ASSUME NEW a \in uncertain, Reconcile(a) PROVE BookOK'
  <2>1. a.scope \in Scopes
    BY DEF Action
  <2> QED
    BY <1>8, <2>1 DEF Reconcile
<1>9. ASSUME NEW t \in Threads, Take(t) PROVE BookOK'
  <2> DEFINE old == {a \in planned : Needed(a)}
             new == Missing(old)
  <2>1. /\ planned' = old \cup {NewAction(x) : x \in new} /\ seq' \in 0..MaxActions
        /\ \A x \in new : NewAction(x) \in Action /\ NewAction(x).epoch = epoch
    BY <1>9, TakePlans
  <2>2. UNCHANGED <<sent, confirmed, inflight, uncertain, failures, epoch, connected>>
    BY <1>9 DEF Take
  <2> HIDE DEF new
  <2> QED
    BY <2>1, <2>2
<1>10. ASSUME NEW t \in Threads, NEW a \in todo, Claim(t, a) PROVE BookOK'
  <2>1. a.scope \in Scopes
    BY DEF PumpOK, Action
  <2> QED
    BY <1>10, <2>1 DEF Claim
<1>11. ASSUME NEW t \in Threads, NEW a \in todo, ClaimStale(t, a) PROVE BookOK'
  BY <1>11 DEF ClaimStale
<1>12. ASSUME NEW t \in Threads, SubmitRefused(t) \/ SubmitRaised(t)
       PROVE  BookOK'
  <2>1. UNCHANGED <<seq, epoch, connected>>
        /\ \/ UNCHANGED book \/ Land(cur, "rejected")
           \/ /\ cur \in inflight /\ inflight' = inflight \ {cur} /\ uncertain' = uncertain \cup {cur}
              /\ UNCHANGED <<sent, confirmed, planned, failures>>
    BY <1>12 DEF SubmitRefused, SubmitRaised
  <2>2. cur \in Action
    BY <1>12 DEF SubmitRefused, SubmitRaised, OneDispatch
  <2> QED
    BY <2>1, <2>2, LandTypes DEF book
<1>13. ASSUME NEW t \in Threads, NEW out \in {"confirmed", "rejected"}, SubmitAnswered(t, out)
       PROVE  BookOK'
  <2>1. UNCHANGED <<seq, epoch, connected>> /\ Land(cur, out) /\ cur \in Action
    BY <1>13 DEF SubmitAnswered, OneDispatch
  <2> QED
    BY <2>1, LandTypes
<1>14. ASSUME NEW t \in Threads, Enter(t) \/ Finish(t) \/ Submit(t) PROVE BookOK'
  BY <1>14 DEF Enter, Finish, Submit, book
<1>15. ASSUME NEW a \in wire, CarryOut(a) \/ Deny(a) PROVE BookOK'
  BY <1>15 DEF CarryOut, Deny, book
<1>16. CASE UNCHANGED vars
  BY <1>16 DEF vars, book
<1> QED
  BY <1>1, <1>2, <1>3, <1>4, <1>5, <1>6, <1>7, <1>8, <1>9, <1>10, <1>11, <1>12, <1>13, <1>14, <1>15,
     <1>16 DEF Next, Feed, Outcome, Vendor, Pump

LEMMA LeaseStep == ASSUME TypeOK, [Next]_vars PROVE LeaseOK'
<1> USE Bounds DEF TypeOK, LeaseOK, BookOK
<1>1. ASSUME NEW l \in Leases, Ask(l) \/ AddLease(l) \/ RemoveLease(l) \/ RetryFailed(l)
      PROVE  LeaseOK'
  BY <1>1 DEF Ask, AddLease, RemoveLease, RetryFailed, Become, Answered, lease
<1>2. CASE CloseSession \/ BeginEpoch
  BY <1>2 DEF CloseSession, BeginEpoch, Become, lease
<1>3. CASE Outcome \/ Vendor \/ (\E t \in Threads : Pump(t)) \/ UNCHANGED vars
  <2>1. UNCHANGED lease
    BY <1>3 DEF Outcome, Deliver, Expire, Reconcile, Vendor, CarryOut, Deny, Pump, Enter, Take, Finish,
       Claim, ClaimStale, Submit, SubmitRefused, SubmitRaised, SubmitAnswered, vars
  <2> QED
    BY <2>1 DEF lease
<1> QED
  BY <1>1, <1>2, <1>3 DEF Next, Feed

LEMMA PumpStep == ASSUME TypeOK, OneDispatch, [Next]_vars PROVE PumpOK'
<1> USE DEF TypeOK, PumpOK, Threads
<1>1. CASE Feed
  BY <1>1 DEF Feed, Ask, AddLease, RemoveLease, RetryFailed, CloseSession, BeginEpoch, Answered,
     ThenPump, Goto, pump
<1>2. CASE Outcome
  BY <1>2 DEF Outcome, Deliver, Expire, Reconcile, Goto, pump
<1>3. CASE Vendor \/ UNCHANGED vars
  BY <1>3 DEF Vendor, CarryOut, Deny, vars, pump
<1>4. ASSUME NEW t \in Threads, Enter(t) \/ Finish(t) PROVE PumpOK'
  BY <1>4 DEF Enter, Finish, Goto, Dispatching
<1>5. ASSUME NEW t \in Threads, Take(t) PROVE PumpOK'
  <2>1. todo' = planned' /\ planned' \subseteq Action
    <3>1. BookOK'
      BY <1>5, BookStep DEF Next, Pump
    <3> QED
      BY <1>5, <3>1 DEF Take, BookOK, Current
  <2> QED
    BY <1>5, <2>1 DEF Take, Goto
<1>6. ASSUME NEW t \in Threads, NEW a \in todo, Claim(t, a) \/ ClaimStale(t, a) PROVE PumpOK'
  BY <1>6 DEF Claim, ClaimStale, Abort, Goto
<1>7. ASSUME NEW t \in Threads, Submit(t) \/ SubmitRefused(t) \/ SubmitRaised(t) PROVE PumpOK'
  BY <1>7 DEF Submit, SubmitRefused, SubmitRaised, Submitted, Abort, Goto
<1>8. ASSUME NEW t \in Threads, NEW out \in {"confirmed", "rejected"}, SubmitAnswered(t, out)
      PROVE  PumpOK'
  BY <1>8 DEF SubmitAnswered, Submitted, Goto
<1> QED
  BY <1>1, <1>2, <1>3, <1>4, <1>5, <1>6, <1>7, <1>8 DEF Next, Pump

LEMMA VendorStep == ASSUME TypeOK, OneDispatch, [Next]_vars PROVE VendorOK'
<1> USE Bounds DEF TypeOK, VendorOK
<1>1. CASE Feed
  BY <1>1 DEF Feed, Ask, AddLease, RemoveLease, RetryFailed, CloseSession, BeginEpoch, Answered, vendor
<1>2. CASE Outcome
  <2>1. truth' = truth /\ wire' = wire /\ answers' \subseteq answers /\ did' \subseteq did
    BY <1>2 DEF Outcome, Deliver, Expire, Reconcile
  <2>2. faults' = faults \/ Fault
    BY <1>2 DEF Outcome, Deliver, Expire, Reconcile
  <2> QED
    BY <2>1, <2>2 DEF Fault
<1>3. ASSUME NEW a \in wire, CarryOut(a) \/ Deny(a) PROVE VendorOK'
  <2>1. a \in Action /\ a.scope \in Scopes
    BY DEF Action
  <2> QED
    BY <1>3, <2>1 DEF CarryOut, Deny, Answer, Carried, Fault
<1>4. ASSUME NEW t \in Threads, Enter(t) \/ Take(t) \/ Finish(t) PROVE VendorOK'
  BY <1>4 DEF Enter, Take, Finish, vendor
<1>5. ASSUME NEW t \in Threads, NEW a \in todo, Claim(t, a) \/ ClaimStale(t, a) PROVE VendorOK'
  BY <1>5 DEF Claim, ClaimStale, vendor
<1>6. ASSUME NEW t \in Threads, Submit(t) \/ SubmitRefused(t) \/ SubmitRaised(t) PROVE VendorOK'
  <2>1. cur \in Action
    BY <1>6 DEF Submit, SubmitRefused, SubmitRaised, OneDispatch
  <2> QED
    BY <1>6, <2>1 DEF Submit, SubmitRefused, SubmitRaised, Fault
<1>7. ASSUME NEW t \in Threads, NEW out \in {"confirmed", "rejected"}, SubmitAnswered(t, out)
      PROVE  VendorOK'
  <2>1. cur.scope \in Scopes
    BY <1>7 DEF SubmitAnswered, OneDispatch, Action
  <2> QED
    BY <1>7, <2>1 DEF SubmitAnswered, Carried, Fault
<1>8. CASE UNCHANGED vars
  BY <1>8 DEF vars, vendor
<1> QED
  BY <1>1, <1>2, <1>3, <1>4, <1>5, <1>6, <1>7, <1>8 DEF Next, Vendor, Pump

LEMMA TypeStep == ASSUME TypeOK, OneDispatch, [Next]_vars PROVE TypeOK'
BY BookStep, LeaseStep, PumpStep, VendorStep DEF TypeOK

-----------------------------------------------------------------------------
(* Steps that leave actions and the vendor alone. *)

\* What the records say depends on these.
Records == <<confirmed, inflight, uncertain, truth, wire, did, answers>>

\* Leases come and go: plans become void, what was sent is forgotten only where no
\* open action and no confirmation needs it.
LEMMA LeaseChanges ==
  ASSUME TypeOK, OpenOnRecord, NEW want,
         \/ Advance(want)
         \/ /\ UNCHANGED <<confirmed, planned, inflight, uncertain>>
            /\ sent' = sent \cap Kept(want, confirmed, Open)
            /\ failures' = KeptFailures(failures, Kept(want, confirmed, Open))
  PROVE  /\ UNCHANGED <<confirmed, inflight, uncertain>> /\ planned' \subseteq planned
         /\ failures' \subseteq failures /\ sent' \subseteq sent
         /\ sent \cap (confirmed \cup {a.scope : a \in Open}) \subseteq sent'
BY DEF Advance, Kept, KeptFailures, Open

LEMMA QuietFeed ==
  ASSUME TypeOK, OneActionPerScope, OpenOnRecord, Feed, ~BeginEpoch
  PROVE  /\ UNCHANGED <<Records, cur, seq, epoch, connected>>
         /\ planned' \subseteq planned /\ failures' \subseteq failures
         /\ sent \cap (confirmed \cup {a.scope : a \in Open}) \subseteq sent'
         /\ pc' = pc \/ pc' = [pc EXCEPT !["feed"] = "idle"] \/ pc' = [pc EXCEPT !["feed"] = "pump"]
<1> USE DEF Records
<1>1. ASSUME NEW l \in Leases, Ask(l) PROVE UNCHANGED <<book, vendor, pc, cur, seq, epoch, connected>>
  BY <1>1 DEF Ask, pump
<1>2. ASSUME NEW l \in Leases, AddLease(l) \/ RemoveLease(l)
      PROVE  /\ UNCHANGED <<vendor, cur, seq, epoch, connected>>
             /\ \E want : Advance(want)
             /\ \E b \in BOOLEAN : ThenPump(b)
  BY <1>2 DEF AddLease, RemoveLease, Become, Answered, ThenPump
<1>3. ASSUME CloseSession
      PROVE  /\ UNCHANGED <<vendor, cur, seq, epoch, connected>>
             /\ \E want : \/ Advance(want)
                          \/ /\ UNCHANGED <<confirmed, planned, inflight, uncertain>>
                             /\ sent' = sent \cap Kept(want, confirmed, Open)
                             /\ failures' = KeptFailures(failures, Kept(want, confirmed, Open))
             /\ \E b \in BOOLEAN : ThenPump(b)
  BY <1>3 DEF CloseSession, Become, Open, ThenPump
<1>4. ASSUME NEW l \in Leases, RetryFailed(l)
      PROVE  /\ UNCHANGED <<vendor, cur, seq, epoch, connected>>
             /\ UNCHANGED <<confirmed, planned, inflight, uncertain>>
             /\ failures' \subseteq failures
             /\ sent \cap (confirmed \cup {a.scope : a \in Open}) \subseteq sent'
             /\ pc' = [pc EXCEPT !["feed"] = "pump"]
  <2>1. UNCHANGED <<vendor, cur, seq, epoch, connected, confirmed, planned, inflight, uncertain>>
        /\ failures' \subseteq failures /\ pc' = [pc EXCEPT !["feed"] = "pump"]
    BY <1>4 DEF RetryFailed, Goto
  <2>2. \A s \in sent \ sent' : s \notin confirmed /\ <<"subscribe", s>> \in failures
    BY <1>4 DEF RetryFailed, TypeOK, BookOK, Ops
  <2>3. \A a \in Open : a.scope \notin sent \ sent'
    BY <2>2 DEF OpenOnRecord, TypeOK, BookOK, Open, Current, Action, Ops
  <2> QED
    BY <2>1, <2>2, <2>3
<1>5. \A b \in BOOLEAN : ThenPump(b) => \/ pc' = [pc EXCEPT !["feed"] = "idle"]
                                        \/ pc' = [pc EXCEPT !["feed"] = "pump"]
  BY DEF ThenPump, Goto
<1> QED
  BY <1>1, <1>2, <1>3, <1>4, <1>5, LeaseChanges DEF Feed, book, vendor, Open

\* When such a step also keeps the thread that dispatches, all records stay true.
LEMMA RecordsKept ==
  ASSUME OneActionPerScope, OpenOnRecord, Numbered, AnswersTrue, TruthOnRecord,
         UNCHANGED <<Records, seq>>, planned' \subseteq planned, failures' \subseteq failures,
         confirmed' \subseteq sent', sent \cap {a.scope : a \in Open} \subseteq sent'
  PROVE  OneActionPerScope' /\ OpenOnRecord' /\ Numbered' /\ AnswersTrue' /\ TruthOnRecord'
<1> USE DEF Records, Open, Spoken
<1>1. OneActionPerScope'
  BY DEF OneActionPerScope
<1>2. OpenOnRecord'
  BY DEF OpenOnRecord
<1>3. Numbered'
  BY DEF Numbered
<1>4. AnswersTrue' /\ TruthOnRecord'
  BY DEF AnswersTrue, TruthOnRecord
<1> QED
  BY <1>1, <1>2, <1>3, <1>4

\* All that is recorded of actions.
AllRecords == OneActionPerScope /\ OpenOnRecord /\ Numbered /\ AnswersTrue /\ TruthOnRecord

LEMMA OpenTypes ==
  ASSUME TypeOK
  PROVE  /\ Open \subseteq Current /\ Spoken \subseteq Action
         /\ \A a \in Action : a.scope \in Scopes /\ a.op \in Ops /\ a.id \in Nat
BY DEF TypeOK, BookOK, VendorOK, Open, Spoken, Current, Action

-----------------------------------------------------------------------------
(* An open action is settled: answered, refused or reconciled. *)

LEMMA SettledRecords ==
  ASSUME TypeOK, AllRecords, NEW a \in Open, a \notin wire,
         planned' = planned, inflight' = inflight \ {a}, uncertain' = uncertain \ {a},
         UNCHANGED <<wire, seq>>,
         answers' \subseteq answers, did' \subseteq did, did \ {a} \subseteq did',
         \A s \in Scopes \ {a.scope} :
           (s \in confirmed' <=> s \in confirmed) /\ (s \in truth' <=> s \in truth),
         a.scope \in confirmed' <=> a.scope \in truth',
         confirmed' \subseteq sent', {b.scope : b \in Open \ {a}} \subseteq sent',
         failures' \subseteq failures \cup {<<a.op, a.scope>>}
  PROVE  AllRecords'
<1> USE DEF AllRecords
<1>o. Open' = Open \ {a}
  BY DEF Open
<1>0. \A b \in Open : b.scope \in Scopes /\ (b # a => b.scope # a.scope)
  BY OpenTypes DEF OneActionPerScope, Open, Current
<1>1. OneActionPerScope'
  <2>1. planned' \cup inflight' \cup uncertain' = planned' \cup Open'
    BY DEF Open
  <2>2. planned \cup inflight \cup uncertain = planned \cup Open
    BY DEF Open
  <2> QED
    BY <1>o, <2>1, <2>2 DEF OneActionPerScope
<1>2. OpenOnRecord'
  <2>1. ASSUME NEW b \in Open'
        PROVE  /\ IF b.op = "subscribe" THEN b.scope \in sent' \ confirmed' ELSE b.scope \in confirmed'
               /\ <<b.op, b.scope>> \notin failures'
    <3>1. b \in Open /\ b # a
      BY <1>o
    <3>2. b.scope # a.scope /\ b.scope \in Scopes /\ b.scope \in sent'
      BY <1>0, <3>1
    <3>3. /\ IF b.op = "subscribe" THEN b.scope \in sent \ confirmed ELSE b.scope \in confirmed
          /\ <<b.op, b.scope>> \notin failures
      BY <3>1 DEF OpenOnRecord
    <3>4. b.scope \in confirmed' <=> b.scope \in confirmed
      BY <3>2
    <3>5. <<b.op, b.scope>> \notin failures'
      BY <3>2, <3>3
    <3> QED
      BY ONLY <3>2, <3>3, <3>4, <3>5
  <2> QED
    BY <2>1 DEF OpenOnRecord
<1>3. Numbered'
  <2>1. Spoken' \subseteq Spoken
    BY DEF Spoken
  <2> QED
    BY <1>o, <2>1 DEF Numbered
<1>4. AnswersTrue'
  BY <1>o DEF AnswersTrue
<1>5. TruthOnRecord'
  <2>1. \A b \in Open' \cap did' : b \in Open \cap did /\ b # a
    BY <1>o
  <2>2. ASSUME NEW b \in Open' \cap did' PROVE b.scope \in truth' <=> b.op = "subscribe"
    <3>1. b \in Open \cap did /\ b.scope # a.scope /\ b.scope \in Scopes
      BY <1>0, <2>1
    <3>2. b.scope \in truth <=> b.op = "subscribe"
      BY <3>1 DEF TruthOnRecord
    <3>3. b.scope \in truth' <=> b.scope \in truth
      BY <3>1
    <3> QED
      BY ONLY <3>2, <3>3
  <2>3. ASSUME NEW s \in Scopes, \A b \in Open' \cap did' : b.scope # s
        PROVE  s \in truth' <=> s \in confirmed'
    <3>1. CASE s = a.scope
      BY <3>1
    <3>2. CASE s # a.scope
      <4>1. \A b \in Open \cap did : b.scope # s
        BY <1>o, <2>3, <3>2
      <4>2. s \in truth <=> s \in confirmed
        BY <4>1 DEF TruthOnRecord
      <4>3. (s \in truth' <=> s \in truth) /\ (s \in confirmed' <=> s \in confirmed)
        BY <3>2
      <4> QED
        BY ONLY <4>2, <4>3
    <3> QED
      BY <3>1, <3>2
  <2> QED
    BY <2>2, <2>3 DEF TruthOnRecord
<1> QED
  BY <1>1, <1>2, <1>3, <1>4, <1>5

\* What a callback does to the records.
LEMMA Landed ==
  ASSUME TypeOK, AllRecords, NEW a \in Open, NEW out \in {"confirmed", "rejected"}, Land(a, out)
  PROVE  /\ planned' = planned /\ inflight' = inflight \ {a} /\ uncertain' = uncertain \ {a}
         /\ \A s \in Scopes \ {a.scope} : s \in confirmed' <=> s \in confirmed
         /\ a.scope \in confirmed' <=> ((out = "confirmed") = (a.op = "subscribe"))
         /\ confirmed' \subseteq sent' /\ {b.scope : b \in Open \ {a}} \subseteq sent'
         /\ failures' \subseteq failures \cup {<<a.op, a.scope>>}
<1>0. /\ \A b \in Open \ {a} : b.scope # a.scope /\ b.scope \in sent
      /\ a.op \in Ops /\ confirmed \subseteq sent
      /\ IF a.op = "subscribe" THEN a.scope \in sent \ confirmed ELSE a.scope \in confirmed
  BY OpenTypes DEF AllRecords, OneActionPerScope, OpenOnRecord, Open, Current
<1>1. planned' = planned /\ inflight' = inflight \ {a} /\ uncertain' = uncertain \ {a}
  BY DEF Land
<1>2. CASE out = "confirmed"
  <2>1. /\ confirmed' = IF a.op = "subscribe" THEN confirmed \cup {a.scope} ELSE confirmed \ {a.scope}
        /\ sent' = IF a.op = "subscribe" THEN sent \cup {a.scope} ELSE sent \ {a.scope}
        /\ failures' = failures \ {<<a.op, a.scope>>}
    BY <1>2 DEF Land
  <2> QED
    BY <1>0, <1>1, <1>2, <2>1 DEF Ops
<1>3. CASE out = "rejected"
  <2> DEFINE snt == IF a.op = "subscribe" THEN sent \ {a.scope} ELSE sent
             kept == Kept(Desired, confirmed, Open \ {a})
  <2>1. /\ confirmed' = confirmed
        /\ sent' = snt \cap kept
        /\ failures' = KeptFailures(failures \cup {<<a.op, a.scope>>}, kept)
    BY <1>3 DEF Land, Open
  <2>2. confirmed \subseteq kept /\ {b.scope : b \in Open \ {a}} \subseteq kept
    BY DEF Kept
  <2>3. failures' \subseteq failures \cup {<<a.op, a.scope>>}
    BY <2>1 DEF KeptFailures
  <2> HIDE DEF kept
  <2> QED
    BY <1>0, <1>1, <1>3, <2>1, <2>2, <2>3 DEF Ops
<1> QED
  BY <1>2, <1>3

LEMMA DeliverRecords ==
  ASSUME TypeOK, AllRecords, NEW x \in answers, Deliver(x[1], x[2]) PROVE AllRecords'
<1> DEFINE a == x[1]
           out == x[2]
<1>1. /\ a \in Action /\ out \in {"confirmed", "rejected"} /\ x = <<a, out>>
  BY DEF TypeOK, VendorOK
<1>2. /\ answers' \subseteq answers /\ did' = did \ {a} /\ UNCHANGED <<truth, wire, seq>>
      /\ IF a \in Open THEN Land(a, out) ELSE UNCHANGED book
  BY DEF Deliver, CurrentAnswer, Open
<1>3. a \in Spoken
  BY DEF Spoken
<1> HIDE DEF a, out
<1>4. CASE a \in Open
  <2>1. a \notin wire
    BY <1>3 DEF AllRecords, Numbered
  <2>2. Land(a, out)
    BY <1>2, <1>4
  <2>3. a.scope \in truth <=> ((out = "confirmed") = (a.op = "subscribe"))
    <3>1. (out = "confirmed" => a \in did) /\ (out = "rejected" => a \notin did)
      BY <1>1, <1>4 DEF AllRecords, AnswersTrue
    <3>2. CASE out = "confirmed"
      BY <1>4, <3>1, <3>2 DEF AllRecords, TruthOnRecord
    <3>3. CASE out = "rejected"
      <4>1. \A b \in Open \cap did : b.scope # a.scope
        BY <1>4, <3>1, <3>3 DEF AllRecords, OneActionPerScope, Open
      <4>2. a.scope \in truth <=> a.scope \in confirmed
        BY <1>1, <4>1, OpenTypes DEF AllRecords, TruthOnRecord
      <4>3. a.scope \in confirmed <=> a.op # "subscribe"
        BY <1>4 DEF AllRecords, OpenOnRecord
      <4> QED
        BY <3>3, <4>2, <4>3
    <3> QED
      BY <1>1, <3>2, <3>3
  <2> QED
    BY <1>1, <1>2, <1>4, <2>1, <2>2, <2>3, Landed, SettledRecords
<1>5. CASE a \notin Open
  <2>1. UNCHANGED <<sent, confirmed, planned, inflight, uncertain, failures>>
    BY <1>2, <1>5 DEF book
  <2>2. Open' = Open /\ Spoken' \subseteq Spoken
    BY <1>2, <2>1 DEF Open, Spoken
  <2>3. OneActionPerScope' /\ OpenOnRecord' /\ Numbered'
    BY <1>2, <2>1, <2>2 DEF AllRecords, OneActionPerScope, OpenOnRecord, Numbered
  <2>4. \A b \in Open : b \in did' <=> b \in did
    BY <1>2, <1>5
  <2>5. AnswersTrue'
    BY <1>2, <2>2, <2>4 DEF AllRecords, AnswersTrue
  <2>6. TruthOnRecord'
    BY <1>2, <2>1, <2>2, <2>4 DEF AllRecords, TruthOnRecord
  <2> QED
    BY <2>3, <2>5, <2>6 DEF AllRecords
<1> QED
  BY <1>4, <1>5

\* Answered or refused while it is submitted.
LEMMA SubmitLands ==
  ASSUME TypeOK, OneDispatch, AllRecords, NEW t \in Threads, pc[t] = "submit", cur \in Open,
         NEW out \in {"confirmed", "rejected"}, Land(cur, out), UNCHANGED <<wire, did, answers, seq>>,
         truth' = IF out = "confirmed" THEN Carried(cur) ELSE truth
  PROVE  AllRecords'
<1>1. cur \in Action /\ cur \notin wire \cup did
  BY DEF OneDispatch
<1>2. cur.scope \in Scopes /\ cur.op \in Ops
  BY <1>1, OpenTypes
<1>3. \A s \in Scopes \ {cur.scope} : s \in truth' <=> s \in truth
  BY DEF Carried
<1>4. cur.scope \in truth' <=> ((out = "confirmed") = (cur.op = "subscribe"))
  <2>1. CASE out = "confirmed"
    BY <1>2, <2>1 DEF Carried, Ops
  <2>2. CASE out = "rejected"
    <3>1. \A b \in Open \cap did : b.scope # cur.scope
      BY <1>1 DEF AllRecords, OneActionPerScope, Open
    <3>2. cur.scope \in truth <=> cur.scope \in confirmed
      BY <1>2, <3>1 DEF AllRecords, TruthOnRecord
    <3>3. cur.scope \in confirmed <=> cur.op # "subscribe"
      BY DEF AllRecords, OpenOnRecord
    <3> QED
      BY <2>2, <3>2, <3>3
  <2> QED
    BY <2>1, <2>2
<1> QED
  BY <1>1, <1>3, <1>4, Landed, SettledRecords

LEMMA ReconcileRecords ==
  ASSUME TypeOK, AllRecords, NEW a \in uncertain, Reconcile(a) PROVE AllRecords'
<1>0. /\ \A b \in Open \ {a} : b.scope # a.scope /\ b.scope \in sent
      /\ a \in Open /\ a.op \in Ops /\ a.scope \in Scopes /\ confirmed \subseteq sent
      /\ IF a.op = "subscribe" THEN a.scope \in sent \ confirmed ELSE a.scope \in confirmed
  BY OpenTypes DEF AllRecords, OneActionPerScope, OpenOnRecord, Open, Current
<1>1. /\ a \notin wire /\ planned' = planned
      /\ inflight' = inflight \ {a} /\ uncertain' = uncertain \ {a}
      /\ UNCHANGED <<wire, seq, truth, answers>> /\ did' = did \ {a}
      /\ failures' = failures \ {<<a.op, a.scope>>}
  BY DEF Reconcile, AllRecords, Numbered
<1>2. CASE a.op = "unsubscribe" /\ a \notin did
  <2>1. UNCHANGED <<sent, confirmed>>
    BY <1>2 DEF Reconcile
  <2>2. \A b \in Open \cap did : b.scope # a.scope
    BY <1>0, <1>2
  <2>3. a.scope \in truth <=> a.scope \in confirmed
    BY <1>0, <2>2 DEF AllRecords, TruthOnRecord
  <2> QED
    BY <1>0, <1>1, <2>1, <2>3, SettledRecords
<1>3. CASE ~(a.op = "unsubscribe" /\ a \notin did)
  <2> DEFINE on == (a.op = "subscribe") /\ a \in did
  <2>1. /\ sent' = IF on THEN sent \cup {a.scope} ELSE sent \ {a.scope}
        /\ confirmed' = IF on THEN confirmed \cup {a.scope} ELSE confirmed \ {a.scope}
    BY <1>0, <1>3 DEF Reconcile, Ops
  <2>2. a.scope \in truth <=> on
    <3>1. CASE a \in did
      BY <1>0, <3>1 DEF AllRecords, TruthOnRecord
    <3>2. CASE a \notin did
      <4>1. \A b \in Open \cap did : b.scope # a.scope
        BY <1>0, <3>2
      <4> QED
        BY <1>0, <1>3, <3>2, <4>1 DEF AllRecords, TruthOnRecord, Ops
    <3> QED
      BY <3>1, <3>2
  <2> HIDE DEF on
  <2>3. /\ \A s \in Scopes \ {a.scope} : s \in confirmed' <=> s \in confirmed
        /\ a.scope \in confirmed' <=> on
        /\ confirmed' \subseteq sent' /\ {b.scope : b \in Open \ {a}} \subseteq sent'
    BY <1>0, <2>1
  <2> QED
    BY <1>0, <1>1, <2>2, <2>3, SettledRecords
<1> QED
  BY <1>2, <1>3

-----------------------------------------------------------------------------
(* Actions on their way. *)

\* No answer in time, or no answer at all: the action is in doubt, and may reach the vendor.
LEMMA DoubtRecords ==
  ASSUME TypeOK, OneDispatch, AllRecords, Open' = Open, inflight' \cap uncertain' = {},
         UNCHANGED <<sent, confirmed, planned, failures, seq, truth, did, answers>>,
         \/ wire' = wire
         \/ /\ wire' = wire \cup {cur} /\ cur.epoch = epoch
            /\ \E t \in Threads : pc[t] = "submit"
  PROVE  AllRecords'
<1> USE DEF AllRecords
<1>1. OneActionPerScope'
  <2>1. planned' \cup inflight' \cup uncertain' = planned' \cup Open'
        /\ planned \cup inflight \cup uncertain = planned \cup Open
    BY DEF Open
  <2> QED
    BY <2>1 DEF OneActionPerScope
<1>2. OpenOnRecord' /\ AnswersTrue' /\ TruthOnRecord'
  BY DEF OpenOnRecord, AnswersTrue, TruthOnRecord
<1>3. Spoken' = Spoken
  BY DEF Spoken
<1>4. Numbered'
  <2>1. CASE wire' = wire
    BY <1>3, <2>1 DEF Numbered
  <2>2. CASE wire' # wire
    <3>1. wire' = wire \cup {cur} /\ cur \in Open /\ cur \notin did \cup Spoken
      BY <2>2 DEF OneDispatch
    <3> QED
      BY <1>3, <3>1 DEF Numbered
  <2> QED
    BY <2>1, <2>2
<1> QED
  BY <1>1, <1>2, <1>4

\* A plan that is still needed is claimed.
LEMMA ClaimRecords ==
  ASSUME TypeOK, AllRecords, NEW t \in Threads, NEW a \in todo, Claim(t, a) PROVE AllRecords'
<1> USE DEF AllRecords
<1>1. /\ a \in planned /\ Needed(a) /\ planned' = planned \ {a} /\ inflight' = inflight \cup {a}
      /\ sent' = IF a.op = "subscribe" THEN sent \cup {a.scope} ELSE sent
  BY DEF Claim
<1>2. /\ UNCHANGED <<confirmed, uncertain, truth, wire, did, answers, failures, seq>>
      /\ a \notin Open \cup wire \cup did \cup Spoken /\ a.op \in Ops
      /\ Open' = Open \cup {a} /\ Spoken' = Spoken
  BY <1>1, OpenTypes DEF Claim, vendor, Numbered, Open, Spoken, TypeOK, BookOK, Current
<1>3. /\ <<a.op, a.scope>> \notin failures
      /\ IF a.op = "subscribe" THEN a.scope \notin sent ELSE a.scope \in confirmed
  BY <1>1, <1>2 DEF Needed, Ops
<1>4. OneActionPerScope'
  BY <1>1, <1>2 DEF OneActionPerScope
<1>5. OpenOnRecord'
  <2>1. confirmed \subseteq sent
    BY DEF OneActionPerScope
  <2> QED
    BY <1>1, <1>2, <1>3, <2>1 DEF OpenOnRecord
<1>6. Numbered'
  BY <1>1, <1>2 DEF Numbered, Open
<1>7. AnswersTrue'
  <2>1. \A out : <<a, out>> \notin answers
    BY <1>2 DEF Spoken
  <2> QED
    BY <1>2, <2>1 DEF AnswersTrue
<1>8. TruthOnRecord'
  <2>1. Open' \cap did' = Open \cap did
    BY <1>2
  <2> QED
    BY <1>2, <2>1 DEF TruthOnRecord
<1> QED
  BY <1>4, <1>5, <1>6, <1>7, <1>8

\* What is missing has no action yet.
LEMMA TakeRecords ==
  ASSUME TypeOK, AllRecords, NEW t \in Threads, Take(t) PROVE AllRecords'
<1> USE DEF AllRecords
<1> DEFINE old == {a \in planned : Needed(a)}
           new == Missing(old)
<1>1. /\ planned' = old \cup {NewAction(x) : x \in new} /\ seq <= seq'
      /\ \A x \in new : NewAction(x).id > seq /\ NewAction(x).id <= seq'
      /\ seq' \in 0..MaxActions /\ seq \in 0..MaxActions
      /\ \A x \in new : NewAction(x) \in Action
  BY TakePlans DEF TypeOK, BookOK
<1>2. UNCHANGED <<sent, confirmed, inflight, uncertain, failures, truth, wire, did, answers>>
  BY DEF Take, vendor
<1>3. Open' = Open /\ Spoken' = Spoken
  BY <1>2 DEF Open, Spoken
<1>4. \A x \in new : NewAction(x).op = x[1] /\ NewAction(x).scope = x[2]
  BY DEF NewAction
<1>5. ASSUME NEW x \in new, NEW b \in old \cup Open PROVE b.scope # x[2]
  <2>1. b.scope \in Scopes /\ b.op \in Ops /\ b.id \in 1..MaxActions
    BY OpenTypes DEF TypeOK, BookOK, Current, Action
  <2>2. x[1] \in Ops /\ <<x[1], x[2]>> = x
    BY MissingPairs DEF TypeOK
  <2>3. ~HasActive(old, x[1], x[2], NoAction)
        /\ IF x[1] = "subscribe" THEN x[2] \notin sent ELSE x[2] \in confirmed
    BY <2>2 DEF Missing
  <2>4. b # NoAction
    BY <2>1 DEF NoAction
  <2>5. b.op # x[1] \/ b.scope # x[2]
    BY <2>3, <2>4 DEF HasActive, Others, Open
  <2>6. IF b.op = "subscribe" THEN b.scope \notin confirmed ELSE b.scope \in confirmed
    <3>1. CASE b \in Open
      BY <3>1 DEF OpenOnRecord
    <3>2. CASE b \in old
      <4>1. Needed(b)
        BY <3>2
      <4>2. b.op = "subscribe" => b.scope \notin sent
        BY <4>1 DEF Needed
      <4>3. b.op # "subscribe" => b.scope \in confirmed
        BY <4>1 DEF Needed
      <4> QED
        BY <4>2, <4>3 DEF OneActionPerScope
    <3> QED
      BY <3>1, <3>2
  <2>7. confirmed \subseteq sent
    BY DEF OneActionPerScope
  <2> QED
    BY <2>1, <2>2, <2>3, <2>5, <2>6, <2>7 DEF Ops
<1>6. ASSUME NEW x \in new, NEW y \in new, x[2] = y[2] PROVE x = y
  <2>1. x = <<x[1], x[2]>> /\ y = <<y[1], y[2]>> /\ x[1] \in Ops /\ y[1] \in Ops
    BY MissingPairs DEF TypeOK
  <2>2. \A z \in new : z[1] = "subscribe" <=> z[2] \in Effective(old)
    BY DEF Missing
  <2> QED
    BY <1>6, <2>1, <2>2 DEF Ops
<1> HIDE DEF new
<1>7. OneActionPerScope'
  <2>1. ASSUME NEW a \in planned' \cup Open, NEW b \in planned' \cup Open, a.scope = b.scope PROVE a = b
    <3>1. CASE a \in old \cup Open /\ b \in old \cup Open
      BY <2>1, <3>1 DEF OneActionPerScope, Open
    <3>2. CASE a \notin old \cup Open
      <4>1. PICK x \in new : a = NewAction(x)
        BY <1>1, <3>2
      <4>2. b \notin old \cup Open
        BY <1>4, <1>5, <2>1, <4>1
      <4>3. PICK y \in new : b = NewAction(y)
        BY <1>1, <4>2
      <4> QED
        BY <1>4, <1>6, <2>1, <4>1, <4>3
    <3>3. CASE b \notin old \cup Open
      <4>1. PICK y \in new : b = NewAction(y)
        BY <1>1, <3>3
      <4>2. a \notin old \cup Open
        BY <1>4, <1>5, <2>1, <4>1
      <4> QED
        BY <3>2, <4>2
    <3> QED
      BY <3>1, <3>2, <3>3
  <2>2. planned' \cup inflight' \cup uncertain' = planned' \cup Open
    BY <1>2 DEF Open
  <2>3. confirmed' \subseteq sent'
    BY <1>2 DEF OneActionPerScope
  <2> QED
    BY <2>1, <2>2, <2>3 DEF OneActionPerScope
<1>8. Numbered'
  <2>1. \A a \in planned \cup Open \cup wire \cup did \cup Spoken : a.id <= seq /\ a.id \in Nat
    BY OpenTypes DEF Numbered, TypeOK, BookOK, VendorOK, Current
  <2>2. \A a \in planned' : a \in planned \/ (a.id > seq /\ a.id <= seq')
    BY <1>1
  <2>3. planned' \cap (Open \cup wire \cup did \cup Spoken) = {}
    BY <1>1, <2>1, <2>2 DEF Numbered
  <2>4. \A a \in planned' \cup Open \cup wire \cup did \cup Spoken : a.id <= seq'
    BY <1>1, <2>1, <2>2
  <2> QED
    BY <1>2, <1>3, <2>3, <2>4 DEF Numbered
<1>9. OpenOnRecord' /\ AnswersTrue' /\ TruthOnRecord'
  BY <1>2, <1>3 DEF OpenOnRecord, AnswersTrue, TruthOnRecord
<1> QED
  BY <1>7, <1>8, <1>9

-----------------------------------------------------------------------------
(* The vendor, and a new connection. *)

LEMMA VendorRecords ==
  ASSUME TypeOK, AllRecords, NEW a \in wire, CarryOut(a) \/ Deny(a) PROVE AllRecords'
<1> USE DEF AllRecords
<1>1. /\ UNCHANGED <<sent, confirmed, planned, inflight, uncertain, failures, seq>>
      /\ wire' = wire \ {a} /\ Open' = Open
  BY DEF CarryOut, Deny, book, Open
<1>2. /\ a \in Open /\ a \notin did \cup Spoken /\ a \notin planned
      /\ a.scope \in Scopes /\ a.op \in Ops
      /\ \A b \in Open \ {a} : b.scope # a.scope
  BY OpenTypes DEF Numbered, OneActionPerScope, Open, TypeOK, VendorOK
<1>3. \A out : <<a, out>> \notin answers
  BY <1>2 DEF Spoken
<1>4. OneActionPerScope' /\ OpenOnRecord'
  BY <1>1 DEF OneActionPerScope, OpenOnRecord
<1>5. CASE CarryOut(a)
  <2>1. /\ truth' = Carried(a) /\ did' = did \cup {a}
        /\ answers' = answers \/ answers' = answers \cup {<<a, "confirmed">>}
    BY <1>5 DEF CarryOut, Answer
  <2>2. Spoken' \subseteq Spoken \cup {a}
    BY <2>1 DEF Spoken
  <2>3. Numbered'
    BY <1>1, <1>2, <2>1, <2>2 DEF Numbered
  <2>4. AnswersTrue'
    BY <1>1, <1>2, <1>3, <2>1 DEF AnswersTrue
  <2>5. TruthOnRecord'
    <3>1. \A s \in Scopes \ {a.scope} : s \in truth' <=> s \in truth
      BY <2>1 DEF Carried
    <3>2. a.scope \in truth' <=> a.op = "subscribe"
      BY <1>2, <2>1 DEF Carried, Ops
    <3>3. ASSUME NEW b \in Open \cap did' PROVE b.scope \in truth' <=> b.op = "subscribe"
      <4>1. CASE b = a
        BY <3>2, <4>1
      <4>2. CASE b # a
        <5>1. b \in Open \cap did /\ b.scope \in Scopes \ {a.scope}
          BY <1>2, <2>1, <4>2, OpenTypes DEF Current
        <5> QED
          BY <3>1, <5>1 DEF TruthOnRecord
      <4> QED
        BY <4>1, <4>2
    <3>4. ASSUME NEW s \in Scopes, \A b \in Open \cap did' : b.scope # s
          PROVE  s \in truth' <=> s \in confirmed
      <4>1. s # a.scope /\ \A b \in Open \cap did : b.scope # s
        BY <1>2, <2>1, <3>4
      <4> QED
        BY <3>1, <4>1 DEF TruthOnRecord
    <3> QED
      BY <1>1, <3>3, <3>4 DEF TruthOnRecord
  <2> QED
    BY <1>4, <2>3, <2>4, <2>5
<1>6. CASE Deny(a)
  <2>1. UNCHANGED <<truth, did>> /\ answers' = answers \cup {<<a, "rejected">>}
    BY <1>6 DEF Deny
  <2>2. Spoken' \subseteq Spoken \cup {a}
    BY <2>1 DEF Spoken
  <2>3. Numbered'
    BY <1>1, <1>2, <2>1, <2>2 DEF Numbered
  <2>4. AnswersTrue'
    BY <1>1, <1>2, <1>3, <2>1 DEF AnswersTrue
  <2>5. TruthOnRecord'
    BY <1>1, <2>1 DEF TruthOnRecord
  <2> QED
    BY <1>4, <2>3, <2>4, <2>5
<1> QED
  BY <1>5, <1>6

LEMMA EpochRecords == ASSUME TypeOK, AllRecords, BeginEpoch PROVE AllRecords'
<1>1. /\ sent' = {} /\ confirmed' = {} /\ planned' = {} /\ inflight' = {} /\ uncertain' = {}
      /\ truth' = {} /\ wire' = {} /\ did' = {} /\ UNCHANGED <<seq, answers>>
  BY DEF BeginEpoch
<1>2. Open' = {} /\ Spoken' = Spoken
  BY <1>1 DEF Open, Spoken
<1> QED
  BY <1>1, <1>2 DEF AllRecords, OneActionPerScope, OpenOnRecord, Numbered, AnswersTrue, TruthOnRecord

-----------------------------------------------------------------------------
(* Who dispatches. *)

\* The thread that submits goes on with an action that is open, if its connection is
\* still there.
LEMMA DispatchKept ==
  ASSUME OneDispatch, UNCHANGED <<cur, epoch>>,
         \A t \in Threads : /\ Busy(t)' => Busy(t)
                            /\ pc'[t] = "submit" => /\ pc[t] = "submit"
                                                    /\ cur \notin wire' \cup did' \cup Spoken'
                                                    /\ cur \in Open => cur \in Open'
  PROVE  OneDispatch'
BY DEF OneDispatch

LEMMA OneDispatchStep == ASSUME TypeOK, OneDispatch, AllRecords, [Next]_vars PROVE OneDispatch'
<1> USE DEF TypeOK, PumpOK
<1>1. ASSUME Feed, ~BeginEpoch PROVE OneDispatch'
  <2>1. /\ UNCHANGED <<Records, cur, epoch>>
        /\ pc' = pc \/ pc' = [pc EXCEPT !["feed"] = "idle"] \/ pc' = [pc EXCEPT !["feed"] = "pump"]
    BY <1>1, QuietFeed DEF AllRecords
  <2>2. Open' = Open /\ Spoken' = Spoken /\ UNCHANGED <<wire, did, cur, epoch>>
    BY <2>1 DEF Records, Open, Spoken
  <2>3. \A t \in Threads : (Busy(t)' => Busy(t)) /\ (pc'[t] = "submit" => pc[t] = "submit")
    BY <2>1 DEF Busy, Threads
  <2> QED
    BY <2>2, <2>3 DEF OneDispatch
<1>2. CASE BeginEpoch
  <2>1. /\ epoch' = epoch + 1 /\ cur' = cur /\ answers' = answers /\ wire' = {} /\ did' = {}
        /\ pc' = [pc EXCEPT !["feed"] = "idle"] \/ pc' = [pc EXCEPT !["feed"] = "pump"]
    BY <1>2 DEF BeginEpoch, Goto
  <2>2. \A t \in Threads : (Busy(t)' => Busy(t)) /\ (pc'[t] = "submit" => pc[t] = "submit")
    BY <2>1 DEF Busy, Threads
  <2>3. epoch \in Nat /\ (cur \in Action => cur.epoch \in Nat)
    BY DEF BookOK, Action
  <2>4. Spoken' = Spoken
    BY <2>1 DEF Spoken
  <2> QED
    BY <2>1, <2>2, <2>3, <2>4 DEF OneDispatch
<1>3. ASSUME NEW x \in answers, Deliver(x[1], x[2]) PROVE OneDispatch'
  <2>1. /\ answers' \subseteq answers /\ did' \subseteq did /\ UNCHANGED <<cur, epoch, wire>>
        /\ pc' = pc \/ pc' = [pc EXCEPT !["vendor"] = "pump"]
        /\ UNCHANGED book \/ Land(x[1], x[2])
    BY <1>3 DEF Deliver, Goto
  <2>2. Spoken' \subseteq Spoken /\ x[1] \in Spoken /\ Open \ {x[1]} \subseteq Open'
    BY <2>1 DEF Spoken, Open, book, Land
  <2>3. \A t \in Threads : (Busy(t)' => Busy(t)) /\ (pc'[t] = "submit" => pc[t] = "submit")
    BY <2>1 DEF Busy, Threads
  <2> QED
    BY <2>1, <2>2, <2>3 DEF OneDispatch
<1>4. ASSUME NEW a \in inflight, Expire(a) PROVE OneDispatch'
  <2>1. UNCHANGED <<pc, cur, epoch, wire, did, answers>> /\ Open' = Open
    BY <1>4 DEF Expire, pump, Open
  <2>2. \A t \in Threads : Busy(t)' <=> Busy(t)
    BY <2>1 DEF Busy
  <2>3. Spoken' = Spoken
    BY <2>1 DEF Spoken
  <2> QED
    BY <2>1, <2>2, <2>3 DEF OneDispatch
<1>5. ASSUME NEW a \in uncertain, Reconcile(a) PROVE OneDispatch'
  <2>1. /\ UNCHANGED <<cur, epoch, wire, answers, inflight>> /\ did' \subseteq did
        /\ uncertain' = uncertain \ {a} /\ a # cur
        /\ pc' = [pc EXCEPT !["feed"] = "pump"]
    BY <1>5 DEF Reconcile, Goto
  <2>2. Spoken' = Spoken /\ (cur \in Open => cur \in Open')
    BY <2>1 DEF Spoken, Open
  <2>3. \A t \in Threads : (Busy(t)' => Busy(t)) /\ (pc'[t] = "submit" => pc[t] = "submit")
    BY <2>1 DEF Busy, Threads
  <2> QED
    BY <2>1, <2>2, <2>3 DEF OneDispatch
<1>6. ASSUME NEW a \in wire, CarryOut(a) \/ Deny(a) PROVE OneDispatch'
  <2>1. /\ UNCHANGED <<pc, cur, epoch, inflight, uncertain>> /\ wire' \subseteq wire
        /\ did' \subseteq did \cup {a}
        /\ \E out : answers' \subseteq answers \cup {<<a, out>>}
    BY <1>6 DEF CarryOut, Deny, Answer, pump, book
  <2>2. Spoken' \subseteq Spoken \cup {a} /\ Open' = Open
    BY <2>1 DEF Spoken, Open
  <2>3. \A t \in Threads : Busy(t)' <=> Busy(t)
    BY <2>1 DEF Busy
  <2> QED
    BY <2>1, <2>2, <2>3 DEF OneDispatch
<1>7. ASSUME NEW t \in Threads, Enter(t) \/ Take(t) \/ Finish(t) PROVE OneDispatch'
  <2>1. /\ UNCHANGED <<cur, epoch, inflight, uncertain, wire, did, answers>>
        /\ \E where \in {"idle", "pump", "take", "batch", "finish"} : pc' = [pc EXCEPT ![t] = where]
        /\ Busy(t)' => Busy(t) \/ ~Dispatching
    BY <1>7 DEF Enter, Take, Finish, Goto, vendor, book, Busy
  <2>2. \A u \in Threads \ {t} : pc'[u] = pc[u]
    BY <2>1
  <2>3. \A u, v \in Threads : Busy(u)' /\ Busy(v)' => u = v
    BY <2>1, <2>2 DEF OneDispatch, Dispatching, Busy
  <2>4. \A u \in Threads : pc'[u] = "submit" => pc[u] = "submit"
    BY <2>1, <2>2
  <2>5. Open' = Open /\ Spoken' = Spoken
    BY <2>1 DEF Open, Spoken
  <2> QED
    BY <2>1, <2>3, <2>4, <2>5 DEF OneDispatch
<1>8. ASSUME NEW t \in Threads, NEW a \in todo, Claim(t, a) PROVE OneDispatch'
  <2>1. /\ Busy(t) /\ pc' = [pc EXCEPT ![t] = "submit"] /\ cur' = a /\ a \in planned
        /\ inflight' = inflight \cup {a} /\ UNCHANGED <<epoch, wire, did, answers>>
    BY <1>8 DEF Claim, Goto, Busy, vendor
  <2>2. \A u \in Threads \ {t} : ~Busy(u) /\ pc'[u] = pc[u]
    BY <2>1 DEF OneDispatch
  <2>3. a \in Action /\ a.epoch = epoch /\ epoch \in Nat
    BY <2>1 DEF BookOK, Current
  <2>4. a \notin wire \cup did \cup Spoken
    BY <2>1 DEF AllRecords, Numbered
  <2>5. Spoken' = Spoken /\ a \in Open'
    BY <2>1 DEF Spoken, Open
  <2> QED
    BY <2>1, <2>2, <2>3, <2>4, <2>5 DEF OneDispatch, Busy
<1>9. ASSUME NEW t \in Threads,
             \/ \E a \in todo : ClaimStale(t, a)
             \/ Submit(t) \/ SubmitRefused(t) \/ SubmitRaised(t)
             \/ \E out \in {"confirmed", "rejected"} : SubmitAnswered(t, out)
      PROVE  OneDispatch'
  <2>1. Busy(t) /\ \E where \in {"idle", "take", "batch"} : pc' = [pc EXCEPT ![t] = where]
    BY <1>9 DEF ClaimStale, Submit, SubmitRefused, SubmitRaised, SubmitAnswered, Submitted, Abort, Goto,
       Busy
  <2>2. \A u \in Threads \ {t} : ~Busy(u) /\ pc'[u] = pc[u]
    BY <2>1 DEF OneDispatch
  <2> QED
    BY <2>1, <2>2 DEF OneDispatch, Busy
<1>10. CASE UNCHANGED vars
  BY <1>10 DEF vars, pump, vendor, book, OneDispatch, Busy, Open, Spoken
<1> QED
  BY <1>1, <1>2, <1>3, <1>4, <1>5, <1>6, <1>7, <1>8, <1>9, <1>10 DEF Next, Feed, Outcome, Vendor, Pump

LEMMA RecordsStep == ASSUME TypeOK, OneDispatch, AllRecords, [Next]_vars PROVE AllRecords'
<1>0. confirmed \subseteq sent /\ \A a \in Open : a.scope \in sent
  BY OpenTypes DEF AllRecords, OneActionPerScope, OpenOnRecord
<1>1. ASSUME Feed, ~BeginEpoch PROVE AllRecords'
  <2>1. /\ UNCHANGED <<Records, seq>> /\ planned' \subseteq planned /\ failures' \subseteq failures
        /\ sent \cap (confirmed \cup {a.scope : a \in Open}) \subseteq sent'
    BY <1>1, QuietFeed DEF AllRecords
  <2>2. confirmed' \subseteq sent' /\ sent \cap {a.scope : a \in Open} \subseteq sent'
    BY <1>0, <2>1 DEF Records
  <2> QED
    BY <2>1, <2>2, RecordsKept DEF AllRecords
<1>2. ASSUME UNCHANGED <<Records, seq, sent, failures>>, planned' \subseteq planned PROVE AllRecords'
  <2>1. confirmed' \subseteq sent' /\ sent \cap {a.scope : a \in Open} \subseteq sent'
    BY <1>0, <1>2 DEF Records
  <2> QED
    BY <1>2, <2>1, RecordsKept DEF AllRecords
<1>3. ASSUME NEW t \in Threads, \/ Enter(t) \/ Finish(t) \/ \E a \in todo : ClaimStale(t, a)
      PROVE  UNCHANGED <<Records, seq, sent, failures>> /\ planned' \subseteq planned
  BY <1>3 DEF Enter, Finish, ClaimStale, Records, book, vendor
<1>4. ASSUME NEW a \in inflight, Expire(a) PROVE AllRecords'
  <2>1. /\ UNCHANGED <<sent, confirmed, planned, failures, seq, truth, did, answers, wire>>
        /\ inflight' = inflight \ {a} /\ uncertain' = uncertain \cup {a}
    BY <1>4 DEF Expire
  <2>2. Open' = Open /\ inflight' \cap uncertain' = {}
    BY <2>1 DEF Open, AllRecords, Numbered
  <2> QED
    BY <2>1, <2>2, DoubtRecords
<1>5. ASSUME NEW t \in Threads, Submit(t) PROVE AllRecords'
  <2>1. /\ UNCHANGED book /\ UNCHANGED <<seq, truth, did, answers>> /\ pc[t] = "submit"
        /\ wire' = wire \/ (wire' = wire \cup {cur} /\ cur.epoch = epoch)
    BY <1>5 DEF Submit, Reaches
  <2>2. Open' = Open /\ inflight' \cap uncertain' = {}
    BY <2>1 DEF Open, book, AllRecords, Numbered
  <2> QED
    BY <2>1, <2>2, DoubtRecords DEF book
<1>6. ASSUME NEW t \in Threads, NEW out \in {"confirmed", "rejected"}, SubmitAnswered(t, out)
      PROVE  AllRecords'
  <2>1. /\ pc[t] = "submit" /\ cur \in Open /\ Land(cur, out) /\ UNCHANGED <<wire, did, answers, seq>>
        /\ truth' = IF out = "confirmed" THEN Carried(cur) ELSE truth
    BY <1>6 DEF SubmitAnswered, CurrentAnswer, Open
  <2> QED
    BY <2>1, SubmitLands
<1>7. ASSUME NEW t \in Threads, SubmitRefused(t) PROVE AllRecords'
  <2>1. CASE cur \in inflight
    <3>1. /\ pc[t] = "submit" /\ cur \in Open /\ Land(cur, "rejected")
          /\ UNCHANGED <<wire, did, answers, seq, truth>>
      BY <1>7, <2>1 DEF SubmitRefused, Open
    <3> QED
      BY <3>1, SubmitLands
  <2>2. CASE cur \notin inflight
    <3>1. UNCHANGED <<Records, seq, sent, failures, planned>>
      BY <1>7, <2>2 DEF SubmitRefused, Records, book
    <3> QED
      BY <1>2, <3>1
  <2> QED
    BY <2>1, <2>2
<1>8. ASSUME NEW t \in Threads, SubmitRaised(t) PROVE AllRecords'
  <2>1. /\ UNCHANGED <<seq, truth, did, answers>> /\ pc[t] = "submit"
        /\ wire' = wire \/ (wire' = wire \cup {cur} /\ cur.epoch = epoch)
    BY <1>8 DEF SubmitRaised, Reaches
  <2>2. /\ UNCHANGED <<sent, confirmed, planned, failures>>
        /\ Open' = Open /\ inflight' \cap uncertain' = {}
    <3>1. CASE cur \in inflight
      BY <1>8, <3>1 DEF SubmitRaised, Open, AllRecords, Numbered
    <3>2. CASE cur \notin inflight
      BY <1>8, <3>2 DEF SubmitRaised, Open, book, AllRecords, Numbered
    <3> QED
      BY <3>1, <3>2
  <2> QED
    BY <2>1, <2>2, DoubtRecords
<1>9. CASE UNCHANGED vars
  <2>1. UNCHANGED <<Records, seq, sent, failures, planned>>
    BY <1>9 DEF vars, Records, book, vendor
  <2> QED
    BY <1>2, <2>1
<1> QED
  BY <1>1, <1>2, <1>3, <1>4, <1>5, <1>6, <1>7, <1>8, <1>9, DeliverRecords, ReconcileRecords, ClaimRecords,
     TakeRecords, VendorRecords, EpochRecords DEF Next, Feed, Outcome, Vendor, Pump

LEMMA InitInv == ASSUME Init PROVE IInv
<1> USE Bounds DEF Init
<1>1. LeaseOK
  BY DEF LeaseOK
<1>2. BookOK
  <2>1. 0 \in 0..MaxActions /\ 0 \in 0..MaxEpoch
    OBVIOUS
  <2>2. connected \in BOOLEAN
    BY DEF Init
  <2>3. planned \cup inflight \cup uncertain \cup sent \cup confirmed \cup failures = {}
    BY DEF Init
  <2>4. seq = 0 /\ epoch = 0
    BY DEF Init
  <2> QED
    BY ONLY <2>1, <2>2, <2>3, <2>4 DEF BookOK
<1>3. PumpOK
  BY DEF PumpOK
<1>4. VendorOK
  BY DEF VendorOK
<1>5. OneDispatch
  BY DEF OneDispatch, Busy
<1>6. OneActionPerScope /\ OpenOnRecord /\ Numbered /\ AnswersTrue /\ TruthOnRecord
  BY DEF OneActionPerScope, OpenOnRecord, Numbered, AnswersTrue, TruthOnRecord, Open, Spoken
<1> QED
  BY <1>1, <1>2, <1>3, <1>4, <1>5, <1>6 DEF IInv, TypeOK

LEMMA StepInv == ASSUME IInv, [Next]_vars PROVE IInv'
BY TypeStep, OneDispatchStep, RecordsStep DEF IInv, AllRecords

\* The inductive invariant: what the manager has on record of scopes and actions agrees
\* with what the vendor pushes, in every reachable state.
THEOREM Invariance == Spec => []IInv
BY InitInv, StepInv, PTL DEF Spec

\* Every variable of manager, coordinator and vendor stays in its type, through any answers
\* and epochs.
THEOREM TypeCorrect == Spec => []TypeOK
BY Invariance, PTL DEF IInv

\* The vendor is never asked to subscribe and unsubscribe a scope at once, nor twice
\* (take_actions plans no scope that is planned, in flight or in doubt).
THEOREM ActionsAreSingle == Spec => []OneActionPerScope
BY Invariance, PTL DEF IInv

-----------------------------------------------------------------------------
(* What the vendor pushes. *)

LEMMA NothingStray == ASSUME IInv PROVE NoStray
<1>1. \A s \in Scopes : s \in truth => s \in confirmed \/ \E a \in Open : a.scope = s
  BY DEF IInv, TruthOnRecord
<1>2. confirmed \subseteq sent /\ \A a \in Open : a.scope \in sent
  BY OpenTypes DEF IInv, OneActionPerScope, OpenOnRecord
<1> QED
  BY <1>1, <1>2 DEF IInv, TypeOK, VendorOK, NoStray

\* Nothing is pushed that no record would remove, though answers are lost, late or denied
\* (expire, reconcile).
THEOREM StrayFree == Spec => []NoStray
BY Invariance, NothingStray, PTL

\* A confirmed scope that no removal threatens is served.
LEMMA StableIsServed == ASSUME IInv, NEW s \in Stable(planned, NoAction) PROVE s \in truth
<1>1. s \in confirmed /\ s \in Scopes
  BY DEF Stable, IInv, TypeOK, BookOK
<1>2. ASSUME NEW a \in Open \cap did, a.scope = s PROVE a.op = "subscribe"
  <2>1. a \in Others(planned, NoAction) /\ a.op \in Ops
    <3>1. a \in Action /\ a.id \in 1..MaxActions
      BY OpenTypes DEF IInv, Current, Action
    <3>2. a # NoAction
      BY <3>1 DEF NoAction
    <3> QED
      BY <3>1, <3>2, OpenTypes DEF IInv, Others, Open
  <2> QED
    BY <1>2, <2>1 DEF Stable, Ops
<1> QED
  BY <1>1, <1>2 DEF IInv, TruthOnRecord

LEMMA CoveredByTruth == ASSUME IInv PROVE ConfirmedIsCovered
BY StableIsServed DEF ConfirmedIsCovered, LeaseConfirmed

\* A lease that is reported as confirmed is served by the vendor.
THEOREM ConfirmedAreServed == Spec => []ConfirmedIsCovered
BY Invariance, CoveredByTruth, PTL

-----------------------------------------------------------------------------
(* Coverage is kept. *)

\* A scope stops being confirmed, within an epoch, only when its removal is settled.
LEMMA ConfirmedLeaves ==
  ASSUME IInv, [Next]_vars, epoch' = epoch
  PROVE  \A s \in confirmed \ confirmed' : \E a \in Open : a.op # "subscribe" /\ a.scope = s
<1> DEFINE Left == \A s \in confirmed \ confirmed' : \E a \in Open : a.op # "subscribe" /\ a.scope = s
<1> USE DEF IInv
<1>1. ASSUME NEW a \in Open, NEW out, Land(a, out) PROVE Left
  <2>1. confirmed' = confirmed \/ confirmed' = confirmed \cup {a.scope}
        \/ (a.op # "subscribe" /\ confirmed' = confirmed \ {a.scope})
    BY <1>1 DEF Land
  <2> QED
    BY <2>1
<1>2. ASSUME UNCHANGED confirmed PROVE Left
  BY <1>2
<1>3. ASSUME NEW a \in uncertain, Reconcile(a) PROVE Left
  <2>1. a \in Open /\ (a.op = "subscribe" => a.scope \notin confirmed)
    BY DEF OpenOnRecord, Open
  <2>2. \/ confirmed' = confirmed \/ confirmed' = confirmed \cup {a.scope}
        \/ confirmed' = confirmed \ {a.scope}
    BY <1>3 DEF Reconcile
  <2> QED
    BY <2>1, <2>2
<1>4. CASE Feed
  <2>1. ~BeginEpoch
    BY DEF BeginEpoch, TypeOK, BookOK
  <2> QED
    BY <1>2, <1>4, <2>1, QuietFeed DEF Records
<1>5. CASE Outcome
  <2>1. ASSUME NEW x \in answers, Deliver(x[1], x[2]) PROVE Left
    BY <1>1, <1>2, <2>1 DEF Deliver, CurrentAnswer, Open, book
  <2>2. ASSUME NEW a \in inflight, Expire(a) PROVE Left
    BY <1>2, <2>2 DEF Expire
  <2> QED
    BY <1>3, <1>5, <2>1, <2>2 DEF Outcome
<1>6. CASE Vendor \/ UNCHANGED vars
  BY <1>2, <1>6 DEF Vendor, CarryOut, Deny, vars, book
<1>7. ASSUME NEW t \in Threads, Pump(t) PROVE Left
  <2>1. ASSUME \/ Enter(t) \/ Take(t) \/ Finish(t) \/ Submit(t) \/ SubmitRaised(t)
               \/ \E a \in todo : Claim(t, a) \/ ClaimStale(t, a)
        PROVE  UNCHANGED confirmed
    BY <2>1 DEF Enter, Take, Finish, Submit, SubmitRaised, Claim, ClaimStale, book
  <2>2. CASE SubmitRefused(t)
    BY <1>1, <1>2, <2>2 DEF SubmitRefused, Open, book
  <2>3. ASSUME NEW out \in {"confirmed", "rejected"}, SubmitAnswered(t, out) PROVE Left
    BY <1>1, <2>3 DEF SubmitAnswered, CurrentAnswer, Open
  <2> QED
    BY <1>2, <1>7, <2>1, <2>2, <2>3 DEF Pump
<1> QED
  BY <1>4, <1>5, <1>6, <1>7 DEF Next

\* Actions come into being only in take_actions.
LEMMA ActionsLeave ==
  ASSUME [Next]_vars, ~\E t \in Threads : Take(t)
  PROVE  planned' \cup Open' \subseteq planned \cup Open
<1> DEFINE Less == planned' \cup Open' \subseteq planned \cup Open
<1> USE DEF Open
<1>1. ASSUME NEW a, NEW out, Land(a, out) PROVE Less
  BY <1>1 DEF Land
<1>2. CASE Feed
  BY <1>2 DEF Feed, Ask, AddLease, RemoveLease, RetryFailed, CloseSession, BeginEpoch, Become, Advance,
     book
<1>3. CASE Outcome
  <2>1. ASSUME NEW x \in answers, Deliver(x[1], x[2]) PROVE Less
    BY <1>1, <2>1 DEF Deliver, book
  <2> QED
    BY <1>3, <2>1 DEF Outcome, Expire, Reconcile
<1>4. CASE Vendor \/ UNCHANGED vars
  BY <1>4 DEF Vendor, CarryOut, Deny, vars, book
<1>5. ASSUME NEW t \in Threads, Pump(t) PROVE Less
  <2>1. ASSUME Enter(t) \/ Finish(t) \/ Submit(t) PROVE Less
    BY <2>1 DEF Enter, Finish, Submit, book
  <2>2. ASSUME NEW a \in todo, Claim(t, a) \/ ClaimStale(t, a) PROVE Less
    BY <2>2 DEF Claim, ClaimStale
  <2>3. ASSUME SubmitRefused(t) \/ SubmitRaised(t) PROVE Less
    BY <1>1, <2>3 DEF SubmitRefused, SubmitRaised, book
  <2>4. ASSUME NEW out \in {"confirmed", "rejected"}, SubmitAnswered(t, out) PROVE Less
    BY <1>1, <2>4 DEF SubmitAnswered
  <2> QED
    BY <1>5, <2>1, <2>2, <2>3, <2>4 DEF Pump
<1> QED
  BY <1>2, <1>3, <1>4, <1>5 DEF Next

LEMMA StableStays ==
  ASSUME IInv, [Next]_vars, epoch' = epoch, ~\E t \in Threads : Take(t)
  PROVE  Stable(planned, NoAction) \subseteq Stable(planned, NoAction)'
<1>1. ASSUME NEW s \in Stable(planned, NoAction) PROVE s \in Stable(planned, NoAction)'
  <2>1. s \in confirmed /\ \A a \in Others(planned, NoAction) : a.op = "unsubscribe" => a.scope # s
    BY DEF Stable
  <2>2. Others(planned, NoAction)' \subseteq Others(planned, NoAction)
    BY ActionsLeave DEF Others, Open
  <2>3. s \in confirmed'
    <3>1. \A a \in Open : a.op # "subscribe" => a.scope # s
      <4>1. ASSUME NEW a \in Open PROVE a.op \in Ops /\ a \in Others(planned, NoAction)
        <5>1. a \in Action /\ a.id \in 1..MaxActions
          BY OpenTypes DEF IInv, Current, Action
        <5>2. a # NoAction
          BY <5>1 DEF NoAction
        <5> QED
          BY <5>1, <5>2, OpenTypes DEF IInv, Others, Open
      <4> QED
        BY <2>1, <4>1 DEF Ops
    <3> QED
      BY <2>1, <3>1, ConfirmedLeaves
  <2> QED
    BY <2>1, <2>2, <2>3 DEF Stable
<1> QED
  BY <1>1

\* What take_actions removes is replaced by what it does not remove.
LEMMA Replaced ==
  ASSUME IInv, NEW old, NEW o \in Desired, NEW c \in Stable(old, NoAction), Covers(c, o)
  PROVE  \E d \in Stable(old, NoAction) : Covers(d, o) /\ <<"unsubscribe", d>> \notin Missing(old)
<1> DEFINE Removed(s) == <<"unsubscribe", s>> \in Missing(old)
<1>1. ASSUME NEW s, Removed(s)
      PROVE  s \in confirmed /\ s \notin Effective(old) /\ CanRemove(old, s, NoAction)
  BY <1>1 DEF Missing
<1> HIDE DEF Removed
<1>2. \A s, f \in Full : GroupOf[s] = GroupOf[f] => s = f
  BY Bounds
<1>3. ASSUME NEW f \in Full, f \in Desired, f \in confirmed PROVE f \in Effective(old)
  <2>1. \A s \in RejectedFull(old) : s \in Full /\ s \notin confirmed
    BY DEF RejectedFull
  <2>2. GroupOf[f] \notin {GroupOf[s] : s \in RejectedFull(old)}
    BY <1>2, <1>3, <2>1
  <2> QED
    BY <1>3, <2>2 DEF Effective
<1>4. ASSUME NEW s \in Desired, s \notin Full, s \notin Effective(old)
      PROVE  \E f \in Full : GroupOf[f] = GroupOf[s] /\ f \in Desired /\ f \in Effective(old)
  <2>1. /\ GroupOf[s] \notin {GroupOf[r] : r \in RejectedFull(old)}
        /\ \E f \in Full \cap Desired : GroupOf[f] = GroupOf[s]
    BY <1>4 DEF Effective
  <2> QED
    BY <2>1 DEF Effective
<1>5. CASE ~Removed(c)
  BY <1>5 DEF Removed
<1>6. CASE Removed(c) /\ c \in Full
  <2>1. o \notin Full
    BY <1>1, <1>2, <1>3, <1>6 DEF Covers
  <2>2. PICK d \in Stable(old, NoAction) \ {c} : Covers(d, o)
    BY <1>1, <1>6, <2>1 DEF CanRemove, Covers, Overlaps
  <2>3. d = o
    BY <1>2, <1>6, <2>2 DEF Covers
  <2>4. ~Removed(o)
    <3>1. SUFFICES ASSUME Removed(o) PROVE FALSE
      OBVIOUS
    <3>2. PICK f \in Full : GroupOf[f] = GroupOf[o] /\ f \in Desired /\ f \in Effective(old)
      BY <1>1, <1>4, <2>1, <3>1
    <3>3. f = c
      BY <1>2, <1>6, <3>2 DEF Covers
    <3> QED
      BY <1>1, <1>6, <3>2, <3>3
  <2> QED
    BY <2>2, <2>3, <2>4 DEF Removed
<1>7. CASE Removed(c) /\ c \notin Full
  <2>1. c = o
    BY <1>7 DEF Covers
  <2>2. PICK f \in Full : GroupOf[f] = GroupOf[c] /\ f \in Desired /\ f \in Effective(old)
    BY <1>1, <1>4, <1>7, <2>1
  <2>3. PICK d \in Stable(old, NoAction) \ {c} : Covers(d, o)
    BY <1>1, <1>7, <2>1 DEF CanRemove, Covers, Overlaps
  <2>4. d = f
    BY <1>2, <2>1, <2>2, <2>3 DEF Covers
  <2>5. ~Removed(d)
    BY <1>1, <2>2, <2>4
  <2> QED
    BY <2>3, <2>5 DEF Removed
<1> QED
  BY <1>5, <1>6, <1>7

LEMMA TakeKeepsCoverage ==
  ASSUME IInv, NEW t \in Threads, Take(t), NEW o \in Desired,
         \E c \in Stable(planned, NoAction) : Covers(c, o)
  PROVE  \E c \in Stable(planned, NoAction)' : Covers(c, o)
<1> DEFINE old == {a \in planned : Needed(a)}
           new == Missing(old)
<1>1. Stable(planned, NoAction) \subseteq Stable(old, NoAction)
  BY DEF Stable, Others
<1>2. PICK d \in Stable(old, NoAction) : Covers(d, o) /\ <<"unsubscribe", d>> \notin new
  BY <1>1, Replaced
<1>3. /\ planned' = old \cup {NewAction(x) : x \in new}
      /\ UNCHANGED <<confirmed, inflight, uncertain>>
  BY TakePlans DEF Take, IInv, TypeOK
<1>4. \A x \in new : x = <<x[1], x[2]>> /\ NewAction(x).op = x[1] /\ NewAction(x).scope = x[2]
  BY MissingPairs DEF NewAction, IInv, TypeOK
<1>5. d \in confirmed /\ \A a \in Others(old, NoAction) : a.op = "unsubscribe" => a.scope # d
  BY DEF Stable
<1> HIDE DEF new
<1>6. ASSUME NEW a \in Others(planned, NoAction)', a.op = "unsubscribe" PROVE a.scope # d
  <2>1. CASE a \in Others(old, NoAction)
    BY <1>5, <1>6, <2>1
  <2>2. CASE a \notin Others(old, NoAction)
    <3>1. PICK x \in new : a = NewAction(x)
      BY <1>3, <2>2 DEF Others, NoAction
    <3> QED
      BY <1>2, <1>4, <1>6, <3>1
  <2> QED
    BY <2>1, <2>2
<1>7. d \in Stable(planned, NoAction)'
  BY <1>3, <1>5, <1>6 DEF Stable
<1> QED
  BY <1>2, <1>7

LEMMA StepKeepsCoverage ==
  ASSUME IInv, [Next]_vars, NEW l \in Leases, LeaseConfirmed(l), active'[l] = active[l], epoch' = epoch
  PROVE  LeaseConfirmed(l)'
<1>1. ASSUME NEW o \in active[l] PROVE \E c \in Stable(planned, NoAction)' : Covers(c, o)
  <2>1. \E c \in Stable(planned, NoAction) : Covers(c, o)
    BY DEF LeaseConfirmed
  <2>2. o \in Desired
    BY DEF Desired
  <2>3. CASE \E t \in Threads : Take(t)
    BY <2>1, <2>2, <2>3, TakeKeepsCoverage
  <2>4. CASE ~\E t \in Threads : Take(t)
    BY <2>1, <2>4, StableStays
  <2> QED
    BY <2>3, <2>4
<1>2. active'[l] # {}
  BY DEF LeaseConfirmed
<1> QED
  BY <1>1, <1>2 DEF LeaseConfirmed, Covers

\* A confirmed lease stays confirmed while others come and go and markets are merged
\* and split up (_can_remove_scope).
THEOREM CoverageKept == Spec => CoverageIsKept
<1>1. ASSUME IInv, [Next]_vars
      PROVE  [\A l \in Leases : LeaseConfirmed(l) /\ active'[l] = active[l] /\ epoch' = epoch
                                => LeaseConfirmed(l)']_vars
  BY <1>1, StepKeepsCoverage
<1> QED
  BY <1>1, Invariance, PTL DEF Spec, CoverageIsKept

-----------------------------------------------------------------------------
(* Nothing is left to plan when nobody pumps. *)

\* What is missing depends on the leases, the records and the failures, and on the
\* actions in flight or in doubt together: a deadline that passes changes nothing.
LEMMA MissingStays ==
  ASSUME UNCHANGED <<active, sent, confirmed, planned, failures>>, Open' = Open
  PROVE  (Missing(planned) = {}) <=> (Missing(planned)' = {})
<1>1. \A a : Others(planned, a)' = Others(planned, a) BY DEF Others, Open
<1>2. \A op, s, a : HasActive(planned, op, s, a)' <=> HasActive(planned, op, s, a)
  BY <1>1 DEF HasActive
<1>3. Desired' = Desired BY DEF Desired
<1>4. Effective(planned)' = Effective(planned)
  BY <1>2, <1>3 DEF Effective, RejectedFull
<1>5. \A s, a : CanRemove(planned, s, a)' <=> CanRemove(planned, s, a)
  BY <1>1, <1>3 DEF CanRemove, Stable
<1> QED BY <1>2, <1>4, <1>5 DEF Missing

\* A step outside the loop of pump takes no thread out of it.
LEMMA LoopIsKept ==
  ASSUME TypeOK, again => Dispatching, again' = again,
         \/ pc' = pc
         \/ \E t \in Threads, where \in {"idle", "pump"} :
              pc[t] = "idle" /\ pc' = [pc EXCEPT ![t] = where]
  PROVE  (again' => Dispatching') /\ (Attended => Attended')
<1>1. \A t \in Threads : pc[t] # "idle" => pc'[t] = pc[t]
  BY DEF TypeOK, PumpOK
<1>2. (\E t \in Threads : pc[t] \in {"take", "batch", "submit", "finish"}) =>
         \E t \in Threads : pc'[t] \in {"take", "batch", "submit", "finish"}
  BY <1>1
<1>3. (\E t \in Threads : pc[t] \in {"pump", "take", "batch", "submit"}) =>
         \E t \in Threads : pc'[t] \in {"pump", "take", "batch", "submit"}
  BY <1>1
<1> QED
  BY <1>2, <1>3 DEF Dispatching, Attended

\* A call of the feed that changes what is wanted pumps, or gives the dispatch up.
LEMMA FeedAttends ==
  ASSUME TypeOK, WorkIsAttended, Feed
  PROVE  WorkIsAttended'
<1> USE DEF TypeOK, PumpOK
<1>1. ASSUME pc["feed"] = "idle", pc' = [pc EXCEPT !["feed"] = "pump"], again' = again
      PROVE  WorkIsAttended'
  <2>1. "feed" \in Threads /\ pc'["feed"] = "pump"
    BY <1>1 DEF Threads
  <2>2. Attended'
    BY <2>1 DEF Attended
  <2>3. again' => Dispatching'
    BY <1>1, LoopIsKept DEF WorkIsAttended, Threads
  <2> QED
    BY <2>2, <2>3 DEF WorkIsAttended
<1>2. ASSUME pc["feed"] = "idle", pc' = [pc EXCEPT !["feed"] = "idle"], again' = again,
             ~connected' \/ skipped'
      PROVE  WorkIsAttended'
  <2>1. again' => Dispatching'
    BY <1>2, LoopIsKept DEF WorkIsAttended, Threads
  <2> QED
    BY <1>2, <2>1 DEF WorkIsAttended
<1>3. ASSUME NEW l \in Leases, Ask(l) PROVE WorkIsAttended'
  <2>1. UNCHANGED <<active, book, connected, pc, again, skipped>>
    BY <1>3 DEF Ask, pump
  <2>2. Open' = Open
    BY <2>1 DEF book, Open
  <2>3. planned = {} /\ Missing(planned) = {} => planned' = {} /\ Missing(planned)' = {}
    BY <2>1, <2>2, MissingStays DEF book
  <2> QED
    BY <2>1, <2>3 DEF WorkIsAttended, Attended, Dispatching
<1>4. ASSUME NEW l \in Leases, AddLease(l) \/ RemoveLease(l) PROVE WorkIsAttended'
  <2>1. /\ pc["feed"] = "idle" /\ again' = again /\ connected' = connected
        /\ pc' = [pc EXCEPT !["feed"] = IF connected /\ asked[l] = epoch THEN "pump" ELSE "idle"]
        /\ skipped' = (skipped \/ (connected /\ asked[l] # epoch))
    BY <1>4 DEF AddLease, RemoveLease, Answered, ThenPump, Goto
  <2> QED
    BY <1>1, <1>2, <2>1
<1>5. CASE CloseSession
  <2>1. /\ pc["feed"] = "idle" /\ again' = again /\ connected' = connected
        /\ pc' = [pc EXCEPT !["feed"] = IF connected THEN "pump" ELSE "idle"]
    BY <1>5 DEF CloseSession, ThenPump, Goto
  <2> QED
    BY <1>1, <1>2, <2>1
<1>6. CASE BeginEpoch
  <2>1. /\ pc["feed"] = "idle" /\ again' = again /\ connected' = ~connected
        /\ pc' = [pc EXCEPT !["feed"] = IF connected THEN "idle" ELSE "pump"]
    BY <1>6 DEF BeginEpoch, Goto
  <2> QED
    BY <1>1, <1>2, <2>1
<1>7. ASSUME NEW l \in Leases, RetryFailed(l) PROVE WorkIsAttended'
  BY <1>1, <1>7 DEF RetryFailed, Goto
<1> QED
  BY <1>3, <1>4, <1>5, <1>6, <1>7 DEF Feed

\* What becomes of an action is followed by a pump; a deadline that passes, and the
\* vendor's own steps, leave nothing more to plan.
LEMMA OutcomeAttends ==
  ASSUME TypeOK, WorkIsAttended, Outcome \/ Vendor
  PROVE  WorkIsAttended'
<1> USE DEF TypeOK, PumpOK
<1>1. ASSUME NEW t \in Threads, pc[t] = "idle", pc' = [pc EXCEPT ![t] = "pump"], again' = again
      PROVE  WorkIsAttended'
  <2>1. pc'[t] = "pump"
    BY <1>1
  <2>2. Attended'
    BY <2>1 DEF Attended
  <2>3. again' => Dispatching'
    BY <1>1, LoopIsKept DEF WorkIsAttended
  <2> QED
    BY <2>2, <2>3 DEF WorkIsAttended
<1>2. ASSUME UNCHANGED <<active, sent, confirmed, planned, failures, connected, pc, again, skipped>>,
             Open' = Open
      PROVE  WorkIsAttended'
  <2>1. planned = {} /\ Missing(planned) = {} => planned' = {} /\ Missing(planned)' = {}
    BY <1>2, MissingStays
  <2> QED
    BY <1>2, <2>1 DEF WorkIsAttended, Attended, Dispatching
<1>3. ASSUME NEW x \in answers, Deliver(x[1], x[2]) PROVE WorkIsAttended'
  <2>1. /\ pc["vendor"] = "idle" /\ UNCHANGED <<active, connected, again, skipped>>
        /\ \/ pc' = [pc EXCEPT !["vendor"] = "pump"]
           \/ UNCHANGED <<book, pc>>
    BY <1>3 DEF Deliver, Goto, lease
  <2>2. UNCHANGED book => Open' = Open
    BY DEF book, Open
  <2> QED
    BY <1>1, <1>2, <2>1, <2>2 DEF book, Threads
<1>4. ASSUME NEW a \in inflight, Expire(a) PROVE WorkIsAttended'
  <2>1. UNCHANGED <<active, sent, confirmed, planned, failures, connected, pc, again, skipped>>
        /\ Open' = Open
    BY <1>4 DEF Expire, lease, pump, Open
  <2> QED
    BY <1>2, <2>1
<1>5. ASSUME NEW a \in uncertain, Reconcile(a) PROVE WorkIsAttended'
  BY <1>1, <1>5 DEF Reconcile, Goto, Threads
<1>6. ASSUME NEW a \in wire, CarryOut(a) \/ Deny(a) PROVE WorkIsAttended'
  <2>1. UNCHANGED <<active, book, connected, pc, again, skipped>>
    BY <1>6 DEF CarryOut, Deny, lease, pump
  <2> QED
    BY <1>2, <2>1 DEF book, Open
<1> QED
  BY <1>3, <1>4, <1>5, <1>6 DEF Outcome, Vendor

\* The loop of pump ends when take_actions finds nothing, and only then without a
\* request, unless an exception leaves it.
LEMMA PumpAttends ==
  ASSUME TypeOK, WorkIsAttended, NEW t \in Threads, Pump(t)
  PROVE  WorkIsAttended'
<1> USE DEF TypeOK, PumpOK
<1>1. ASSUME NEW where \in {"take", "batch", "submit"}, pc' = [pc EXCEPT ![t] = where]
      PROVE  WorkIsAttended'
  <2>1. pc'[t] \in {"take", "batch", "submit"}
    BY <1>1
  <2> QED
    BY <2>1 DEF WorkIsAttended, Attended, Dispatching
<1>2. ASSUME Abort(t) PROVE WorkIsAttended'
  BY <1>2 DEF Abort, WorkIsAttended
<1>3. CASE Enter(t)
  <2>1. /\ pc[t] = "pump" /\ again' = Dispatching
        /\ pc' = [pc EXCEPT ![t] = IF Dispatching THEN "idle" ELSE "take"]
    BY <1>3 DEF Enter, Goto
  <2>2. CASE Dispatching
    <3>1. PICK u \in Threads : pc[u] \in {"take", "batch", "submit", "finish"}
      BY <2>2 DEF Dispatching
    <3>2. pc'[u] = pc[u]
      BY <2>1, <3>1
    <3>3. again' /\ Dispatching'
      BY <2>1, <2>2, <3>1, <3>2 DEF Dispatching
    <3> QED
      BY <3>3 DEF WorkIsAttended, Attended
  <2> QED
    BY <1>1, <2>1, <2>2
<1>4. CASE Take(t)
  <2>1. /\ pc[t] = "take" /\ again' = again
        /\ pc' = [pc EXCEPT ![t] = IF planned' = {} THEN "finish" ELSE "batch"]
        /\ UNCHANGED <<active, sent, confirmed, failures, inflight, uncertain>>
    BY <1>4 DEF Take, Goto, lease
  <2>2. again' => Dispatching'
    <3>1. pc'[t] \in {"finish", "batch"}
      BY <2>1
    <3> QED
      BY <3>1 DEF Dispatching
  <2>3. CASE planned' = {}
    <3>1. {a \in planned : Needed(a)} = {} /\ Missing({}) = {}
      <4> DEFINE old  == {a \in planned : Needed(a)}
                 new  == Missing(old)
                 f(x) == [id |-> Numbering(new)[x], epoch |-> epoch, op |-> x[1], scope |-> x[2],
                          why |-> Why(x[1], x[2])]
      <4>1. planned' = old \cup {f(x) : x \in new}
        BY <1>4 DEF Take
      <4> HIDE DEF f
      <4>2. old = {} /\ new = {}
        BY <2>3, <4>1
      <4> QED
        BY <4>2
    <3>2. Missing(planned)' = {}
      <4>1. \A a : Others(planned, a)' = Others({}, a)
        BY <2>1, <2>3 DEF Others
      <4>2. \A op, s, a : HasActive(planned, op, s, a)' <=> HasActive({}, op, s, a)
        BY <4>1 DEF HasActive
      <4>3. Desired' = Desired
        BY <2>1 DEF Desired
      <4>4. Effective(planned)' = Effective({})
        BY <2>1, <4>2, <4>3 DEF Effective, RejectedFull
      <4>5. \A s, a : CanRemove(planned, s, a)' <=> CanRemove({}, s, a)
        BY <2>1, <4>1, <4>3 DEF CanRemove, Stable
      <4> QED
        BY <2>1, <3>1, <4>2, <4>4, <4>5 DEF Missing
    <3> QED
      BY <2>2, <2>3, <3>2 DEF WorkIsAttended
  <2> QED
    BY <1>1, <2>1, <2>3
<1>5. CASE Finish(t)
  <2>1. /\ pc[t] = "finish" /\ again' = FALSE
        /\ pc' = [pc EXCEPT ![t] = IF again THEN "pump" ELSE "idle"]
        /\ UNCHANGED <<active, book, connected, skipped>>
    BY <1>5 DEF Finish, Goto, lease
  <2>2. CASE again
    <3>1. pc'[t] = "pump"
      BY <2>1, <2>2
    <3> QED
      BY <2>1, <3>1 DEF WorkIsAttended, Attended
  <2>3. CASE ~again
    <3>1. Attended => Attended'
      BY <2>1, <2>3 DEF Attended
    <3>2. planned = {} /\ Missing(planned) = {} => planned' = {} /\ Missing(planned)' = {}
      BY <2>1, MissingStays DEF book, Open
    <3> QED
      BY <2>1, <3>1, <3>2 DEF WorkIsAttended
  <2> QED
    BY <2>2, <2>3
<1>6. ASSUME NEW a \in todo, Claim(t, a) \/ ClaimStale(t, a) PROVE WorkIsAttended'
  BY <1>1, <1>2, <1>6 DEF Claim, ClaimStale, Goto
<1>7. ASSUME \/ Submit(t) \/ SubmitRefused(t) \/ SubmitRaised(t)
             \/ \E out \in {"confirmed", "rejected"} : SubmitAnswered(t, out)
      PROVE  WorkIsAttended'
  <2>1. Submitted(t) \/ Abort(t)
    BY <1>7 DEF Submit, SubmitRefused, SubmitRaised, SubmitAnswered
  <2> QED
    BY <1>1, <1>2, <2>1 DEF Submitted, Goto
<1> QED
  BY <1>3, <1>4, <1>5, <1>6, <1>7 DEF Pump

\* A thread that leaves pump leaves nothing to plan to itself: whatever another thread
\* changed meanwhile brings that thread to pump, or is asked of the one that dispatches.
THEOREM WorkAttended == Spec => []WorkIsAttended
<1>1. Init => WorkIsAttended
  BY DEF Init, WorkIsAttended
<1>2. TypeOK /\ WorkIsAttended /\ [Next]_vars => WorkIsAttended'
  <2> SUFFICES ASSUME TypeOK, WorkIsAttended, [Next]_vars PROVE WorkIsAttended'
    OBVIOUS
  <2>1. CASE UNCHANGED vars
    <3>1. UNCHANGED <<active, sent, confirmed, planned, failures, connected, pc, again, skipped>>
          /\ Open' = Open
      BY <2>1 DEF vars, lease, book, pump, Open
    <3>2. planned = {} /\ Missing(planned) = {} => planned' = {} /\ Missing(planned)' = {}
      BY <3>1, MissingStays
    <3> QED
      BY <3>1, <3>2 DEF WorkIsAttended, Attended, Dispatching
  <2> QED
    BY <2>1, FeedAttends, OutcomeAttends, PumpAttends DEF Next
<1> QED
  BY <1>1, <1>2, TypeCorrect, PTL DEF Spec

\* When no thread pumps, nothing is left to plan, unless an exception or a call that found
\* another epoch gave it up: the end of pump, and the request of a nested one, lose nothing.
THEOREM AllIsDispatched == Spec => []DispatchedUnlessSkipped
<1>1. WorkIsAttended => DispatchedUnlessSkipped
  BY DEF WorkIsAttended, DispatchedUnlessSkipped, AllDispatched, Idle, Attended, Dispatching
<1> QED
  BY <1>1, WorkAttended, PTL
=============================================================================
