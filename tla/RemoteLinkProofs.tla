-------------------------- MODULE RemoteLinkProofs --------------------------
(***************************************************************************)
(* For any number of calls, transports and drops: a trading write is       *)
(* attempted at most once and a snapshot installation at most twice; a     *)
(* session that is gone leaves nothing behind on the server; whoever       *)
(* awaits an answer has a reader; and what the client's table promises is  *)
(* served once a connection is set up, if calls of different keys name     *)
(* different symbols and a session has room for them all.                  *)
(***************************************************************************)
EXTENDS RemoteLink, FiniteSetTheorems, TLAPS

CallStates == {"idle", "waiting", "sent", "cancelling", "done"}
Tellings == {"none", "answer", "refused", "unknown", "timeout", "error"}

CallsOK ==
  /\ caller \in [Calls -> CallStates]
  /\ told \in [Calls -> Tellings]
  /\ tries \in [Calls -> Nat]

\* A call that may still make an attempt has one left.
Spared(kind, state, n, answer) ==
  /\ kind = "write" => /\ n <= 1 /\ (state \in {"idle", "waiting"} => n = 0)
                       /\ answer \notin {"timeout", "error"}
  /\ kind = "install" => n <= 2 /\ (state \in {"idle", "waiting"} => n <= 1)

AllSpared == \A c \in Calls : Spared(Kind[c], caller[c], tries[c], told[c])

LInv == CallsOK /\ AllSpared

\* Steps that leave the calls alone.
LEMMA CallsKept ==
  ASSUME LInv, UNCHANGED <<caller, told, tries>>
  PROVE  LInv'
BY DEF LInv, CallsOK, AllSpared

\* Steps that touch one call: it is enough to look at that one.
OthersKeep(c) ==
  \A d \in Calls \ {c} : caller'[d] = caller[d] /\ told'[d] = told[d] /\ tries'[d] = tries[d]

LEMMA OneCall ==
  ASSUME LInv, CallsOK', NEW c \in Calls, OthersKeep(c),
         Spared(Kind[c], caller'[c], tries'[c], told'[c])
  PROVE  LInv'
<1>1. ASSUME NEW d \in Calls
      PROVE  Spared(Kind[d], caller'[d], tries'[d], told'[d])
  <2>1. CASE d = c
    BY <2>1
  <2>2. CASE d # c
    <3>1. caller'[d] = caller[d] /\ told'[d] = told[d] /\ tries'[d] = tries[d]
      BY <2>2 DEF OthersKeep
    <3> QED BY <3>1 DEF LInv, AllSpared
  <2> QED BY <2>1, <2>2
<1> QED BY <1>1 DEF LInv, AllSpared

\* What holds of a call before a step.
LEMMA CallFacts ==
  ASSUME LInv, NEW c \in Calls
  PROVE  /\ caller[c] \in CallStates /\ told[c] \in Tellings /\ tries[c] \in Nat
         /\ Spared(Kind[c], caller[c], tries[c], told[c])
BY DEF LInv, CallsOK, AllSpared

LEMMA BeginStep == ASSUME LInv, NEW c \in Calls, Begin(c) PROVE LInv'
<1>1. caller' = [caller EXCEPT ![c] = "waiting"] /\ told' = told /\ tries' = tries
  BY DEF Begin
<1>2. CallsOK' /\ OthersKeep(c) /\ caller'[c] = "waiting"
  BY <1>1 DEF LInv, CallsOK, OthersKeep, CallStates
<1>3. Spared(Kind[c], caller'[c], tries'[c], told'[c])
  BY <1>1, <1>2, CallFacts DEF Begin, MayBegin, Spared
<1> QED BY <1>2, <1>3, OneCall

\* Only writes and installations are counted.
LEMMA ManagingIsSpared ==
  ASSUME NEW c \in Calls, Managing(c), NEW s, NEW n, NEW a
  PROVE  Spared(Kind[c], s, n, a)
BY DEF Managing, Spared

LEMMA BeginSubscribeStep == ASSUME LInv, NEW c \in Calls, BeginSubscribe(c) PROVE LInv'
<1> DEFINE new == Want[c] \ table[Key[c]]
<1>1. /\ caller' = [caller EXCEPT ![c] = IF new = {} THEN "done" ELSE "waiting"]
      /\ told' = [told EXCEPT ![c] = IF new = {} THEN "answer" ELSE told[c]]
      /\ tries' = tries /\ Managing(c)
  BY CallFacts DEF BeginSubscribe, Managing
<1> HIDE DEF new
<1>2. CallsOK' /\ OthersKeep(c)
  BY <1>1 DEF LInv, CallsOK, OthersKeep, CallStates, Tellings
<1>3. Spared(Kind[c], caller'[c], tries'[c], told'[c])
  BY <1>1, ManagingIsSpared
<1> QED BY <1>2, <1>3, OneCall

LEMMA BeginUnsubscribeStep == ASSUME LInv, NEW c \in Calls, BeginUnsubscribe(c) PROVE LInv'
<1>1. /\ tries' = tries /\ Managing(c)
      /\ \/ caller' = [caller EXCEPT ![c] = "done"] /\ told' = [told EXCEPT ![c] = "answer"]
         \/ caller' = [caller EXCEPT ![c] = "waiting"] /\ told' = told
  BY DEF BeginUnsubscribe, Managing
<1>2. CallsOK' /\ OthersKeep(c)
  BY <1>1 DEF LInv, CallsOK, OthersKeep, CallStates, Tellings
<1>3. Spared(Kind[c], caller'[c], tries'[c], told'[c])
  BY <1>1, ManagingIsSpared
<1> QED BY <1>2, <1>3, OneCall

LEMMA TimeoutStep == ASSUME LInv, NEW c \in Calls, CallerTimeout(c) PROVE LInv'
<1> DEFINE s == IF caller[c] = "sent" THEN "cancelling" ELSE "done"
           a == IF Kind[c] = "write" THEN "unknown" ELSE "timeout"
<1>1. caller' = [caller EXCEPT ![c] = s] /\ told' = [told EXCEPT ![c] = a] /\ tries' = tries
  BY CallFacts DEF CallerTimeout
<1>2. s \in {"cancelling", "done"} /\ a \in {"unknown", "timeout"}
      /\ (Kind[c] = "write" => a = "unknown")
  OBVIOUS
<1> HIDE DEF s, a
<1>3. CallsOK' /\ OthersKeep(c) /\ caller'[c] = s /\ told'[c] = a
  BY <1>1, <1>2 DEF LInv, CallsOK, OthersKeep, CallStates, Tellings
<1>4. Spared(Kind[c], caller'[c], tries'[c], told'[c])
  BY <1>1, <1>2, <1>3, CallFacts DEF Spared
<1> QED BY <1>3, <1>4, OneCall

LEMMA CancelRunStep == ASSUME LInv, NEW c \in Calls, CancelRun(c) PROVE LInv'
<1>1. caller' = [caller EXCEPT ![c] = "done"] /\ told' = told /\ tries' = tries
  BY DEF CancelRun
<1>2. CallsOK' /\ OthersKeep(c) /\ caller'[c] = "done"
  BY <1>1 DEF LInv, CallsOK, OthersKeep, CallStates
<1>3. Spared(Kind[c], caller'[c], tries'[c], told'[c])
  BY <1>1, <1>2, CallFacts DEF Spared
<1> QED BY <1>2, <1>3, OneCall

-----------------------------------------------------------------------------
(* Attempts. *)

Counted(c) == IF Kind[c] \in {"write", "install"} THEN tries[c] + 1 ELSE tries[c]

LEMMA AttemptCounts ==
  ASSUME LInv, NEW c \in Calls, tries' = Attempted(c)
  PROVE  /\ tries' \in [Calls -> Nat] /\ tries'[c] = Counted(c)
         /\ \A d \in Calls \ {c} : tries'[d] = tries[d]
<1>1. tries \in [Calls -> Nat]
  BY DEF LInv, CallsOK
<1>2. tries' = [tries EXCEPT ![c] = Counted(c)] /\ Counted(c) \in Nat
  BY <1>1 DEF Attempted, Counted
<1> HIDE DEF Counted
<1> QED BY <1>1, <1>2

LEMMA SendStep == ASSUME LInv, NEW c \in Calls, Send(c) PROVE LInv'
<1>1. /\ caller' = [caller EXCEPT ![c] = "sent"] /\ told' = told /\ tries' = Attempted(c)
      /\ caller[c] = "waiting"
  BY DEF Send
<1>2. CallsOK' /\ OthersKeep(c) /\ caller'[c] = "sent"
  BY <1>1, AttemptCounts DEF LInv, CallsOK, OthersKeep, CallStates
<1>3. Spared(Kind[c], caller'[c], tries'[c], told'[c])
  BY <1>1, <1>2, AttemptCounts, CallFacts DEF Spared, Counted
<1> QED BY <1>2, <1>3, OneCall

LEMMA SendNoWriterStep == ASSUME LInv, NEW c \in Calls, SendNoWriter(c) PROVE LInv'
<1> DEFINE last == Kind[c] = "write" \/ (Kind[c] = "install" /\ tries[c] >= 1)
           s == IF last THEN "done" ELSE caller[c]
           a == IF ~last THEN told[c] ELSE IF Kind[c] = "write" THEN "unknown" ELSE "error"
<1>1. /\ caller' = [caller EXCEPT ![c] = s] /\ told' = [told EXCEPT ![c] = a]
      /\ tries' = Attempted(c) /\ caller[c] = "waiting"
  BY CallFacts DEF SendNoWriter
<1>2. s \in CallStates /\ a \in Tellings
  BY CallFacts DEF CallStates, Tellings
<1>3. Spared(Kind[c], s, Counted(c), a)
  BY <1>1, CallFacts DEF Spared, Counted
<1> HIDE DEF last, s, a
<1>4. CallsOK' /\ OthersKeep(c) /\ caller'[c] = s /\ told'[c] = a
  BY <1>1, <1>2, AttemptCounts DEF LInv, CallsOK, OthersKeep
<1>5. Spared(Kind[c], caller'[c], tries'[c], told'[c])
  BY <1>1, <1>3, <1>4, AttemptCounts
<1> QED BY <1>4, <1>5, OneCall

-----------------------------------------------------------------------------
(* Answers, and transports that fail. *)

LEMMA DeliverStep ==
  ASSUME LInv, NEW u, NEW kind, Deliver(u, kind), tries' = tries
  PROVE  LInv'
<1>1. CASE u = Resub
  BY <1>1, CallsKept DEF Deliver
<1>2. CASE u # Resub /\ u \in Calls
  <2> DEFINE a == Meaning(u, kind)
  <2>1. u \in Calls /\ told' = [told EXCEPT ![u] = a] /\ caller' = [caller EXCEPT ![u] = "done"]
    BY <1>2 DEF Deliver
  <2>2. a \in {"answer", "unknown", "refused"}
    BY Zenon DEF Meaning
  <2> HIDE DEF a
  <2>3. CallsOK' /\ OthersKeep(u) /\ caller'[u] = "done" /\ told'[u] = a
    BY <2>1, <2>2 DEF LInv, CallsOK, OthersKeep, CallStates, Tellings
  <2>4. Spared(Kind[u], caller'[u], tries'[u], told'[u])
    BY <2>1, <2>2, <2>3, CallFacts DEF Spared
  <2> QED BY <2>1, <2>3, <2>4, OneCall
<1>3. CASE u # Resub /\ u \notin Calls
  <2>1. caller' = caller /\ told' = told
    BY <1>3 DEF Deliver, LInv, CallsOK
  <2> QED BY <2>1, CallsKept
<1> QED BY <1>1, <1>2, <1>3

LEMMA ReadMessageStep == ASSUME LInv, NEW t \in Transports, ReadMessage(t) PROVE LInv'
<1> DEFINE m == Head(outbox[at[t]])
<1>1. tries' = tries /\ (UNCHANGED <<caller, told>> \/ Deliver(m[1], m[2]))
  BY DEF ReadMessage
<1> HIDE DEF m
<1>2. CASE UNCHANGED <<caller, told>>
  BY <1>1, <1>2, CallsKept
<1>3. CASE Deliver(m[1], m[2])
  BY <1>1, <1>3, DeliverStep
<1> QED BY <1>1, <1>2, <1>3

\* Requests in flight fail: a write gives up, an installation with an attempt
\* left goes on.
LEMMA FailPendingStep == ASSUME LInv, FailPending, tries' = tries PROVE LInv'
<1> DEFINE s(c) == IF caller[c] = "sent" THEN AfterError(c) ELSE caller[c]
           a(c) == IF caller[c] = "sent" THEN ErrorTold(c) ELSE told[c]
<1>1. caller' = [c \in Calls |-> s(c)] /\ told' = [c \in Calls |-> a(c)]
  BY DEF FailPending
<1>2. ASSUME NEW c \in Calls
      PROVE  s(c) \in CallStates /\ a(c) \in Tellings /\ Spared(Kind[c], s(c), tries[c], a(c))
  <2>1. s(c) \in CallStates /\ a(c) \in Tellings
    BY CallFacts DEF AfterError, ErrorTold, CallStates, Tellings
  <2>2. Spared(Kind[c], s(c), tries[c], a(c))
    BY CallFacts DEF AfterError, ErrorTold, GivesUp, Spared
  <2> QED BY <2>1, <2>2
<1> HIDE DEF s, a
<1>3. CallsOK'
  BY <1>1, <1>2 DEF LInv, CallsOK
<1>4. AllSpared'
  BY <1>1, <1>2 DEF AllSpared
<1> QED BY <1>3, <1>4 DEF LInv

LEMMA ReaderStep == ASSUME LInv, NEW t \in Transports, Reader(t) PROVE LInv'
<1>1. CASE ReadMessage(t)
  BY <1>1, ReadMessageStep
<1>2. CASE ReaderEnds(t)
  BY <1>2, CallsKept DEF ReaderEnds, calls
<1>3. CASE ReaderLost(t) \/ FinishCleanup(t) \/ CancelledEnds(t)
  <2>1. FailPending /\ tries' = tries
    BY <1>3 DEF ReaderLost, FinishCleanup, CancelledEnds, Cleanup
  <2> QED BY <2>1, FailPendingStep
<1> QED BY <1>1, <1>2, <1>3 DEF Reader

-----------------------------------------------------------------------------
(* The connect loop, the network and the server leave the calls alone. *)

LEMMA ConnectStep == ASSUME LInv, Dial \/ DialFail \/ Connect PROVE LInv'
<1>1. UNCHANGED <<caller, told, tries>>
  BY DEF Dial, DialFail, Connect, HandshakeAck, HandshakeFail, ResubNext, ResubRaise, WatchEnds,
         Wake, calls
<1> QED BY <1>1, CallsKept

LEMMA NetworkStep ==
  ASSUME LInv, NEW t \in Transports, Drop(t) \/ Serve(t) \/ Push(t) \/ CloseSession(t)
  PROVE  LInv'
<1>1. UNCHANGED <<caller, told, tries>>
  BY DEF Drop, Serve, Push, CloseSession, calls
<1> QED BY <1>1, CallsKept

LEMMA LinkStep == LInv /\ [Next]_vars => LInv'
<1> SUFFICES ASSUME LInv, [Next]_vars PROVE LInv'
  OBVIOUS
<1>1. ASSUME NEW c \in Calls, Caller(c) \/ Coroutine(c) PROVE LInv'
  BY <1>1, BeginStep, BeginSubscribeStep, BeginUnsubscribeStep, TimeoutStep, CancelRunStep,
     SendStep, SendNoWriterStep DEF Caller, Coroutine
<1>2. ASSUME NEW t \in Transports,
             Reader(t) \/ Drop(t) \/ Serve(t) \/ Push(t) \/ CloseSession(t)
      PROVE  LInv'
  BY <1>2, ReaderStep, NetworkStep
<1>3. CASE Dial \/ DialFail \/ Connect
  BY <1>3, ConnectStep
<1>4. CASE UNCHANGED vars
  BY <1>4, CallsKept DEF vars, calls
<1> QED BY <1>1, <1>2, <1>3, <1>4 DEF Next

\* Whatever is dropped, retried or timed out: an order is put on the wire once,
\* a snapshot installation twice at most, and the caller of an order is not told
\* that it timed out or failed on the way (_request_async, _should_retry).
THEOREM WritesOnce == Spec => []WritesAreNotRepeated
<1>1. Init => LInv
  BY DEF Init, LInv, CallsOK, AllSpared, Spared, CallStates, Tellings
<1>2. LInv => WritesAreNotRepeated
  BY CallFacts DEF AllSpared, LInv, Spared, WritesAreNotRepeated
<1> QED BY <1>1, <1>2, LinkStep, PTL DEF Spec

-----------------------------------------------------------------------------
(* Types. *)

SubscrOK ==
  /\ asks \in [Calls -> SUBSET Symbols] /\ held \in [Calls -> BOOLEAN]
  /\ keys \subseteq Keys /\ table \in [Keys -> SUBSET Symbols]

LinkOK ==
  /\ connected \in BOOLEAN /\ cur \in 0..MaxConns /\ rtask \in 0..MaxConns
  /\ rd \in [Transports -> {"none", "reading", "closing", "done", "failed", "cancelled"}]
  /\ at \in [Transports -> 0..MaxConns] /\ killed \subseteq Transports
  /\ \A t \in Transports : rd[t] = "reading" => at[t] # 0

ConnOK ==
  /\ loop \in {"dial", "shaking", "resub", "watch", "sleep", "dead"}
  /\ target \in 0..MaxConns /\ left \subseteq Keys /\ size \in Nat /\ asked \subseteq Symbols
  /\ pend \in [Users -> 0..MaxConns]

Answers == {Tick} \cup (Users \X {"ok", "failed", "coded"})

NetOK ==
  /\ conns \in 0..MaxConns /\ drops \in 0..MaxDrops /\ alive \in [Transports -> BOOLEAN]
  /\ inbox \in [Transports -> Seq(Users)]
  /\ outbox \in [Transports -> Seq(Answers)]
  /\ sess \in [Transports -> {"none", "open", "closed"}]
  /\ subs \in [Transports -> SUBSET Symbols]

TInv == LInv /\ SubscrOK /\ LinkOK /\ ConnOK /\ NetOK

\* What the provers need of the constants.
LEMMA Given ==
  /\ Resub \notin Calls /\ Key \in [Calls -> Keys] /\ Want \in [Calls -> SUBSET Symbols]
  /\ MaxConns \in Nat /\ MaxDrops \in Nat
  /\ \A S \in SUBSET Keys : Cardinality(S) \in Nat
<1>1. \A S \in SUBSET Keys : Cardinality(S) \in Nat
  BY LinkAssumption, FS_Subset, FS_CardinalityType DEF LinkAssumption
<1> QED
  BY <1>1, LinkAssumption DEF LinkAssumption

\* Only those who wait on a transport read: the answer they take is one.
LEMMA AnswerRead ==
  ASSUME LinkOK, NetOK, NEW t \in Transports, rd[t] = "reading", outbox[at[t]] # <<>>
  PROVE  /\ at[t] \in Transports
         /\ Head(outbox[at[t]]) \in Answers /\ Tail(outbox[at[t]]) \in Seq(Answers)
<1>1. at[t] \in Transports
  BY Given DEF LinkOK, Transports
<1>2. outbox[at[t]] \in Seq(Answers)
  BY <1>1 DEF NetOK
<1> HIDE DEF Answers
<1> QED
  BY <1>1, <1>2

LEMMA SubscrStep == ASSUME TInv, [Next]_vars PROVE SubscrOK'
<1> USE Given DEF TInv, SubscrOK
<1>1. ASSUME NEW c \in Calls, Caller(c) \/ Coroutine(c) PROVE SubscrOK'
  <2>1. CASE BeginSubscribe(c)
    BY <2>1 DEF BeginSubscribe
  <2>2. CASE BeginUnsubscribe(c)
    <3> DEFINE gone == IF Want[c] = {} THEN table[Key[c]] ELSE Want[c]
    <3>1. CASE UNCHANGED <<asks, held, subscr>>
      BY <3>1 DEF subscr
    <3>2. CASE ~UNCHANGED <<asks, held, subscr>>
      <4>1. /\ asks' = [asks EXCEPT ![c] = gone] /\ gone \subseteq Symbols
            /\ table' = [table EXCEPT ![Key[c]] = table[Key[c]] \ gone]
        BY <2>2, <3>2 DEF BeginUnsubscribe
      <4>2. keys' \subseteq Keys
        BY <2>2, <3>2 DEF BeginUnsubscribe
      <4>3. held' \in [Calls -> BOOLEAN]
        BY <2>2, <3>2 DEF BeginUnsubscribe
      <4> HIDE DEF gone
      <4> QED
        BY <4>1, <4>2, <4>3
    <3> QED
      BY <3>1, <3>2
  <2>3. CASE Begin(c) \/ CallerTimeout(c) \/ Coroutine(c)
    BY <2>3 DEF Begin, CallerTimeout, Coroutine, CancelRun, Send, SendNoWriter, subscr
  <2> QED
    BY <1>1, <2>1, <2>2, <2>3 DEF Caller
<1>2. ASSUME NEW t \in Transports, Reader(t) PROVE SubscrOK'
  <2>1. CASE ReadMessage(t)
    <3> DEFINE m == Head(outbox[at[t]])
    <3>1. UNCHANGED <<asks, held, keys>>
      BY <2>1 DEF ReadMessage
    <3>2. UNCHANGED table \/ (m # Tick /\ Deliver(m[1], m[2]))
      BY <2>1 DEF ReadMessage
    <3>3. m \in Answers
      BY <2>1, AnswerRead DEF ReadMessage
    <3>4. ASSUME m # Tick, Deliver(m[1], m[2]) PROVE table' \in [Keys -> SUBSET Symbols]
      <4>1. m[1] \in Users
        BY <3>3, <3>4 DEF Answers
      <4> HIDE DEF m
      <4>2. CASE m[1] = Resub
        BY <3>4, <4>2 DEF Deliver
      <4>3. CASE m[1] \in Calls
        BY <3>4, <4>3 DEF Deliver, Recorded
      <4> QED
        BY <4>1, <4>2, <4>3 DEF Users
    <3> QED
      BY <3>1, <3>2, <3>4
  <2>2. CASE ReaderEnds(t)
    BY <2>2 DEF ReaderEnds, calls, subscr
  <2>3. CASE ReaderLost(t) \/ FinishCleanup(t) \/ CancelledEnds(t)
    BY <2>3 DEF ReaderLost, FinishCleanup, CancelledEnds, Cleanup, subscr
  <2> QED
    BY <1>2, <2>1, <2>2, <2>3 DEF Reader
<1>3. ASSUME NEW t \in Transports, Drop(t) \/ Serve(t) \/ Push(t) \/ CloseSession(t)
      PROVE  SubscrOK'
  <2>1. UNCHANGED <<calls, subscr>>
    BY <1>3 DEF Drop, Serve, Push, CloseSession
  <2> QED
    BY <2>1 DEF calls, subscr
<1>4. CASE Dial \/ DialFail \/ Connect \/ UNCHANGED vars
  <2>1. UNCHANGED <<asks, held, subscr>>
    BY <1>4 DEF Dial, DialFail, Connect, HandshakeAck, HandshakeFail, ResubNext, ResubRaise,
       WatchEnds, Wake, calls, vars
  <2> QED
    BY <2>1 DEF subscr
<1> QED
  BY <1>1, <1>2, <1>3, <1>4 DEF Next

LEMMA LinkTypesStep == ASSUME TInv, [Next]_vars PROVE LinkOK'
<1> USE Given DEF TInv, LinkOK
<1>1. ASSUME NEW t \in Transports, Reader(t) PROVE LinkOK'
  <2>1. CASE ReadMessage(t)
    <3>1. UNCHANGED <<cur, rtask, killed>>
      BY <2>1 DEF ReadMessage
    <3>2. \/ Die(t)
          \/ cur # 0 /\ at' = [at EXCEPT ![t] = cur] /\ UNCHANGED <<rd, connected>>
      BY <2>1 DEF ReadMessage, ReadOn
    <3> QED
      BY <3>1, <3>2 DEF Die
  <2>2. CASE ReaderEnds(t)
    BY <2>2 DEF ReaderEnds, Die
  <2>3. CASE ReaderLost(t) \/ FinishCleanup(t) \/ CancelledEnds(t)
    <3>1. /\ killed' = killed \cup ({rtask} \ {0, t}) /\ rtask' = 0 /\ cur' = 0 /\ at' = at
          /\ rd' = [rd EXCEPT ![t] = "done"] \/ rd' = [rd EXCEPT ![t] = "cancelled"]
          /\ connected' = FALSE \/ connected' = connected
      BY <2>3 DEF ReaderLost, FinishCleanup, CancelledEnds, Cleanup
    <3>2. killed' \subseteq Transports
      BY <3>1 DEF Transports
    <3>3. \A x \in Transports : rd'[x] = "reading" => rd[x] = "reading"
      BY <3>1
    <3>4. rd' \in [Transports -> {"none", "reading", "closing", "done", "failed", "cancelled"}]
      BY <3>1
    <3>5. rtask' \in 0..MaxConns /\ cur' \in 0..MaxConns
      BY <3>1
    <3>7. connected' \in BOOLEAN
      <4>1. connected \in BOOLEAN /\ (connected' = FALSE \/ connected' = connected)
        BY <3>1
      <4> QED
        BY ONLY <4>1, Zenon
    <3>6. at' \in [Transports -> 0..MaxConns]
          /\ \A x \in Transports : rd'[x] = "reading" => at'[x] # 0
      BY <3>1, <3>3
    <3> QED
      BY ONLY <3>2, <3>4, <3>5, <3>6, <3>7 DEF LinkOK
  <2> QED
    BY <1>1, <2>1, <2>2, <2>3 DEF Reader
<1>2. CASE HandshakeAck
  <2>1. /\ connected' = TRUE /\ rtask' = target /\ UNCHANGED <<cur, killed>>
        /\ rd' = [rd EXCEPT ![target] = IF cur = 0 THEN "failed" ELSE "reading"]
        /\ at' = [at EXCEPT ![target] = cur]
    BY <1>2 DEF HandshakeAck
  <2> QED
    BY <2>1 DEF ConnOK
<1>3. CASE Dial
  BY <1>3 DEF Dial, tasks, NetOK
<1>4. ASSUME NEW c \in Calls, Caller(c) \/ Coroutine(c) PROVE LinkOK'
  <2>1. UNCHANGED <<link, tasks>>
    BY <1>4 DEF Caller, Coroutine, Begin, BeginSubscribe, BeginUnsubscribe, CallerTimeout, CancelRun,
       Send, SendNoWriter
  <2> QED
    BY <2>1 DEF link, tasks
<1>5. ASSUME NEW t \in Transports, Drop(t) \/ Serve(t) \/ Push(t) \/ CloseSession(t) PROVE LinkOK'
  <2>1. UNCHANGED <<link, tasks>>
    BY <1>5 DEF Drop, Serve, Push, CloseSession
  <2> QED
    BY <2>1 DEF link, tasks
<1>6. CASE DialFail \/ HandshakeFail \/ ResubNext \/ ResubRaise \/ WatchEnds \/ Wake \/ UNCHANGED vars
  <2>1. UNCHANGED <<link, tasks>>
    BY <1>6 DEF DialFail, HandshakeFail, ResubNext, ResubRaise, WatchEnds, Wake, vars
  <2> QED
    BY <2>1 DEF link, tasks
<1> QED
  BY <1>1, <1>2, <1>3, <1>4, <1>5, <1>6 DEF Next, Connect

\* What a visit of the next key sets.
LEMMA Visited ==
  ASSUME SubscrOK, ConnOK, LinkOK, NetOK, NEW ks \in SUBSET Keys, NEW reader \in 0..MaxConns,
         Visit(ks, reader)
  PROVE  /\ loop' \in {"sleep", "watch", "resub"} /\ target' \in 0..MaxConns
         /\ left' \subseteq Keys /\ asked' \subseteq Symbols
         /\ pend' \in [Users -> 0..MaxConns]
         /\ inbox' \in [Transports -> Seq(Users)]
<1> USE Given
<1> DEFINE live == {k \in ks : k \in keys /\ table[k] # {}}
<1>1. CASE live = {}
  BY <1>1 DEF Visit, ConnOK, NetOK
<1>2. CASE live # {}
  <2>1. PICK k \in live :
          /\ loop' = "resub" /\ left' = ks \ {k} /\ asked' = table[k] /\ UNCHANGED target
          /\ IF cur = 0 THEN UNCHANGED <<pend, inbox>>
                        ELSE pend' = [pend EXCEPT ![Resub] = cur] /\ Write(Resub)
    BY <1>2 DEF Visit
  <2>2. asked' \subseteq Symbols /\ left' \subseteq Keys
    BY <2>1 DEF SubscrOK
  <2>3. pend' \in [Users -> 0..MaxConns]
    BY <2>1 DEF ConnOK, LinkOK
  <2>4. inbox' \in [Transports -> Seq(Users)]
    <3>1. CASE cur = 0
      BY <2>1, <3>1 DEF NetOK
    <3>2. CASE cur # 0
      <4>1. inbox' = [inbox EXCEPT ![cur] = IF alive[cur] THEN Append(inbox[cur], Resub) ELSE inbox[cur]]
            /\ cur \in Transports /\ Resub \in Users
        BY <2>1, <3>2 DEF Write, LinkOK, Transports, NetOK, Users
      <4>2. inbox[cur] \in Seq(Users)
        BY <4>1 DEF NetOK
      <4>3. Append(inbox[cur], Resub) \in Seq(Users)
        BY <4>1, <4>2
      <4> QED
        BY <4>1, <4>2, <4>3 DEF NetOK
    <3> QED
      BY <3>1, <3>2
  <2> QED
    BY <2>1, <2>2, <2>3, <2>4 DEF ConnOK
<1> QED
  BY <1>1, <1>2

LEMMA ConnStep == ASSUME TInv, [Next]_vars PROVE ConnOK'
<1> USE Given DEF TInv, ConnOK
<1>1. ASSUME NEW c \in Calls, Caller(c) \/ Coroutine(c) PROVE ConnOK'
  <2>1. UNCHANGED conn
    BY <1>1 DEF Caller, Coroutine, Begin, BeginSubscribe, BeginUnsubscribe, CallerTimeout, CancelRun,
       Send, SendNoWriter
  <2>2. pend' = pend \/ pend' = [pend EXCEPT ![c] = 0] \/ pend' = [pend EXCEPT ![c] = cur]
    BY <1>1 DEF Caller, Coroutine, Begin, BeginSubscribe, BeginUnsubscribe, CallerTimeout, CancelRun,
       Send, SendNoWriter
  <2> QED
    BY <2>1, <2>2 DEF conn, LinkOK
<1>2. ASSUME NEW t \in Transports, Reader(t) PROVE ConnOK'
  <2>1. UNCHANGED <<loop, target, left, size>>
    BY <1>2 DEF Reader, ReadMessage, ReaderEnds, ReaderLost, FinishCleanup, CancelledEnds, Cleanup, conn
  <2>2. asked' = asked \/ asked' = {}
    BY <1>2 DEF Reader, ReadMessage, Deliver, ReaderEnds, ReaderLost, FinishCleanup, CancelledEnds,
       Cleanup, conn
  <2>3. pend' \in [Users -> 0..MaxConns]
    <3>1. CASE ReadMessage(t)
      BY <3>1 DEF ReadMessage, Deliver
    <3>2. CASE ReaderEnds(t)
      BY <3>2 DEF ReaderEnds, calls
    <3>3. CASE ReaderLost(t) \/ FinishCleanup(t) \/ CancelledEnds(t)
      BY <3>3 DEF ReaderLost, FinishCleanup, CancelledEnds, Cleanup, FailPending
    <3> QED
      BY <1>2, <3>1, <3>2, <3>3 DEF Reader
  <2> QED
    BY <2>1, <2>2, <2>3
<1>3. ASSUME NEW t \in Transports, Drop(t) \/ Serve(t) \/ Push(t) \/ CloseSession(t) PROVE ConnOK'
  <2>1. UNCHANGED <<conn, calls>>
    BY <1>3 DEF Drop, Serve, Push, CloseSession
  <2> QED
    BY <2>1 DEF conn, calls
<1>4. CASE Dial
  BY <1>4 DEF Dial, calls, NetOK
<1>5. CASE HandshakeAck
  <2>1. Visit(keys, target) /\ size' = Cardinality(keys)
    BY <1>5 DEF HandshakeAck
  <2> QED
    BY <2>1, Visited DEF SubscrOK
<1>6. CASE ResubNext
  <2>1. Visit(left, rtask) /\ size' = size
    BY <1>6 DEF ResubNext
  <2> QED
    BY <2>1, Visited DEF LinkOK
<1>7. CASE DialFail \/ HandshakeFail \/ ResubRaise \/ WatchEnds \/ Wake
  BY <1>7 DEF DialFail, HandshakeFail, ResubRaise, WatchEnds, Wake, calls
<1>8. CASE UNCHANGED vars
  BY <1>8 DEF vars, calls, conn
<1> QED
  BY <1>1, <1>2, <1>3, <1>4, <1>5, <1>6, <1>7, <1>8 DEF Next, Connect

LEMMA NetStep == ASSUME TInv, [Next]_vars PROVE NetOK'
<1> USE Given DEF TInv, NetOK
<1>1. ASSUME NEW c \in Calls, Caller(c) \/ Coroutine(c) PROVE NetOK'
  <2>1. CASE Send(c)
    <3>1. /\ inbox' = [inbox EXCEPT ![cur] = IF alive[cur] THEN Append(inbox[cur], c) ELSE inbox[cur]]
          /\ cur \in Transports /\ c \in Users
          /\ UNCHANGED <<conns, drops, alive, outbox, server>>
      BY <2>1 DEF Send, Write, LinkOK, Transports, Users
    <3>2. inbox[cur] \in Seq(Users)
      BY <3>1
    <3>3. Append(inbox[cur], c) \in Seq(Users)
      BY <3>1, <3>2
    <3> QED
      BY <3>1, <3>2, <3>3 DEF server
  <2>2. CASE ~Send(c)
    <3>1. UNCHANGED <<net, server>>
      BY <1>1, <2>2 DEF Caller, Coroutine, Begin, BeginSubscribe, BeginUnsubscribe, CallerTimeout,
         CancelRun, SendNoWriter
    <3> QED
      BY <3>1 DEF net, server
  <2> QED
    BY <2>1, <2>2
<1>2. ASSUME NEW t \in Transports, Reader(t) PROVE NetOK'
  <2>1. UNCHANGED <<conns, drops, inbox, server>>
    BY <1>2 DEF Reader, ReadMessage, ReaderEnds, ReaderLost, FinishCleanup, CancelledEnds, Cleanup
  <2>2. alive' \in [Transports -> BOOLEAN]
    BY <1>2 DEF Reader, ReadMessage, ReadOn, Die, ReaderEnds, ReaderLost, FinishCleanup, CancelledEnds
  <2>3. outbox' \in [Transports -> Seq(Answers)]
    <3>1. CASE ReadMessage(t)
      <4>1. outbox' = [outbox EXCEPT ![at[t]] = Tail(outbox[at[t]])]
        BY <3>1 DEF ReadMessage
      <4>2. Tail(outbox[at[t]]) \in Seq(Answers)
        BY <3>1, AnswerRead DEF ReadMessage
      <4> QED
        BY <4>1, <4>2
    <3>2. CASE ~ReadMessage(t)
      BY <1>2, <3>2 DEF Reader, ReaderEnds, ReaderLost, FinishCleanup, CancelledEnds, Cleanup
    <3> QED
      BY <3>1, <3>2
  <2> QED
    BY <2>1, <2>2, <2>3 DEF server
<1>3. ASSUME NEW t \in Transports, Drop(t) PROVE NetOK'
  BY <1>3 DEF Drop, server
<1>4. ASSUME NEW t \in Transports, Serve(t) PROVE NetOK'
  <2> DEFINE u == Head(inbox[t])
             kept(b) == IF alive[t] THEN Append(outbox[t], <<u, b>>) ELSE outbox[t]
  <2>1. /\ inbox' = [inbox EXCEPT ![t] = Tail(inbox[t])] /\ inbox[t] # <<>>
        /\ UNCHANGED <<conns, drops, alive, sess>>
    BY <1>4 DEF Serve
  <2>2. \E b \in {"ok", "failed", "coded"} : outbox' = [outbox EXCEPT ![t] = kept(b)]
    BY <1>4 DEF Serve
  <2>3. \/ subs' = subs \/ subs' = [subs EXCEPT ![t] = subs[t] \cup Payload(u)]
        \/ subs' = [subs EXCEPT ![t] = subs[t] \ Payload(u)]
    BY <1>4 DEF Serve
  <2>4. u \in Users /\ Tail(inbox[t]) \in Seq(Users)
    BY <2>1
  <2>5. Payload(u) \subseteq Symbols
    BY <2>4 DEF Payload, Users, ConnOK, SubscrOK
  <2>6. ASSUME NEW b \in {"ok", "failed", "coded"} PROVE kept(b) \in Seq(Answers)
    <3>1. <<u, b>> \in Answers /\ outbox[t] \in Seq(Answers)
      BY <2>4 DEF Answers
    <3> HIDE DEF u, Answers
    <3>2. Append(outbox[t], <<u, b>>) \in Seq(Answers)
      BY <3>1
    <3> QED
      BY <3>1, <3>2
  <2> HIDE DEF u, kept, Answers
  <2>7. inbox' \in [Transports -> Seq(Users)]
    BY <2>1, <2>4
  <2>8. outbox' \in [Transports -> Seq(Answers)]
    BY <2>2, <2>6
  <2>9. subs' \in [Transports -> SUBSET Symbols]
    BY <2>3, <2>5
  <2> QED
    BY <2>1, <2>7, <2>8, <2>9
<1>5. ASSUME NEW t \in Transports, Push(t) PROVE NetOK'
  <2>1. outbox' = [outbox EXCEPT ![t] = Append(outbox[t], Tick)] /\ outbox[t] \in Seq(Answers)
        /\ Tick \in Answers
    BY <1>5 DEF Push, Answers
  <2>2. Append(outbox[t], Tick) \in Seq(Answers)
    BY <2>1
  <2> QED
    BY <1>5, <2>1, <2>2 DEF Push, server
<1>6. ASSUME NEW t \in Transports, CloseSession(t) PROVE NetOK'
  BY <1>6 DEF CloseSession
<1>7. CASE Dial
  BY <1>7 DEF Dial, server
<1>8. CASE HandshakeAck
  <2>1. Visit(keys, target) /\ sess' = [sess EXCEPT ![target] = "open"]
        /\ UNCHANGED <<conns, drops, alive, outbox, subs>>
    BY <1>8 DEF HandshakeAck
  <2> QED
    BY <2>1, Visited DEF SubscrOK, ConnOK
<1>9. CASE ResubNext
  <2>1. Visit(left, rtask) /\ UNCHANGED <<conns, drops, alive, outbox, server>>
    BY <1>9 DEF ResubNext
  <2> QED
    BY <2>1, Visited DEF LinkOK, ConnOK, server
<1>10. CASE DialFail \/ HandshakeFail \/ ResubRaise \/ WatchEnds \/ Wake \/ UNCHANGED vars
  <2>1. UNCHANGED <<net, server>>
    BY <1>10 DEF DialFail, HandshakeFail, ResubRaise, WatchEnds, Wake, vars
  <2> QED
    BY <2>1 DEF net, server
<1> QED
  BY <1>1, <1>2, <1>3, <1>4, <1>5, <1>6, <1>7, <1>8, <1>9, <1>10 DEF Next, Connect

LEMMA InitTypes == ASSUME Init PROVE TInv
<1> USE Given DEF Init
<1>1. LInv
  BY DEF LInv, CallsOK, AllSpared, Spared, CallStates, Tellings
<1>2. SubscrOK
  BY DEF SubscrOK
<1>3. LinkOK
  <2>1. 0 \in 0..MaxConns
    OBVIOUS
  <2> QED
    BY <2>1 DEF LinkOK
<1>4. ConnOK
  BY DEF ConnOK
<1>5. NetOK
  BY DEF NetOK
<1> QED
  BY <1>1, <1>2, <1>3, <1>4, <1>5 DEF TInv

LEMMA TypesStep == ASSUME TInv, [Next]_vars PROVE TInv'
BY LinkStep, SubscrStep, LinkTypesStep, ConnStep, NetStep DEF TInv

LEMMA TypesHold == Spec => []TInv
BY TypesStep, InitTypes, PTL DEF Spec

\* Every variable of the client, the network and the server's sessions stays in its type,
\* for any number of transports, drops and calls.
THEOREM TypeCorrect == Spec => []TypeOK
<1>1. ASSUME TInv PROVE TypeOK
  BY <1>1 DEF TInv, LInv, CallsOK, CallStates, Tellings, SubscrOK, LinkOK, ConnOK, NetOK, Answers, TypeOK
<1> QED
  BY <1>1, TypesHold, PTL

-----------------------------------------------------------------------------
(* Sessions. *)

\* The server keeps no symbols for a session that is gone, or not there yet: a
\* request that was received before is not served any more (unregister_session).
THEOREM ClosedForgotten == Spec => []ClosedIsForgotten
<1> DEFINE CInv == /\ sess \in [Transports -> {"none", "open", "closed"}]
                   /\ subs \in [Transports -> SUBSET Symbols]
                   /\ ClosedIsForgotten
<1>1. ASSUME Init PROVE CInv
  BY <1>1 DEF Init, ClosedIsForgotten
<1>2. ASSUME TypeOK, CInv, [Next]_vars, TypeOK' PROVE CInv'
  <2> USE <1>2 DEF ClosedIsForgotten
  <2>1. ASSUME NEW t \in Transports, Serve(t) PROVE CInv'
    <3>1. sess[t] = "open" /\ sess' = sess /\ \A x \in Transports \ {t} : subs'[x] = subs[x]
      BY <2>1 DEF Serve
    <3> QED
      BY <3>1 DEF TypeOK
  <2>2. ASSUME NEW t \in Transports, CloseSession(t) PROVE CInv'
    BY <2>2 DEF CloseSession
  <2>3. CASE HandshakeAck
    BY <2>3 DEF HandshakeAck
  <2>4. CASE UNCHANGED server
    BY <2>4 DEF server
  <2>5. ASSUME NEW c \in Calls, Caller(c) \/ Coroutine(c) PROVE UNCHANGED server
    BY <2>5 DEF Caller, Coroutine, Begin, BeginSubscribe, BeginUnsubscribe, CallerTimeout, CancelRun,
       Send, SendNoWriter
  <2>6. ASSUME NEW t \in Transports, Reader(t) \/ Drop(t) \/ Push(t) PROVE UNCHANGED server
    BY <2>6 DEF Reader, ReadMessage, ReaderEnds, ReaderLost, FinishCleanup, CancelledEnds, Cleanup,
       Drop, Push
  <2>7. ASSUME Dial \/ DialFail \/ HandshakeFail \/ ResubNext \/ ResubRaise \/ WatchEnds \/ Wake
               \/ UNCHANGED vars
        PROVE  UNCHANGED server
    BY <2>7 DEF Dial, DialFail, HandshakeFail, ResubNext, ResubRaise, WatchEnds, Wake, vars
  <2> QED
    BY <1>2, <2>1, <2>2, <2>3, <2>4, <2>5, <2>6, <2>7 DEF Next, Connect
<1> QED
  BY <1>1, <1>2, TypeCorrect, PTL DEF Spec

-----------------------------------------------------------------------------
(* Who awaits an answer has a reader. *)

\* What a step does to the call that it is about, the transport and the readers.
LEMMA CallerMoves ==
  ASSUME TInv, NEW c \in Calls, Caller(c) \/ Coroutine(c)
  PROVE  /\ UNCHANGED <<link, tasks, conn, conns, drops, alive, outbox, server>>
         /\ \/ Send(c)
            \/ /\ inbox' = inbox
               /\ pend' = pend \/ pend' = [pend EXCEPT ![c] = 0]
               /\ \A d \in Calls \ {c} : caller'[d] = caller[d]
               /\ caller'[c] = "sent" => caller[c] = "sent" /\ pend' = pend
<1> USE DEF TInv, LInv, CallsOK, CallStates
<1>1. CASE Begin(c)
  BY <1>1 DEF Begin, net
<1>2. CASE BeginSubscribe(c)
  BY <1>2 DEF BeginSubscribe, net
<1>3. CASE BeginUnsubscribe(c)
  BY <1>3 DEF BeginUnsubscribe, net
<1>4. CASE CallerTimeout(c)
  BY <1>4 DEF CallerTimeout, net
<1>5. CASE CancelRun(c)
  BY <1>5 DEF CancelRun, net
<1>6. CASE Send(c)
  BY <1>6 DEF Send, conn
<1>7. CASE SendNoWriter(c)
  BY <1>7 DEF SendNoWriter, net
<1> QED
  BY <1>1, <1>2, <1>3, <1>4, <1>5, <1>6, <1>7 DEF Caller, Coroutine

\* After a cleanup there is no transport, and nobody awaits an answer.
LEMMA CleanedUp ==
  ASSUME TInv, NEW t \in Transports, ReaderLost(t) \/ FinishCleanup(t) \/ CancelledEnds(t)
  PROVE  /\ cur' = 0 /\ at' = at /\ pend' = [u \in Users |-> 0]
         /\ \A c \in Calls : caller'[c] = IF caller[c] = "sent" THEN AfterError(c) ELSE caller[c]
         /\ \A c \in Calls : caller'[c] # "sent"
         /\ \A x \in Transports : rd'[x] = "reading" => rd[x] = "reading"
         /\ \A x \in Transports : alive'[x] => alive[x]
         /\ UNCHANGED <<tries, asks, held, subscr, conn, conns, drops, inbox, outbox, server>>
<1> USE DEF TInv
<1>1. Cleanup(t)
  BY DEF ReaderLost, FinishCleanup, CancelledEnds
<1>2. \A x \in Transports : rd'[x] = "reading" => rd[x] = "reading"
  BY DEF ReaderLost, FinishCleanup, CancelledEnds, LinkOK
<1>3. \A x \in Transports : alive'[x] => alive[x]
  BY DEF ReaderLost, FinishCleanup, CancelledEnds
<1>4. \A c \in Calls : AfterError(c) # "sent"
  BY DEF AfterError
<1> QED
  BY <1>1, <1>2, <1>3, <1>4 DEF Cleanup, FailPending

\* A message read by a reader: its request is completed, or it breaks the reader.
LEMMA MessageRead ==
  ASSUME TInv, NEW t \in Transports, ReadMessage(t)
  PROVE  LET n == at[t]
             m == Head(outbox[n])
         IN
         /\ n \in Transports /\ rd[t] = "reading" /\ outbox[n] # <<>>
         /\ outbox' = [outbox EXCEPT ![n] = Tail(outbox[n])]
         /\ UNCHANGED <<tries, asks, held, keys, cur, rtask, killed, loop, target, left, size,
                        conns, drops, inbox, server>>
         /\ \/ Die(t) /\ UNCHANGED <<caller, table, asked>>
               /\ m # Tick /\ m[1] \in Calls /\ pend[m[1]] = n /\ caller[m[1]] = "cancelling"
               /\ pend' = [pend EXCEPT ![m[1]] = 0]
            \/ ReadOn(t, outbox') /\ UNCHANGED <<caller, pend, table, asked>>
            \/ ReadOn(t, outbox') /\ m # Tick /\ m[1] \in Users /\ pend[m[1]] = n
               /\ (m[1] \in Calls => caller[m[1]] # "cancelling")
               /\ Deliver(m[1], m[2])
<1> DEFINE n == at[t]
           m == Head(outbox[n])
<1>1. n \in Transports /\ rd[t] = "reading" /\ outbox[n] # <<>>
  BY DEF ReadMessage, TInv, LinkOK, Transports
<1>2. m \in Answers
  BY <1>1, AnswerRead DEF TInv
<1>3. m # Tick => m[1] \in Users
  BY <1>2 DEF Answers
<1>4. /\ outbox' = [outbox EXCEPT ![n] = Tail(outbox[n])]
      /\ UNCHANGED <<tries, asks, held, keys, cur, rtask, killed, loop, target, left, size,
                     conns, drops, inbox, server>>
  BY DEF ReadMessage
<1> DEFINE awaited   == m # Tick /\ pend[m[1]] = n
           cancelled == awaited /\ m[1] # Resub /\ caller[m[1]] = "cancelling"
<1>5. IF cancelled
      THEN pend' = [pend EXCEPT ![m[1]] = 0] /\ Die(t) /\ UNCHANGED <<caller, told, table, asked>>
      ELSE /\ IF awaited THEN Deliver(m[1], m[2])
                         ELSE UNCHANGED <<caller, told, pend, table, asked>>
           /\ ReadOn(t, outbox')
  BY <1>4 DEF ReadMessage
<1>6. CASE cancelled
  <2>1. m[1] \in Calls
    BY <1>3, <1>6 DEF Users
  <2> QED
    BY <1>1, <1>4, <1>5, <1>6, <2>1
<1>7. CASE ~cancelled /\ awaited
  <2>1. m[1] \in Users /\ (m[1] \in Calls => caller[m[1]] # "cancelling")
    BY <1>3, <1>7, Given
  <2> QED
    BY <1>1, <1>4, <1>5, <1>7, <2>1
<1>8. CASE ~awaited
  <2> QED
    BY <1>1, <1>4, <1>5, <1>8
<1> QED
  BY <1>6, <1>7, <1>8

LEMMA WriterReaderStep == ASSUME TInv, WriterHasReader, [Next]_vars PROVE WriterHasReader'
<1> USE DEF TInv
<1>1. ASSUME NEW c \in Calls, Caller(c) \/ Coroutine(c) PROVE WriterHasReader'
  <2>1. UNCHANGED <<link, tasks, conn>>
    BY <1>1, CallerMoves
  <2>2. CASE Send(c)
    <3>1. connected /\ cur # 0 /\ caller' = [caller EXCEPT ![c] = "sent"]
          /\ pend' = [pend EXCEPT ![c] = cur]
      BY <2>2 DEF Send
    <3> QED
      BY <2>1, <3>1 DEF WriterHasReader, link, tasks, conn, LInv, CallsOK, ConnOK, Users
  <2>3. CASE ~Send(c)
    <3>1. \A d \in Calls : caller'[d] = "sent" => caller[d] = "sent" /\ pend'[d] = pend[d]
      BY <1>1, <2>3, CallerMoves DEF ConnOK, Users
    <3> QED
      BY <2>1, <3>1 DEF WriterHasReader, link, tasks, conn
  <2> QED
    BY <2>2, <2>3
<1>2. ASSUME NEW t \in Transports, ReadMessage(t) PROVE WriterHasReader'
  <2>1. UNCHANGED <<cur, loop, target>> /\ (connected' => connected)
    BY <1>2, MessageRead DEF ReadOn, Die
  <2>2. \A x \in Transports : rd[x] \in {"reading", "closing"} => rd'[x] \in {"reading", "closing"}
    BY <1>2, MessageRead DEF ReadOn, Die, LinkOK
  <2>3. \A d \in Calls : caller'[d] = "sent" => caller[d] = "sent" /\ pend'[d] = pend[d]
    <3> DEFINE m == Head(outbox[at[t]])
    <3>1. ASSUME m[1] \in Users, Deliver(m[1], m[2])
          PROVE  \A d \in Calls : caller'[d] = "sent" => caller[d] = "sent" /\ pend'[d] = pend[d]
      <4> DEFINE u == m[1]
      <4>1. pend' = [pend EXCEPT ![u] = 0] /\ u \in Users
        BY <3>1 DEF Deliver
      <4>2. IF u = Resub THEN caller' = caller ELSE caller' = [caller EXCEPT ![u] = "done"]
        BY <3>1 DEF Deliver
      <4> HIDE DEF u
      <4> QED
        BY <4>1, <4>2, Given DEF Users, ConnOK, LInv, CallsOK
    <3>2. ASSUME m[1] \in Calls, caller[m[1]] = "cancelling", pend' = [pend EXCEPT ![m[1]] = 0],
                 caller' = caller
          PROVE  \A d \in Calls : caller'[d] = "sent" => caller[d] = "sent" /\ pend'[d] = pend[d]
      BY <3>2 DEF ConnOK, Users
    <3> QED
      BY <1>2, <3>1, <3>2, MessageRead
  <2> QED
    BY <2>1, <2>2, <2>3 DEF WriterHasReader
<1>3. ASSUME NEW t \in Transports, ReaderEnds(t) PROVE WriterHasReader'
  <2>1. /\ UNCHANGED <<caller, pend, cur, loop, target>> /\ connected' = FALSE
        /\ rd' = [rd EXCEPT ![t] = "closing"]
    BY <1>3 DEF ReaderEnds, Die, calls, conn
  <2> QED
    BY <2>1 DEF WriterHasReader, LinkOK
<1>4. ASSUME NEW t \in Transports, ReaderLost(t) \/ FinishCleanup(t) \/ CancelledEnds(t)
      PROVE  WriterHasReader'
  BY <1>4, CleanedUp DEF WriterHasReader, conn
<1>5. ASSUME NEW t \in Transports, Drop(t) \/ Serve(t) \/ Push(t) \/ CloseSession(t)
      PROVE  WriterHasReader'
  BY <1>5 DEF Drop, Serve, Push, CloseSession, WriterHasReader, calls, link, tasks, conn
<1>6. CASE Dial
  <2>1. loop' = "shaking" /\ cur' = conns + 1 /\ target' = conns + 1 /\ UNCHANGED <<caller, pend>>
    BY <1>6 DEF Dial, calls
  <2> QED
    BY <2>1 DEF WriterHasReader, NetOK
<1>7. CASE HandshakeAck
  <2>1. /\ UNCHANGED <<caller, cur>> /\ loop = "shaking"
        /\ rd' = [rd EXCEPT ![target] = IF cur = 0 THEN "failed" ELSE "reading"]
        /\ Visit(keys, target) /\ loop' # "shaking"
    BY <1>7 DEF HandshakeAck, Visit
  <2>2. \A c \in Calls : pend'[c] = pend[c]
    BY <2>1, Given DEF Visit, ConnOK, Users
  <2>3. cur # 0 => \E t \in Transports : rd'[t] = "reading"
    <3>1. target \in Transports
      BY <2>1 DEF WriterHasReader, ConnOK, Transports
    <3> QED
      BY <2>1, <3>1 DEF LinkOK
  <2> QED
    BY <2>1, <2>2, <2>3 DEF WriterHasReader
<1>8. CASE ResubNext
  <2>1. UNCHANGED <<caller, link, tasks>> /\ Visit(left, rtask) /\ loop = "resub" /\ loop' # "shaking"
    BY <1>8 DEF ResubNext, Visit
  <2>2. \A c \in Calls : pend'[c] = pend[c]
    BY <2>1, Given DEF Visit, ConnOK, Users
  <2> QED
    BY <2>1, <2>2 DEF WriterHasReader, link, tasks
<1>9. CASE DialFail \/ HandshakeFail \/ ResubRaise \/ WatchEnds \/ Wake
  BY <1>9 DEF DialFail, HandshakeFail, ResubRaise, WatchEnds, Wake, WriterHasReader, calls, link, tasks
<1>10. CASE UNCHANGED vars
  BY <1>10 DEF vars, calls, link, tasks, conn, WriterHasReader
<1> QED
  BY <1>1, <1>2, <1>3, <1>4, <1>5, <1>6, <1>7, <1>8, <1>9, <1>10 DEF Next, Reader, Connect

\* No request is left in _pending with nobody to complete it: the reader that reads the
\* writer's transport fails it when the transport ends (_cleanup_transport).
THEOREM AwaitedAreRead == Spec => []AwaitedIsRead
<1>1. Init => WriterHasReader
  BY DEF Init, WriterHasReader
<1>2. WriterHasReader => AwaitedIsRead
  BY DEF WriterHasReader, AwaitedIsRead
<1> QED
  BY <1>1, <1>2, WriterReaderStep, TypesHold, PTL DEF Spec

-----------------------------------------------------------------------------
(* The calls and the table of subscriptions. *)

\* An answer delivered completes one call, and only a subscription's changes the table.
LEMMA Delivered ==
  ASSUME TInv, NEW u \in Users, NEW kind, Deliver(u, kind)
  PROVE  /\ pend' = [pend EXCEPT ![u] = 0]
         /\ \A d \in Calls : caller'[d] = IF d = u THEN "done" ELSE caller[d]
         /\ u = Resub => asked' = {} /\ table' = table
         /\ u # Resub => /\ u \in Calls /\ asked' = asked
                         /\ \/ table' = table
                            \/ /\ kind = "ok" /\ held[u] /\ Kind[u] = "subscribe"
                               /\ table' = [table EXCEPT ![Key[u]] = table[Key[u]] \cup asks[u]]
<1> USE DEF TInv, LInv, CallsOK
<1>1. CASE u = Resub
  BY <1>1, Given DEF Deliver
<1>2. CASE u \in Calls
  <2>1. u # Resub
    BY <1>2, Given
  <2>2. /\ pend' = [pend EXCEPT ![u] = 0] /\ caller' = [caller EXCEPT ![u] = "done"]
        /\ asked' = asked /\ table' = IF kind = "ok" THEN Recorded(u) ELSE table
    BY <2>1 DEF Deliver
  <2> QED
    BY <1>2, <2>1, <2>2 DEF Recorded
<1> QED
  BY <1>1, <1>2 DEF Users

\* No reader makes a call active.
LEMMA ReaderCalls ==
  ASSUME TInv, NEW t \in Transports, Reader(t)
  PROVE  /\ \A c \in Calls : Active(c)' => Active(c)
         /\ \A c \in Calls : caller'[c] = "sent" => caller[c] = "sent"
         /\ UNCHANGED <<asks, held, keys>>
<1> USE DEF TInv
<1>1. CASE ReadMessage(t)
  <2>1. UNCHANGED <<asks, held, keys>>
    BY <1>1, MessageRead
  <2>2. ASSUME NEW u \in Users, NEW kind, Deliver(u, kind)
        PROVE  \A c \in Calls : caller'[c] = caller[c] \/ caller'[c] = "done"
    BY <2>2, Delivered
  <2>3. \A c \in Calls : caller'[c] = caller[c] \/ caller'[c] = "done"
    BY <1>1, <2>2, MessageRead
  <2> QED
    BY <2>1, <2>3 DEF Active
<1>2. CASE ReaderEnds(t)
  BY <1>2 DEF ReaderEnds, calls, subscr, Active
<1>3. CASE ReaderLost(t) \/ FinishCleanup(t) \/ CancelledEnds(t)
  BY <1>3, CleanedUp DEF subscr, Active
<1> QED
  BY <1>1, <1>2, <1>3 DEF Reader

LEMMA TurnsStep == ASSUME TInv, CallsTakeTurns, [Next]_vars PROVE CallsTakeTurns'
<1> USE DEF TInv
<1>1. ASSUME NEW c \in Calls, Caller(c) \/ Coroutine(c) PROVE CallsTakeTurns'
  <2> USE DEF LInv, CallsOK, ConnOK, Users
  <2>1. CASE Begin(c)
    <3>1. pend' = pend /\ caller[c] = "idle" /\ ~Managing(c) /\ caller' = [caller EXCEPT ![c] = "waiting"]
      BY <2>1 DEF Begin, MayBegin
    <3> QED
      BY <3>1 DEF CallsTakeTurns, Active
  <2>2. CASE BeginSubscribe(c) \/ BeginUnsubscribe(c)
    <3>1. /\ pend' = pend /\ MayBegin(c) /\ Managing(c)
          /\ caller' = [caller EXCEPT ![c] = "done"] \/ caller' = [caller EXCEPT ![c] = "waiting"]
      BY <2>2 DEF BeginSubscribe, BeginUnsubscribe, Managing
    <3> QED
      BY <3>1 DEF MayBegin, CallsTakeTurns, Active
  <2>3. CASE CallerTimeout(c)
    BY <2>3 DEF CallerTimeout, CallsTakeTurns, Active
  <2>4. CASE CancelRun(c)
    BY <2>4, Given DEF CancelRun, CallsTakeTurns, Active
  <2>5. CASE Send(c)
    BY <2>5, Given DEF Send, CallsTakeTurns, Active
  <2>6. CASE SendNoWriter(c)
    BY <2>6 DEF SendNoWriter, CallsTakeTurns, Active
  <2> QED
    BY <1>1, <2>1, <2>2, <2>3, <2>4, <2>5, <2>6 DEF Caller, Coroutine
<1>2. ASSUME NEW t \in Transports, Reader(t) PROVE CallsTakeTurns'
  <2>1. \A c \in Calls : pend'[c] # 0 => caller'[c] \in {"sent", "cancelling"}
    <3>1. ASSUME ReadMessage(t)
          PROVE  \A c \in Calls : pend'[c] # 0 => caller'[c] = caller[c] /\ pend[c] # 0
      <4>1. ASSUME NEW u \in Users, NEW kind, Deliver(u, kind)
            PROVE  \A c \in Calls : pend'[c] # 0 => caller'[c] = caller[c] /\ pend[c] # 0
        BY <4>1, Delivered DEF ConnOK, Users
      <4>2. ASSUME NEW u \in Calls, pend' = [pend EXCEPT ![u] = 0], caller' = caller
            PROVE  \A c \in Calls : pend'[c] # 0 => caller'[c] = caller[c] /\ pend[c] # 0
        BY <4>2 DEF ConnOK, Users
      <4> QED
        BY <3>1, <4>1, <4>2, MessageRead
    <3>2. CASE ReaderEnds(t)
      BY <3>2 DEF ReaderEnds, calls, CallsTakeTurns
    <3>3. CASE ReaderLost(t) \/ FinishCleanup(t) \/ CancelledEnds(t)
      BY <3>3, CleanedUp DEF Users
    <3> QED
      BY <1>2, <3>1, <3>2, <3>3 DEF Reader, CallsTakeTurns
  <2> QED
    BY <1>2, <2>1, ReaderCalls DEF CallsTakeTurns
<1>3. CASE HandshakeAck \/ ResubNext
  <2>1. caller' = caller /\ \E ks, n : Visit(ks, n)
    BY <1>3 DEF HandshakeAck, ResubNext
  <2>2. \A c \in Calls : pend'[c] = pend[c]
    BY <2>1, Given DEF Visit, ConnOK, Users
  <2> QED
    BY <2>1, <2>2 DEF CallsTakeTurns, Active
<1>4. CASE UNCHANGED calls
  BY <1>4 DEF calls, CallsTakeTurns, Active
<1>5. ASSUME NEW t \in Transports, Drop(t) \/ Serve(t) \/ Push(t) \/ CloseSession(t)
      PROVE  UNCHANGED calls
  BY <1>5 DEF Drop, Serve, Push, CloseSession
<1>6. ASSUME Dial \/ DialFail \/ HandshakeFail \/ ResubRaise \/ WatchEnds \/ Wake \/ UNCHANGED vars
      PROVE  UNCHANGED calls
  BY <1>6 DEF Dial, DialFail, HandshakeFail, ResubRaise, WatchEnds, Wake, vars
<1> QED
  BY <1>1, <1>2, <1>3, <1>4, <1>5, <1>6 DEF Next, Connect

\* Steps that leave the table and what the calls ask for.
LEMMA TableFrame ==
  ASSUME TableIsWanted, UNCHANGED <<asks, held, keys, table>>, \A c \in Calls : Active(c)' => Active(c)
  PROVE  TableIsWanted'
BY DEF TableIsWanted

LEMMA TableStep ==
  ASSUME KeysApart, TInv, CallsTakeTurns, TableIsWanted, [Next]_vars
  PROVE  TableIsWanted'
<1> USE Given DEF TInv, LInv, CallsOK, SubscrOK
<1>1. ASSUME NEW c \in Calls, BeginSubscribe(c) PROVE TableIsWanted'
  <2>1. /\ Kind[c] = "subscribe" /\ keys' = keys \cup {Key[c]} /\ table' = table
        /\ asks' = [asks EXCEPT ![c] = Want[c] \ table[Key[c]]] /\ held' = [held EXCEPT ![c] = TRUE]
        /\ \A d \in Calls \ {c} : caller'[d] = caller[d]
    BY <1>1 DEF BeginSubscribe
  <2>2. asks'[c] \subseteq Want[c] /\ \A d \in Calls \ {c} : asks'[d] = asks[d] /\ held'[d] = held[d]
    BY <2>1
  <2> QED
    BY <2>1, <2>2 DEF TableIsWanted, Active
<1>2. ASSUME NEW c \in Calls, BeginUnsubscribe(c) PROVE TableIsWanted'
  <2> DEFINE k == Key[c]
             gone == IF Want[c] = {} THEN table[k] ELSE Want[c]
             popped == Want[c] = {} \/ table[k] \subseteq Want[c]
  <2>1. /\ Kind[c] = "unsubscribe" /\ Managing(c) /\ k \in Keys
        /\ \A d \in Calls \ {c} : caller'[d] = caller[d]
        /\ \/ UNCHANGED <<asks, held, keys, table>> /\ caller'[c] = "done"
           \/ /\ asks' = [asks EXCEPT ![c] = gone] /\ table' = [table EXCEPT ![k] = table[k] \ gone]
              /\ keys' = IF popped THEN keys \ {k} ELSE keys
              /\ held' = [d \in Calls |-> held[d] /\ ~(popped /\ Key[d] = k)]
    BY <1>2 DEF BeginUnsubscribe, Managing, subscr
  <2>2. CASE UNCHANGED <<asks, held, keys, table>> /\ caller'[c] = "done"
    <3>1. \A d \in Calls : Active(d)' => Active(d)
      BY <2>1, <2>2 DEF Active
    <3> QED
      BY <2>2, <3>1, TableFrame
  <2>3. CASE /\ asks' = [asks EXCEPT ![c] = gone] /\ table' = [table EXCEPT ![k] = table[k] \ gone]
             /\ keys' = IF popped THEN keys \ {k} ELSE keys
             /\ held' = [d \in Calls |-> held[d] /\ ~(popped /\ Key[d] = k)]
    <3>1. \A l \in Keys : table'[l] \subseteq table[l]
      BY <2>1, <2>3
    <3>2. gone \cap table'[k] = {}
      BY <2>1, <2>3
    <3>3. \A l \in Keys \ {k} : gone \cap table[l] = {}
      <4>1. \A s \in gone : \E d \in Calls : Managing(d) /\ Key[d] = k /\ s \in Want[d]
        BY <2>1 DEF TableIsWanted
      <4> HIDE DEF gone, k
      <4> QED
        BY <4>1 DEF TableIsWanted, KeysApart
    <3>4. \A l \in Keys : gone \cap table'[l] = {}
      BY <3>1, <3>2, <3>3
    <3>5. popped => table'[k] = {}
      BY <2>1, <2>3
    <3>6. asks'[c] = gone /\ \A d \in Calls \ {c} : asks'[d] = asks[d]
      BY <2>3
    <3> HIDE DEF gone, popped
    <3>7. \A l \in Keys \ keys' : table'[l] = {}
      BY <2>3, <3>1, <3>5 DEF TableIsWanted
    <3>8. \A d \in Calls : held'[d] => held[d] /\ (Key[d] \in keys => Key[d] \in keys')
      BY <2>3
    <3>9. \A l \in Keys : \A s \in table'[l] : \E d \in Calls : Managing(d) /\ Key[d] = l /\ s \in Want[d]
      BY <3>1 DEF TableIsWanted
    <3>10. \A d \in Calls : Kind[d] = "subscribe" =>
             asks'[d] \subseteq Want[d] /\ (held'[d] => Key[d] \in keys')
      BY <2>1, <3>6, <3>8 DEF TableIsWanted
    <3>11. ASSUME NEW d \in Calls, Kind[d] = "unsubscribe", Active(d)', NEW l \in Keys
           PROVE  asks'[d] \cap table'[l] = {}
      <4>1. CASE d = c
        BY <3>4, <3>6, <4>1
      <4>2. CASE d # c
        <5>1. Active(d) /\ asks'[d] = asks[d]
          BY <2>1, <3>6, <3>11, <4>2 DEF Active
        <5> QED
          BY <3>1, <3>11, <5>1 DEF TableIsWanted
      <4> QED
        BY <4>1, <4>2
    <3> QED
      BY <3>7, <3>9, <3>10, <3>11 DEF TableIsWanted
  <2> QED
    BY <2>1, <2>2, <2>3
<1>3. ASSUME NEW c \in Calls, Caller(c) \/ Coroutine(c), ~BeginSubscribe(c), ~BeginUnsubscribe(c)
      PROVE  TableIsWanted'
  <2>1. UNCHANGED <<asks, held, keys, table>>
    BY <1>3 DEF Caller, Coroutine, Begin, CallerTimeout, CancelRun, Send, SendNoWriter, subscr
  <2>2. CASE Begin(c)
    <3>1. \A d \in Calls : Kind[d] = "unsubscribe" => caller'[d] = caller[d]
      BY <2>2 DEF Begin, Managing
    <3> QED
      BY <2>1, <3>1 DEF TableIsWanted, Active
  <2>3. CASE ~Begin(c)
    <3>1. \A d \in Calls : Active(d)' => Active(d)
      BY <1>3, <2>3 DEF Caller, Coroutine, CallerTimeout, CancelRun, Send, SendNoWriter, Active
    <3> QED
      BY <2>1, <3>1, TableFrame
  <2> QED
    BY <2>2, <2>3
<1>4. ASSUME NEW t \in Transports, Reader(t) PROVE TableIsWanted'
  <2>1. /\ UNCHANGED <<asks, held, keys>> /\ \A c \in Calls : Active(c)' => Active(c)
    BY <1>4, ReaderCalls
  <2>2. CASE table' = table
    BY <2>1, <2>2, TableFrame
  <2>3. CASE ReadMessage(t) /\ table' # table
    <3>1. PICK u \in Calls : /\ pend[u] # 0 /\ caller[u] # "cancelling" /\ held[u] /\ Kind[u] = "subscribe"
                             /\ table' = [table EXCEPT ![Key[u]] = table[Key[u]] \cup asks[u]]
      <4> DEFINE m == Head(outbox[at[t]])
      <4>1. /\ Deliver(m[1], m[2]) /\ m[1] \in Users /\ pend[m[1]] = at[t] /\ at[t] \in Transports
            /\ (m[1] \in Calls => caller[m[1]] # "cancelling")
        BY <2>3, MessageRead
      <4> HIDE DEF m
      <4> QED
        BY <2>3, <4>1, Delivered DEF Transports
    <3>2. caller[u] = "sent" /\ Managing(u) /\ asks[u] \subseteq Want[u] /\ Key[u] \in keys
      BY <3>1 DEF CallsTakeTurns, TableIsWanted, Managing
    <3>3. \A d \in Calls : Kind[d] = "unsubscribe" => ~Active(d)
      BY <3>1, <3>2 DEF CallsTakeTurns, Managing, Active
    <3>4. \A k \in Keys : table'[k] = IF k = Key[u] THEN table[k] \cup asks[u] ELSE table[k]
      BY <3>1
    <3>5. \A k \in Keys : \A s \in table'[k] : \E c \in Calls : Managing(c) /\ Key[c] = k /\ s \in Want[c]
      <4> SUFFICES ASSUME NEW k \in Keys, NEW s \in table'[k]
                   PROVE  \E c \in Calls : Managing(c) /\ Key[c] = k /\ s \in Want[c]
        OBVIOUS
      <4>1. CASE s \in table[k]
        BY <4>1 DEF TableIsWanted
      <4>2. CASE k = Key[u] /\ s \in asks[u]
        BY <3>2, <4>2
      <4> QED
        BY <3>4, <4>1, <4>2
    <3>6. \A k \in Keys \ keys' : table'[k] = {}
      BY <2>1, <3>2, <3>4 DEF TableIsWanted
    <3>7. \A c \in Calls : Kind[c] = "unsubscribe" => ~Active(c)'
      BY <2>1, <3>3
    <3> QED
      BY <2>1, <3>5, <3>6, <3>7 DEF TableIsWanted
  <2>4. ASSUME ~ReadMessage(t) PROVE table' = table
    <3>1. CASE ReaderEnds(t)
      BY <3>1 DEF ReaderEnds, subscr
    <3>2. CASE ReaderLost(t) \/ FinishCleanup(t) \/ CancelledEnds(t)
      BY <3>2, CleanedUp DEF subscr
    <3> QED
      BY <1>4, <2>4, <3>1, <3>2 DEF Reader
  <2> QED
    BY <2>2, <2>3, <2>4
<1>5. ASSUME UNCHANGED <<caller, asks, held, subscr>> PROVE TableIsWanted'
  BY <1>5, TableFrame DEF Active, subscr
<1>6. ASSUME NEW t \in Transports, Drop(t) \/ Serve(t) \/ Push(t) \/ CloseSession(t)
      PROVE  UNCHANGED <<caller, asks, held, subscr>>
  BY <1>6 DEF Drop, Serve, Push, CloseSession, calls
<1>7. ASSUME \/ Dial \/ DialFail \/ HandshakeAck \/ HandshakeFail \/ ResubNext \/ ResubRaise
             \/ WatchEnds \/ Wake \/ UNCHANGED vars
      PROVE  UNCHANGED <<caller, asks, held, subscr>>
  BY <1>7 DEF Dial, DialFail, HandshakeAck, HandshakeFail, ResubNext, ResubRaise, WatchEnds, Wake,
     vars, calls
<1> QED
  BY <1>1, <1>2, <1>3, <1>4, <1>5, <1>6, <1>7 DEF Next, Connect

-----------------------------------------------------------------------------
(* Transports. *)

\* A request is written to the current transport only.
LEMMA Written ==
  ASSUME TInv, cur # 0, NEW u \in Users, Write(u)
  PROVE  /\ cur \in Transports
         /\ inbox' = [inbox EXCEPT ![cur] = IF alive[cur] THEN Append(inbox[cur], u) ELSE inbox[cur]]
         /\ \A t \in Transports \ {cur} : inbox'[t] = inbox[t]
BY DEF Write, TInv, LinkOK, NetOK, Transports

\* What a visit of the next key does outside the connect loop's own variables.
LEMMA VisitMoves ==
  ASSUME TInv, NEW ks, NEW reader, Visit(ks, reader)
  PROVE  /\ \A c \in Calls : pend'[c] = pend[c]
         /\ \A t \in Transports \ {cur} : inbox'[t] = inbox[t]
         /\ loop' # "shaking" /\ target' \in {target, reader}
<1> USE Given DEF TInv
<1>1. \A c \in Calls : pend'[c] = pend[c]
  BY DEF Visit, ConnOK, Users
<1>2. \/ UNCHANGED inbox
      \/ cur # 0 /\ Write(Resub)
  BY DEF Visit
<1>3. loop' # "shaking" /\ target' \in {target, reader}
  BY DEF Visit
<1> QED
  BY <1>1, <1>2, <1>3, Written DEF Users

LEMMA FreshStep == ASSUME TInv, OpensFresh, [Next]_vars PROVE OpensFresh'
<1> USE Given DEF TInv
<1>0. /\ cur \in Nat /\ conns \in Nat /\ target \in Nat /\ rtask \in Nat
      /\ \A t \in Transports : t \in Nat /\ at[t] \in Nat
  BY DEF LinkOK, ConnOK, NetOK, Transports
<1>a. /\ cur <= conns /\ target <= conns /\ rtask <= conns
      /\ \A t \in Transports : at[t] <= conns
      /\ \A t \in Transports : t > conns => inbox[t] = <<>> /\ outbox[t] = <<>> /\ sess[t] = "none"
  BY DEF OpensFresh, Unopened
<1>b. loop = "shaking" => /\ target # 0 /\ cur \in {0, target}
                          /\ sess[target] = "none" /\ outbox[target] = <<>>
                          /\ \A t \in Transports : rd[t] = "reading" => at[t] # target
  BY DEF OpensFresh
<1>c. ASSUME UNCHANGED <<link, tasks, loop, target, conns>>,
             \A t \in Transports : t > conns \/ (loop = "shaking" /\ t = target) =>
               outbox'[t] = outbox[t] /\ sess'[t] = sess[t],
             \A t \in Transports : t > conns => inbox'[t] = inbox[t]
      PROVE  OpensFresh'
  <2>1. UNCHANGED <<cur, rtask, rd, at, loop, target, conns>>
    BY <1>c DEF link, tasks
  <2>2. \A t \in Transports : t > conns => Unopened(t)'
    BY <1>a, <1>c DEF Unopened
  <2>3. loop = "shaking" => sess'[target] = "none" /\ outbox'[target] = <<>>
    <3>1. loop = "shaking" => target \in Transports
      BY <1>b DEF ConnOK, Transports
    <3> QED
      BY <1>b, <1>c, <3>1
  <2> QED
    BY <1>a, <1>b, <2>1, <2>2, <2>3 DEF OpensFresh
<1>1. ASSUME NEW c \in Calls, Caller(c) \/ Coroutine(c) PROVE OpensFresh'
  <2>1. UNCHANGED <<link, tasks, conn, conns, outbox, server>>
    BY <1>1, CallerMoves
  <2>2. \A t \in Transports : t > conns => inbox'[t] = inbox[t]
    <3>1. CASE Send(c)
      <4>1. cur # 0 /\ Write(c) /\ c \in Users
        BY <3>1 DEF Send, Users
      <4> QED
        BY <1>0, <1>a, <4>1, Written
    <3>2. CASE ~Send(c)
      BY <1>1, <3>2, CallerMoves
    <3> QED
      BY <3>1, <3>2
  <2> QED
    BY <1>c, <2>1, <2>2 DEF conn, server
<1>2. ASSUME NEW t \in Transports, ReadMessage(t) PROVE OpensFresh'
  <2>1. /\ at[t] \in Transports /\ outbox[at[t]] # <<>> /\ outbox' = [outbox EXCEPT ![at[t]] = Tail(outbox[at[t]])]
        /\ UNCHANGED <<cur, rtask, loop, target, conns, inbox, sess>>
    BY <1>2, MessageRead DEF server
  <2>2. \/ at' = [at EXCEPT ![t] = cur] /\ rd' = [rd EXCEPT ![t] = "closing"]
        \/ /\ at' = [at EXCEPT ![t] = cur] /\ rd' = rd
           /\ cur # 0 /\ ~(loop = "shaking" /\ target = cur)
    BY <1>2, MessageRead DEF ReadOn, Die, Awaited
  <2>3. \A x \in Transports : outbox[x] = <<>> => outbox'[x] = <<>>
    BY <2>1 DEF NetOK
  <2>4. \A x \in Transports : at'[x] <= conns
    <3>1. \A x \in Transports : at'[x] = IF x = t THEN cur ELSE at[x]
      BY <2>2 DEF LinkOK
    <3> QED
      BY <1>a, <3>1
  <2>5. loop = "shaking" => \A x \in Transports : rd'[x] = "reading" => at'[x] # target
    <3>1. \A x \in Transports \ {t} : at'[x] = at[x] /\ rd'[x] = rd[x]
      BY <2>2 DEF LinkOK
    <3>2. loop = "shaking" => rd'[t] # "reading"
      BY <1>b, <2>2 DEF LinkOK
    <3> QED
      BY <1>b, <3>1, <3>2
  <2>6. \A x \in Transports : x > conns => Unopened(x)'
    BY <1>a, <2>1, <2>3 DEF Unopened
  <2>7. loop = "shaking" => target \in Transports
    BY <1>b DEF ConnOK, Transports
  <2> QED
    BY <1>a, <1>b, <2>1, <2>3, <2>4, <2>5, <2>6, <2>7 DEF OpensFresh
<1>3. ASSUME NEW t \in Transports, ReaderEnds(t) PROVE OpensFresh'
  <2>1. /\ UNCHANGED <<cur, rtask, loop, target, conns, inbox, outbox, sess>>
        /\ at' = [at EXCEPT ![t] = cur] /\ rd' = [rd EXCEPT ![t] = "closing"]
    BY <1>3 DEF ReaderEnds, Die, conn, server
  <2>2. \A x \in Transports : at'[x] = IF x = t THEN cur ELSE at[x]
    BY <2>1 DEF LinkOK
  <2>3. \A x \in Transports : rd'[x] = "reading" => rd[x] = "reading" /\ at'[x] = at[x]
    BY <2>1 DEF LinkOK
  <2>4. \A x \in Transports : at'[x] <= conns
    BY <1>a, <2>2
  <2> QED
    BY <1>a, <1>b, <2>1, <2>3, <2>4 DEF OpensFresh, Unopened
<1>4. ASSUME NEW t \in Transports, ReaderLost(t) \/ FinishCleanup(t) \/ CancelledEnds(t)
      PROVE  OpensFresh'
  <2>1. rtask' = 0
    BY <1>4 DEF ReaderLost, FinishCleanup, CancelledEnds, Cleanup
  <2>2. /\ cur' = 0 /\ UNCHANGED <<at, loop, target, conns, inbox, outbox, sess>>
        /\ \A x \in Transports : rd'[x] = "reading" => rd[x] = "reading"
    BY <1>4, CleanedUp DEF conn, server
  <2> QED
    BY <1>0, <1>a, <1>b, <2>1, <2>2 DEF OpensFresh, Unopened
<1>5. ASSUME NEW t \in Transports, Serve(t) \/ Push(t) \/ CloseSession(t) PROVE OpensFresh'
  <2>1. /\ sess[t] = "open" /\ UNCHANGED <<link, tasks, conn, conns>>
        /\ \A x \in Transports \ {t} : inbox'[x] = inbox[x] /\ outbox'[x] = outbox[x] /\ sess'[x] = sess[x]
    <3>1. CASE Serve(t)
      BY <3>1 DEF Serve, NetOK
    <3>2. CASE Push(t)
      BY <3>2 DEF Push, NetOK, server
    <3>3. CASE CloseSession(t)
      BY <3>3 DEF CloseSession, NetOK
    <3> QED
      BY <1>5, <3>1, <3>2, <3>3
  <2>2. ~(t > conns) /\ (loop = "shaking" => t # target)
    BY <1>a, <1>b, <2>1
  <2> QED
    BY <1>c, <2>1, <2>2 DEF conn
<1>6. CASE Dial
  <2>1. /\ conns' = conns + 1 /\ cur' = conns + 1 /\ target' = conns + 1 /\ conns + 1 \in Transports
        /\ UNCHANGED <<rtask, at, rd, inbox, outbox, sess>> /\ conns + 1 > conns
    BY <1>0, <1>6 DEF Dial, tasks, server, NetOK, Transports
  <2>2. \A t \in Transports : at'[t] <= conns' /\ at'[t] # target' /\ (t > conns' => Unopened(t)')
    BY <1>0, <1>a, <2>1 DEF Unopened
  <2>3. cur' <= conns' /\ target' <= conns' /\ rtask' <= conns' /\ target' # 0
    BY <1>0, <1>a, <2>1
  <2>4. sess'[target'] = "none" /\ outbox'[target'] = <<>>
    BY <1>a, <2>1
  <2> QED
    BY <2>1, <2>2, <2>3, <2>4 DEF OpensFresh
<1>7. CASE HandshakeAck
  <2>1. /\ loop = "shaking" /\ Visit(keys, target) /\ UNCHANGED <<cur, conns, outbox>> /\ rtask' = target
        /\ at' = [at EXCEPT ![target] = cur] /\ sess' = [sess EXCEPT ![target] = "open"]
    BY <1>7 DEF HandshakeAck
  <2>2. \A x \in Transports : at'[x] = at[x] \/ at'[x] = cur
    BY <2>1 DEF LinkOK
  <2>3. \A x \in Transports : x > conns => sess'[x] = sess[x] /\ inbox'[x] = inbox[x]
    <3>1. \A x \in Transports : x > conns => x # target /\ x # cur
      BY <1>0, <1>a
    <3> QED
      BY <2>1, <3>1, VisitMoves DEF NetOK
  <2>4. \A x \in Transports : at'[x] <= conns
    BY <1>a, <2>2
  <2>5. target' <= conns /\ loop' # "shaking"
    BY <1>a, <2>1, VisitMoves
  <2>6. \A x \in Transports : x > conns => Unopened(x)'
    BY <1>a, <2>1, <2>3 DEF Unopened
  <2> QED
    BY <1>a, <2>1, <2>4, <2>5, <2>6 DEF OpensFresh
<1>8. CASE ResubNext
  <2>1. Visit(left, rtask) /\ UNCHANGED <<cur, rtask, at, conns, outbox, sess>>
    BY <1>8 DEF ResubNext, server, link, tasks
  <2>2. \A x \in Transports : x > conns => inbox'[x] = inbox[x]
    <3>1. \A x \in Transports : x > conns => x # cur
      BY <1>0, <1>a
    <3> QED
      BY <2>1, <3>1, VisitMoves
  <2>3. target' <= conns /\ loop' # "shaking"
    BY <1>a, <2>1, VisitMoves
  <2> QED
    BY <1>a, <2>1, <2>2, <2>3 DEF OpensFresh, Unopened
<1>9. ASSUME NEW t \in Transports, Drop(t) PROVE OpensFresh'
  BY <1>9, <1>c DEF Drop, conn, server
<1>10. CASE DialFail \/ HandshakeFail \/ ResubRaise \/ WatchEnds \/ Wake
  <2>1. /\ UNCHANGED <<cur, rtask, rd, at, target, conns, inbox, outbox, sess>> /\ loop' # "shaking"
    BY <1>10 DEF DialFail, HandshakeFail, ResubRaise, WatchEnds, Wake, link, tasks, net, server
  <2> QED
    BY <1>a, <2>1 DEF OpensFresh, Unopened
<1>11. CASE UNCHANGED vars
  BY <1>11, <1>c DEF vars, conn, net, server
<1> QED
  BY <1>1, <1>2, <1>3, <1>4, <1>5, <1>6, <1>7, <1>8, <1>9, <1>10, <1>11 DEF Next, Reader, Connect

\* A connection that serves was just set up, or served before; its reader reads it, and a
\* reader that has come over to it stays.
LEMMA ServingStep ==
  ASSUME TInv, OpensFresh, ServingIsRead, [Next]_vars, Serving'
  PROVE  /\ cur' = cur /\ rd'[cur'] = "reading" /\ at'[cur'] = cur'
         /\ HandshakeAck \/ (Serving /\ (Joined => Joined'))
<1> USE Given DEF TInv
<1> DEFINE Goal == /\ cur' = cur /\ rd'[cur'] = "reading" /\ at'[cur'] = cur'
                   /\ HandshakeAck \/ (Serving /\ (Joined => Joined'))
<1>0. cur # 0 => cur \in Transports
  BY DEF LinkOK, Transports
<1>1. ASSUME UNCHANGED <<connected, cur, rd, at>>, loop = loop' \/ loop = "resub" PROVE Goal
  <2>1. Serving
    BY <1>1 DEF Serving
  <2> QED
    BY <1>1, <2>1 DEF ServingIsRead, Joined
<1>2. ASSUME NEW t \in Transports, ReadMessage(t) PROVE Goal
  <2>1. UNCHANGED <<cur, loop>> /\ (Die(t) \/ ReadOn(t, outbox'))
    BY <1>2, MessageRead
  <2>2. cur # 0 /\ at' = [at EXCEPT ![t] = cur] /\ UNCHANGED <<rd, connected>>
    BY <2>1 DEF Die, ReadOn, Serving
  <2>3. Serving /\ cur \in Transports
    BY <1>0, <2>1, <2>2 DEF Serving
  <2>4. rd[cur] = "reading" /\ at[cur] = cur
    BY <2>3 DEF ServingIsRead
  <2>5. \A x \in Transports : at[x] = cur => at'[x] = cur
    BY <2>2 DEF LinkOK
  <2>6. Joined => Joined'
    BY <2>1, <2>2, <2>5 DEF Joined
  <2> QED
    BY <2>1, <2>2, <2>3, <2>4, <2>5, <2>6
<1>3. ASSUME NEW t \in Transports, ReaderEnds(t) PROVE FALSE
  BY <1>3 DEF ReaderEnds, Die, Serving
<1>4. ASSUME NEW t \in Transports, ReaderLost(t) \/ FinishCleanup(t) \/ CancelledEnds(t) PROVE FALSE
  BY <1>4, CleanedUp DEF Serving
<1>5. CASE HandshakeAck
  <2>1. /\ loop = "shaking" /\ cur' = cur /\ cur # 0
        /\ rd' = [rd EXCEPT ![target] = IF cur = 0 THEN "failed" ELSE "reading"]
        /\ at' = [at EXCEPT ![target] = cur]
    BY <1>5 DEF HandshakeAck, Serving
  <2>2. cur = target /\ target \in Transports
    BY <1>0, <2>1 DEF OpensFresh
  <2> QED
    BY <1>5, <2>1, <2>2 DEF LinkOK
<1>6. ASSUME NEW c \in Calls, Caller(c) \/ Coroutine(c) PROVE Goal
  BY <1>1, <1>6, CallerMoves DEF link, tasks, conn
<1>7. ASSUME NEW t \in Transports, Drop(t) \/ Serve(t) \/ Push(t) \/ CloseSession(t) PROVE Goal
  <2>1. UNCHANGED <<link, tasks, conn>>
    BY <1>7 DEF Drop, Serve, Push, CloseSession
  <2> QED
    BY <1>1, <2>1 DEF link, tasks, conn
<1>8. CASE ResubNext
  BY <1>1, <1>8 DEF ResubNext, link, tasks
<1>9. CASE Dial \/ DialFail \/ HandshakeFail \/ ResubRaise \/ WatchEnds \/ Wake
  BY <1>9 DEF Dial, DialFail, HandshakeFail, ResubRaise, WatchEnds, Wake, Serving
<1>10. CASE UNCHANGED vars
  BY <1>1, <1>10 DEF vars, link, tasks, conn
<1> QED
  BY <1>2, <1>3, <1>4, <1>5, <1>6, <1>7, <1>8, <1>9, <1>10 DEF Next, Reader, Connect

-----------------------------------------------------------------------------
(* Requests and answers on the current transport. *)

\* What is left of a queue when at most its head was taken, and something else added.
Rests(new, old, else) ==
  \E o \in {0, 1} : \A i \in 1..Len(new) : new[i] = else \/ (i + o \in 1..Len(old) /\ new[i] = old[i + o])

LEMMA TailRests ==
  ASSUME NEW S, NEW q \in Seq(S), NEW else
  PROVE  /\ Rests(q, q, else) /\ Rests(<<>>, q, else) /\ (q # <<>> => Rests(Tail(q), q, else))
         /\ Rests(Append(q, else), q, else)
<1>1. Rests(q, q, else)
  <2>1. \A i \in 1..Len(q) : i + 0 \in 1..Len(q) /\ q[i] = q[i + 0]
    OBVIOUS
  <2> QED
    BY <2>1 DEF Rests
<1>2. Rests(<<>>, q, else)
  BY DEF Rests
<1>3. ASSUME q # <<>> PROVE Rests(Tail(q), q, else)
  <2>1. \A i \in 1..Len(Tail(q)) : i + 1 \in 1..Len(q) /\ Tail(q)[i] = q[i + 1]
    BY <1>3
  <2> QED
    BY <2>1 DEF Rests
<1>4. Rests(Append(q, else), q, else)
  <2>1. \A i \in 1..Len(Append(q, else)) : \/ Append(q, else)[i] = else
                                           \/ i + 0 \in 1..Len(q) /\ Append(q, else)[i] = q[i + 0]
    OBVIOUS
  <2> QED
    BY <2>1 DEF Rests
<1> QED
  BY <1>1, <1>2, <1>3, <1>4

\* Steps that ask for nothing on the current transport and answer no request there.
LEMMA OnceFrame ==
  ASSUME TInv, AskedOnce, cur' = cur, UNCHANGED <<loop, asked>>,
         pend'[Resub] = pend[Resub],
         \A c \in Calls : caller'[c] \in {"idle", "waiting"} => caller[c] \in {"idle", "waiting"},
         cur # 0 => \E none : none \notin Users /\ Rests(inbox'[cur], inbox[cur], none),
         cur # 0 => Rests(outbox'[cur], outbox[cur], Tick),
         cur # 0 => inbox'[cur] \in Seq(Users)
  PROVE  AskedOnce'
<1>0. pend'[Resub] # 0 => loop' = "resub" /\ pend'[Resub] = cur' /\ asked' # {}
  BY DEF AskedOnce
<1>1. CASE cur = 0
  BY <1>0, <1>1 DEF AskedOnce
<1>2. CASE cur # 0
  <2>1. PICK o \in {0, 1} : \A i \in 1..Len(inbox'[cur]) :
          i + o \in 1..Len(inbox[cur]) /\ inbox'[cur][i] = inbox[cur][i + o]
    <3>1. \A i \in 1..Len(inbox'[cur]) : inbox'[cur][i] \in Users
      BY <1>2
    <3> QED
      BY <1>2, <3>1 DEF Rests
  <2>2. PICK p \in {0, 1} : \A i \in 1..Len(outbox'[cur]) :
          outbox'[cur][i] = Tick \/ (i + p \in 1..Len(outbox[cur]) /\ outbox'[cur][i] = outbox[cur][i + p])
    BY <1>2 DEF Rests
  <2>3. \A u : (Waits(u)' => Waits(u)) /\ (Spoken(u)' => Spoken(u))
    BY <2>1, <2>2 DEF Waits, Spoken, Answer
  <2>4. \A i, j \in 1..Len(inbox'[cur]) : inbox'[cur][i] = inbox'[cur][j] => i = j
    <3>1. \A i, j \in 1..Len(inbox[cur]) : inbox[cur][i] = inbox[cur][j] => i = j
      BY <1>2 DEF AskedOnce
    <3>2. SUFFICES ASSUME NEW i \in 1..Len(inbox'[cur]), NEW j \in 1..Len(inbox'[cur]),
                          inbox'[cur][i] = inbox'[cur][j]
                   PROVE  i = j
      OBVIOUS
    <3>3. i + o = j + o
      BY <2>1, <3>1, <3>2
    <3> QED
      BY <3>3
  <2>5. \A i, j \in 1..Len(outbox'[cur]) : Answer(i, Resub)' /\ Answer(j, Resub)' => i = j
    <3>1. \A i, j \in 1..Len(outbox[cur]) : Answer(i, Resub) /\ Answer(j, Resub) => i = j
      BY <1>2 DEF AskedOnce
    <3>2. SUFFICES ASSUME NEW i \in 1..Len(outbox'[cur]), NEW j \in 1..Len(outbox'[cur]),
                          Answer(i, Resub)', Answer(j, Resub)'
                   PROVE  i = j
      OBVIOUS
    <3>3. /\ i + p \in 1..Len(outbox[cur]) /\ Answer(i + p, Resub)
          /\ j + p \in 1..Len(outbox[cur]) /\ Answer(j + p, Resub)
      BY <2>2, <3>2 DEF Answer
    <3>4. i + p = j + p
      BY <3>1, <3>3
    <3> QED
      BY <3>4
  <2>6. Resub \notin Calls /\ cur' # 0
    BY <1>2, Given
  <2> QED
    BY <1>0, <1>2, <2>3, <2>4, <2>5, <2>6 DEF AskedOnce
<1> QED
  BY <1>1, <1>2

LEMMA Appended ==
  ASSUME NEW S, NEW q \in Seq(S), NEW x
  PROVE  \A i \in 1..Len(Append(q, x)) :
           \/ i \in 1..Len(q) /\ Append(q, x)[i] = q[i]
           \/ i = Len(q) + 1 /\ Append(q, x)[i] = x
OBVIOUS

\* The session serves the request at the head of the current transport's queue.
LEMMA OnceServed ==
  ASSUME TInv, AskedOnce, cur \in Transports, inbox[cur] # <<>>, cur' = cur,
         UNCHANGED <<loop, asked, caller, pend>>,
         NEW u, NEW kind, u = Head(inbox[cur]), inbox'[cur] = Tail(inbox[cur]),
         \/ outbox'[cur] = outbox[cur]
         \/ outbox'[cur] = Append(outbox[cur], <<u, kind>>)
  PROVE  AskedOnce' /\ ~Waits(u)'
<1>0. inbox[cur] \in Seq(Users) /\ outbox[cur] \in Seq(Answers) /\ cur # 0
  BY DEF TInv, NetOK, Transports
<1>1. /\ Len(inbox[cur]) \in Nat /\ Len(inbox[cur]) > 0 /\ inbox[cur][1] = u
      /\ \A i \in 1..Len(inbox'[cur]) : i + 1 \in 1..Len(inbox[cur]) /\ inbox'[cur][i] = inbox[cur][i + 1]
  BY <1>0
<1>2. \A i, j \in 1..Len(inbox[cur]) : inbox[cur][i] = inbox[cur][j] => i = j
  BY <1>0 DEF AskedOnce
<1>3. /\ ~Waits(u)' /\ Waits(u)
      /\ \A i, j \in 1..Len(inbox'[cur]) : inbox'[cur][i] = inbox'[cur][j] => i = j
  <2>1. \A i \in 1..Len(inbox'[cur]) : i \in Nat
    OBVIOUS
  <2>2. ASSUME NEW i \in 1..Len(inbox'[cur]) PROVE inbox'[cur][i] # u
    <3>1. i + 1 # 1 /\ 1 \in 1..Len(inbox[cur]) /\ i + 1 \in 1..Len(inbox[cur])
      BY <1>1, <2>1
    <3> QED
      BY <1>1, <1>2, <3>1
  <2>3. ASSUME NEW i \in 1..Len(inbox'[cur]), NEW j \in 1..Len(inbox'[cur]), inbox'[cur][i] = inbox'[cur][j]
        PROVE  i = j
    <3>1. i + 1 = j + 1
      BY <1>1, <1>2, <2>3
    <3> QED
      BY <2>1, <3>1
  <2>4. ~Waits(u)'
    BY <2>2 DEF Waits
  <2>5. 1 \in 1..Len(inbox[cur])
    BY <1>1
  <2>6. Waits(u)
    BY <1>1, <2>5 DEF Waits
  <2> QED
    BY <2>3, <2>4, <2>6
<1>4. \A v : Waits(v)' => Waits(v)
  BY <1>1 DEF Waits
<1>5. /\ \A i \in 1..Len(outbox'[cur]) : \A v : Answer(i, v)' =>
           \/ i \in 1..Len(outbox[cur]) /\ Answer(i, v)
           \/ i = Len(outbox[cur]) + 1 /\ v = u
      /\ Len(outbox[cur]) \in Nat
  <2>1. CASE outbox'[cur] = outbox[cur]
    BY <1>0, <2>1 DEF Answer
  <2>2. CASE outbox'[cur] = Append(outbox[cur], <<u, kind>>)
    <3> HIDE DEF Answers
    <3>1. ASSUME NEW i \in 1..Len(outbox'[cur])
          PROVE  \/ i \in 1..Len(outbox[cur]) /\ outbox'[cur][i] = outbox[cur][i]
                 \/ i = Len(outbox[cur]) + 1 /\ outbox'[cur][i] = <<u, kind>>
      BY <1>0, <2>2, Appended
    <3>2. <<u, kind>>[1] = u
      OBVIOUS
    <3>3. ASSUME NEW i \in 1..Len(outbox'[cur]), NEW v, Answer(i, v)'
          PROVE  \/ i \in 1..Len(outbox[cur]) /\ Answer(i, v)
                 \/ i = Len(outbox[cur]) + 1 /\ v = u
      <4>1. outbox'[cur][i] # Tick /\ outbox'[cur][i][1] = v
        BY <3>3 DEF Answer
      <4> QED
        BY <3>1, <3>2, <4>1 DEF Answer
    <3> QED
      BY <1>0, <3>3
  <2> QED
    BY <2>1, <2>2
<1>6. \A v : Spoken(v)' => Spoken(v) \/ v = u
  BY <1>5 DEF Spoken
<1>7. \A c \in Calls : caller[c] \in {"idle", "waiting"} => ~Waits(c)' /\ ~Spoken(c)'
  BY <1>0, <1>3, <1>4, <1>6 DEF AskedOnce
<1>8. \A i, j \in 1..Len(outbox'[cur]) : Answer(i, Resub)' /\ Answer(j, Resub)' => i = j
  <2>1. u = Resub => ~Spoken(Resub)
    BY <1>0, <1>3 DEF AskedOnce
  <2>2. \A i, j \in 1..Len(outbox[cur]) : Answer(i, Resub) /\ Answer(j, Resub) => i = j
    BY <1>0 DEF AskedOnce
  <2>3. CASE u = Resub
    <3>1. \A i \in 1..Len(outbox[cur]) : ~Answer(i, Resub)
      BY <2>1, <2>3 DEF Spoken
    <3> QED
      BY <1>5, <3>1
  <2>4. CASE u # Resub
    <3>1. \A i \in 1..Len(outbox'[cur]) : Answer(i, Resub)' => i \in 1..Len(outbox[cur]) /\ Answer(i, Resub)
      BY <1>5, <2>4
    <3> QED
      BY <2>2, <3>1
  <2> QED
    BY <2>3, <2>4
<1>9. ~(Waits(Resub)' /\ Spoken(Resub)')
  BY <1>0, <1>3, <1>4, <1>6 DEF AskedOnce
<1>10. Waits(Resub)' \/ Spoken(Resub)' => Waits(Resub) \/ Spoken(Resub)
  BY <1>3, <1>4, <1>6
<1>11. /\ pend[Resub] # 0 => loop = "resub" /\ pend[Resub] = cur /\ asked # {}
       /\ Waits(Resub) \/ Spoken(Resub) => loop = "resub" /\ asked # {}
  BY <1>0 DEF AskedOnce
<1> QED
  BY <1>3, <1>7, <1>8, <1>9, <1>10, <1>11 DEF AskedOnce

\* The request of a user that has nothing under way is added to the current transport's queue.
LEMMA OnceAsked ==
  ASSUME TInv, cur \in Transports, cur' = cur, NEW u \in Users, ~Waits(u), Write(u),
         \A i, j \in 1..Len(inbox[cur]) : inbox[cur][i] = inbox[cur][j] => i = j
  PROVE  /\ \A v : Waits(v)' => Waits(v) \/ v = u
         /\ \A i, j \in 1..Len(inbox'[cur]) : inbox'[cur][i] = inbox'[cur][j] => i = j
<1>0. inbox[cur] \in Seq(Users) /\ cur # 0
  BY DEF TInv, NetOK, Transports
<1>1. \/ inbox'[cur] = inbox[cur]
      \/ inbox'[cur] = Append(inbox[cur], u)
  BY <1>0, Written DEF TInv, NetOK
<1>2. CASE inbox'[cur] = inbox[cur]
  BY <1>2 DEF Waits
<1>3. CASE inbox'[cur] = Append(inbox[cur], u)
  <2>1. \A i \in 1..Len(inbox'[cur]) :
          \/ i \in 1..Len(inbox[cur]) /\ inbox'[cur][i] = inbox[cur][i]
          \/ i = Len(inbox[cur]) + 1 /\ inbox'[cur][i] = u
    BY <1>0, <1>3
  <2>2. \A i \in 1..Len(inbox[cur]) : inbox[cur][i] # u
    BY DEF Waits
  <2> QED
    BY <2>1, <2>2 DEF Waits
<1> QED
  BY <1>1, <1>2, <1>3

\* The connect loop asks for its next key, or for nothing more.
LEMMA OnceVisit ==
  ASSUME TInv, AskedOnce, NEW ks, NEW reader, Visit(ks, reader), cur' = cur, UNCHANGED <<caller, outbox>>,
         loop = "shaking" \/ asked = {}
  PROVE  AskedOnce'
<1> USE Given DEF TInv
<1>0. cur # 0 => /\ cur \in Transports /\ ~Waits(Resub) /\ ~Spoken(Resub)
                 /\ \A c \in Calls : caller[c] \in {"idle", "waiting"} => ~Waits(c) /\ ~Spoken(c)
                 /\ \A i, j \in 1..Len(inbox[cur]) : inbox[cur][i] = inbox[cur][j] => i = j
  BY DEF AskedOnce, LinkOK, Transports
<1>1. pend[Resub] = 0 /\ Resub \in Users
  BY DEF AskedOnce, Users
<1>2. \A v : Spoken(v)' <=> Spoken(v)
  BY DEF Spoken, Answer
<1>3. CASE UNCHANGED <<pend, inbox>>
  <2>1. \A v : Waits(v)' <=> Waits(v)
    BY <1>3 DEF Waits
  <2>2. \A i, j \in 1..Len(outbox'[cur]) : ~(Answer(i, Resub)' /\ cur # 0)
    BY <1>0 DEF Spoken, Answer
  <2> QED
    BY <1>0, <1>1, <1>2, <1>3, <2>1, <2>2 DEF AskedOnce
<1>4. CASE /\ cur # 0 /\ loop' = "resub" /\ asked' # {}
           /\ pend' = [pend EXCEPT ![Resub] = cur] /\ Write(Resub)
  <2>1. /\ \A v : Waits(v)' => Waits(v) \/ v = Resub
        /\ \A i, j \in 1..Len(inbox'[cur]) : inbox'[cur][i] = inbox'[cur][j] => i = j
    BY <1>0, <1>1, <1>4, OnceAsked
  <2>2. \A i, j \in 1..Len(outbox'[cur]) : ~Answer(i, Resub)'
    BY <1>0, <1>4 DEF Spoken, Answer
  <2>3. pend'[Resub] = cur
    BY <1>1, <1>4 DEF ConnOK
  <2>4. \A c \in Calls : caller'[c] \in {"idle", "waiting"} => ~Waits(c)' /\ ~Spoken(c)'
    BY <1>0, <1>2, <1>4, <2>1
  <2> QED
    BY <1>0, <1>2, <1>4, <2>1, <2>2, <2>3, <2>4 DEF AskedOnce
<1>5. \/ UNCHANGED <<pend, inbox>>
      \/ /\ cur # 0 /\ loop' = "resub" /\ asked' # {}
         /\ pend' = [pend EXCEPT ![Resub] = cur] /\ Write(Resub)
  BY DEF Visit
<1> QED
  BY <1>3, <1>4, <1>5

LEMMA OnceStep ==
  ASSUME TInv, OpensFresh, AskedOnce, [Next]_vars
  PROVE  AskedOnce'
<1> USE Given DEF TInv
<1> DEFINE none == CHOOSE x : x \notin Users
<1>0. /\ none \notin Users
      /\ cur # 0 => cur \in Transports /\ inbox[cur] \in Seq(Users) /\ outbox[cur] \in Seq(Answers)
  <2>1. \E x : x \notin Users
    BY NoSetContainsEverything
  <2> QED
    BY <2>1 DEF LinkOK, NetOK, Transports
<1> HIDE DEF none
<1>a. ASSUME cur' = cur, UNCHANGED <<loop, asked>>, pend'[Resub] = pend[Resub],
             \A c \in Calls : caller'[c] \in {"idle", "waiting"} => caller[c] \in {"idle", "waiting"},
             cur # 0 => inbox'[cur] = inbox[cur] \/ inbox'[cur] = <<>>,
             cur # 0 => \/ outbox'[cur] = outbox[cur]
                        \/ outbox'[cur] = Append(outbox[cur], Tick)
                        \/ outbox[cur] # <<>> /\ outbox'[cur] = Tail(outbox[cur])
      PROVE  AskedOnce'
  <2>1. cur # 0 => Rests(inbox'[cur], inbox[cur], none) /\ inbox'[cur] \in Seq(Users)
    <3>1. ASSUME cur # 0 PROVE Rests(inbox[cur], inbox[cur], none) /\ Rests(<<>>, inbox[cur], none)
      BY <1>0, <3>1, TailRests
    <3>2. <<>> \in Seq(Users)
      OBVIOUS
    <3> QED
      BY <1>0, <1>a, <3>1, <3>2
  <2>2. cur # 0 => Rests(outbox'[cur], outbox[cur], Tick)
    <3> HIDE DEF Answers
    <3>1. ASSUME cur # 0
          PROVE  /\ Rests(outbox[cur], outbox[cur], Tick) /\ Rests(Append(outbox[cur], Tick), outbox[cur], Tick)
                 /\ (outbox[cur] # <<>> => Rests(Tail(outbox[cur]), outbox[cur], Tick))
      BY <1>0, <3>1, TailRests
    <3> QED
      BY <1>a, <3>1
  <2> QED
    BY <1>0, <1>a, <2>1, <2>2, OnceFrame
<1>1. ASSUME NEW c \in Calls, Caller(c) \/ Coroutine(c), ~Send(c) PROVE AskedOnce'
  <2>1. UNCHANGED <<cur, loop, asked, inbox, outbox>> /\ pend'[Resub] = pend[Resub]
    BY <1>1, CallerMoves DEF link, conn, ConnOK, Users
  <2>2. \A d \in Calls : caller'[d] \in {"idle", "waiting"} => caller[d] \in {"idle", "waiting"}
    BY <1>1 DEF Caller, Coroutine, Begin, BeginSubscribe, BeginUnsubscribe, MayBegin, CallerTimeout,
       CancelRun, SendNoWriter, LInv, CallsOK
  <2> QED
    BY <1>a, <2>1, <2>2
<1>2. ASSUME NEW c \in Calls, Send(c) PROVE AskedOnce'
  <2>1. /\ UNCHANGED <<loop, asked, outbox>> /\ cur' = cur /\ pend'[Resub] = pend[Resub]
        /\ caller[c] = "waiting" /\ cur # 0
        /\ caller' = [caller EXCEPT ![c] = "sent"] /\ Write(c) /\ c \in Users
    BY <1>2 DEF Send, link, conn, ConnOK, Users
  <2>2. /\ ~Waits(c) /\ c # Resub
        /\ \A i, j \in 1..Len(inbox[cur]) : inbox[cur][i] = inbox[cur][j] => i = j
    BY <2>1 DEF AskedOnce
  <2>3. /\ \A v : Waits(v)' => Waits(v) \/ v = c
        /\ \A i, j \in 1..Len(inbox'[cur]) : inbox'[cur][i] = inbox'[cur][j] => i = j
    BY <1>0, <2>1, <2>2, OnceAsked
  <2>4. \A v : /\ Spoken(v)' <=> Spoken(v)
               /\ \A i : Answer(i, v)' <=> Answer(i, v)
    BY <2>1 DEF Spoken, Answer
  <2>5. \A d \in Calls : caller'[d] \in {"idle", "waiting"} => d # c /\ caller[d] = caller'[d]
    BY <2>1 DEF LInv, CallsOK
  <2>6. \A i, j \in 1..Len(outbox'[cur]) : Answer(i, Resub)' /\ Answer(j, Resub)' => i = j
    BY <2>1, <2>4 DEF AskedOnce
  <2> QED
    BY <2>1, <2>2, <2>3, <2>4, <2>5, <2>6 DEF AskedOnce
<1>3. ASSUME NEW t \in Transports, ReadMessage(t) PROVE AskedOnce'
  <2> DEFINE n == at[t]
             m == Head(outbox[n])
  <2>1. /\ n \in Transports /\ outbox[n] # <<>> /\ outbox' = [outbox EXCEPT ![n] = Tail(outbox[n])]
        /\ cur' = cur /\ UNCHANGED <<loop, inbox>>
        /\ \/ UNCHANGED <<caller, asked>> /\ (pend' = pend \/ \E c \in Calls : pend' = [pend EXCEPT ![c] = 0])
           \/ m # Tick /\ m[1] \in Users /\ pend[m[1]] = n /\ Deliver(m[1], m[2])
    BY <1>3, MessageRead
  <2> HIDE DEF n
  <2>2. cur # 0 => outbox'[cur] = outbox[cur] \/ (outbox[cur] # <<>> /\ outbox'[cur] = Tail(outbox[cur]))
    BY <1>0, <2>1 DEF NetOK
  <2>3. CASE /\ UNCHANGED <<caller, asked>>
             /\ pend' = pend \/ \E c \in Calls : pend' = [pend EXCEPT ![c] = 0]
    <3>1. pend'[Resub] = pend[Resub]
      BY <2>3 DEF ConnOK, Users
    <3> QED
      BY <1>a, <2>1, <2>2, <2>3, <3>1
  <2>4. ASSUME m # Tick, m[1] \in Calls, Deliver(m[1], m[2]) PROVE AskedOnce'
    <3> HIDE DEF m
    <3>1. m[1] \in Users /\ m[1] # Resub
      BY <2>4 DEF Users
    <3>2. /\ pend' = [pend EXCEPT ![m[1]] = 0] /\ asked' = asked
          /\ \A d \in Calls : caller'[d] = IF d = m[1] THEN "done" ELSE caller[d]
      BY <2>4, <3>1, Delivered
    <3>3. pend'[Resub] = pend[Resub]
      BY <3>1, <3>2 DEF ConnOK, Users
    <3> QED
      BY <1>a, <2>1, <2>2, <3>2, <3>3
  <2>5. ASSUME m # Tick, m[1] = Resub, pend[Resub] = n, Deliver(Resub, m[2]) PROVE AskedOnce'
    <3>1. Resub \in Users
      BY DEF Users
    <3>2. n = cur /\ cur # 0
      BY <2>1, <2>5 DEF AskedOnce, Transports
    <3>3. pend' = [pend EXCEPT ![Resub] = 0] /\ \A d \in Calls : caller'[d] = caller[d]
      BY <2>5, <3>1, Delivered
    <3>4. pend'[Resub] = 0
      BY <3>1, <3>3 DEF ConnOK
    <3>5. /\ outbox[cur] # <<>> /\ outbox[cur] \in Seq(Answers) /\ outbox'[cur] = Tail(outbox[cur])
          /\ 1 \in 1..Len(outbox[cur]) /\ outbox[cur][1] = m
      BY <1>0, <2>1, <3>2 DEF NetOK
    <3>6. Answer(1, Resub) /\ Spoken(Resub)
      BY <2>5, <3>5 DEF Answer, Spoken
    <3>7. \A i \in 1..Len(outbox'[cur]) :
            i \in Nat /\ i + 1 \in 1..Len(outbox[cur]) /\ outbox'[cur][i] = outbox[cur][i + 1]
      BY <3>5
    <3>8. \A i \in 1..Len(outbox'[cur]) : \A v : Answer(i, v)' => v # Resub /\ Answer(i + 1, v)
      <4>1. ASSUME NEW i \in 1..Len(outbox'[cur]), NEW v, Answer(i, v)'
            PROVE  v # Resub /\ Answer(i + 1, v)
        <5>1. Answer(i + 1, v) /\ i + 1 \in 1..Len(outbox[cur])
          BY <2>1, <3>7, <4>1 DEF Answer
        <5>2. i + 1 # 1
          BY <3>7
        <5> QED
          BY <3>2, <3>5, <3>6, <5>1, <5>2 DEF AskedOnce
      <4> QED
        BY <4>1
    <3>9. ~Spoken(Resub)' /\ \A v : Spoken(v)' => Spoken(v)
      BY <2>1, <3>7, <3>8 DEF Spoken
    <3>10. ~Waits(Resub)
      BY <3>2, <3>6 DEF AskedOnce
    <3>11. \A v : Waits(v)' <=> Waits(v)
      BY <2>1 DEF Waits
    <3>12. /\ \A i, j \in 1..Len(inbox'[cur]) : inbox'[cur][i] = inbox'[cur][j] => i = j
           /\ \A c \in Calls : caller'[c] \in {"idle", "waiting"} => ~Waits(c)' /\ ~Spoken(c)'
      BY <2>1, <3>2, <3>3, <3>9, <3>11 DEF AskedOnce
    <3> QED
      BY <2>1, <3>2, <3>4, <3>8, <3>9, <3>10, <3>11, <3>12 DEF AskedOnce
  <2> HIDE DEF m
  <2> QED
    BY <2>1, <2>3, <2>4, <2>5 DEF Users
<1>4. ASSUME NEW t \in Transports, ReaderEnds(t) PROVE AskedOnce'
  <2>1. cur' = cur /\ UNCHANGED <<loop, asked, pend, caller, inbox, outbox>>
    BY <1>4 DEF ReaderEnds, calls, conn
  <2> QED
    BY <1>a, <2>1
<1>5. ASSUME NEW t \in Transports, ReaderLost(t) \/ FinishCleanup(t) \/ CancelledEnds(t) PROVE AskedOnce'
  <2>1. cur' = 0 /\ pend'[Resub] = 0
    BY <1>5, CleanedUp DEF Users
  <2> QED
    BY <2>1 DEF AskedOnce
<1>6. ASSUME NEW t \in Transports, Drop(t) \/ Push(t) \/ CloseSession(t) PROVE AskedOnce'
  <2>1. cur' = cur /\ UNCHANGED <<loop, asked, pend, caller>>
    BY <1>6 DEF Drop, Push, CloseSession, calls, conn, link
  <2>2. cur # 0 => /\ inbox'[cur] = inbox[cur] \/ inbox'[cur] = <<>>
                   /\ outbox'[cur] = outbox[cur] \/ outbox'[cur] = Append(outbox[cur], Tick)
    BY <1>0, <1>6 DEF Drop, Push, CloseSession, NetOK
  <2> QED
    BY <1>a, <2>1, <2>2
<1>7. ASSUME NEW t \in Transports, Serve(t) PROVE AskedOnce'
  <2>1. /\ cur' = cur /\ UNCHANGED <<loop, asked, pend, caller>>
        /\ inbox[t] # <<>> /\ inbox' = [inbox EXCEPT ![t] = Tail(inbox[t])]
        /\ \E kind : outbox' = [outbox EXCEPT ![t] = IF alive[t] THEN Append(outbox[t], <<Head(inbox[t]), kind>>)
                                                                 ELSE outbox[t]]
    BY <1>7 DEF Serve, calls, conn, link
  <2>2. CASE t = cur
    <3>1. PICK kind : \/ outbox'[cur] = outbox[cur]
                      \/ outbox'[cur] = Append(outbox[cur], <<Head(inbox[cur]), kind>>)
      BY <2>1, <2>2 DEF NetOK
    <3>2. inbox'[cur] = Tail(inbox[cur]) /\ inbox[cur] # <<>> /\ cur \in Transports
      BY <2>1, <2>2 DEF NetOK
    <3> QED
      BY <2>1, <3>1, <3>2, OnceServed
  <2>3. CASE t # cur
    <3>1. cur # 0 => inbox'[cur] = inbox[cur] /\ outbox'[cur] = outbox[cur]
      BY <1>0, <2>1, <2>3 DEF NetOK
    <3> QED
      BY <1>a, <2>1, <3>1
  <2> QED
    BY <2>2, <2>3
<1>8. CASE Dial
  <2>1. /\ loop = "dial" /\ pend' = pend /\ UNCHANGED <<inbox, outbox>>
        /\ cur' = conns + 1 /\ conns + 1 \in Transports /\ conns + 1 > conns
    BY <1>8 DEF Dial, calls, NetOK, Transports
  <2>2. inbox'[cur'] = <<>> /\ outbox'[cur'] = <<>> /\ pend'[Resub] = 0
    BY <2>1 DEF OpensFresh, Unopened, AskedOnce
  <2>3. 1..Len(inbox'[cur']) = {} /\ 1..Len(outbox'[cur']) = {}
    BY <2>2
  <2> QED
    BY <2>2, <2>3 DEF AskedOnce, Waits, Spoken
<1>9. CASE HandshakeAck
  BY <1>9, OnceVisit DEF HandshakeAck
<1>10. CASE ResubNext
  <2>1. \E ks, reader : Visit(ks, reader)
    BY <1>10 DEF ResubNext
  <2>2. cur' = cur /\ UNCHANGED <<caller, outbox>> /\ asked = {}
    BY <1>10 DEF ResubNext, link
  <2> QED
    BY <2>1, <2>2, OnceVisit
<1>11. CASE DialFail \/ HandshakeFail \/ ResubRaise \/ WatchEnds \/ Wake
  <2>1. /\ cur' = cur /\ UNCHANGED <<caller, pend, asked, inbox, outbox>>
        /\ loop # "resub" \/ asked = {}
    BY <1>11 DEF DialFail, HandshakeFail, ResubRaise, WatchEnds, Wake, calls, link, net
  <2>2. pend[Resub] = 0 /\ (cur # 0 => ~Waits(Resub) /\ ~Spoken(Resub))
    BY <2>1 DEF AskedOnce
  <2>3. \A v : /\ Waits(v)' <=> Waits(v)
               /\ Spoken(v)' <=> Spoken(v)
               /\ \A i : Answer(i, v)' <=> Answer(i, v)
    BY <2>1 DEF Waits, Spoken, Answer
  <2>4. \A i, j \in 1..Len(outbox'[cur]) : cur # 0 /\ Answer(i, Resub)' /\ Answer(j, Resub)' => i = j
    BY <2>1, <2>3 DEF AskedOnce
  <2> QED
    BY <2>1, <2>2, <2>3, <2>4 DEF AskedOnce
<1>12. CASE UNCHANGED vars
  BY <1>12, <1>a DEF vars, link, conn, net, calls
<1> QED
  BY <1>1, <1>2, <1>3, <1>4, <1>5, <1>6, <1>7, <1>8, <1>9, <1>10, <1>11, <1>12 DEF Next, Reader, Connect

\* What a subscription under way may count on (the second part of AskedInOrder).
Ordered(c) ==
  /\ \A i \in Leaving : pend[c] = cur /\ \E j \in 1..Len(inbox[cur]) : j > i /\ inbox[cur][j] = c
  /\ pend[c] = cur /\ Spoken(c) => Leaving = {}
  /\ pend[c] = cur => \A i \in 1..Len(outbox[cur]) :
       outbox[cur][i] # Tick /\ outbox[cur][i] = <<c, "ok">> => asks[c] \subseteq subs[cur]

\* No answer is new in the second of two queues.
NoneNew(old, new) ==
  \A i \in 1..Len(new) : new[i] # Tick => \E j \in 1..Len(old) : new[i] = old[j]

LEMMA OldAnswers ==
  ASSUME NEW q \in Seq(Answers)
  PROVE  NoneNew(q, q) /\ NoneNew(q, Append(q, Tick)) /\ (q # <<>> => NoneNew(q, Tail(q)))
<1> HIDE DEF Answers
<1>1. NoneNew(q, q)
  BY DEF NoneNew
<1>2. NoneNew(q, Append(q, Tick))
  BY Appended DEF NoneNew
<1>3. ASSUME q # <<>> PROVE NoneNew(q, Tail(q))
  <2>1. \A i \in 1..Len(Tail(q)) : i + 1 \in 1..Len(q) /\ Tail(q)[i] = q[i + 1]
    BY <1>3
  <2> QED
    BY <2>1 DEF NoneNew
<1> QED
  BY <1>1, <1>2, <1>3

\* A request that is no unsubscription may join the queue.
Joins(new, old) ==
  new = old \/ \E u \in Users : Action(u) # "unsubscribe" /\ new = Append(old, u)

LEMMA LeavingKept ==
  ASSUME TInv, cur \in Transports, cur' = cur, Joins(inbox'[cur], inbox[cur])
  PROVE  /\ Leaving' = Leaving
         /\ \A i \in 1..Len(inbox[cur]) : i \in 1..Len(inbox'[cur]) /\ inbox'[cur][i] = inbox[cur][i]
<1>0. inbox[cur] \in Seq(Users)
  BY DEF TInv, NetOK
<1>1. CASE inbox'[cur] = inbox[cur]
  BY <1>1 DEF Leaving
<1>2. ASSUME NEW u \in Users, Action(u) # "unsubscribe", inbox'[cur] = Append(inbox[cur], u)
      PROVE  /\ Leaving' = Leaving
             /\ \A i \in 1..Len(inbox[cur]) : i \in 1..Len(inbox'[cur]) /\ inbox'[cur][i] = inbox[cur][i]
  <2>1. \A i \in 1..Len(inbox'[cur]) : \/ i \in 1..Len(inbox[cur]) /\ inbox'[cur][i] = inbox[cur][i]
                                       \/ i = Len(inbox[cur]) + 1 /\ inbox'[cur][i] = u
    BY <1>0, <1>2, Appended
  <2>2. Len(inbox'[cur]) = Len(inbox[cur]) + 1 /\ Len(inbox[cur]) \in Nat
    BY <1>0, <1>2
  <2>3. ASSUME NEW i \in 1..Len(inbox[cur])
        PROVE  i \in 1..Len(inbox'[cur]) /\ inbox'[cur][i] = inbox[cur][i]
    <3>1. i \in 1..Len(inbox'[cur]) /\ i # Len(inbox[cur]) + 1
      BY <2>2
    <3> QED
      BY <2>1, <3>1
  <2>4. \A i : i \in Leaving' <=> i \in Leaving
    BY <1>2, <2>1, <2>3 DEF Leaving, Action
  <2> QED
    BY <2>3, <2>4
<1> QED
  BY <1>1, <1>2 DEF Joins

\* Steps that promise nothing and let nobody leave.
LEMMA OrderFrame ==
  ASSUME TInv, AskedInOrder, cur' = cur, cur # 0 => (alive'[cur] => alive[cur]),
         cur # 0 => Joins(inbox'[cur], inbox[cur]),
         cur # 0 => NoneNew(outbox[cur], outbox'[cur]),
         subs' = subs \/ (cur # 0 => subs'[cur] = subs[cur]),
         \A k \in Keys : table'[k] \subseteq table[k],
         \A c \in Calls : Kind[c] = "unsubscribe" /\ Waits(c) => asks'[c] = asks[c],
         \A c \in Calls : Kind[c] = "subscribe" /\ caller'[c] = "sent" =>
           caller[c] = "sent" /\ asks'[c] = asks[c] /\ pend'[c] = pend[c]
  PROVE  AskedInOrder'
<1> SUFFICES ASSUME cur # 0, alive'[cur] PROVE AskedInOrder'
  BY DEF AskedInOrder
<1> USE Given
<1>0. cur \in Transports /\ alive[cur] /\ subs'[cur] = subs[cur]
  BY DEF TInv, LinkOK, Transports
<1>1. /\ Leaving' = Leaving
      /\ \A i \in 1..Len(inbox[cur]) : i \in 1..Len(inbox'[cur]) /\ inbox'[cur][i] = inbox[cur][i]
  BY <1>0, LeavingKept
<1>2. \A i \in Leaving : i \in 1..Len(inbox[cur]) /\ inbox'[cur][i] = inbox[cur][i]
  BY <1>1 DEF Leaving
<1>3. ASSUME NEW i \in Leaving', NEW k \in Keys PROVE Payload(inbox[cur][i])' \cap table'[k] = {}
  <2>1. i \in Leaving /\ inbox'[cur][i] = inbox[cur][i] /\ i \in 1..Len(inbox[cur])
        /\ Action(inbox[cur][i]) = "unsubscribe" /\ inbox[cur] \in Seq(Users)
    BY <1>0, <1>1, <1>2 DEF Leaving, TInv, NetOK
  <2>2. inbox[cur][i] \in Users
    BY <2>1
  <2> DEFINE c == inbox[cur][i]
  <2>3. c \in Calls /\ c # Resub /\ Kind[c] = "unsubscribe" /\ Waits(c)
    BY <2>1, <2>2 DEF Action, Users, Waits
  <2>4. Payload(c) = asks[c] /\ Payload(inbox[cur][i])' = asks'[inbox'[cur][i]]
    BY <2>1, <2>3 DEF Payload
  <2>5. asks'[inbox'[cur][i]] = asks[c]
    BY <2>1, <2>3
  <2>6. Payload(c) \cap table[k] = {}
    BY <1>0, <2>1 DEF AskedInOrder
  <2> HIDE DEF c
  <2> QED
    BY <2>4, <2>5, <2>6
<1>4. ASSUME NEW c \in Calls, Kind[c] = "subscribe", caller'[c] = "sent" PROVE Ordered(c)'
  <2>1. Ordered(c) /\ pend'[c] = pend[c] /\ asks'[c] = asks[c]
    BY <1>0, <1>4 DEF AskedInOrder, Ordered
  <2>2. Spoken(c)' => Spoken(c)
    BY DEF Spoken, Answer, NoneNew
  <2>3. \A i \in 1..Len(outbox'[cur]) : outbox'[cur][i] # Tick /\ outbox'[cur][i] = <<c, "ok">> /\ pend[c] = cur
          => asks[c] \subseteq subs[cur]
    <3>1. SUFFICES ASSUME NEW i \in 1..Len(outbox'[cur]), outbox'[cur][i] # Tick,
                          outbox'[cur][i] = <<c, "ok">>, pend[c] = cur
                   PROVE  asks[c] \subseteq subs[cur]
      OBVIOUS
    <3>2. PICK j \in 1..Len(outbox[cur]) : outbox'[cur][i] = outbox[cur][j]
      BY <1>0, <3>1 DEF NoneNew
    <3>3. outbox[cur][j] # Tick /\ outbox[cur][j] = <<c, "ok">>
      BY <3>1, <3>2
    <3>4. \A l \in 1..Len(outbox[cur]) :
            outbox[cur][l] # Tick /\ outbox[cur][l] = <<c, "ok">> => asks[c] \subseteq subs[cur]
      BY <2>1, <3>1 DEF Ordered
    <3> QED
      BY <3>2, <3>3, <3>4
  <2> QED
    BY <1>0, <1>1, <2>1, <2>2, <2>3 DEF Ordered
<1> QED
  BY <1>3, <1>4 DEF AskedInOrder, Ordered

\* The session serves the request at the head of the queue: an unsubscription leaves it, or
\* the answer of a subscription follows those it had to wait for.
LEMMA OrderServed ==
  ASSUME TInv, AskedOnce, AskedInOrder, Serve(cur), cur \in Transports
  PROVE  AskedInOrder'
<1> USE Given DEF TInv
<1> DEFINE u0 == Head(inbox[cur])
<1>0. /\ cur' = cur /\ UNCHANGED <<alive, table, asks, pend, caller>> /\ cur # 0
      /\ inbox[cur] # <<>> /\ inbox'[cur] = Tail(inbox[cur]) /\ inbox[cur] \in Seq(Users)
      /\ outbox[cur] \in Seq(Answers)
  BY DEF Serve, calls, subscr, link, NetOK, Transports
<1>1. PICK u \in Users : u = u0 /\ inbox[cur][1] = u /\ 1 \in 1..Len(inbox[cur])
  BY <1>0
<1> SUFFICES ASSUME alive[cur] PROVE AskedInOrder'
  BY <1>0 DEF AskedInOrder
<1>2. PICK kind : /\ outbox'[cur] = Append(outbox[cur], <<u, kind>>)
                  /\ \/ Action(u) = "subscribe" /\ kind = "ok" /\ subs'[cur] = subs[cur] \cup Payload(u)
                     \/ subs'[cur] = subs[cur] /\ (Action(u) = "subscribe" => kind # "ok")
                     \/ Action(u) = "unsubscribe"
  <2> DEFINE kept(k) == IF alive[cur] THEN Append(outbox[cur], <<u, k>>) ELSE outbox[cur]
  <2>1. u = Head(inbox[cur])
    BY <1>1
  <2>2. \/ /\ Action(u) = "subscribe" /\ subs' = [subs EXCEPT ![cur] = subs[cur] \cup Payload(u)]
           /\ outbox' = [outbox EXCEPT ![cur] = kept("ok")]
        \/ /\ Action(u) = "subscribe" /\ subs' = subs /\ outbox' = [outbox EXCEPT ![cur] = kept("failed")]
        \/ /\ Action(u) = "unsubscribe" /\ outbox' = [outbox EXCEPT ![cur] = kept("ok")]
        \/ /\ Action(u) \notin {"subscribe", "unsubscribe"} /\ subs' = subs
           /\ \E k \in {"ok", "failed", "coded"} : outbox' = [outbox EXCEPT ![cur] = kept(k)]
    BY <2>1 DEF Serve
  <2>3. subs \in [Transports -> SUBSET Symbols] /\ outbox \in [Transports -> Seq(Answers)]
    BY DEF NetOK
  <2> HIDE DEF kept, Answers
  <2>4. \E k : /\ outbox'[cur] = kept(k)
               /\ \/ Action(u) = "subscribe" /\ k = "ok" /\ subs'[cur] = subs[cur] \cup Payload(u)
                  \/ subs'[cur] = subs[cur] /\ (Action(u) = "subscribe" => k # "ok")
                  \/ Action(u) = "unsubscribe"
    BY <2>2, <2>3
  <2> QED
    BY <2>4 DEF kept
<1>3. \A i \in 1..Len(inbox'[cur]) : i + 1 \in 1..Len(inbox[cur]) /\ inbox'[cur][i] = inbox[cur][i + 1]
  BY <1>0
<1>4. /\ \A i \in Leaving' : i + 1 \in Leaving /\ inbox'[cur][i] = inbox[cur][i + 1] /\ i \in Nat
      /\ Len(inbox[cur]) \in Nat /\ Len(inbox'[cur]) = Len(inbox[cur]) - 1
  BY <1>0, <1>3 DEF Leaving, Action
<1>5. \A i, j \in 1..Len(inbox[cur]) : inbox[cur][i] = inbox[cur][j] => i = j
  BY <1>0 DEF AskedOnce
<1>6. /\ \A i \in 1..Len(outbox'[cur]) : \/ i \in 1..Len(outbox[cur]) /\ outbox'[cur][i] = outbox[cur][i]
                                         \/ i = Len(outbox[cur]) + 1 /\ outbox'[cur][i] = <<u, kind>>
      /\ \A v : <<u, kind>>[1] = u /\ (<<u, kind>> = <<v, "ok">> => v = u /\ kind = "ok")
  BY <1>0, <1>2, Appended
<1>7. ASSUME NEW i \in Leaving', NEW k \in Keys PROVE Payload(inbox[cur][i])' \cap table'[k] = {}
  <2>1. i + 1 \in Leaving /\ inbox'[cur][i] = inbox[cur][i + 1]
    BY <1>4
  <2>2. inbox[cur][i + 1] \in Users /\ Action(inbox[cur][i + 1]) = "unsubscribe"
    BY <1>0, <2>1 DEF Leaving
  <2>3. inbox[cur][i + 1] # Resub
    BY <2>2 DEF Action
  <2>4. Payload(inbox[cur][i])' = Payload(inbox[cur][i + 1])
    BY <1>0, <2>1, <2>3 DEF Payload
  <2> QED
    BY <1>0, <2>1, <2>4 DEF AskedInOrder
<1>8. ASSUME NEW c \in Calls, Kind[c] = "subscribe", caller'[c] = "sent" PROVE Ordered(c)'
  <2>1. Ordered(c)
    BY <1>0, <1>8 DEF AskedInOrder, Ordered
  <2>2. ASSUME NEW i \in Leaving'
        PROVE  /\ pend[c] = cur
               /\ \E j \in 1..Len(inbox'[cur]) : j > i /\ inbox'[cur][j] = c
               /\ c # u
    <3>1. PICK j \in 1..Len(inbox[cur]) : pend[c] = cur /\ j > i + 1 /\ inbox[cur][j] = c
      BY <1>4, <2>1, <2>2 DEF Ordered
    <3>2. j - 1 \in 1..Len(inbox'[cur]) /\ j - 1 > i /\ (j - 1) + 1 = j
      BY <1>4, <2>2, <3>1
    <3>3. inbox'[cur][j - 1] = c
      BY <1>3, <3>1, <3>2
    <3>4. j # 1
      BY <1>4, <2>2, <3>1
    <3> QED
      BY <1>1, <1>5, <3>1, <3>2, <3>3, <3>4
  <2>3. Spoken(c)' => Spoken(c) \/ c = u
    BY <1>0, <1>6 DEF Spoken, Answer
  <2>4. ASSUME pend[c] = cur, Spoken(c)' PROVE Leaving' = {}
    <3>1. ASSUME NEW i \in Leaving' PROVE FALSE
      <4>1. Spoken(c)
        BY <2>2, <2>3, <2>4, <3>1
      <4>2. Leaving = {}
        BY <2>1, <2>4, <4>1 DEF Ordered
      <4> QED
        BY <1>4, <3>1, <4>2
    <3> QED
      BY <3>1
  <2>5. ASSUME pend[c] = cur, NEW i \in 1..Len(outbox'[cur]), outbox'[cur][i] # Tick, outbox'[cur][i] = <<c, "ok">>
        PROVE  asks[c] \subseteq subs'[cur]
    <3>1. CASE i \in 1..Len(outbox[cur]) /\ outbox'[cur][i] = outbox[cur][i]
      <4>1. outbox[cur][i] # Tick /\ outbox[cur][i] = <<c, "ok">> /\ outbox[cur][i][1] = c
        <5>1. <<c, "ok">>[1] = c
          OBVIOUS
        <5> QED
          BY <2>5, <3>1, <5>1
      <4>2. asks[c] \subseteq subs[cur]
        BY <2>1, <2>5, <3>1, <4>1 DEF Ordered
      <4>3. Spoken(c)
        BY <3>1, <4>1 DEF Spoken, Answer
      <4>4. Action(u) # "unsubscribe"
        BY <1>1, <2>1, <2>5, <4>3 DEF Ordered, Leaving
      <4> QED
        BY <1>2, <4>2, <4>4
    <3>2. CASE outbox'[cur][i] = <<u, kind>>
      <4>1. c = u /\ kind = "ok"
        BY <1>6, <2>5, <3>2
      <4>2. Action(u) = "subscribe" /\ Payload(u) = asks[c]
        BY <1>8, <4>1 DEF Action, Payload
      <4> QED
        BY <1>2, <4>1, <4>2
    <3> QED
      BY <1>6, <3>1, <3>2
  <2> QED
    BY <1>0, <2>2, <2>4, <2>5 DEF Ordered
<1> QED
  BY <1>7, <1>8 DEF AskedInOrder, Ordered

LEMMA OrderStep ==
  ASSUME TInv, CallsTakeTurns, TableIsWanted, OpensFresh, AskedOnce, AskedInOrder, [Next]_vars
  PROVE  AskedInOrder'
<1> USE Given DEF TInv
<1>0. cur # 0 => cur \in Transports /\ inbox[cur] \in Seq(Users) /\ outbox[cur] \in Seq(Answers)
  BY DEF LinkOK, NetOK, Transports
<1>a. cur # 0 => /\ NoneNew(outbox[cur], outbox[cur]) /\ NoneNew(outbox[cur], Append(outbox[cur], Tick))
                 /\ (outbox[cur] # <<>> => NoneNew(outbox[cur], Tail(outbox[cur])))
  BY <1>0, OldAnswers
<1>b. \A c, d \in Calls : Managing(c) /\ Managing(d) /\ Active(c) /\ Active(d) => c = d
  BY DEF CallsTakeTurns
<1>1. ASSUME NEW c \in Calls, Caller(c) \/ Coroutine(c), ~Send(c) PROVE AskedInOrder'
  <2>1. /\ cur' = cur /\ UNCHANGED <<alive, inbox, outbox, subs>>
        /\ pend' = pend \/ pend' = [pend EXCEPT ![c] = 0]
        /\ \A d \in Calls \ {c} : caller'[d] = caller[d]
        /\ caller'[c] = "sent" => caller[c] = "sent" /\ pend' = pend
    BY <1>1, CallerMoves DEF link, server
  <2>2. /\ \A k \in Keys : table'[k] \subseteq table[k]
        /\ \A d \in Calls \ {c} : asks'[d] = asks[d]
        /\ asks' = asks \/ (caller[c] = "idle" /\ caller'[c] # "sent")
    <3>1. CASE BeginUnsubscribe(c)
      <4>1. /\ caller[c] = "idle"
            /\ asks' = asks \/ \E x : asks' = [asks EXCEPT ![c] = x]
            /\ table' = table \/ \E x : table' = [table EXCEPT ![Key[c]] = table[Key[c]] \ x]
            /\ caller'[c] # "sent"
        BY <3>1 DEF BeginUnsubscribe, MayBegin, subscr, LInv, CallsOK
      <4> QED
        BY <4>1 DEF SubscrOK
    <3>2. CASE BeginSubscribe(c)
      BY <3>2 DEF BeginSubscribe, MayBegin, SubscrOK, LInv, CallsOK
    <3>3. CASE ~BeginUnsubscribe(c) /\ ~BeginSubscribe(c)
      BY <1>1, <3>3 DEF Caller, Coroutine, Begin, CallerTimeout, CancelRun, SendNoWriter, subscr
    <3> QED
      BY <3>1, <3>2, <3>3
  <2>3. \A d \in Calls : cur # 0 /\ Kind[d] = "unsubscribe" /\ Waits(d) => asks'[d] = asks[d]
    BY <2>2 DEF AskedOnce
  <2>4. \A d \in Calls : caller'[d] = "sent" => caller[d] = "sent" /\ asks'[d] = asks[d] /\ pend'[d] = pend[d]
    BY <2>1, <2>2 DEF ConnOK, Users
  <2>5. CASE cur = 0
    BY <2>1, <2>5 DEF AskedInOrder
  <2>6. CASE cur # 0
    BY <1>a, <2>1, <2>2, <2>3, <2>4, <2>6, OrderFrame DEF Joins
  <2> QED
    BY <2>5, <2>6
<1>2. ASSUME NEW c \in Calls, Send(c) PROVE AskedInOrder'
  <2>1. /\ UNCHANGED <<alive, outbox, subs, table, asks>> /\ cur' = cur /\ cur # 0 /\ Write(c) /\ c \in Users
        /\ caller[c] = "waiting"
        /\ caller' = [caller EXCEPT ![c] = "sent"] /\ pend' = [pend EXCEPT ![c] = cur]
    BY <1>2 DEF Send, link, subscr, server, Users
  <2>2. cur \in Transports /\ c # Resub /\ Action(c) = Kind[c] /\ Payload(c) = asks[c]
    BY <1>0, <2>1 DEF Action, Payload
  <2>3. \/ inbox'[cur] = inbox[cur]
        \/ inbox'[cur] = Append(inbox[cur], c)
    BY <2>1, <2>2, Written DEF NetOK
  <2>4. \A d \in Calls \ {c} : caller'[d] = caller[d] /\ pend'[d] = pend[d]
    BY <2>1 DEF LInv, CallsOK, ConnOK, Users
  <2>5. caller'[c] = "sent" /\ pend'[c] = cur /\ Active(c)
    BY <2>1 DEF LInv, CallsOK, ConnOK, Users, Active
  <2>6. CASE ~alive[cur]
    BY <2>1, <2>6 DEF AskedInOrder
  <2>7. CASE alive[cur] /\ ~Managing(c)
    <3>1. Joins(inbox'[cur], inbox[cur])
      BY <2>1, <2>2, <2>3, <2>7 DEF Joins, Managing
    <3>2. \A d \in Calls : Kind[d] = "subscribe" /\ caller'[d] = "sent" => d # c
      BY <2>7 DEF Managing
    <3>3. NoneNew(outbox[cur], outbox'[cur])
      BY <1>a, <2>1
    <3> QED
      BY <2>1, <2>4, <3>1, <3>2, <3>3, OrderFrame
  <2>8. CASE alive[cur] /\ Managing(c)
    <3>1. \A d \in Calls : Kind[d] = "subscribe" /\ caller'[d] = "sent" => d = c
      <4>1. \A d \in Calls : Kind[d] = "subscribe" /\ d # c /\ caller'[d] = "sent" => Managing(d) /\ Active(d)
        BY <2>4 DEF Managing, Active
      <4> QED
        BY <1>b, <2>5, <2>8, <4>1
    <3>2. inbox'[cur] = Append(inbox[cur], c)
      BY <2>1, <2>2, <2>8, Written DEF NetOK
    <3>3. /\ \A i \in 1..Len(inbox'[cur]) : \/ i \in 1..Len(inbox[cur]) /\ inbox'[cur][i] = inbox[cur][i]
                                            \/ i = Len(inbox[cur]) + 1 /\ inbox'[cur][i] = c
          /\ Len(inbox[cur]) \in Nat /\ Len(inbox[cur]) + 1 \in 1..Len(inbox'[cur])
      BY <1>0, <2>1, <3>2, Appended
    <3>4. inbox'[cur][Len(inbox[cur]) + 1] = c
      BY <3>3
    <3>5. ASSUME NEW i \in Leaving', NEW k \in Keys PROVE Payload(inbox[cur][i])' \cap table'[k] = {}
      <4>1. i \in 1..Len(inbox'[cur]) /\ Action(inbox'[cur][i]) = "unsubscribe"
        BY <2>1, <3>5 DEF Leaving, Action
      <4>2. CASE i \in 1..Len(inbox[cur]) /\ inbox'[cur][i] = inbox[cur][i]
        <5>1. i \in Leaving
          BY <4>1, <4>2 DEF Leaving
        <5>2. inbox'[cur][i] # Resub
          BY <4>1 DEF Action
        <5>3. Payload(inbox[cur][i])' = Payload(inbox[cur][i])
          BY <2>1, <4>2, <5>2 DEF Payload
        <5> QED
          BY <2>1, <2>8, <5>1, <5>3 DEF AskedInOrder
      <4>3. CASE inbox'[cur][i] = c
        <5>1. asks[c] \cap table[k] = {}
          BY <2>2, <2>5, <4>1, <4>3 DEF TableIsWanted
        <5>2. Payload(inbox[cur][i])' = asks[c]
          BY <2>1, <2>2, <4>3 DEF Payload
        <5> QED
          BY <2>1, <5>1, <5>2
      <4> QED
        BY <3>3, <4>1, <4>2, <4>3
    <3>6. ASSUME NEW d \in Calls, Kind[d] = "subscribe", caller'[d] = "sent" PROVE Ordered(d)'
      <4>1. d = c /\ ~Spoken(c) /\ Action(c) = "subscribe"
        BY <2>1, <2>2, <3>1, <3>6 DEF AskedOnce
      <4>2. ~Spoken(c)'
        BY <2>1, <4>1 DEF Spoken, Answer
      <4>3. \A i \in Leaving' : Len(inbox[cur]) + 1 > i
        BY <2>1, <3>3, <4>1 DEF Leaving, Action
      <4>4. \A i \in 1..Len(outbox'[cur]) : ~(outbox'[cur][i] # Tick /\ outbox'[cur][i] = <<c, "ok">>)
        <5>1. <<c, "ok">>[1] = c
          OBVIOUS
        <5> QED
          BY <2>1, <4>2, <5>1 DEF Spoken, Answer
      <4> QED
        BY <2>1, <2>5, <3>3, <3>4, <4>1, <4>2, <4>3, <4>4 DEF Ordered
    <3> QED
      BY <3>5, <3>6 DEF AskedInOrder, Ordered
  <2> QED
    BY <2>6, <2>7, <2>8
<1>3. ASSUME NEW t \in Transports, ReadMessage(t) PROVE AskedInOrder'
  <2> DEFINE n == at[t]
             m == Head(outbox[n])
  <2>1. /\ n \in Transports /\ outbox[n] # <<>> /\ outbox' = [outbox EXCEPT ![n] = Tail(outbox[n])]
        /\ cur' = cur /\ UNCHANGED <<inbox, asks, subs>>
        /\ \/ /\ UNCHANGED <<caller, table>>
              /\ \/ pend' = pend
                 \/ \E c \in Calls : caller[c] = "cancelling" /\ pend' = [pend EXCEPT ![c] = 0]
           \/ m # Tick /\ m[1] \in Users /\ pend[m[1]] = n /\ Deliver(m[1], m[2])
              /\ (m[1] \in Calls => caller[m[1]] # "cancelling")
        /\ \A x \in Transports : alive'[x] => alive[x]
    <3>1. \A x \in Transports : alive'[x] => alive[x]
      BY <1>3, MessageRead DEF ReadOn, Die
    <3> QED
      BY <1>3, <3>1, MessageRead DEF server
  <2> HIDE DEF n
  <2>2. cur # 0 => NoneNew(outbox[cur], outbox'[cur])
    BY <1>0, <1>a, <2>1 DEF NetOK
  <2>3. CASE /\ UNCHANGED <<caller, table>>
             /\ pend' = pend \/ \E c \in Calls : caller[c] = "cancelling" /\ pend' = [pend EXCEPT ![c] = 0]
    <3>1. \A c \in Calls : caller'[c] = "sent" => pend'[c] = pend[c]
      BY <2>3 DEF ConnOK, Users
    <3> QED
      BY <1>0, <2>1, <2>2, <2>3, <3>1, OrderFrame DEF Joins
  <2>4. ASSUME m # Tick, m[1] \in Users, pend[m[1]] = n, Deliver(m[1], m[2]),
               m[1] \in Calls => caller[m[1]] # "cancelling"
        PROVE AskedInOrder'
    <3>1. PICK u : u = m[1]
      OBVIOUS
    <3>2. PICK kind : kind = m[2]
      OBVIOUS
    <3>a. outbox[n] \in Seq(Answers) /\ 1 \in 1..Len(outbox[n]) /\ outbox[n][1] = m
      BY <2>1 DEF NetOK
    <3> HIDE DEF m
    <3>3. u \in Users /\ Deliver(u, kind) /\ (u \in Calls => caller[u] # "cancelling") /\ pend[u] = n /\ n # 0
      BY <2>1, <2>4, <3>1, <3>2 DEF Transports
    <3>4. /\ pend' = [pend EXCEPT ![u] = 0]
          /\ \A d \in Calls : caller'[d] = IF d = u THEN "done" ELSE caller[d]
          /\ u = Resub => table' = table
          /\ u # Resub => /\ u \in Calls
                          /\ \/ table' = table
                             \/ /\ Kind[u] = "subscribe"
                                /\ table' = [table EXCEPT ![Key[u]] = table[Key[u]] \cup asks[u]]
      BY <3>3, Delivered
    <3>5. \A d \in Calls : caller'[d] = "sent" => caller[d] = "sent" /\ d # u /\ pend'[d] = pend[d]
      BY <3>3, <3>4 DEF ConnOK, Users
    <3>6. CASE table' = table
      BY <1>0, <2>1, <2>2, <3>5, <3>6, OrderFrame DEF Joins
    <3>7. ASSUME u \in Calls, Kind[u] = "subscribe" PROVE AskedInOrder'
      <4>1. caller[u] = "sent" /\ Managing(u) /\ Active(u)
        BY <3>3, <3>7 DEF CallsTakeTurns, Managing, Active
      <4>2. \A d \in Calls : ~(Kind[d] = "subscribe" /\ caller'[d] = "sent")
        <5>1. \A d \in Calls : Kind[d] = "subscribe" /\ caller'[d] = "sent" => Managing(d) /\ Active(d) /\ d # u
          BY <3>5 DEF Managing, Active
        <5> QED
          BY <1>b, <3>7, <4>1, <5>1
      <4>3. ASSUME cur # 0, alive'[cur] PROVE Leaving' = {}
        <5>1. alive[cur] /\ Ordered(u)
          BY <1>0, <2>1, <3>7, <4>1, <4>3 DEF AskedInOrder, Ordered
        <5>2. CASE n = cur
          <6>1. Spoken(u)
            BY <2>4, <3>1, <3>a, <5>2 DEF Spoken, Answer
          <6> QED
            BY <2>1, <3>3, <5>1, <5>2, <6>1 DEF Ordered, Leaving, Action
        <5>3. CASE n # cur
          <6>1. Leaving = {}
            BY <3>3, <5>1, <5>3 DEF Ordered
          <6> QED
            BY <2>1, <6>1 DEF Leaving, Action
        <5> QED
          BY <5>2, <5>3
      <4> QED
        BY <2>1, <4>2, <4>3 DEF AskedInOrder
    <3> QED
      BY <3>4, <3>6, <3>7
  <2> QED
    BY <2>1, <2>3, <2>4
<1>4. ASSUME NEW t \in Transports, ReaderEnds(t) PROVE AskedInOrder'
  <2>1. cur' = cur /\ UNCHANGED <<asks, pend, caller, table, inbox, outbox, subs>>
        /\ \A x \in Transports : alive'[x] => alive[x]
    BY <1>4 DEF ReaderEnds, Die, calls, subscr, server
  <2> QED
    BY <1>0, <1>a, <2>1, OrderFrame DEF Joins
<1>5. ASSUME NEW t \in Transports, ReaderLost(t) \/ FinishCleanup(t) \/ CancelledEnds(t)
      PROVE  AskedInOrder'
  BY <1>5, CleanedUp DEF AskedInOrder
<1>6. ASSUME NEW t \in Transports, Drop(t) \/ Push(t) PROVE AskedInOrder'
  <2>1. cur' = cur /\ UNCHANGED <<asks, pend, caller, table, inbox, subs>>
        /\ \A x \in Transports : alive'[x] => alive[x]
    BY <1>6 DEF Drop, Push, calls, subscr, link, server, NetOK
  <2>2. cur # 0 => outbox'[cur] = outbox[cur] \/ outbox'[cur] = Append(outbox[cur], Tick)
    BY <1>0, <1>6 DEF Drop, Push, NetOK
  <2> QED
    BY <1>0, <1>a, <2>1, <2>2, OrderFrame DEF Joins
<1>7. ASSUME NEW t \in Transports, Serve(t) \/ CloseSession(t) PROVE AskedInOrder'
  <2>1. cur' = cur /\ UNCHANGED <<alive, asks, pend, caller, table>>
    BY <1>7 DEF Serve, CloseSession, calls, subscr, link
  <2>2. CASE t = cur /\ Serve(t)
    BY <2>2, OrderServed
  <2>3. CASE t = cur /\ CloseSession(t)
    BY <2>1, <2>3 DEF CloseSession, AskedInOrder
  <2>4. CASE t # cur
    <3>1. cur # 0 => inbox'[cur] = inbox[cur] /\ outbox'[cur] = outbox[cur] /\ subs'[cur] = subs[cur]
      BY <1>0, <1>7, <2>4 DEF Serve, CloseSession, NetOK
    <3> QED
      BY <1>0, <1>a, <2>1, <3>1, OrderFrame DEF Joins
  <2> QED
    BY <1>7, <2>2, <2>3, <2>4
<1>8. CASE Dial
  <2>1. /\ UNCHANGED <<inbox, outbox>>
        /\ cur' = conns + 1 /\ conns + 1 \in Transports /\ conns + 1 > conns
    BY <1>8 DEF Dial, NetOK, Transports
  <2>2. inbox'[cur'] = <<>> /\ outbox'[cur'] = <<>>
    BY <2>1 DEF OpensFresh, Unopened
  <2>3. 1..Len(inbox'[cur']) = {} /\ 1..Len(outbox'[cur']) = {}
    BY <2>2
  <2>4. Leaving' = {} /\ \A v : ~Spoken(v)'
    BY <2>3 DEF Leaving, Spoken
  <2> QED
    BY <2>3, <2>4 DEF AskedInOrder
<1>9. CASE HandshakeAck \/ ResubNext
  <2>1. /\ cur' = cur /\ UNCHANGED <<caller, asks, table, alive, outbox, subs>>
        /\ \E ks, reader : Visit(ks, reader)
    BY <1>9 DEF HandshakeAck, ResubNext, subscr, link, server
  <2>2. \A c \in Calls : pend'[c] = pend[c]
    BY <2>1, VisitMoves
  <2>3. UNCHANGED inbox \/ (cur # 0 /\ Write(Resub))
    BY <2>1 DEF Visit
  <2>4. cur # 0 => Joins(inbox'[cur], inbox[cur])
    <3>1. Resub \in Users /\ Action(Resub) # "unsubscribe"
      BY DEF Users, Action
    <3>2. cur # 0 => inbox'[cur] = inbox[cur] \/ inbox'[cur] = Append(inbox[cur], Resub)
      BY <2>3, <3>1, Written DEF NetOK
    <3> QED
      BY <3>1, <3>2 DEF Joins
  <2> QED
    BY <1>0, <1>a, <2>1, <2>2, <2>4, OrderFrame
<1>10. CASE DialFail \/ HandshakeFail \/ ResubRaise \/ WatchEnds \/ Wake \/ UNCHANGED vars
  <2>1. cur' = cur /\ UNCHANGED <<caller, pend, asks, table, alive, inbox, outbox, subs>>
    BY <1>10 DEF DialFail, HandshakeFail, ResubRaise, WatchEnds, Wake, calls, subscr, link, net, server, vars
  <2> QED
    BY <1>a, <2>1, OrderFrame DEF Joins
<1> QED
  BY <1>1, <1>2, <1>3, <1>4, <1>5, <1>6, <1>7, <1>8, <1>9, <1>10 DEF Next, Reader, Connect

-----------------------------------------------------------------------------
(* Promises and their renewal. *)

Kept(k, s) == s \in subs[cur] \/ (loop = "resub" /\ (k \in left \/ (s \in asked /\ Waits(Resub))))

\* The session serves its next request: what the table promises stays subscribed, and the
\* symbols of the connect loop's request become so.
LEMMA ServedKeeps ==
  ASSUME RoomForAll, TInv, AskedInOrder, cur \in Transports, alive[cur], Serve(cur)
  PROVE  \A k \in Keys : \A s \in table[k] : Kept(k, s) => Kept(k, s)'
<1> USE Given DEF TInv
<1>0. /\ cur' = cur /\ UNCHANGED <<loop, left, asked, table>> /\ cur # 0
      /\ inbox[cur] # <<>> /\ inbox'[cur] = Tail(inbox[cur]) /\ inbox[cur] \in Seq(Users)
      /\ subs \in [Transports -> SUBSET Symbols]
  BY DEF Serve, conn, subscr, link, NetOK, Transports
<1>1. PICK u : u = Head(inbox[cur])
  OBVIOUS
<1>2. u \in Users /\ inbox[cur][1] = u /\ 1 \in 1..Len(inbox[cur])
  BY <1>0, <1>1
<1>3. Waits(Resub) => Waits(Resub)' \/ u = Resub
  <2>1. ASSUME NEW i \in 1..Len(inbox[cur]), inbox[cur][i] = Resub, u # Resub PROVE Waits(Resub)'
    <3>1. i - 1 \in 1..Len(inbox'[cur]) /\ inbox'[cur][i - 1] = inbox[cur][i]
      BY <1>0, <1>2, <2>1
    <3> QED
      BY <1>0, <2>1, <3>1 DEF Waits
  <2> QED
    BY <2>1 DEF Waits
<1>4. Payload(u) \subseteq Symbols
  BY <1>2 DEF Payload, Users, ConnOK, SubscrOK
<1>5. ~(Cardinality(subs[cur] \cup Payload(u)) > MaxSubs)
  <2>1. subs[cur] \cup Payload(u) \subseteq Symbols
    BY <1>0, <1>4
  <2>2. /\ Cardinality(Symbols) \in Nat /\ Cardinality(subs[cur] \cup Payload(u)) \in Nat
        /\ Cardinality(subs[cur] \cup Payload(u)) <= Cardinality(Symbols)
    BY <2>1, FS_Subset, FS_CardinalityType DEF RoomForAll
  <2>3. MaxSubs \in Nat /\ Cardinality(Symbols) <= MaxSubs
    BY LinkAssumption DEF LinkAssumption, RoomForAll
  <2> HIDE DEF TInv
  <2> QED
    BY <2>2, <2>3
<1>6. \/ Action(u) = "subscribe" /\ subs'[cur] = subs[cur] \cup Payload(u)
      \/ Action(u) = "unsubscribe" /\ subs'[cur] = subs[cur] \ Payload(u)
      \/ Action(u) # "subscribe" /\ subs'[cur] = subs[cur]
  <2>1. \/ Action(u) = "subscribe" /\ subs' = [subs EXCEPT ![cur] = subs[cur] \cup Payload(u)]
        \/ Action(u) = "unsubscribe" /\ subs' = [subs EXCEPT ![cur] = subs[cur] \ Payload(u)]
        \/ Action(u) # "subscribe" /\ subs' = subs
    BY <1>1, <1>5 DEF Serve
  <2> QED
    BY <1>0, <2>1
<1>7. ASSUME NEW k \in Keys, NEW s \in table[k], Kept(k, s) PROVE Kept(k, s)'
  <2>1. CASE u = Resub
    <3>1. Action(u) = "subscribe" /\ Payload(u) = asked
      BY <2>1 DEF Action, Payload
    <3>2. subs'[cur] = subs[cur] \cup asked
      BY <1>6, <3>1
    <3> QED
      BY <1>0, <1>7, <3>2 DEF Kept
  <2>2. CASE u # Resub
    <3>1. s \in subs[cur] => s \in subs'[cur]
      <4>1. CASE Action(u) = "unsubscribe"
        <5>1. 1 \in Leaving
          BY <1>2, <4>1 DEF Leaving
        <5>2. Payload(u) \cap table[k] = {}
          BY <1>0, <1>2, <5>1 DEF AskedInOrder
        <5> QED
          BY <1>6, <1>7, <5>2
      <4>2. CASE Action(u) # "unsubscribe"
        BY <1>6, <4>2
      <4> QED
        BY <4>1, <4>2
    <3> QED
      BY <1>0, <1>3, <1>7, <2>2, <3>1 DEF Kept
  <2> QED
    BY <2>1, <2>2
<1> QED
  BY <1>7

\* The connect loop visits the next key: whatever was left is asked for, or still left.
LEMMA VisitKeeps ==
  ASSUME TInv, TableIsWanted, NEW ks \in SUBSET Keys, NEW reader, Visit(ks, reader), cur' = cur,
         cur \in Transports, alive[cur], UNCHANGED <<table, subs>>, loop' \in {"resub", "watch"},
         \A k \in Keys : \A s \in table[k] : s \in subs[cur] \/ k \in ks
  PROVE  \A k \in Keys : \A s \in table[k] : Kept(k, s)'
<1> USE Given DEF TInv
<1> DEFINE live == {k \in ks : k \in keys /\ table[k] # {}}
<1>0. cur # 0 /\ Resub \in Users /\ inbox[cur] \in Seq(Users)
  BY DEF Transports, Users, NetOK
<1>1. \A k \in ks : \A s \in table[k] : k \in live
  BY DEF TableIsWanted
<1>2. CASE live = {}
  BY <1>1, <1>2 DEF Kept
<1>3. CASE live # {}
  <2>1. PICK k \in live : /\ loop' = "resub" /\ left' = ks \ {k} /\ asked' = table[k] /\ Write(Resub)
    BY <1>0, <1>3 DEF Visit
  <2>2. inbox'[cur] = Append(inbox[cur], Resub)
    BY <1>0, <2>1, Written DEF NetOK
  <2>3. Len(inbox[cur]) + 1 \in 1..Len(inbox'[cur]) /\ inbox'[cur][Len(inbox[cur]) + 1] = Resub
    BY <1>0, <2>2
  <2>4. Waits(Resub)'
    BY <2>3 DEF Waits
  <2> HIDE DEF live
  <2> QED
    BY <1>1, <2>1, <2>4 DEF Kept
<1> QED
  BY <1>2, <1>3

LEMMA PromisesStep ==
  ASSUME RoomForAll, TInv, SubsInv, [Next]_vars
  PROVE  PromisesAreKept'
<1> DEFINE Goal == \A k \in Keys : \A s \in table'[k] : Kept(k, s)'
<1> SUFFICES ASSUME Serving', alive'[cur'], ~Joined' PROVE Goal
  BY DEF PromisesAreKept, Kept
<1> USE Given DEF TInv
<1>0. /\ CallsTakeTurns /\ TableIsWanted /\ OpensFresh /\ ServingIsRead /\ AskedOnce /\ AskedInOrder
      /\ PromisesAreKept
  BY DEF SubsInv
<1>1. /\ cur' = cur /\ cur # 0 /\ cur \in Transports /\ rd'[cur] = "reading" /\ at'[cur] = cur
      /\ connected' /\ loop' \in {"resub", "watch"}
      /\ HandshakeAck \/ (Serving /\ ~Joined)
  BY <1>0, ServingStep DEF Serving, LinkOK, Transports
<1>2. ASSUME Serving, ~Joined, alive[cur] PROVE \A k \in Keys : \A s \in table[k] : Kept(k, s)
  BY <1>0, <1>2 DEF PromisesAreKept, Kept
<1>a. ASSUME Serving, ~Joined, alive[cur],
             UNCHANGED <<loop, left, asked>>, subs'[cur] = subs[cur],
             Waits(Resub) => Waits(Resub)',
             \A k \in Keys : table'[k] \subseteq table[k] PROVE Goal
  BY <1>1, <1>2, <1>a DEF Kept
<1>3. ASSUME NEW c \in Calls, Caller(c) \/ Coroutine(c) PROVE Goal
  <2>1. /\ UNCHANGED <<loop, left, asked, alive, connected, rd, at>> /\ subs'[cur] = subs[cur]
        /\ Send(c) \/ inbox' = inbox
    BY <1>3, CallerMoves DEF conn, link, tasks, server
  <2>2. Serving /\ ~Joined /\ alive[cur]
    BY <1>1, <2>1 DEF Serving, Joined
  <2>3. Waits(Resub) => Waits(Resub)'
    <3>1. CASE inbox' = inbox
      BY <1>1, <3>1 DEF Waits
    <3>2. CASE Send(c)
      <4>1. inbox'[cur] = inbox[cur] \/ inbox'[cur] = Append(inbox[cur], c)
        BY <1>1, <3>2, Written DEF Send, Users, NetOK
      <4>2. inbox[cur] \in Seq(Users)
        BY <1>1 DEF NetOK
      <4>3. \A i \in 1..Len(inbox[cur]) : i \in 1..Len(inbox'[cur]) /\ inbox'[cur][i] = inbox[cur][i]
        BY <4>1, <4>2
      <4> QED
        BY <1>1, <4>3 DEF Waits
    <3> QED
      BY <2>1, <3>1, <3>2
  <2>4. \A k \in Keys : table'[k] \subseteq table[k]
    <3>1. CASE BeginUnsubscribe(c)
      <4>1. table' = table \/ \E x : table' = [table EXCEPT ![Key[c]] = table[Key[c]] \ x]
        BY <3>1 DEF BeginUnsubscribe, subscr
      <4> QED
        BY <4>1 DEF SubscrOK
    <3>2. CASE ~BeginUnsubscribe(c)
      BY <1>3, <3>2 DEF Caller, Coroutine, Begin, BeginSubscribe, CallerTimeout, CancelRun, Send,
         SendNoWriter, subscr
    <3> QED
      BY <3>1, <3>2
  <2> QED
    BY <1>a, <2>1, <2>2, <2>3, <2>4
<1>4. ASSUME NEW t \in Transports, ReadMessage(t) PROVE Goal
  <2> DEFINE n == at[t]
             m == Head(outbox[n])
  <2>1. /\ n \in Transports /\ rd[t] = "reading" /\ outbox[n] # <<>>
        /\ UNCHANGED <<loop, left, inbox, subs>>
        /\ ReadOn(t, outbox')
        /\ \/ UNCHANGED <<table, asked>>
           \/ m # Tick /\ m[1] \in Users /\ pend[m[1]] = n /\ Deliver(m[1], m[2])
              /\ (m[1] \in Calls => caller[m[1]] # "cancelling")
    BY <1>1, <1>4, MessageRead DEF Die, server
  <2>2. at' = [at EXCEPT ![t] = cur] /\ UNCHANGED <<rd, alive, connected>>
    BY <1>1, <2>1 DEF ReadOn, Die
  <2>3. Serving /\ ~Joined /\ alive[cur]
    BY <1>1, <2>1, <2>2 DEF Serving, HandshakeAck
  <2>4. n = cur
    <3>1. CASE t = cur
      BY <1>0, <2>3, <3>1 DEF ServingIsRead
    <3>2. CASE t # cur
      <4>1. rd'[t] = "reading" /\ at'[t] = cur
        BY <2>1, <2>2 DEF LinkOK
      <4> QED
        BY <1>1, <3>2, <4>1 DEF Joined
    <3> QED
      BY <3>1, <3>2
  <2>5. /\ outbox[cur] \in Seq(Answers) /\ 1 \in 1..Len(outbox[cur]) /\ outbox[cur][1] = m /\ m \in Answers
    <3>1. m \in Answers
      BY <2>1, AnswerRead
    <3> QED
      BY <1>1, <2>1, <2>4, <3>1 DEF NetOK
  <2>6. Waits(Resub) => Waits(Resub)'
    BY <1>1, <2>1 DEF Waits
  <2>7. PICK u : u = m[1]
    OBVIOUS
  <2>8. PICK kind : kind = m[2]
    OBVIOUS
  <2>9. m # Tick => m = <<u, kind>>
    BY <2>5, <2>7, <2>8 DEF Answers
  <2> HIDE DEF m, n
  <2>10. CASE UNCHANGED <<table, asked>>
    BY <1>a, <2>1, <2>3, <2>6, <2>10
  <2>11. ASSUME m # Tick, u = Resub, Deliver(Resub, kind) PROVE Goal
    <3>1. Resub \in Users
      BY DEF Users
    <3>2. asked' = {} /\ table' = table
      BY <2>11, <3>1, Delivered
    <3>3. Spoken(Resub)
      BY <2>5, <2>7, <2>11 DEF Spoken, Answer
    <3>4. ~Waits(Resub)
      BY <1>0, <1>1, <3>3 DEF AskedOnce
    <3> QED
      BY <1>1, <1>2, <2>1, <2>3, <3>2, <3>4 DEF Kept
  <2>12. ASSUME m # Tick, u \in Calls, Deliver(u, kind), pend[u] = cur, caller[u] # "cancelling"
         PROVE  Goal
    <3>1. u \in Users /\ u # Resub
      BY <2>12 DEF Users
    <3>2. /\ asked' = asked
          /\ \/ table' = table
             \/ /\ kind = "ok" /\ Kind[u] = "subscribe"
                /\ table' = [table EXCEPT ![Key[u]] = table[Key[u]] \cup asks[u]]
      BY <2>12, <3>1, Delivered
    <3>3. CASE table' = table
      BY <1>a, <2>1, <2>3, <2>6, <3>2, <3>3
    <3>4. CASE /\ kind = "ok" /\ Kind[u] = "subscribe"
               /\ table' = [table EXCEPT ![Key[u]] = table[Key[u]] \cup asks[u]]
      <4>1. caller[u] = "sent"
        BY <1>0, <1>1, <2>12 DEF CallsTakeTurns
      <4>2. outbox[cur][1] # Tick /\ outbox[cur][1] = <<u, "ok">>
        BY <2>5, <2>9, <2>12, <3>4
      <4>3. asks[u] \subseteq subs[cur]
        <5>1. Ordered(u)
          BY <1>0, <1>1, <2>3, <3>4, <4>1, <2>12 DEF AskedInOrder, Ordered
        <5> QED
          BY <2>5, <2>12, <4>2, <5>1 DEF Ordered
      <4>4. \A k \in Keys : \A s \in table'[k] : s \in table[k] \/ s \in subs[cur]
        BY <3>4, <4>3 DEF SubscrOK
      <4> QED
        BY <1>1, <1>2, <2>1, <2>3, <2>6, <3>2, <4>4 DEF Kept
    <3> QED
      BY <3>2, <3>3, <3>4
  <2> QED
    BY <2>1, <2>4, <2>7, <2>8, <2>10, <2>11, <2>12 DEF Users
<1>5. ASSUME NEW t \in Transports, ReaderEnds(t) PROVE FALSE
  BY <1>1, <1>5 DEF ReaderEnds, Die
<1>6. ASSUME NEW t \in Transports, ReaderLost(t) \/ FinishCleanup(t) \/ CancelledEnds(t) PROVE FALSE
  BY <1>1, <1>6, CleanedUp
<1>7. ASSUME NEW t \in Transports, Drop(t) \/ Push(t) \/ CloseSession(t) PROVE Goal
  <2>1. /\ UNCHANGED <<loop, left, asked, table, connected, rd, at>>
        /\ \A x \in Transports : alive'[x] => alive[x]
    BY <1>7 DEF Drop, Push, CloseSession, conn, subscr, link, tasks, NetOK
  <2>2. Serving /\ ~Joined /\ alive[cur]
    BY <1>1, <2>1 DEF Serving, Joined
  <2>3. subs'[cur] = subs[cur] /\ inbox'[cur] = inbox[cur]
    BY <1>1, <1>7, <2>2 DEF Drop, Push, CloseSession, NetOK, server
  <2> QED
    BY <1>1, <1>a, <2>1, <2>2, <2>3 DEF Waits
<1>8. ASSUME NEW t \in Transports, Serve(t) PROVE Goal
  <2>1. /\ UNCHANGED <<loop, left, asked, table, connected, rd, at, alive>>
    BY <1>8 DEF Serve, conn, subscr, link, tasks
  <2>2. Serving /\ ~Joined /\ alive[cur]
    BY <1>1, <2>1 DEF Serving, Joined
  <2>3. CASE t = cur
    BY <1>0, <1>1, <1>2, <1>8, <2>1, <2>2, <2>3, ServedKeeps
  <2>4. CASE t # cur
    <3>1. subs'[cur] = subs[cur] /\ inbox'[cur] = inbox[cur]
      BY <1>1, <1>8, <2>4 DEF Serve, NetOK
    <3> QED
      BY <1>1, <1>a, <2>1, <2>2, <3>1 DEF Waits
  <2> QED
    BY <2>3, <2>4
<1>9. CASE HandshakeAck
  <2>1. Visit(keys, target) /\ UNCHANGED <<table, alive, subs>>
    BY <1>9 DEF HandshakeAck, subscr
  <2>2. \A k \in Keys : \A s \in table[k] : k \in keys
    BY <1>0 DEF TableIsWanted
  <2>3. keys \in SUBSET Keys /\ alive[cur]
    BY <1>1, <2>1 DEF SubscrOK
  <2> QED
    BY <1>0, <1>1, <2>1, <2>2, <2>3, VisitKeeps
<1>10. CASE ResubNext
  <2>1. /\ Visit(left, rtask)
        /\ UNCHANGED <<table, alive, subs, connected, rd, at>> /\ asked = {} /\ loop = "resub"
    BY <1>10 DEF ResubNext, subscr, link, tasks, server
  <2>2. Serving /\ ~Joined /\ alive[cur]
    BY <1>1, <2>1 DEF Serving, Joined
  <2>3. \A k \in Keys : \A s \in table[k] : s \in subs[cur] \/ k \in left
    BY <1>2, <2>1, <2>2 DEF Kept
  <2>4. left \in SUBSET Keys
    BY DEF ConnOK
  <2> QED
    BY <1>0, <1>1, <2>1, <2>2, <2>3, <2>4, VisitKeeps
<1>11. CASE Dial \/ DialFail \/ HandshakeFail \/ ResubRaise \/ WatchEnds \/ Wake
  BY <1>1, <1>11 DEF Dial, DialFail, HandshakeFail, ResubRaise, WatchEnds, Wake
<1>12. CASE UNCHANGED vars
  <2>1. UNCHANGED <<loop, left, asked, table, connected, rd, at, alive, subs, inbox>>
    BY <1>12 DEF vars, conn, subscr, link, tasks, server, net
  <2>2. Serving /\ ~Joined /\ alive[cur]
    BY <1>1, <2>1 DEF Serving, Joined
  <2> QED
    BY <1>1, <1>a, <2>1, <2>2 DEF Waits
<1> QED
  BY <1>3, <1>4, <1>5, <1>6, <1>7, <1>8, <1>9, <1>10, <1>11, <1>12 DEF Next, Reader, Connect

\* With subscriptions of a provider's one key, and room for all its symbols in a session, the
\* server serves whatever the client's table promises once the connection is set up: through
\* reconnects, requests that time out, and changes of the table while it is being renewed
\* (_resubscribe_all).
THEOREM SubscribedAreServed ==
  ASSUME KeysApart, RoomForAll
  PROVE  Spec => []SubscribedIsServed
<1>1. Init => SubsInv
  <2> SUFFICES ASSUME Init PROVE SubsInv
    OBVIOUS
  <2>2. CallsTakeTurns
    BY DEF Init, CallsTakeTurns, Active, Users
  <2>3. TableIsWanted
    BY DEF Init, TableIsWanted, Active
  <2>4. OpensFresh
    BY Given DEF Init, OpensFresh, Unopened, Transports
  <2>5. ServingIsRead /\ AskedOnce /\ AskedInOrder /\ PromisesAreKept
    BY DEF Init, ServingIsRead, Serving, AskedOnce, AskedInOrder, PromisesAreKept, Users
  <2> QED
    BY <2>2, <2>3, <2>4, <2>5 DEF SubsInv
<1>2. TInv /\ SubsInv /\ [Next]_vars => SubsInv'
  <2> SUFFICES ASSUME TInv, SubsInv, [Next]_vars PROVE SubsInv'
    OBVIOUS
  <2>1. CallsTakeTurns' /\ TableIsWanted' /\ OpensFresh' /\ AskedOnce' /\ AskedInOrder'
    BY TurnsStep, TableStep, FreshStep, OnceStep, OrderStep DEF SubsInv
  <2>2. ServingIsRead'
    BY ServingStep DEF SubsInv, ServingIsRead
  <2>3. PromisesAreKept'
    BY PromisesStep
  <2> QED
    BY <2>1, <2>2, <2>3 DEF SubsInv
<1>3. TInv /\ SubsInv => SubscribedIsServed
  BY DEF SubsInv, PromisesAreKept, SubscribedIsServed, Settled, TInv, SubscrOK
<1> QED
  BY <1>1, <1>2, <1>3, TypesHold, PTL DEF Spec

=============================================================================
