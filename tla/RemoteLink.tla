----------------------------- MODULE RemoteLink -----------------------------
(***************************************************************************)
(* RemoteQmtConnection, the client's long-lived connection to the trading  *)
(* server, with the sessions and tick subscriptions it has there.  Caller  *)
(* threads hand coroutines to one event loop; on it run the connect loop,  *)
(* one reader task per handshake, and the request coroutines, which share  *)
(* self._reader / self._writer (`cur'), self._connected, self._pending and *)
(* the table of subscriptions.  The network may drop any transport.        *)
(***************************************************************************)
EXTENDS Naturals, FiniteSets, Sequences

CONSTANTS
  Calls,         \* requests that caller threads make
  Resub,         \* the connect loop's own data.subscribe request
  Kind,          \* action class of each call
  Key,           \* subscription key that each call names
  Want,          \* symbols each call names; {}: unsubscribe the whole key
  Keys, Symbols,
  MaxConns,      \* bound: transports ever opened
  MaxDrops,      \* bound: transports the network drops
  MaxSubs,       \* max_subscriptions of a session
  SlowClose      \* closing a stream may take longer than opening one

Transports == 1..MaxConns
Users == Calls \cup {Resub}
Tick == <<"tick", "ok">>

ASSUME LinkAssumption ==
  /\ Resub \notin Calls
  /\ Kind \in [Calls -> {"read", "write", "install", "subscribe", "unsubscribe"}]
  /\ Key \in [Calls -> Keys] /\ Want \in [Calls -> SUBSET Symbols]
  /\ MaxConns \in Nat /\ MaxDrops \in Nat /\ MaxSubs \in Nat
  /\ SlowClose \in BOOLEAN /\ IsFiniteSet(Keys)

VARIABLES
  caller,     \* what each call's coroutine and thread are doing
  told,       \* what the caller was told
  pend,       \* _pending: the transport whose answer each user awaits, 0 for none
  tries,      \* attempts of each call
  asks,       \* symbols in each call's payload
  held,       \* the set a subscribe will update is still in the table
  keys,       \* keys of _subscriptions
  table,      \* _subscriptions
  connected,  \* _connected
  cur,        \* transport of _reader and _writer, 0 for None
  rtask,      \* transport whose reader task is _reader_task, 0 for None
  rd,         \* the reader task of each handshake
  at,         \* the transport that reader task reads, or waits to be closed
  killed,     \* reader tasks that were cancelled
  loop,       \* where _connect_loop is
  target,     \* the transport it dials, or whose reader task it awaits
  left,       \* keys _resubscribe_all has still to visit
  size,       \* size of the table when its iteration began
  asked,      \* symbols of the Resub request
  conns, drops, alive, inbox, outbox,   \* network: toward server, toward client
  sess,       \* the server's session on each transport
  subs        \* its symbols in the TickSubscriptionManager

calls  == <<caller, told, pend, tries, asks, held>>
subscr == <<keys, table>>
link   == <<connected, cur, rtask>>
tasks  == <<rd, at, killed>>
conn   == <<loop, target, left, size, asked>>
net    == <<conns, drops, alive, inbox, outbox>>
server == <<sess, subs>>
vars   == <<calls, subscr, link, tasks, conn, net, server>>

TypeOK ==
  /\ caller \in [Calls -> {"idle", "waiting", "sent", "cancelling", "done"}]
  /\ told \in [Calls -> {"none", "answer", "refused", "unknown", "timeout", "error"}]
  /\ pend \in [Users -> 0..MaxConns]
  /\ tries \in [Calls -> Nat]
  /\ asks \in [Calls -> SUBSET Symbols]
  /\ held \in [Calls -> BOOLEAN]
  /\ keys \subseteq Keys /\ table \in [Keys -> SUBSET Symbols]
  /\ connected \in BOOLEAN /\ cur \in 0..MaxConns /\ rtask \in 0..MaxConns
  /\ rd \in [Transports -> {"none", "reading", "closing", "done", "failed", "cancelled"}]
  /\ at \in [Transports -> 0..MaxConns] /\ killed \subseteq Transports
  /\ loop \in {"dial", "shaking", "resub", "watch", "sleep", "dead"}
  /\ target \in 0..MaxConns /\ left \subseteq Keys /\ size \in Nat /\ asked \subseteq Symbols
  /\ conns \in 0..MaxConns /\ drops \in 0..MaxDrops /\ alive \in [Transports -> BOOLEAN]
  /\ inbox \in [Transports -> Seq(Users)]
  /\ outbox \in [Transports -> Seq({Tick} \cup (Users \X {"ok", "failed", "coded"}))]
  /\ sess \in [Transports -> {"none", "open", "closed"}]
  /\ subs \in [Transports -> SUBSET Symbols]

Init ==
  /\ caller = [c \in Calls |-> "idle"] /\ told = [c \in Calls |-> "none"]
  /\ pend = [u \in Users |-> 0] /\ tries = [c \in Calls |-> 0]
  /\ asks = [c \in Calls |-> {}] /\ held = [c \in Calls |-> FALSE]
  /\ keys = {} /\ table = [k \in Keys |-> {}]
  /\ connected = FALSE /\ cur = 0 /\ rtask = 0
  /\ rd = [t \in Transports |-> "none"] /\ at = [t \in Transports |-> 0] /\ killed = {}
  /\ loop = "dial" /\ target = 0 /\ left = {} /\ size = 0 /\ asked = {}
  /\ conns = 0 /\ drops = 0 /\ alive = [t \in Transports |-> FALSE]
  /\ inbox = [t \in Transports |-> <<>>] /\ outbox = [t \in Transports |-> <<>>]
  /\ sess = [t \in Transports |-> "none"] /\ subs = [t \in Transports |-> {}]

-----------------------------------------------------------------------------
(* Caller threads. *)

Managing(c) == Kind[c] \in {"subscribe", "unsubscribe"}

\* The subscription calls of a client come one after another.
MayBegin(c) ==
  caller[c] = "idle" /\
  (Managing(c) => \A d \in Calls : Managing(d) => caller[d] \in {"idle", "done"})

Begin(c) ==
  /\ MayBegin(c) /\ ~Managing(c)
  /\ caller' = [caller EXCEPT ![c] = "waiting"]
  /\ UNCHANGED <<told, pend, tries, asks, held, subscr, link, tasks, conn, net, server>>

\* Mutant: the symbols are recorded before the server is asked.
BeginSubscribeEager(c) ==
  LET new == Want[c] \ table[Key[c]] IN
  /\ Kind[c] = "subscribe" /\ MayBegin(c)
  /\ keys' = keys \cup {Key[c]}
  /\ table' = [table EXCEPT ![Key[c]] = @ \cup new]
  /\ caller' = [caller EXCEPT ![c] = IF new = {} THEN "done" ELSE "waiting"]
  /\ told' = [told EXCEPT ![c] = IF new = {} THEN "answer" ELSE @]
  /\ asks' = [asks EXCEPT ![c] = new]
  /\ held' = [held EXCEPT ![c] = TRUE]
  /\ UNCHANGED <<pend, tries, link, tasks, conn, net, server>>

\* subscribe: only symbols the key does not have yet are asked for.
BeginSubscribe(c) ==
  LET new == Want[c] \ table[Key[c]] IN
  /\ Kind[c] = "subscribe" /\ MayBegin(c)
  /\ keys' = keys \cup {Key[c]}
  /\ caller' = [caller EXCEPT ![c] = IF new = {} THEN "done" ELSE "waiting"]
  /\ told' = [told EXCEPT ![c] = IF new = {} THEN "answer" ELSE @]
  /\ asks' = [asks EXCEPT ![c] = new]
  /\ held' = [held EXCEPT ![c] = TRUE]
  /\ UNCHANGED <<pend, tries, table, link, tasks, conn, net, server>>

\* unsubscribe: the table changes before the server is asked.
BeginUnsubscribe(c) ==
  LET k == Key[c]
      gone == IF Want[c] = {} THEN table[k] ELSE Want[c]
      popped == Want[c] = {} \/ table[k] \subseteq Want[c]
  IN
  /\ Kind[c] = "unsubscribe" /\ MayBegin(c)
  /\ IF k \notin keys \/ table[k] = {}
     THEN /\ caller' = [caller EXCEPT ![c] = "done"]
          /\ told' = [told EXCEPT ![c] = "answer"]
          /\ UNCHANGED <<asks, held, subscr>>
     ELSE /\ caller' = [caller EXCEPT ![c] = "waiting"]
          /\ asks' = [asks EXCEPT ![c] = gone]
          /\ table' = [table EXCEPT ![k] = @ \ gone]
          /\ keys' = IF popped THEN keys \ {k} ELSE keys
          /\ held' = [d \in Calls |-> held[d] /\ ~(popped /\ Key[d] = k)]
          /\ UNCHANGED told
  /\ UNCHANGED <<pend, tries, link, tasks, conn, net, server>>

\* current.update(new): lost when the key has been popped meanwhile.  The
\* caller does it at once: the next connection is at least a second away.
Recorded(c) ==
  IF held[c] /\ Kind[c] = "subscribe"
  THEN [table EXCEPT ![Key[c]] = @ \cup asks[c]] ELSE table

\* future.result times out: the caller goes on, the future is cancelled.
CallerTimeout(c) ==
  /\ caller[c] \in {"waiting", "sent"}
  /\ caller' = [caller EXCEPT ![c] = IF @ = "sent" THEN "cancelling" ELSE "done"]
  /\ told' = [told EXCEPT ![c] = IF Kind[c] = "write" THEN "unknown" ELSE "timeout"]
  /\ UNCHANGED <<pend, tries, asks, held, subscr, link, tasks, conn, net, server>>

\* ... and its coroutine takes the request out of _pending.
CancelRun(c) ==
  /\ caller[c] = "cancelling"
  /\ caller' = [caller EXCEPT ![c] = "done"]
  /\ pend' = [pend EXCEPT ![c] = 0]
  /\ UNCHANGED <<told, tries, asks, held, subscr, link, tasks, conn, net, server>>

-----------------------------------------------------------------------------
(* _request_async. *)

Write(u) == inbox' = [inbox EXCEPT ![cur] = IF alive[cur] THEN Append(@, u) ELSE @]

\* Mutant: every transport error is retried, whatever the action does.
GivesUpNever(c) == FALSE

\* Which transport errors are passed on instead of retried.
GivesUp(c) == Kind[c] = "write" \/ (Kind[c] = "install" /\ tries[c] >= 2)

\* Attempts matter to the actions that may not be retried for ever.
Attempted(c) == [tries EXCEPT ![c] = IF Kind[c] \in {"write", "install"} THEN @ + 1 ELSE @]

AfterError(c) == IF GivesUp(c) THEN "done" ELSE "waiting"
ErrorTold(c) ==
  IF ~GivesUp(c) THEN told[c] ELSE IF Kind[c] = "write" THEN "unknown" ELSE "error"

Send(c) ==
  /\ caller[c] = "waiting" /\ connected /\ cur # 0
  /\ caller' = [caller EXCEPT ![c] = "sent"]
  /\ pend' = [pend EXCEPT ![c] = cur]
  /\ tries' = Attempted(c)
  /\ Write(c)
  /\ UNCHANGED <<told, asks, held, subscr, link, tasks, conn, conns, drops, alive, outbox, server>>

\* _connected without a writer: the attempt fails before anything is written,
\* and one that is repeated without limit finds the same again.
SendNoWriter(c) ==
  /\ caller[c] = "waiting" /\ connected /\ cur = 0
  /\ tries' = Attempted(c)
  /\ LET last == Kind[c] = "write" \/ (Kind[c] = "install" /\ tries[c] >= 1) IN
     /\ caller' = [caller EXCEPT ![c] = IF last THEN "done" ELSE @]
     /\ told' = [told EXCEPT ![c] = IF ~last THEN @ ELSE
                                     IF Kind[c] = "write" THEN "unknown" ELSE "error"]
  /\ UNCHANGED <<pend, asks, held, subscr, link, tasks, conn, net, server>>

\* What an answer of the server means to the caller.
Meaning(c, kind) ==
  CASE kind = "ok" -> "answer"
    [] kind = "failed" /\ Kind[c] = "write" -> "unknown"
    [] OTHER -> "refused"

Deliver(u, kind) ==
  /\ pend' = [pend EXCEPT ![u] = 0]
  /\ IF u = Resub THEN asked' = {} /\ UNCHANGED <<caller, told, table>> ELSE
     /\ UNCHANGED asked
     /\ told' = [told EXCEPT ![u] = Meaning(u, kind)]
     /\ caller' = [caller EXCEPT ![u] = "done"]
     /\ table' = IF kind = "ok" THEN Recorded(u) ELSE table

-----------------------------------------------------------------------------
(* _reader_loop and _cleanup_transport. *)

\* A reader loop ends: _connected is cleared and the current writer closed,
\* whichever transport this reader was made for.
Die(t) ==
  /\ rd' = [rd EXCEPT ![t] = "closing"]
  /\ connected' = FALSE
  /\ alive' = [x \in Transports |-> alive[x] /\ x # cur]
  /\ at' = [at EXCEPT ![t] = cur]

\* Another task already waits for data on the current stream.
Awaited(t, rest) ==
  \/ loop = "shaking" /\ target = cur
  \/ rest[cur] = <<>> /\ \E x \in Transports \ {t} : rd[x] = "reading" /\ at[x] = cur

\* Back to read_message(self._reader): None, or a stream on which another
\* task is already waiting, ends the loop.
ReadOn(t, rest) ==
  IF cur = 0 \/ Awaited(t, rest)
  THEN Die(t)
  ELSE at' = [at EXCEPT ![t] = cur] /\ UNCHANGED <<rd, connected, alive>>

ReadMessage(t) ==
  LET n == at[t]
      m == Head(outbox[n])
      rest == [outbox EXCEPT ![n] = Tail(@)]
      awaited == m # Tick /\ pend[m[1]] = n
      cancelled == awaited /\ m[1] # Resub /\ caller[m[1]] = "cancelling"
  IN
  /\ rd[t] = "reading" /\ t \notin killed /\ outbox[n] # <<>>
  /\ outbox' = rest
  /\ IF cancelled
     THEN \* set_result on the cancelled future raises inside the reader loop
          /\ pend' = [pend EXCEPT ![m[1]] = 0]
          /\ Die(t)
          /\ UNCHANGED <<caller, told, table, asked>>
     ELSE /\ IF awaited THEN Deliver(m[1], m[2]) ELSE UNCHANGED <<caller, told, pend, table, asked>>
          /\ ReadOn(t, rest)
  /\ UNCHANGED <<tries, asks, held, keys, cur, rtask, killed, loop, target, left, size,
                 conns, drops, inbox, server>>

\* The stream a reader waits on ended while another transport is current.
ReaderEnds(t) ==
  /\ rd[t] = "reading" /\ t \notin killed /\ ~alive[at[t]] /\ cur \notin {0, at[t]}
  /\ Die(t)
  /\ UNCHANGED <<calls, subscr, cur, rtask, killed, conn, conns, drops, inbox, outbox, server>>

\* Mutant: requests in flight are forgotten instead of failed.
FailPendingForgets ==
  /\ pend' = [u \in Users |-> 0]
  /\ UNCHANGED <<caller, told>>

\* Every pending request fails with a transport error.
FailPending ==
  /\ pend' = [u \in Users |-> 0]
  /\ caller' = [c \in Calls |-> IF caller[c] = "sent" THEN AfterError(c) ELSE caller[c]]
  /\ told' = [c \in Calls |-> IF caller[c] = "sent" THEN ErrorTold(c) ELSE told[c]]

\* The rest of _cleanup_transport: cancel the current reader task unless it
\* is this one, fail what is pending, forget the transport.
Cleanup(t) ==
  /\ killed' = killed \cup ({rtask} \ {0, t})
  /\ rtask' = 0 /\ cur' = 0
  /\ FailPending
  /\ UNCHANGED <<tries, asks, held, subscr, at, conn, conns, drops, inbox, outbox, server>>

\* The current stream ended: there is nothing to wait for.
ReaderLost(t) ==
  /\ rd[t] = "reading" /\ t \notin killed /\ ~alive[at[t]] /\ cur \in {0, at[t]}
  /\ rd' = [rd EXCEPT ![t] = "done"]
  /\ connected' = FALSE
  /\ Cleanup(t)
  /\ UNCHANGED alive

\* After wait_closed.  A closed stream wakes the tasks that read it before
\* those that wait for it to be closed.
FinishCleanup(t) ==
  /\ rd[t] = "closing" /\ t \notin killed
  /\ \A x \in Transports : rd[x] = "reading" => at[x] # at[t]
  /\ rd' = [rd EXCEPT ![t] = "done"]
  /\ Cleanup(t)
  /\ UNCHANGED <<connected, alive>>

\* A cancelled reader ends as cancelled, wherever the cancellation met it.
CancelledEnds(t) ==
  /\ rd[t] \in {"reading", "closing"} /\ t \in killed
  /\ rd' = [rd EXCEPT ![t] = "cancelled"]
  /\ connected' = FALSE
  /\ alive' = [x \in Transports |-> alive[x] /\ x # cur]
  /\ Cleanup(t)

-----------------------------------------------------------------------------
(* _connect_loop. *)

ReaderCloses == \E t \in Transports : rd[t] = "closing"

\* A writer that is replaced while still open is closed when it is collected
\* (StreamWriter.__del__, from Python 3.11 on) or never.
Dial ==
  /\ loop = "dial" /\ conns < MaxConns /\ (SlowClose \/ ~ReaderCloses)
  /\ conns' = conns + 1
  /\ cur' = conns + 1
  /\ \E kept \in BOOLEAN :
       alive' = [t \in Transports |-> t = conns + 1 \/ (alive[t] /\ (t # cur \/ kept))]
  /\ loop' = "shaking" /\ target' = conns + 1
  /\ UNCHANGED <<calls, subscr, connected, rtask, tasks, left, size, asked, drops, inbox,
                 outbox, server>>

DialFail ==
  /\ loop = "dial"
  /\ loop' = "sleep"
  /\ UNCHANGED <<calls, subscr, link, tasks, target, left, size, asked, net, server>>

\* _resubscribe_all goes on to the next key that has symbols and sends its
\* request, which after a transport error waits without a timeout for
\* _connected, that only this loop sets; after the last one the loop awaits self._reader_task (`reader'),
\* where None cannot be awaited.
Visit(ks, reader) ==
  LET live == {k \in ks : k \in keys /\ table[k] # {}} IN
  IF live = {}
  THEN /\ loop' = IF reader = 0 THEN "sleep" ELSE "watch"
       /\ target' = reader /\ asked' = {}
       /\ UNCHANGED <<left, pend, inbox>>
  ELSE \E k \in live :
       /\ loop' = "resub" /\ left' = ks \ {k} /\ asked' = table[k]
       /\ IF cur = 0 THEN UNCHANGED <<pend, inbox>>
                     ELSE pend' = [pend EXCEPT ![Resub] = cur] /\ Write(Resub)
       /\ UNCHANGED target

\* The server registers the session; the client starts a reader task for it,
\* which asserts that there is a reader, and subscribes again.
HandshakeAck ==
  /\ loop = "shaking" /\ alive[target] /\ (SlowClose \/ ~ReaderCloses)
  /\ sess' = [sess EXCEPT ![target] = "open"]
  /\ connected' = TRUE
  /\ rtask' = target
  /\ rd' = [rd EXCEPT ![target] = IF cur = 0 THEN "failed" ELSE "reading"]
  /\ at' = [at EXCEPT ![target] = cur]
  /\ size' = Cardinality(keys)
  /\ Visit(keys, target)
  /\ UNCHANGED <<caller, told, tries, asks, held, subscr, cur, killed, conns, drops, alive, outbox,
                 subs>>

HandshakeFail ==
  /\ loop = "shaking" /\ ~alive[target]
  /\ loop' = "sleep"
  /\ UNCHANGED <<calls, subscr, link, tasks, target, left, size, asked, net, server>>

\* Its request was answered, or failed for good: the next key.
ResubNext ==
  /\ loop = "resub" /\ asked = {} /\ size = Cardinality(keys)
  /\ Visit(left, rtask)
  /\ UNCHANGED <<caller, told, tries, asks, held, subscr, link, tasks, size, conns, drops, alive,
                 outbox, server>>

\* The table changed size during the iteration: _connect_once raises.
ResubRaise ==
  /\ loop = "resub" /\ asked = {} /\ size # Cardinality(keys)
  /\ loop' = "sleep"
  /\ UNCHANGED <<calls, subscr, link, tasks, target, left, size, asked, net, server>>

\* Mutant: the loop ends with the first reader task.
WatchEndsOnce ==
  /\ loop = "watch" /\ rd[target] \in {"done", "failed", "cancelled"}
  /\ loop' = "dead"
  /\ UNCHANGED <<calls, subscr, link, tasks, target, left, size, asked, net, server>>

\* The reader task ended; its cancellation also ends the connect loop.
WatchEnds ==
  /\ loop = "watch" /\ rd[target] \in {"done", "failed", "cancelled"}
  /\ loop' = IF rd[target] = "cancelled" THEN "dead" ELSE "sleep"
  /\ UNCHANGED <<calls, subscr, link, tasks, target, left, size, asked, net, server>>

\* asyncio.sleep(backoff): tasks that were ready before run before.
Wake ==
  /\ loop = "sleep" /\ ~ReaderCloses
  /\ loop' = "dial"
  /\ UNCHANGED <<calls, subscr, link, tasks, target, left, size, asked, net, server>>

-----------------------------------------------------------------------------
(* The network and the server's sessions. *)

Drop(t) ==
  /\ alive[t] /\ drops < MaxDrops
  /\ drops' = drops + 1
  /\ alive' = [alive EXCEPT ![t] = FALSE]
  /\ UNCHANGED <<calls, subscr, link, tasks, conn, conns, inbox, outbox, server>>

Payload(u) == IF u = Resub THEN asked ELSE asks[u]
Action(u) == IF u = Resub THEN "subscribe" ELSE Kind[u]

\* The session serves its requests one at a time, also those it has already
\* received of a connection that is gone.
Serve(t) ==
  LET u == Head(inbox[t])
      answer(kind) == outbox' = [outbox EXCEPT ![t] =
                                   IF alive[t] THEN Append(@, <<u, kind>>) ELSE @]
  IN
  /\ sess[t] = "open" /\ inbox[t] # <<>>
  /\ inbox' = [inbox EXCEPT ![t] = Tail(@)]
  /\ \/ /\ Action(u) = "subscribe" /\ Cardinality(subs[t] \cup Payload(u)) <= MaxSubs
        /\ subs' = [subs EXCEPT ![t] = @ \cup Payload(u)]
        /\ answer("ok")
     \/ /\ Action(u) = "subscribe" /\ Cardinality(subs[t] \cup Payload(u)) > MaxSubs
        /\ answer("failed")
        /\ UNCHANGED subs
     \/ /\ Action(u) = "unsubscribe"
        /\ subs' = [subs EXCEPT ![t] = @ \ Payload(u)]
        /\ answer("ok")
     \/ /\ Action(u) \notin {"subscribe", "unsubscribe"}
        /\ \E kind \in {"ok", "failed", "coded"} : answer(kind)
        /\ UNCHANGED subs
  /\ UNCHANGED <<calls, subscr, link, tasks, conn, conns, drops, alive, sess>>

Push(t) ==
  /\ sess[t] = "open" /\ alive[t] /\ subs[t] # {}
  /\ \A i \in 1..Len(outbox[t]) : outbox[t][i] # Tick
  /\ outbox' = [outbox EXCEPT ![t] = Append(@, Tick)]
  /\ UNCHANGED <<calls, subscr, link, tasks, conn, conns, drops, alive, inbox, server>>

\* Mutant: a closed session stays in the subscription manager.
CloseSessionKeeps(t) ==
  /\ sess[t] = "open" /\ ~alive[t]
  /\ sess' = [sess EXCEPT ![t] = "closed"]
  /\ inbox' = [inbox EXCEPT ![t] = <<>>]
  /\ UNCHANGED <<calls, subscr, link, tasks, conn, conns, drops, alive, outbox, subs>>

CloseSession(t) ==
  /\ sess[t] = "open" /\ ~alive[t]
  /\ sess' = [sess EXCEPT ![t] = "closed"]
  /\ subs' = [subs EXCEPT ![t] = {}]
  /\ inbox' = [inbox EXCEPT ![t] = <<>>]
  /\ UNCHANGED <<calls, subscr, link, tasks, conn, conns, drops, alive, outbox>>

-----------------------------------------------------------------------------
Caller(c) ==
  \/ Begin(c) \/ BeginSubscribe(c) \/ BeginUnsubscribe(c) \/ CallerTimeout(c)

Coroutine(c) == CancelRun(c) \/ Send(c) \/ SendNoWriter(c)

Reader(t) ==
  ReadMessage(t) \/ ReaderEnds(t) \/ ReaderLost(t) \/ FinishCleanup(t) \/ CancelledEnds(t)

Connect ==
  \/ HandshakeAck \/ HandshakeFail \/ ResubNext \/ ResubRaise
  \/ WatchEnds \/ Wake

Next ==
  \/ \E c \in Calls : Caller(c) \/ Coroutine(c)
  \/ \E t \in Transports : Reader(t) \/ Drop(t) \/ Serve(t) \/ Push(t) \/ CloseSession(t)
  \/ Dial \/ DialFail \/ Connect

Spec == Init /\ [][Next]_vars

(***************************************************************************)
(* Fairness: the event loop runs every task that is ready, the server      *)
(* serves what it received, and dialling succeeds if tried for ever (the   *)
(* server is up).  Callers need not call and need not time out.            *)
(***************************************************************************)
FairSpec ==
  /\ Spec
  /\ \A c \in Calls : WF_vars(Coroutine(c))
  /\ \A t \in Transports : WF_vars(Reader(t)) /\ WF_vars(Serve(t))
  /\ WF_vars(Connect) /\ SF_vars(Dial)

-----------------------------------------------------------------------------
(* Properties. *)

(***************************************************************************)
(* A trading write is attempted once and a snapshot installation twice at  *)
(* most, across reconnects, retries and stray readers; and a write's       *)
(* caller is never told something that would let it write again unless the *)
(* server itself refused (_request_async).                                 *)
(***************************************************************************)
WritesAreNotRepeated ==
  \A c \in Calls :
    /\ Kind[c] = "write" => tries[c] <= 1 /\ told[c] \notin {"timeout", "error"}
    /\ Kind[c] = "install" => tries[c] <= 2

(***************************************************************************)
(* Whoever awaits an answer has a reader task that will deliver it or fail *)
(* it, or the connect loop is about to start one: no request is left in    *)
(* _pending with nobody to complete it.                                    *)
(***************************************************************************)
AwaitedIsRead ==
  \A c \in Calls : caller[c] = "sent" =>
    /\ pend[c] # 0
    /\ \/ \E t \in Transports : rd[t] \in {"reading", "closing"}
       \/ loop \in {"dial", "shaking", "sleep"}

(***************************************************************************)
(* Once a connection has been set up and its subscriptions were renewed,   *)
(* the server's session is subscribed to everything the client's table     *)
(* promises, whatever the callers do meanwhile (_resubscribe_all).  Only a *)
(* reader of an older connection that has come over to this stream may     *)
(* have brought an answer along that another session gave; the two readers *)
(* end the connection as soon as the stream is drained.                    *)
(***************************************************************************)
Serving == loop \in {"resub", "watch"} /\ connected /\ cur # 0
Joined  == \E t \in Transports : t # cur /\ rd[t] = "reading" /\ at[t] = cur
Settled == Serving /\ loop = "watch" /\ alive[cur] /\ ~Joined

SubscribedIsServed == Settled => UNION {table[k] : k \in keys} \subseteq subs[cur]

(***************************************************************************)
(* The server keeps no symbols for a session that is gone, so the polling  *)
(* loop does no work for it (unregister_session).                          *)
(***************************************************************************)
ClosedIsForgotten == \A t \in Transports : sess[t] # "open" => subs[t] = {}

(***************************************************************************)
(* While the server is reachable the client always gets connected again,   *)
(* and a started request ends even if its caller has no timeout.           *)
(***************************************************************************)
LinkComesBack == []<>connected
CallsEnd == \A c \in Calls : (caller[c] = "waiting") ~> (caller[c] = "done")

-----------------------------------------------------------------------------
(* What a proof of these by induction rests on. *)

\* Calls of different keys name different symbols: a provider has one key.
KeysApart ==
  \A c, d \in Calls : Managing(c) /\ Managing(d) /\ Key[c] # Key[d] => Want[c] \cap Want[d] = {}

\* No session reaches its limit: the server refuses what exceeds it, and
\* _resubscribe_all only logs that.
RoomForAll == IsFiniteSet(Symbols) /\ Cardinality(Symbols) <= MaxSubs

\* Without a writer nobody awaits an answer; with one somebody reads, or a handshake or
\* the next connection will.
WriterHasReader ==
  LET awaits == \E c \in Calls : caller[c] = "sent" IN
  /\ loop = "shaking" => target # 0
  /\ \A c \in Calls : caller[c] = "sent" => pend[c] # 0
  /\ awaits => cur # 0
  /\ cur # 0 /\ (connected \/ awaits) =>
       \/ \E t \in Transports : rd[t] \in {"reading", "closing"}
       \/ loop \in {"dial", "shaking", "sleep"}

Active(c) == caller[c] \notin {"idle", "done"}

\* Subscription calls take turns; who is in _pending has sent its request.
CallsTakeTurns ==
  /\ \A c, d \in Calls : Managing(c) /\ Managing(d) /\ Active(c) /\ Active(d) => c = d
  /\ \A c \in Calls : pend[c] # 0 => caller[c] \in {"sent", "cancelling"}

\* The table holds what its key was asked for, and nothing that is being unsubscribed.
TableIsWanted ==
  /\ \A k \in Keys : \A s \in table[k] : \E c \in Calls : Managing(c) /\ Key[c] = k /\ s \in Want[c]
  /\ \A k \in Keys \ keys : table[k] = {}
  /\ \A c \in Calls : Kind[c] = "subscribe" => asks[c] \subseteq Want[c] /\ (held[c] => Key[c] \in keys)
  /\ \A c \in Calls : Kind[c] = "unsubscribe" /\ Active(c) => \A k \in Keys : asks[c] \cap table[k] = {}

\* A transport that is dialled is new to everybody; nobody reads it before its handshake.
Unopened(t) == inbox[t] = <<>> /\ outbox[t] = <<>> /\ sess[t] = "none"

OpensFresh ==
  /\ cur <= conns /\ target <= conns /\ rtask <= conns
  /\ \A t \in Transports : at[t] <= conns
  /\ \A t \in Transports : t > conns => Unopened(t)
  /\ loop = "shaking" => /\ target # 0 /\ cur \in {0, target}
                         /\ sess[target] = "none" /\ outbox[target] = <<>>
                         /\ \A t \in Transports : rd[t] = "reading" => at[t] # target

\* The reader task of the handshake reads on for as long as the connection serves.
ServingIsRead == Serving => rd[cur] = "reading" /\ at[cur] = cur

Waits(u) == \E i \in 1..Len(inbox[cur]) : inbox[cur][i] = u
Answer(i, u) == outbox[cur][i] # Tick /\ outbox[cur][i][1] = u
Spoken(u) == \E i \in 1..Len(outbox[cur]) : Answer(i, u)

\* On a transport every request is made once; the connect loop makes one at a time.
AskedOnce ==
  /\ pend[Resub] # 0 => loop = "resub" /\ pend[Resub] = cur /\ asked # {}
  /\ cur # 0 =>
       /\ \A c \in Calls : caller[c] \in {"idle", "waiting"} => ~Waits(c) /\ ~Spoken(c)
       /\ \A i, j \in 1..Len(inbox[cur]) : inbox[cur][i] = inbox[cur][j] => i = j
       /\ \A i, j \in 1..Len(outbox[cur]) : Answer(i, Resub) /\ Answer(j, Resub) => i = j
       /\ ~(Waits(Resub) /\ Spoken(Resub))
       /\ Waits(Resub) \/ Spoken(Resub) => loop = "resub" /\ asked # {}

\* The requests to unsubscribe that the server has still to read.
Leaving == {i \in 1..Len(inbox[cur]) : Action(inbox[cur][i]) = "unsubscribe"}

\* They name nothing the table promises, and precede the request of a subscription under
\* way: when its answer is there, all of them were served and its symbols are subscribed.
AskedInOrder ==
  cur # 0 /\ alive[cur] =>
    /\ \A i \in Leaving : \A k \in Keys : Payload(inbox[cur][i]) \cap table[k] = {}
    /\ \A c \in Calls : Kind[c] = "subscribe" /\ caller[c] = "sent" =>
         /\ \A i \in Leaving : pend[c] = cur /\ \E j \in 1..Len(inbox[cur]) : j > i /\ inbox[cur][j] = c
         /\ pend[c] = cur /\ Spoken(c) => Leaving = {}
         /\ pend[c] = cur => \A i \in 1..Len(outbox[cur]) :
              outbox[cur][i] # Tick /\ outbox[cur][i] = <<c, "ok">> => asks[c] \subseteq subs[cur]

\* What the table promises is subscribed, or its renewal is on its way.
PromisesAreKept ==
  Serving /\ alive[cur] /\ ~Joined =>
    \A k \in Keys : \A s \in table[k] :
      \/ s \in subs[cur]
      \/ loop = "resub" /\ (k \in left \/ (s \in asked /\ Waits(Resub)))

SubsInv ==
  /\ CallsTakeTurns /\ TableIsWanted /\ OpensFresh /\ ServingIsRead /\ AskedOnce /\ AskedInOrder
  /\ PromisesAreKept
=============================================================================
