# TLA+ verification of BulletTrade

BulletTrade trades and backtests strategies in Python. This directory holds TLA+
models of the parts of it whose correctness depends on interleavings, crashes, timeouts
and lost messages, the TLC configurations that check them, and machine-checked proofs of
the most important facts. Paths without a prefix are under `src/bullet_trade/`.

`tlc -config <file>.cfg <module>` repeats a run, `tlapm <Component>Proofs.tla` the proofs of
a component. `PROJECT.json` lists components, runs, mutants, the source lines behind every
definition, findings, hazards and theorems.

## 1. Inventory

| Component | State it keeps | Operations | Talks to |
|---|---|---|---|
| Server write path (`server/app.py`, `session.py`) | per account a risk lock and daily counters; the idempotency cache with a fingerprint per entry; per session the request in hand and its broker-called marker | place, cancel, resolve_submission, time out, finalise | adapters through executor threads; clients over TCP |
| Server adapters (`server/adapters/`) | executor, order gate, snapshot caches, stub reservations | native order and cancel calls, queries, snapshot installation | vendor libraries |
| Remote client (`remote/connection.py`, `broker/qmt_remote.py`, `data/providers/remote_qmt.py`) | `_connected`, reader and writer, `_pending`, the table of subscriptions | request with retry, subscribe, unsubscribe, reconnect, resubscribe, resolve a doubtful write | the server; caller threads through futures |
| Server tick subscriptions (`server/tick.py`) | symbols and sessions | subscribe, unsubscribe, poll and push | sessions |
| Market data subscriptions (`market_data/subscriptions.py`, `subscription_runtime.py`, `feed.py`) | leases; sent, confirmed, planned, in-flight, uncertain scopes; failures; the epoch | add and remove leases, plan, claim, submit, confirm, reject, expire, reconcile, new epoch | vendor adapter; its callback thread |
| Typed market data (`market_data/queue.py`, `control_delivery.py`, …) | bounded data area, the window of controls, the delivery in flight, degraded scopes and authorised recoveries | enqueue, overflow, report and authorise a recovery, dispatch, acknowledge, drain | feed, consumers |
| Huaxin integration (`integrations/huaxin/`) | the day's transfer plan in a journal on disk, health, snapshots, the order gate | plan, submit and reconcile transfers, recover after a crash | counter, file system |
| Live engine (`core/live_engine.py`, `live_runtime.py`, `live_lock.py`) | the order queue and batch, strategy memory `g`, two state files, instance lock, local orders | run a minute, save, drain, submit, apply broker snapshots, recover | brokers, file system |
| Async framework (`core/async_scheduler.py`, `event_bus.py`, …) | task table, running flags, subscribers | trigger, skip, wait, emit | strategies |
| Risk control (`core/risk_control.py`) | daily counters, limits | check, record | server, live engine |
| Backtest (`core/engine.py`, `futures_account.py`, …) | portfolio, orders, positions | match, settle, roll | data providers |
| Data access, local brokers, tools | caches | reads, vendor calls, reports | files, vendors |

What makes each of them hard, and what must hold:

* **Write path.** Every `await` lets another session in; the session's timeout
  cancels a coroutine but not the executor thread it waits for; an answer may be wrong
  although no line that computes it is. A key must reach the counter at most once, an
  error that says "the broker was not called" must stay true, a definite answer must be
  true, counters must respect their limits, locks must be released.
* **Remote client.** One event loop, one connect loop, several reader tasks over time,
  all sharing the same fields. Nobody may wait for an answer that no reader will
  deliver, orders must not be repeated, the client must reconnect, and subscriptions
  must survive a reconnect.
* **Market data subscriptions.** Two threads drive one planner, while the vendor answers
  late, wrongly or never. A confirmed lease must be served, must stay so when a market is
  merged or split up, and nothing may be pushed that the manager does not know about.
* **Typed market data.** Losses happen while the report of earlier losses is being
  published, and a sink may take a report without its acknowledgement arriving. No data may
  pass a loss the consumer has not been told of, and no recovery may end a later loss.
* **Asset consolidation.** A crash between any two steps, a transfer whose answer is lost, and
  snapshots that are older than what they are compared with. No transfer may be made twice in
  a day, the journal must be true, orders must wait until the day is complete.
* **Live engine.** Two files that are replaced one after the other, tasks that run and fail in
  parallel, orders queued from threads at any time; broker reads that are applied late. What was
  sent must be on disk first, a failed minute sends nothing, no minute runs twice, no final
  status is wrong.

`PROJECT.json` "hazards" lists each of these at its line, with the properties that cover
it or the reason why none does.

## 2. Modules

| Module | Models | Checked by | Proved in |
|---|---|---|---|
| `WriteOnce` | what the server promises about one idempotency key, without any mechanism | implemented by `ServerWrites` (`KeepsPromise`) | |
| `ServerWrites` | the server's write path with sessions, threads, counter and restarts | `MCServerWrites`, two runs | `ServerWritesProofs` |
| `RemoteWrites` | `place_order` and `cancel_order` of the remote broker; composes with `ServerWrites`, which it extends | `MCRemoteWrites`, one run | `RemoteWritesProofs` |
| `RemoteLink` | the connection: connect loop, reader tasks, requests, subscriptions, and the server's sessions and tick table at the other end | `MCRemoteLink`, three runs | `RemoteLinkProofs` |
| `SubscriptionLeases` | lease manager and coordinator, as the feed drives them | `MCSubscriptionLeases`, one run | `SubscriptionLeasesProofs` |
| `ContinuityContract` | what a consumer of typed market data may rely on, without a queue | implemented by `ControlDelivery` (`KeepsContract`) | |
| `ControlDelivery` | the bounded queue and the dispatcher of its control deliveries | `MCControlDelivery`, one run | `ControlDeliveryProofs` |
| `AssetConsolidation` | the consolidation rounds with journal, counter, snapshots, crashes, and the order gate of the Huaxin adapter | `MCAssetConsolidation`, one run | `AssetConsolidationProofs` |
| `LiveMinutes` | the minutes of the live engine: tasks, hooks, order batch, state files, locks, crashes and restarts | `MCLiveMinutes`, two runs | `LiveMinutesProofs` |
| `LiveOrders` | what the live engine knows of the orders it has sent | `MCLiveOrders`, one run | `LiveOrdersProofs` |

### ServerWrites

State: `pc` is where a request's coroutine is in `_dispatch_broker` and
`_place_order_with_server_risk` (or the cancel's twin); `job` the executor thread; `cache`/`print` the idempotency cache;
`marker` the session's `_current_broker_called`; `riskLock`, `trades`, `cancels` the
account's risk state; `reply` the response. `fact` is what really happened at the counter;
the server never reads it except through the queries of resolve and of the cancel's
evidence. `claimed` and `born` are history.

Each action is one stretch of code between two awaits: read a request, precheck, claim the
key (hit, conflict, full, new), take the account lock, check risk, refuse or dispatch to the
executor, the thread's steps (start, take the order gate, mark, call natively, return or
raise), completion, the session's timeout at any point, resolve in two steps (cache first,
then the broker's orders), and a restart that empties everything in memory.

Abstractions: a fingerprint is the pair (action, body); bodies are model values that tell
payloads apart, and `Contract` is the security, side and amount of a body, all that a resolve
compares with an order's row; the broker's order list is `fact` of the orders with that key. Two adapter
shapes are covered by constants: Huaxin (`MarkInThread`, `SingleWorker`) and QMT.
`NativeErrors` says whether an exception after the native call carries an error code of its
own.

### RemoteWrites

Adds the client: one write on the wire, one resolve if the outcome is in doubt, and what the
caller is told. An order accepted and canceled at once comes back with its number and the status
canceled (`ended`), which the client reports as a failure. Lost transports and client timeouts are one action each, because the client
treats both as doubt. A cancel names an order the client has seen.

### RemoteLink

`loop` is where `_connect_loop` is, `rd[t]`/`at[t]` the reader task of handshake t and
the stream it reads. The fields `_reader`, `_writer` are one variable, `cur`, because the
code always assigns both. Caller threads hand coroutines to the loop (`caller`) and may time
out at any point. The network may drop any transport (`Drop`): it carries nothing more, while what
either side had already received is still served or read.

Assumptions: the provider makes one subscription call at a time; the thread of a call that
was answered records it at once (the next connection is at least a second away);
`SlowClose` says that closing a stream may take longer than opening the next (TRUE in all
passing runs; the counterexample does not need it). A writer dropped on a failed
handshake is closed by its finaliser or kept open: both are allowed (`kept` in `Dial`).

### SubscriptionLeases

`sent`, `confirmed`, `planned`, `inflight`, `uncertain`, `failures` are the fields of the
manager; `uncertain` and `inflight` also stand for the coordinator's `_uncertain` and
`_waiting`, which change in the same critical sections. `pc` follows `pump()` on two
threads: `feed` is whoever holds the feed's `_delivery_lock`, `vendor` the thread of the
vendor's callbacks. `truth` is what the vendor really pushes, `wire` accepted actions it
has not carried out, `answers` callbacks under way, also from an earlier connection.
`asked` is the epoch that `subscribe` or `unsubscribe` reads before it waits for the lock.

Assumptions about the vendor, which is not in the repository: an action of an earlier
connection has no effect on this one, and an uncertain action is reconciled only with
evidence that is final (it is neither under way nor being submitted). Each group has one
full scope, by the definition of `group_key`. A plan whose action the budget
`MaxActions` cannot pay for is not made: the pumping thread stops there and is not idle.

Left out: capacity limits, the 64-round limit, duplicate callbacks (the completed history
answers them without a change), partial cancellation by `remove_scopes`/`remove_all`, which
the feed does not use, and the receipts.

### ControlDelivery

Every method of the queue runs under its lock and is one step: a snapshot or another event enters
the data area or overflows it, the source reports a gap, a bad or a good state, a recovery is
authorised, data or legacy controls are drained. `dispatch_control_once` is three steps, since the
sink is called outside the lock: freeze the window into a delivery (or take the frozen one
again), publish, acknowledge. The sink may take the delivery or a part of it, refuse, raise, or return an
acknowledgement that does not match. `active`, `auth`, `unacked` are the queue's record of degraded
scopes; `pend`, `gapped`, `queued`, `status` its window; `batch`, `upto`, `bounds` what is in flight.
`known` and `view` are what the consumer has learned, `losses` what there was to learn.

Abstractions: the data is its number of events and the scopes with a replaceable snapshot;
delivery ids are "is this the delivery in flight"; a loss that the producer gets as a capacity
error is the producer's (`raised`, "excused" in the contract). Order of the data, marks and
metrics are left out.

### AssetConsolidation

`plan`, `act`, `amount`, `baseline` are the journal file; `health`, `healthDay`, `seen`, `stable` the
service's memory; `pc`, `cur`, `held` a round under way. A round is two steps, because what it reads can
be old when it acts: read the snapshots (early, blind or mismatched ones end it), then do what
`_drive` does with them (plan, start a transfer, settle the one under way, complete, block).
The native call is three more: call, counter's answer or exception, save of the result. The
counter decides, moves the asset, and shows its record later, in any order; relayed snapshots
arrive and age; the session is lost and rebuilt; the process crashes at any step and the
day changes. The order gate is looked at when an order comes in (`asked`) and again in the executor's thread
(`booked`). Assets may reach the source node late, and orders are filled and change the target's holdings.

Abstractions: malformed rows and identity conflicts are a round that fails; configured limits on the number
of actions, `stable_interval`, the dry run (which plans and submits nothing), the check of frozen residuals' drift and assets that leave
the source node by another way are left out.

### LiveMinutes

One process that holds the locks is at `pc`; one that has released them but will still
save `g` is in `leaving`, and in `outlived` as soon as another one starts beside it. `crossed` remembers that
one of these changed `g.pkl`. The minute: trigger the due tasks, which run in parallel threads and
note and place orders; close the batch or fail it; market hooks; in the checkpoint mode save `g`; drain the
queue; submit; save the cursor. Orders come from tasks, from work that a task spawned with the
batch's context (`LateOrders`), from hooks, and from plain threads without that context, at any time (`ThreadOrders`);
`slipped` remembers those of the last kind that came between the save of `g` and the drain. The two files are
written through `.tmp` and replaced one after the
other; a save may fail at either step, which latches and stops the engine. A crash may happen anywhere; a
start loads both files, checks that they pair, and refuses otherwise. Without the checkpoint mode an
order asks for its processing at once, an autosave thread writes `g` at any time, and the exit handler
writes it after `run()` has.

Abstractions: the strategy is any program that notes in `g` every order it places, in the same step, and places none
twice; one trading day (its end only clears the cursor); market markers and hooks are one
step; the metadata travels with the state file; a refusal by the order plan, by risk control or by the broker is
one refusal of `Submit`; a hook that raises is an interrupt; an interrupt during start is a
crash; the loop is left and the phase set to `stopped` in one step, so that the orders which the lenient mode can
still process while `SystemStopEvent` is emitted come before it. The time limit of `stop_g_autosave`, tick
subscriptions and capabilities are left out.

### LiveOrders

`local` is `Order.status` and `filled`, `broker` the broker's book. An order is queued, taken
under the order lock, sent, and numbered when the call returns. Then three kinds of readers hear of it: the
processing itself at its end (one step, on the loop), the periodic task and `get_orders` on strategy threads (two
steps, so that what was read may be applied after something newer). A cancel is asked,
answered, and heard (which writes `canceling`) at different times.

Left out: reconciliation of prices, positions, trades and costs; orders entered outside the
engine; strict mode's refusal to cancel sent orders; broker calls that return no number; restarts of
the process (those are in `LiveMinutes`).

## 3. Runs

A passing run is exhaustive for its instance. For every property of a passing run there is
a mutant in `PROJECT.json` — the model with a plausible bug in one definition — that the run
refutes.

| Run | States | Question |
|---|---|---|
| `writes_limits` | 1,759,000 | Huaxin shape: two orders, a retry on another session, a cancel and a resolve that names another price compete for a limit of one. Are all definite answers and every `broker_called=false` true, is the limit kept? |
| `writes_restart` | 146,000 | QMT shape: one key for two payloads, a second key and a cache of one entry, a restart. Is a key used at most once, is `WriteOnce` implemented, are locks released? |
| `calls_doubt` | 1,026,000 | An order and its cancel through timeouts on both sides, lost answers, coded errors, an order canceled at once, a racing resolve and a restart. Can the caller rely on "done" and on a definite failure? |
| `link_calls` | 32,000 | An order and a snapshot installation across reconnects. Are writes repeated? Does the client reconnect, does every call end? |
| `link_subs` | 1,537,000 | Two overlapping subscriptions and their cancellation race a resubscription, which may put a second connection beside a live reader. Is the table served, are closed sessions forgotten, has everyone who waits a reader? |
| `link_stuck` | violation | A transport lost during a resubscription stops the client for ever. |
| `leases_pump` | 1,946,000 | A market and one symbol of it over a reconnect, with one fault. Coverage, records and dispatch. |
| `control_loss` | 141,500 | Losses, gaps and states of two scopes against two dispatching threads. Is `ContinuityContract` implemented, is every loss told? |
| `assets_day` | 700,000 | A position and the fund in each mode, with two faults and a second day. Are transfers made once and in turn, is the journal true, do orders wait, does the day complete? |
| `live_minutes` | 3,333,000 | Two orders over two minutes with either switch or both, from tasks, hooks and threads, with failing tasks and files, crashes, slow exits and a clock set back. Is what was sent saved, does a failed batch send nothing, does a restart work, does a minute run twice, does `g.pkl` lose anything? |
| `live_exit` | violation | The last save of `g` after the locks are released loses what another instance has noted. |
| `live_orders` | 645,000 | Two orders in two parts each, a cancel of each, and three kinds of readers. Are final statuses and fills real, is every living order listed, does every status settle? |

`CHECK_DEADLOCK FALSE` is set everywhere because every instance has finitely many requests,
orders, signals or days, after which nothing more happens; that nobody waits who should not is
what the liveness properties, `AwaitedIsRead` and `DispatchedUnlessSkipped` say.

**Bounds.** Two sessions and at most five requests: the races are between two requests of one
key (place and retry, write and resolve) or of one account; `writes_restart` adds a third
one against a full cache. `MaxEpoch` = 1 is a restart, after which promises start afresh.
Counters limited to one reach their limit. In `RemoteLink` four transports and
one or two drops allow a connection, a loss, a reconnect, a second connection beside it and one
more after both fail. One key and two symbols are enough for the partial overlap of
subscriptions, as every user of a connection has one key. In `SubscriptionLeases` two leases over a
full scope and one of its symbols hit both transitions; three adapter actions are the shortest full
transition (subscribe, subscribe, unsubscribe); three epochs are a
connection, a loss and a second connection, which old answers and old calls can meet;
`MaxFaults` = 1 allows one refusal, denial, expiry, exception, lost or early answer.
In `ControlDelivery` areas of one event and one scope overflow at once, and three signals are a
loss, another one while the first is in flight, and a third after its acknowledgement. In
`AssetConsolidation` a position of two and a fund of one are moved in turn with a canary of one; two
faults can hit one transfer twice (a crash and a lost answer) or two transfers once; the
second day meets memory and journal of the first. In `LiveMinutes` two minutes are one that is lost or done
and the next one; two tasks run in parallel, one may fail beside the other;
two orders can lie on both sides of a save; one step back of the clock repeats a minute; one outrun
process (`MaxOutlived` = 1) is the one whose late save crosses the next one's. With neither switch an exception of a task
changes nothing, so that its behaviours are those of `fail_on_schedule_error` alone in which no task raises. In `LiveOrders` two
parts of a fill distinguish partial from final, and the periodic task and one thread can hold snapshots of different times while the processing applies a third.

**Fairness.** `ServerWrites!FairSpec` assumes only that `asyncio.wait_for` fires for a request
that stays in flight: native calls, threads and the counter may hang for ever.
`RemoteLink!FairSpec` assumes that the event loop runs ready tasks, that the server serves what
it has received, and, strongly, that dialling works again and again (the server is reachable).
Callers need not call and need not time out; the network need not drop anything.
`AssetConsolidation!FairSpec`: the loop keeps driving, native calls return (they have a
timeout), snapshots keep coming, the watchdog rebuilds the session, the counter works off what
it has got; crashes and losses are bounded, not fair. `ControlDelivery!FairSpec`: somebody dispatches
again and again, and a sink that is offered the same delivery for ever accepts it once (strong).
`LiveOrders!FairSpec`: the periodic task runs (`order_sync_enabled`, and a broker that can list its
orders), and cancels are answered and heard. The safety runs assume nothing.

## 4. Proofs

All theorems hold for every value of the constants that satisfies the modules' named assumptions: any
number of requests, sessions, calls, transports, leases, scopes, assets, days, orders, readers,
crashes and faults. Every proof has the same frame: an inductive invariant `IInv`, one lemma
per part of it (or per action), `Invariance` by `PTL`, and the properties as
consequences. `TypeOK` and `IInv` are stated by theorems only; no run repeats them.

* **`ServerWritesProofs`** — `TypeCorrect`, `Invariance`, `AtMostOnce`, `NotCalledHolds`, `CountsHold`,
  `PlaceAnswersAreTrue`, `RejectedWrites`, `RejectedDead`, `CancelAnswersAreTrue`, `Refinement`.
  `PlaceAnswersAreTrue` says "an order of that key and contract", as the code's comparison does; section 6 says what it leaves open.
  `AtMostOneNativeCall` is not inductive: it needs to know that whoever has a thread or a trace
  at the counter holds the claim of its key (`ClaimedFirst`), and that a claim is
  never given twice because claimed keys stay in the cache of their run (`KeysClaimed`, `KeyOpen`). For
  `NotCalledIsTrue` the invariant also says that a session serves one request
  at a time and that its marker is set before the thread passes the point of no return
  (`MarkedInTime`): the timeout may say "not called" only while the thread can still be stopped by
  the gate. `CountsWithinLimits` needs that whoever has passed the check of the limit holds the account's lock until it has
  counted (`LockSpans`). For the answers, what is stored or told as accepted must be on the book
  (`StoredIsOrdered`), which no later fact of the counter takes back; what is told as rejected must have
  nobody left who could send it (`RejectedInv`). `Refinement` maps the cache to the promise: `KeysClaimed` says that a
  claim of the detailed server is the first of the abstract one, and the answers above
  that a decision told is the decision made.
  Two theorems have a hypothesis. `RejectedDead` takes a server that does not restart (`MaxEpoch` = 0); section 6 says
  what happens after a restart, and `RejectedWrites` says what holds even then.
  `CancelAnswersAreTrue` takes `CancelsNameOrders`: the fingerprint of a cancel covers the number of its order
  (`order_id` in `_build_write_fingerprint`), so that two payloads of one key and body name one order.
* **`RemoteWritesProofs`** — `ServerIsKept` shows that the composed specification implements
  `Spec` of `ServerWrites`, so that its theorems carry over (`CallsOnce`). `DoneCallsAreReal`: what is stored in the cache
  or told as accepted is on the book (`AcceptedIsReal`), because a fact of the counter that justifies it never
  goes away (`FactMoves`) and a key belongs to one write. `FailedCallsAreDead`, which assumes nothing: whatever is
  stored or told as refused is a write nothing can come of any more (`Hopeless`: never sent and
  nobody left to send it, refused, void, or a cancel of an order that has ended), and an order whose answer
  showed it canceled stays so (`EndedIsCanceled`). Errors with a code of the adapter's own after the native call are
  excepted in the property; section 5, 3.
* **`RemoteLinkProofs`** — `TypeCorrect`, `WritesOnce`, `ClosedForgotten`, `AwaitedAreRead`, `SubscribedAreServed`.
  A second attempt would
  only break `WritesAreNotRepeated` afterwards: the invariant adds that a call which may still make an attempt
  has one left (`Spared`). Every step changes at most one call or, when a transport fails,
  all those in flight, so each action has a lemma that looks at one call only (`OneCall`).
  `AwaitedIsRead` rests on `WriterHasReader`: without a writer nobody awaits an answer, because every way to lose it fails what is
  pending, and with one somebody reads or a handshake will.
  `SubscribedIsServed` needs most of the connection (`SubsInv`), in the order in which the proof builds it: subscription calls take turns
  (`CallsTakeTurns`); the table holds only what its key was asked for and nothing that is being unsubscribed
  (`TableIsWanted`); a new transport carries nothing old (`OpensFresh`); the reader of the handshake reads on for as long as the
  connection serves (`ServingIsRead`); a request is on a transport once, in the queue to the
  server or as its answer (`AskedOnce`); unsubscriptions still queued name nothing promised and
  precede the subscription under way (`AskedInOrder`); so what the table promises is subscribed, or its key
  has still to be visited, or the request of the connect loop names it and has not been served (`PromisesAreKept`).
  Its hypotheses: `KeysApart`, calls of different keys name different symbols (a provider uses one key,
  `data/providers/remote_qmt.py:365`), since the server knows no keys and an unsubscription of one would take
  the symbols of the other; and `RoomForAll`, the symbols fit into one session (`max_subscriptions`, 200 unless configured):
  section 6 says why. Every instance that TLC checks satisfies both.
* **`SubscriptionLeasesProofs`** — `Invariance`, `TypeCorrect`, `ActionsAreSingle`, `StrayFree`,
  `ConfirmedAreServed`, `CoverageKept`, `WorkAttended`, `AllIsDispatched`. The heart is `TruthOnRecord`: what the vendor pushes is
  what is confirmed, except for open actions that have been carried out and whose answer is under way
  or lost; with `OpenOnRecord` (open actions are on record as sent) and `AnswersTrue` (an answer
  of this epoch says what was done) it follows that nothing stray is pushed and that a confirmed lease
  is served. `CoverageKept` rests on the order in which `take_actions` replaces: no scope is removed unless another
  stable one covers what it served. `DispatchedUnlessSkipped` speaks of idle threads only; `WorkIsAttended` follows
  the work while they run: as long as something is left to plan, a thread is before the end of its loop or the one that
  dispatches was asked to pump again.
* **`ControlDeliveryProofs`** — `Invariance`, `TypeCorrect`, `AuthorisedAreTold`, `UnackedOutstanding`,
  `Refinement`. The invariant follows a loss: it is in the window, in the delivery in
  flight, or known (`LossesOnRecord`), and so is the last status of a scope (`StatusOnRecord`). Hence an empty
  window with nothing in flight, the condition for data to leave, means that the consumer knows all, which is the guard
  of the contract's `Release`. `Refinement` maps every action to a step of the contract or a stutter.
* **`AssetConsolidationProofs`** — `Invariance`, `TypeCorrect`, `SubmitsOnce`, `TransfersInTurn`,
  `JournalHolds`, `GatedOrders`. `JournalAhead`: a transfer that was called is on record as started; `InOrder`: actions are
  tried by rank; `NothingHidden`: until an asset has moved, no snapshot a round may still read shows less of it
  than its action was planned with, which is why a shortfall proves success. `GatedOrders` needs that memory says `complete`
  on the journal's day only if the journal does, and that an order in the executor's queue looks once more.
* **`LiveMinutesProofs`** — `TypeCorrect`, `Invariance`, `SentOrdersAreSaved`, `FailedBatchIsNotSent`,
  `StartsAgain`, `NotesAreKept`, `MinutesRunOnce`, none with a hypothesis. `MemoryIsAhead` and `LastProcess`: until an outrun
  process writes (`crossed`), the memory of the running process, or of the last one while it leaves, holds what the file holds and all
  that is on its way to the broker; `SavedBeforeTaken`: in the guarded mode only what slipped in joins the queue between the save
  and the drain, and a task that raised is not forgotten; `PairOnDisk`: the files pair at every point of a save, whoever writes `g`;
  `CursorIsLast`: until the clock is set back. `FailedBatchIsNotSent`, `StartsAgain` and `MinutesRunOnce` hold after `crossed` too.
  `live_exit` shows what happens then to `g.pkl`.
* **`LiveOrdersProofs`** — `Invariance`, `TypeCorrect`, `FinalStatusIsTrue`, `LivingIsListed`,
  `ReportedFillsAreReal`. `ReadsAreBehind`: a snapshot that is still to be applied never says more than
  the book, so an old one can move a status back but never to something final and false.

Every safety invariant, action property and refinement that a passing run checks is stated by a theorem. Only
model-checked is liveness, which rests on fairness and `ENABLED` (`LockIsReleased`, `LinkComesBack`, `CallsEnd`,
`LossIsTold`, `DayCompletes`, `StatusSettles`) and is out of the prover's reach, as is induction over data; no module here
declares a RECURSIVE operator.

## 5. Findings

Shown by a run:

1. `link_stuck`: the connect loop awaits its own resubscription, whose retry waits for the
   flag that only the connect loop sets (`remote/connection.py:439`).
2. `live_exit`: `run()` saves `g` once more after `_shutdown` has released the locks
   (`core/live_engine.py:337`): an instance started in between restores the older `g`, or has its
   own overwritten.

Met while modelling; the models carry the behaviour, and the properties exclude it by name:

3. `BIG_QMT_GATEWAY_TIMEOUT` (`server/adapters/big_qmt.py:331`) and other codes raised after the native call are
   passed to the caller as a definite failure while the order lives (`remote/connection.py:483`). `NativeErrors`
   allows them, also in `calls_doubt`; `FailedIsDead` excepts them by name (`CodedAfterCall`).
4. `docs/live.md:174` says that an order placed after the scheduled callback has returned is rejected. That is true of work
   with the batch's context. A plain `threading.Thread` does not inherit it, and `_enqueue_order` accepts its order
   (`core/orders.py:93`): section 6 says what comes of it.

## 6. Not modelled, and what the properties exclude

Behaviour of the code that a property would refute if it did not exclude it:

* An order whose request times out or whose adapter raises after the native call is never
  counted, so more than `MAX_DAILY_TRADES` orders can reach the counter (`server/app.py:638`,
  `docs/config.md:237`). `CountsWithinLimits` is about the counters.
* After a restart `resolve_submission` judges by the counter's orders of all runs: it can report the void order of an earlier
  run as rejected while the same key is being sent again, and lives (the server says so itself:
  `cross_restart_exactly_once` is False, `server/app.py:1197`). `RejectedStaysDead` is checked and proved within one run.
* A resubscription that the server refuses because the session is full is only logged (`remote/connection.py:557`): with two
  keys, a new subscription can take the room of one that is being renewed, and the table goes on to promise
  what the server does not serve. `SubscribedIsServed` is proved under `RoomForAll`.
* A reader of an older connection that is late delivers the answer of an older session to the new connection, and comes over to its
  stream (`remote/connection.py:375` reads `self._reader` anew each time): until the two readers have ended that connection
  the table can promise what only the old session served. `SubscribedIsServed` excludes this time (`Joined`).
* `unsubscribe` during `_resubscribe_all` changes the dictionary it iterates over; the second
  connection that follows can end the task that reconnects (`remote/connection.py:340`). `link_calls`, which
  checks that the client comes back, makes no subscriptions.
* A callback between `take_actions` and `claim_action` may make the claim raise; the exception drops the pump
  that the callback asked for, and a lease stays undispatched (`market_data/subscription_runtime.py:558`).
  `subscribe` has a second way to the same state: when the feed reconnects between its reading of the epoch and the lock, it
  adds the lease and does not pump (`market_data/feed.py:1680`). `DispatchedUnlessSkipped` shows that these are
  the only ones in the model.
* The health that the Huaxin order gate reads stays `complete` overnight, until the first round
  of the new day (`integrations/huaxin/asset_consolidation.py:1156`, whose docstring says that only a complete
  plan of the day counts). `OrdersOnlyWhenComplete` excludes exactly this time.
* `_position_key` (`asset_consolidation.py:658`) leaves out the shareholder account: two positions of one
  security under two accounts are compared with one sum on the target node, and the consolidation can stay in
  `source_target_asset_delta_mismatch` (line 1776). In `assets_day` every asset has its own key.
* Any exception of `broker.buy` makes the order `rejected`, and it gets no number to find it by
  (`core/live_engine.py:1103`), although it may live and `docs/live.md:140` describes `submit_unknown`. These orders
  are `unsure` in `LiveOrders`, and `FinalIsTrue` and `AliveIsOpen` exclude them.
* A stale snapshot can move a filled order back to open until the next sync
  (`core/live_engine.py:1576`), as can a late `canceling`; `StatusSettles` says that it does not last.
  The count of the maximum number of positions ignores open orders.
* `BT_LIVE_FAIL_ON_SCHEDULE_ERROR` (`docs/live.md:172`) guards a batch's orders only together with
  `checkpoint_persistence_enabled` (`core/live_engine.py:741`), which no environment variable sets.
  `GateHolds` is about both switches, and about the batch's own orders: an order of a plain thread, which does not inherit the
  batch's context, is sent with the minute although the doc says that late orders are rejected (`docs/live.md:174`).
  After a failed batch it is rejected like all others (`core/orders.py:166`).
* Such an order that comes between the save of `g` (`core/live_engine.py:792`) and the drain (`:923`) is sent without
  being noted on disk. `SentIsSaved` excepts exactly these (`slipped`), and the time after the late save of an outrun
  process has overwritten `g.pkl` (`crossed`), which `live_exit` shows.
* A resolve takes for its evidence an order of its key with the security, side and amount it names
  (`_order_matches_submission_contract`, `server/app.py:1682`): while the cache does not hold the key (after a restart, or when the resolve
  read it before the write claimed it), an order at another price than
  the one asked about is reported as accepted. `PlaceAnswerTrue` says no more than the code compares; the
  remote client never gives one key to two payloads, which is why `DoneIsReal` can say more.
* The autosave thread pickles `g` while strategy threads change it: a `RuntimeError` latches the failure and stops
  the engine (`core/live_runtime.py:506`), which is a failed save in `LiveMinutes`. After a failed batch
  the last save keeps notes of orders that were refused. Minutes that an overrun skips are skipped by
  design (`core/async_scheduler.py:563`).

Components with status `not_modelled` in `PROJECT.json` give their reason: numeric simulation over
data frames, thin vendor calls, caches of reads, command line and reports. Within the
modelled components: read-only queries, routing of sub-accounts, framing and audit; waiting for fills
and price rounding; value and ratio limits of `RiskController`; the capacity limits of
leases; the snapshot relay, the side car and the native wrapper of Huaxin; the `WAIT` and `CONCURRENT` overlap
strategies, which the live loop does not choose, and the inside of the event bus, whose `emit` is part of the hooks' step.

## 7. Plan

What is left, in this order:

1. `AsyncScheduler`, `EventBus`: overlap strategies; delivery while subscribers change.
2. Arithmetic modules: `RiskController` checks, the futures account, closeable amounts.
3. The Huaxin snapshot relay: installation of a snapshot against rounds that read the last one.
4. Proofs: the safety half of the liveness properties (nobody waits for a lock, a slot or an answer that no
   enabled step can give).
