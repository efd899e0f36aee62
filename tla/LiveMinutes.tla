---------------------------- MODULE LiveMinutes ----------------------------
(* The minutes of the live engine (core/live_engine.py), with the orders the
   strategy places in them (core/orders.py), the two files that let a restart
   go on where the last process stopped (core/live_runtime.py) and the lock
   that keeps a second process out (core/live_lock.py).

   An engine that holds the locks runs one minute after the other: the
   scheduled tasks (core/async_scheduler.py, concurrently, in threads), the
   market hooks, then, in the strict checkpoint mode, the save of the
   strategy's memory g, then the orders, then the cursor.  The strategy is
   any program that notes in g each order it places and places none twice.

   Two switches of LiveConfig shape all this: strict is
   checkpoint_persistence_enabled, failOn is fail_on_schedule_error.  Without
   strict an order asks for its own processing at once, and g is saved by a
   thread at any time.  One trading day is modelled: its end only clears the
   cursor and the market hooks. *)
EXTENDS Integers, FiniteSets

CONSTANTS
  Orders,       \* what the strategy may order
  LastMinute,   \* bound: the minutes of the clock, from 1
  MaxTasks,     \* bound: tasks of one minute
  MaxBacks,     \* bound: how often the clock is set back
  MaxOutlived,  \* bound: what processes without locks hold when another one starts
  Modes,        \* pairs <<strict, failOn>> a deployment may choose
  None,         \* no cursor, no minute, no holder
  NoFile        \* the file does not exist

ASSUME LiveAssumption ==
  /\ LastMinute \in Nat \ {0} /\ MaxTasks \in Nat /\ MaxBacks \in Nat
  /\ MaxOutlived \in Nat
  /\ Modes \subseteq BOOLEAN \X BOOLEAN
  /\ None \notin Int /\ None \notin {"minute", "asked"}
  /\ \A S \in SUBSET Orders : NoFile # S
  /\ NoFile # None /\ NoFile \notin Int

VARIABLES
  strict, failOn,   \* the switches, the same for every process
  gfile, gtmp,      \* g.pkl: the orders g notes, or NoFile; its .tmp exists
  sfile, stmp,      \* live_state.json: its cursor; its .tmp exists
  leaving,          \* what g holds in a process without locks that will save it
  outlived,         \* the same, of processes that a later one was started beside
  crossed,          \* history: one of these wrote g.pkl
  now, backs,       \* the clock, and how often it was set back
  atBroker,         \* orders that reached the broker
  slipped,          \* history: orders that came between the save of g and the drain
                    \* from work outside the batch
  done,             \* minutes whose cursor was written
  raised,           \* history: a task of the minute's batch raised
  pc,               \* where the process that holds the locks is
  gmem,             \* g in its memory
  cursor, sched,    \* _last_schedule_dt; the minute being worked on
  dropped,          \* that minute is one event_time_out gives up
  queue,            \* _order_queue
  tagged,           \* orders that carry the token of the minute's batch
  batch,            \* the batch: none, active, closed or failed
  running, bad,     \* tasks that have not ended; one of them raised
  holder, taken,    \* who has the order lock; what it took from the queue
  asked,            \* an order has asked for the queue to be processed
  sick              \* the latch of the first failed save or load

modeVars   == <<strict, failOn>>
gVars      == <<gfile, gtmp>>
sVars      == <<sfile, stmp>>
exitVars   == <<leaving, outlived, crossed>>
worldVars  == <<now, backs>>
bookVars   == <<atBroker, slipped, done>>
batchVars  == <<tagged, batch, running, bad, raised>>
orderVars  == <<queue, holder, taken, asked>>
minuteVars == <<cursor, sched, dropped>>
engineVars == <<pc, gmem, minuteVars, batchVars, orderVars, sick>>
vars == <<modeVars, gVars, sVars, exitVars, worldVars, bookVars, engineVars>>

Minutes == 1 .. LastMinute
InMinute == {"tasks", "hooks", "save", "drain", "submit", "persist"}
Guarded == strict /\ failOn                  \* guard_schedule_orders
Saved   == IF gfile = NoFile THEN {} ELSE gfile
Up      == pc # "off"
Ready   == Up /\ pc # "stopping"             \* _startup_phase = "ready"

-----------------------------------------------------------------------------
(* Processes *)

NoProcess ==
  /\ pc = "off" /\ gmem = {} /\ cursor = None /\ sched = None /\ dropped = FALSE
  /\ queue = {} /\ tagged = {} /\ batch = "none" /\ running = 0 /\ bad = FALSE /\ raised = FALSE
  /\ holder = None /\ taken = {} /\ asked = FALSE /\ sick = FALSE

Init ==
  /\ \E m \in Modes : strict = m[1] /\ failOn = m[2]
  /\ gfile = NoFile /\ gtmp = FALSE /\ sfile = NoFile /\ stmp = FALSE
  /\ leaving = {} /\ outlived = {} /\ crossed = FALSE /\ now = 1 /\ backs = 0
  /\ atBroker = {} /\ slipped = {} /\ done = {}
  /\ NoProcess

\* The memory of the process is gone, whatever ended it.
Gone ==
  /\ pc' = "off" /\ gmem' = {} /\ cursor' = None /\ sched' = None /\ dropped' = FALSE
  /\ queue' = {} /\ tagged' = {} /\ batch' = "none" /\ running' = 0 /\ bad' = FALSE /\ raised' = FALSE
  /\ holder' = None /\ taken' = {} /\ asked' = FALSE /\ sick' = FALSE

FileCursor == IF sfile = NoFile THEN None ELSE sfile
Ahead(c)   == c # None /\ c > now

\* init_live_runtime and the strict pairing: what a start accepts on disk.
Orphan == (gtmp /\ gfile = NoFile) \/ (stmp /\ sfile = NoFile)
Acceptable ==
  /\ ~Orphan
  /\ strict => /\ ~Ahead(FileCursor)
               /\ FileCursor # None => gfile # NoFile
               /\ gfile # NoFile => sfile # NoFile

\* What g is restored from: the committed file, whatever its .tmp.
\* Mutant: a left-over .tmp makes the committed file doubtful.
RestoredUnlessTmp == IF gtmp THEN {} ELSE Saved
Restored == Saved

Start ==
  /\ pc = "off" /\ Acceptable
  /\ Cardinality(outlived \cup leaving) <= MaxOutlived
  /\ pc' = "boot" /\ gmem' = Restored
  /\ cursor' = IF Ahead(FileCursor) THEN None ELSE FileCursor
  /\ outlived' = outlived \cup leaving /\ leaving' = {} /\ crossed' = crossed
  /\ UNCHANGED <<modeVars, gVars, sVars, worldVars, bookVars,
                 sched, dropped, batchVars, orderVars, sick>>

\* _snapshot_strategy_metadata merges into the state that was read.
\* Mutant: it writes the metadata alone.
MetadataAlone == None
WithMetadata == FileCursor

Booted ==
  /\ pc = "boot"
  /\ \/ /\ sfile' = WithMetadata /\ stmp' = FALSE /\ pc' = "idle"
        /\ UNCHANGED <<gmem, minuteVars, batchVars, orderVars, sick>>
     \/ /\ stmp' \in {stmp, TRUE} /\ sfile' = sfile     \* the write failed
        /\ Gone
  /\ UNCHANGED <<modeVars, gVars, exitVars, worldVars, bookVars>>

\* What stands on disk when a process dies: a write under way leaves its .tmp.
Torn ==
  /\ gtmp' \in IF pc = "save" \/ ~strict THEN {gtmp, TRUE} ELSE {gtmp}
  /\ stmp' \in IF pc \in {"boot", "persist"} THEN {stmp, TRUE} ELSE {stmp}
  /\ UNCHANGED <<gfile, sfile>>

Crash ==
  /\ Up /\ Torn /\ Gone
  /\ UNCHANGED <<modeVars, exitVars, worldVars, bookVars>>

\* start() leaves its loop on an exception or a Ctrl-C: the minute's own coroutine
\* ends, the batch is closed, and _shutdown sets the phase to "stopped".
Halt ==
  /\ pc' = "stopping" /\ running' = 0
  /\ batch' = IF batch = "active" THEN "closed" ELSE batch
  /\ IF holder = "minute" THEN holder' = None /\ taken' = {} ELSE UNCHANGED <<holder, taken>>

\* A Ctrl-C, a hook that raises, or a latched failure that the loop, the hooks'
\* end or the processing of the orders finds.  (While it boots, it is a Crash:
\* nothing is saved.)
Interrupt ==
  /\ Ready /\ pc # "boot" /\ Halt
  /\ UNCHANGED <<modeVars, gVars, sVars, exitVars, worldVars, bookVars,
                 gmem, minuteVars, tagged, bad, raised, queue, asked, sick>>

\* _shutdown ends with the release of the locks; the last save_g is yet to come,
\* in run() after asyncio.run has returned.
Release ==
  /\ pc = "stopping" /\ Gone
  /\ leaving' = IF sick THEN leaving ELSE leaving \cup {gmem}
  /\ UNCHANGED <<modeVars, gVars, sVars, outlived, crossed, worldVars, bookVars>>

\* Such a process writes g, or dies or fails while it writes.  In the lenient mode
\* its exit handler (_atexit_save_g) will write g again.
LastWrite(g, S, Sn) ==
  \/ gfile' = g /\ gtmp' = FALSE /\ Sn \in {S \ {g}} \cup (IF strict THEN {} ELSE {S})
  \/ gfile' = gfile /\ gtmp' \in {gtmp, TRUE} /\ Sn = S \ {g}

FinalSave ==
  /\ \/ /\ \E g \in leaving : LastWrite(g, leaving, leaving')
        /\ UNCHANGED <<outlived, crossed>>
     \/ /\ \E g \in outlived : LastWrite(g, outlived, outlived')
        /\ crossed' = (crossed \/ gfile' # gfile)
        /\ leaving' = leaving
  /\ UNCHANGED <<modeVars, sVars, worldVars, bookVars, engineVars>>

-----------------------------------------------------------------------------
(* Orders of the strategy *)

\* _trigger_order_processing: the strict mode keeps the queue for the minute, else
\* the order asks for its processing.
Asks == ~strict

\* validate_order_request, then _enqueue_order under the queue's lock: an order of
\* the batch (inBatch) is refused once the batch is not active.
Accepted(inBatch) == Guarded /\ inBatch => batch = "active"

Place(o, inBatch) ==
  /\ Ready /\ batch # "failed" /\ o \notin gmem
  /\ gmem' = gmem \cup {o}
  /\ IF Accepted(inBatch)
       THEN /\ queue' = queue \cup {o} /\ asked' = (asked \/ Asks)
            /\ tagged' = IF Guarded /\ inBatch THEN tagged \cup {o} ELSE tagged
       ELSE UNCHANGED <<queue, asked, tagged>>
  /\ slipped' = IF Guarded /\ pc = "drain" /\ ~inBatch THEN slipped \cup {o} ELSE slipped
  /\ UNCHANGED <<modeVars, gVars, sVars, exitVars, worldVars, atBroker, done, pc,
                 minuteVars, batch, running, bad, raised, holder, taken, sick>>

BootOrders == pc = "boot"  /\ \E o \in Orders : Place(o, FALSE)
TaskOrders == pc = "tasks" /\ \E o \in Orders : Place(o, TRUE)
HookOrders == pc = "hooks" /\ \E o \in Orders : Place(o, FALSE)

\* A thread of the strategy's own, or one that a hook left behind, has no batch: it
\* orders at any time (in "hooks", as the hooks do).
ThreadOrders ==
  /\ pc \in {"idle", "tasks", "save", "drain", "submit", "persist"}
  /\ \E o \in Orders : Place(o, FALSE)

\* Work a task spawned with its context goes on after the task returned.
LateOrders ==
  /\ pc \in {"hooks", "save", "drain", "submit", "persist"} /\ ~dropped
  /\ \E o \in Orders : Place(o, TRUE)

-----------------------------------------------------------------------------
(* The minute *)

\* A minute that event_time_out gives up still saves g before its cursor.
\* Mutant: only the cursor is written.
DropsToPersist == "persist"
DropsTo == IF strict THEN "save" ELSE "persist"

\* A cursor ahead of the clock is taken back; a minute the cursor names is done;
\* minutes the clock has left behind are not made up for.
BeginMinute ==
  /\ pc = "idle" /\ ~sick /\ cursor # now
  /\ cursor' = IF Ahead(cursor) THEN now - 1 ELSE cursor
  /\ sched' = now
  /\ \/ /\ pc' = "tasks" /\ dropped' = FALSE
        /\ running' \in 0 .. MaxTasks /\ bad' = FALSE /\ raised' = FALSE /\ tagged' = {}
        /\ batch' = IF Guarded THEN "active" ELSE "none"
     \/ pc' = DropsTo /\ dropped' = TRUE /\ UNCHANGED batchVars
  /\ UNCHANGED <<modeVars, gVars, sVars, exitVars, worldVars, bookVars,
                 gmem, orderVars, sick>>

\* gather collects the results of all tasks, raised or returned.
\* Mutant: the last result decides.
LastResult(r) == r
AnyRaised(r) == bad \/ r

TaskEnds ==
  /\ pc = "tasks" /\ running > 0 /\ running' = running - 1
  /\ \E r \in BOOLEAN : bad' = AnyRaised(r) /\ raised' = (raised \/ r)
  /\ UNCHANGED <<modeVars, gVars, sVars, exitVars, worldVars, bookVars,
                 pc, gmem, minuteVars, tagged, batch, orderVars, sick>>

\* A failed batch takes its orders out of the queue and latches the engine.
TasksFail ==
  /\ pc = "tasks" /\ running = 0 /\ bad /\ failOn
  /\ pc' = "stopping"
  /\ IF Guarded
       THEN batch' = "failed" /\ queue' = queue \ tagged
       ELSE UNCHANGED <<batch, queue>>
  /\ UNCHANGED <<modeVars, gVars, sVars, exitVars, worldVars, bookVars, gmem,
                 minuteVars, tagged, running, bad, raised, holder, taken, asked, sick>>

\* _complete_order_batch.
\* Mutant: the batch of a minute that went well is left active.
CompletedOpen == batch
Completed == IF batch = "active" THEN "closed" ELSE batch

TasksDone ==
  /\ pc = "tasks" /\ running = 0 /\ ~(bad /\ failOn)
  /\ batch' = Completed /\ pc' = "hooks"
  /\ UNCHANGED <<modeVars, gVars, sVars, exitVars, worldVars, bookVars, gmem,
                 minuteVars, tagged, running, bad, raised, orderVars, sick>>

HooksDone ==
  /\ pc = "hooks" /\ ~sick
  /\ pc' = IF strict THEN "save" ELSE "drain"
  /\ UNCHANGED <<modeVars, gVars, sVars, exitVars, worldVars, bookVars, gmem,
                 minuteVars, batchVars, orderVars, sick>>

\* save_g: written beside the file and renamed, or latched as failed.
GWritten == gfile' = gmem /\ gtmp' = FALSE /\ sick' = sick
GFails   == gfile' = gfile /\ gtmp' \in {gtmp, TRUE} /\ sick' = TRUE

Save ==
  /\ pc = "save" /\ ~sick
  /\ \/ /\ GWritten /\ pc' = IF dropped THEN "persist" ELSE "drain"
        /\ UNCHANGED <<batch, running, holder, taken>>
     \/ GFails /\ Halt
  /\ UNCHANGED <<modeVars, sVars, exitVars, worldVars, bookVars, gmem,
                 minuteVars, tagged, bad, raised, queue, asked>>

\* The autosave thread of the lenient mode.
Autosave ==
  /\ ~strict /\ pc \notin {"off", "boot"} /\ ~sick
  /\ GWritten \/ GFails
  /\ UNCHANGED <<modeVars, sVars, exitVars, worldVars, bookVars, pc, gmem,
                 minuteVars, batchVars, orderVars>>

\* _process_orders takes the queue under the order lock; after the phase is
\* "stopped" its gate rejects every order it took.
Take(h) ==
  /\ holder = None /\ queue' = {}
  /\ taken' = IF pc = "stopping" THEN {} ELSE queue
  /\ holder' = IF taken' = {} THEN None ELSE h

Drain ==
  /\ pc = "drain" /\ ~sick /\ Take("minute")
  /\ pc' = IF taken' = {} THEN "persist" ELSE "submit"
  /\ UNCHANGED <<modeVars, gVars, sVars, exitVars, worldVars, bookVars, gmem,
                 minuteVars, batchVars, asked, sick>>

AskedDrain ==
  /\ Up /\ asked /\ asked' = FALSE
  /\ IF sick THEN UNCHANGED <<queue, holder, taken>> ELSE Take("asked")
  /\ UNCHANGED <<modeVars, gVars, sVars, exitVars, worldVars, bookVars, pc, gmem,
                 minuteVars, batchVars, sick>>

\* One order is refused (no price, risk control, the broker) or sent.
Submit ==
  /\ ~sick
  /\ \E o \in taken :
       /\ atBroker' \in {atBroker, atBroker \cup {o}}
       /\ taken' = taken \ {o}
  /\ IF taken' = {} THEN holder' = None ELSE holder' = holder
  /\ pc' = IF holder = "minute" /\ taken' = {} THEN "persist" ELSE pc
  /\ UNCHANGED <<modeVars, gVars, sVars, exitVars, worldVars, slipped, done, gmem,
                 minuteVars, batchVars, queue, asked, sick>>

\* A latched failure stops the processing that was asked for; that of the minute
\* ends by Interrupt.
AskedDies ==
  /\ holder = "asked" /\ sick /\ holder' = None /\ taken' = {}
  /\ UNCHANGED <<modeVars, gVars, sVars, exitVars, worldVars, bookVars, pc, gmem,
                 minuteVars, batchVars, queue, asked, sick>>

\* persist_scheduler_cursor; with it the minute and the locals of its handler end.
Persist ==
  /\ pc = "persist" /\ ~sick
  /\ \/ /\ sfile' = sched /\ stmp' = FALSE /\ cursor' = sched /\ done' = done \cup {sched}
        /\ sched' = None /\ dropped' = FALSE /\ pc' = "idle"
        /\ tagged' = {} /\ batch' = "none" /\ running' = 0 /\ bad' = FALSE /\ raised' = FALSE
        /\ UNCHANGED <<holder, taken, sick>>
     \/ /\ sfile' = sfile /\ stmp' \in {stmp, TRUE} /\ sick' = TRUE /\ Halt
        /\ UNCHANGED <<minuteVars, tagged, bad, raised, done>>
  /\ UNCHANGED <<modeVars, gVars, exitVars, worldVars, atBroker, slipped, gmem,
                 queue, asked>>

-----------------------------------------------------------------------------
(* The clock *)

Tick    == now < LastMinute /\ now' = now + 1 /\ backs' = backs
SetBack == backs < MaxBacks /\ now > 1 /\ now' = now - 1 /\ backs' = backs + 1

Clock ==
  /\ Tick \/ SetBack
  /\ UNCHANGED <<modeVars, gVars, sVars, exitVars, bookVars, engineVars>>

Next ==
  \/ Start \/ Booted \/ Crash \/ Interrupt \/ Release \/ FinalSave
  \/ BootOrders \/ TaskOrders \/ HookOrders \/ ThreadOrders \/ LateOrders
  \/ BeginMinute \/ TaskEnds \/ TasksFail \/ TasksDone \/ HooksDone
  \/ Save \/ Autosave \/ Drain \/ AskedDrain \/ Submit \/ AskedDies \/ Persist
  \/ Clock

Spec == Init /\ [][Next]_vars

-----------------------------------------------------------------------------
(* Properties *)

FilesOK ==
  /\ strict \in BOOLEAN /\ failOn \in BOOLEAN
  /\ gfile \in {NoFile} \cup SUBSET Orders /\ gtmp \in BOOLEAN
  /\ sfile \in {NoFile, None} \cup Minutes /\ stmp \in BOOLEAN
  /\ leaving \subseteq SUBSET Orders /\ outlived \subseteq SUBSET Orders
  /\ crossed \in BOOLEAN
  /\ atBroker \subseteq Orders /\ slipped \subseteq Orders /\ done \subseteq Minutes

ClockOK ==
  /\ now \in Minutes /\ backs \in 0 .. MaxBacks
  /\ cursor \in {None} \cup 0 .. LastMinute /\ sched \in {None} \cup Minutes
  /\ running \in 0 .. MaxTasks

EngineOK ==
  /\ pc \in {"off", "boot", "idle", "tasks", "hooks", "save", "drain", "submit", "persist",
             "stopping"}
  /\ gmem \subseteq Orders /\ queue \subseteq Orders /\ tagged \subseteq Orders
  /\ batch \in {"none", "active", "closed", "failed"}
  /\ dropped \in BOOLEAN /\ bad \in BOOLEAN /\ raised \in BOOLEAN
  /\ asked \in BOOLEAN /\ sick \in BOOLEAN

LockOK ==
  /\ holder \in {None, "minute", "asked"} /\ taken \subseteq Orders
  /\ (holder = None) <=> (taken = {})
  /\ holder = "minute" => pc = "submit"
  /\ pc = "submit" => holder = "minute"
  /\ pc \in InMinute => sched # None

TypeOK == FilesOK /\ ClockOK /\ EngineOK /\ LockOK

\* In the guarded mode an order that reached the broker is noted in g.pkl
\* (_trigger_order_processing keeps the queue for the minute, _handle_minute_tick
\* saves g before it takes it), so a restart at any point knows it: whoever placed
\* it, but for the orders that slipped in between the two, and until a process that
\* a later one outran writes its older g.
SentIsSaved == Guarded /\ ~crossed => atBroker \ slipped \subseteq Saved

\* No order of a scheduled batch reaches the broker before the batch has ended, nor
\* ever when a task in it raised (docs/live.md, "调度失败时的订单门禁"), not even one
\* that the batch spawned.
GateHolds ==
  [][Guarded /\ (batch = "active" \/ raised) => (atBroker' \ atBroker) \cap tagged = {}]_vars

\* Whatever stopped the last process, a start finds a pair of files it accepts, also
\* while that process has its last save to make: only a first write that was cut
\* short, or a clock that was set back, makes init_live_runtime or the strict
\* pairing refuse.
RestartAccepted == pc = "off" => Acceptable \/ Orphan \/ backs > 0

\* A minute whose cursor was written is not run again, across restarts, unless the
\* clock was set back.
DoneNotRepeated == [][pc' = "tasks" /\ pc # "tasks" => sched' \notin done \/ backs > 0]_vars

\* What g.pkl notes is still noted after the step.
Kept == gfile # NoFile => gfile' # NoFile /\ gfile \subseteq gfile'

\* What g.pkl notes is never taken back: no process writes an older g over a newer
\* (live_lock.py: one process at a time uses the runtime directory).
NothingIsForgotten == [][Kept]_vars

\* Crashes, restarts, failed writes and left-over .tmp files take nothing back from
\* g.pkl: only the late save of a process that a later one outran does.
KeptUnlessCrossed == [][~crossed' => Kept]_vars

-----------------------------------------------------------------------------
(* What a proof of these by induction rests on *)

\* The memory of the process holds what the file holds, and what is on its way.
MemoryIsAhead ==
  /\ ~Up => gmem = {}
  /\ Up /\ ~crossed => Saved \subseteq gmem
  /\ queue \cup taken \cup tagged \subseteq gmem

\* Until the next start, the last process holds what the file holds.
LastProcess ==
  /\ leaving # {} => pc = "off"
  /\ \A x, y \in leaving : x = y
  /\ ~crossed => \A x \in leaving : Saved \subseteq x

\* In the strict mode only the minute takes orders, after the save; in the guarded
\* mode only what slipped in joins the queue between the two, and a raised task is
\* not forgotten.
SavedBeforeTaken ==
  /\ strict => ~asked /\ holder # "asked"
  /\ pc \in {"tasks", "hooks", "drain", "submit"} => ~dropped
  /\ Guarded => /\ batch = "active" => pc = "tasks"
                /\ raised => bad /\ pc \in {"tasks", "stopping"}
  /\ Guarded /\ ~crossed => /\ pc = "drain" => queue \ slipped \subseteq Saved
                            /\ taken \ slipped \subseteq Saved

\* The strict pair of files: metadata before g, g before a cursor.
PairOnDisk ==
  strict => /\ \/ gfile # NoFile
               \/ leaving \cup outlived # {}
               \/ pc \notin {"off", "boot"}
               => sfile # NoFile
            /\ FileCursor # None \/ pc \in {"drain", "submit", "persist"} => gfile # NoFile

\* Until the clock is set back, the cursor in memory is the one on disk, and it is
\* the last minute done.
CursorIsLast ==
  backs = 0 =>
    /\ Up => cursor = FileCursor
    /\ \A m \in done : FileCursor # None /\ m <= FileCursor
    /\ FileCursor # None => FileCursor <= now
    /\ pc \in InMinute =>
         sched <= now /\ (cursor # None => cursor < sched)

IInv == TypeOK /\ MemoryIsAhead /\ LastProcess /\ SavedBeforeTaken /\ PairOnDisk
          /\ CursorIsLast /\ SentIsSaved
=============================================================================
