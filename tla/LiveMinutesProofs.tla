-------------------------- MODULE LiveMinutesProofs --------------------------
(* Proofs about LiveMinutes: what a restart finds, for any orders, minutes,
   tasks and modes, and for any process that exits slowly. *)
EXTENDS LiveMinutes, TLAPS

\* What the provers need of the constants.
LEMMA Bounds ==
  /\ LastMinute \in Nat \ {0} /\ MaxTasks \in Nat /\ MaxBacks \in Nat
  /\ Modes \subseteq BOOLEAN \X BOOLEAN
  /\ None \notin Int /\ None # "minute" /\ None # "asked"
BY LiveAssumption DEF LiveAssumption


\* What the last saves may write: what a process holds, and only a process that a
\* later one outran changes g.pkl across.
LEMMA FinalSaveWrites ==
  ASSUME FinalSave, crossed \in BOOLEAN
  PROVE  /\ leaving' \subseteq leaving /\ outlived' \subseteq outlived
         /\ gfile' = gfile \/ gfile' \in leaving \/ (gfile' \in outlived /\ crossed')
         /\ gtmp' \in {gtmp, TRUE, FALSE} /\ crossed' \in BOOLEAN
         /\ crossed => crossed'
<1>1. ASSUME NEW g, NEW S, NEW Sn, g \in S, LastWrite(g, S, Sn)
      PROVE  Sn \subseteq S /\ (gfile' = gfile \/ gfile' \in S) /\ gtmp' \in {gtmp, TRUE, FALSE}
  BY <1>1 DEF LastWrite
<1>2. CASE /\ \E g \in leaving : LastWrite(g, leaving, leaving')
           /\ UNCHANGED <<outlived, crossed>>
  BY <1>1, <1>2
<1>3. CASE /\ \E g \in outlived : LastWrite(g, outlived, outlived')
           /\ crossed' = (crossed \/ gfile' # gfile)
           /\ leaving' = leaving
  <2>1. /\ outlived' \subseteq outlived /\ gtmp' \in {gtmp, TRUE, FALSE}
        /\ gfile' = gfile \/ gfile' \in outlived
    BY <1>1, <1>3
  <2>2. crossed' \in BOOLEAN /\ (crossed => crossed') /\ (gfile' # gfile => crossed')
    BY <1>3
  <2> QED
    BY <1>3, <2>1, <2>2
<1> QED
  BY <1>2, <1>3 DEF FinalSave

\* The files, the broker and what a process without locks holds keep their types.
LEMMA FilesStep == ASSUME FilesOK, EngineOK, ClockOK, LockOK, [Next]_vars PROVE FilesOK'
<1> USE Bounds DEF FilesOK, EngineOK, ClockOK, LockOK, Minutes, InMinute, modeVars, gVars,
     sVars, exitVars, worldVars, bookVars, batchVars, orderVars, minuteVars, engineVars
<1>1. CASE Start
  BY <1>1 DEF Start, Restored, Ahead, FileCursor, Saved
<1>2. CASE Booted
  BY <1>2 DEF Booted, WithMetadata, FileCursor, Gone
<1>3. CASE Crash
  BY <1>3 DEF Crash, Torn, Gone
<1>4. CASE Interrupt
  BY <1>4 DEF Interrupt, Ready, Up, Halt
<1>5. CASE Release
  BY <1>5 DEF Release, Gone
<1>6. CASE FinalSave
  <2>1. UNCHANGED <<strict, failOn, sfile, stmp, atBroker, slipped, done>>
    BY <1>6 DEF FinalSave
  <2>2. /\ leaving' \subseteq leaving /\ outlived' \subseteq outlived
        /\ gfile' = gfile \/ gfile' \in leaving \/ gfile' \in outlived
        /\ gtmp' \in {gtmp, TRUE, FALSE} /\ crossed' \in BOOLEAN
    BY ONLY <1>6, FinalSaveWrites, FilesOK, Zenon DEF FilesOK
  <2> QED
    BY <2>1, <2>2
<1>7. CASE BootOrders
  BY <1>7 DEF BootOrders, Place, Accepted, Asks
<1>8. CASE TaskOrders
  BY <1>8 DEF TaskOrders, Place, Accepted, Asks
<1>9. CASE HookOrders
  BY <1>9 DEF HookOrders, Place, Accepted, Asks
<1>10. CASE ThreadOrders
  BY <1>10 DEF ThreadOrders, Place, Accepted, Asks
<1>11. CASE LateOrders
  BY <1>11 DEF LateOrders, Place, Accepted, Asks
<1>12. CASE BeginMinute
  BY <1>12 DEF BeginMinute, Ahead, DropsTo
<1>13. CASE TaskEnds
  BY <1>13 DEF TaskEnds, AnyRaised
<1>14. CASE TasksFail
  BY <1>14 DEF TasksFail
<1>15. CASE TasksDone
  BY <1>15 DEF TasksDone, Completed
<1>16. CASE HooksDone
  BY <1>16 DEF HooksDone
<1>17. CASE Save
  BY <1>17 DEF Save, GWritten, GFails, Halt
<1>18. CASE Autosave
  BY <1>18 DEF Autosave, GWritten, GFails
<1>19. CASE Drain
  BY <1>19 DEF Drain, Take
<1>20. CASE AskedDrain
  BY <1>20 DEF AskedDrain, Take
<1>21. CASE Submit
  BY <1>21 DEF Submit
<1>22. CASE AskedDies
  BY <1>22 DEF AskedDies
<1>23. CASE Persist
  BY <1>23 DEF Persist, Halt
<1>24. CASE Clock
  BY <1>24 DEF Clock, Tick, SetBack
<1>25. CASE UNCHANGED vars
  BY <1>25 DEF vars
<1> QED
  BY <1>1, <1>2, <1>3, <1>4, <1>5, <1>6, <1>7, <1>8, <1>9, <1>10, <1>11, <1>12, <1>13,
       <1>14, <1>15, <1>16, <1>17, <1>18, <1>19, <1>20, <1>21, <1>22, <1>23, <1>24, <1>25
       DEF Next

\* The clock, the cursor and the running tasks stay within their bounds.
LEMMA ClockStep == ASSUME ClockOK, FilesOK, [Next]_vars PROVE ClockOK'
<1> USE Bounds DEF ClockOK, FilesOK, Minutes, InMinute, modeVars, gVars, sVars, exitVars,
     worldVars, bookVars, batchVars, orderVars, minuteVars, engineVars
<1>1. CASE Start
  BY <1>1 DEF Start, Restored, Ahead, FileCursor, Saved
<1>2. CASE Booted
  <2>1. UNCHANGED <<now, backs>> /\ cursor' \in {cursor, None}
          /\ sched' \in {sched, None} /\ running' \in {running, 0}
    BY ONLY <1>2 DEF Booted, Gone, worldVars, minuteVars, batchVars
  <2> QED
    BY <2>1
<1>3. CASE Crash
  BY <1>3 DEF Crash, Torn, Gone
<1>4. CASE Interrupt
  BY <1>4 DEF Interrupt, Ready, Up, Halt
<1>5. CASE Release
  BY <1>5 DEF Release, Gone
<1>6. CASE FinalSave
  BY <1>6 DEF FinalSave, LastWrite
<1>7. CASE BootOrders
  BY <1>7 DEF BootOrders, Place, Accepted, Asks
<1>8. CASE TaskOrders
  BY <1>8 DEF TaskOrders, Place, Accepted, Asks
<1>9. CASE HookOrders
  BY <1>9 DEF HookOrders, Place, Accepted, Asks
<1>10. CASE ThreadOrders
  BY <1>10 DEF ThreadOrders, Place, Accepted, Asks
<1>11. CASE LateOrders
  BY <1>11 DEF LateOrders, Place, Accepted, Asks
<1>12. CASE BeginMinute
  BY <1>12 DEF BeginMinute, Ahead, DropsTo
<1>13. CASE TaskEnds
  BY <1>13 DEF TaskEnds, AnyRaised
<1>14. CASE TasksFail
  BY <1>14 DEF TasksFail
<1>15. CASE TasksDone
  BY <1>15 DEF TasksDone, Completed
<1>16. CASE HooksDone
  BY <1>16 DEF HooksDone
<1>17. CASE Save
  <2>1. UNCHANGED <<now, backs, cursor, sched>> /\ running' \in {running, 0}
    BY ONLY <1>17 DEF Save, Halt, worldVars, minuteVars
  <2> QED
    BY <2>1
<1>18. CASE Autosave
  BY <1>18 DEF Autosave, GWritten, GFails
<1>19. CASE Drain
  BY <1>19 DEF Drain, Take
<1>20. CASE AskedDrain
  BY <1>20 DEF AskedDrain, Take
<1>21. CASE Submit
  BY <1>21 DEF Submit
<1>22. CASE AskedDies
  BY <1>22 DEF AskedDies
<1>23. CASE Persist
  <2>1. UNCHANGED <<now, backs>> /\ cursor' \in {cursor, sched}
          /\ sched' \in {sched, None} /\ running' \in {running, 0}
    BY ONLY <1>23 DEF Persist, Halt, worldVars, minuteVars
  <2> QED
    BY <2>1
<1>24. CASE Clock
  BY <1>24 DEF Clock, Tick, SetBack
<1>25. CASE UNCHANGED vars
  BY <1>25 DEF vars
<1> QED
  BY <1>1, <1>2, <1>3, <1>4, <1>5, <1>6, <1>7, <1>8, <1>9, <1>10, <1>11, <1>12, <1>13,
       <1>14, <1>15, <1>16, <1>17, <1>18, <1>19, <1>20, <1>21, <1>22, <1>23, <1>24, <1>25
       DEF Next

\* The engine's memory keeps its type.
LEMMA EngineStep == ASSUME EngineOK, FilesOK, [Next]_vars PROVE EngineOK'
<1> USE Bounds DEF EngineOK, FilesOK, Minutes, InMinute, modeVars, gVars, sVars, exitVars,
     worldVars, bookVars, batchVars, orderVars, minuteVars, engineVars
<1>1. CASE Start
  BY <1>1 DEF Start, Restored, Ahead, FileCursor, Saved
<1>2. CASE Booted
  BY <1>2 DEF Booted, WithMetadata, FileCursor, Gone
<1>3. CASE Crash
  BY <1>3 DEF Crash, Torn, Gone
<1>4. CASE Interrupt
  BY <1>4 DEF Interrupt, Ready, Up, Halt
<1>5. CASE Release
  BY <1>5 DEF Release, Gone
<1>6. CASE FinalSave
  BY <1>6 DEF FinalSave, LastWrite
<1>7. CASE BootOrders
  BY <1>7 DEF BootOrders, Place, Accepted, Asks
<1>8. CASE TaskOrders
  <2> PICK o \in Orders : Place(o, TRUE)
    BY <1>8 DEF TaskOrders
  <2> QED
    BY DEF Place, Accepted, Asks
<1>9. CASE HookOrders
  BY <1>9 DEF HookOrders, Place, Accepted, Asks
<1>10. CASE ThreadOrders
  BY <1>10 DEF ThreadOrders, Place, Accepted, Asks
<1>11. CASE LateOrders
  <2> PICK o \in Orders : Place(o, TRUE)
    BY <1>11 DEF LateOrders
  <2> QED
    BY DEF Place, Accepted, Asks
<1>12. CASE BeginMinute
  BY <1>12 DEF BeginMinute, Ahead, DropsTo
<1>13. CASE TaskEnds
  BY <1>13 DEF TaskEnds, AnyRaised
<1>14. CASE TasksFail
  BY <1>14 DEF TasksFail
<1>15. CASE TasksDone
  BY <1>15 DEF TasksDone, Completed
<1>16. CASE HooksDone
  BY <1>16 DEF HooksDone
<1>17. CASE Save
  BY <1>17 DEF Save, GWritten, GFails, Halt
<1>18. CASE Autosave
  BY <1>18 DEF Autosave, GWritten, GFails
<1>19. CASE Drain
  BY <1>19 DEF Drain, Take
<1>20. CASE AskedDrain
  BY <1>20 DEF AskedDrain, Take
<1>21. CASE Submit
  BY <1>21 DEF Submit
<1>22. CASE AskedDies
  BY <1>22 DEF AskedDies
<1>23. CASE Persist
  BY <1>23 DEF Persist, Halt
<1>24. CASE Clock
  BY <1>24 DEF Clock, Tick, SetBack
<1>25. CASE UNCHANGED vars
  BY <1>25 DEF vars
<1> QED
  BY <1>1, <1>2, <1>3, <1>4, <1>5, <1>6, <1>7, <1>8, <1>9, <1>10, <1>11, <1>12, <1>13,
       <1>14, <1>15, <1>16, <1>17, <1>18, <1>19, <1>20, <1>21, <1>22, <1>23, <1>24, <1>25
       DEF Next

\* The order lock belongs to whoever holds orders; a minute under way is dated.
LEMMA LockStep == ASSUME LockOK, EngineOK, FilesOK, ClockOK, [Next]_vars PROVE LockOK'
<1> USE Bounds DEF LockOK, EngineOK, FilesOK, ClockOK, Minutes, InMinute, modeVars, gVars,
     sVars, exitVars, worldVars, bookVars, batchVars, orderVars, minuteVars, engineVars
<1>1. CASE Start
  BY <1>1 DEF Start, Restored, Ahead, FileCursor, Saved
<1>2. CASE Booted
  BY <1>2 DEF Booted, WithMetadata, FileCursor, Gone
<1>3. CASE Crash
  BY <1>3 DEF Crash, Torn, Gone
<1>4. CASE Interrupt
  BY <1>4 DEF Interrupt, Ready, Up, Halt
<1>5. CASE Release
  BY <1>5 DEF Release, Gone
<1>6. CASE FinalSave
  BY <1>6 DEF FinalSave, LastWrite
<1>7. CASE BootOrders
  BY <1>7 DEF BootOrders, Place, Accepted, Asks
<1>8. CASE TaskOrders
  BY <1>8 DEF TaskOrders, Place, Accepted, Asks
<1>9. CASE HookOrders
  BY <1>9 DEF HookOrders, Place, Accepted, Asks
<1>10. CASE ThreadOrders
  BY <1>10 DEF ThreadOrders, Place, Accepted, Asks
<1>11. CASE LateOrders
  BY <1>11 DEF LateOrders, Place, Accepted, Asks
<1>12. CASE BeginMinute
  <2>1. /\ pc' \in {"tasks", "save", "persist"} /\ sched' = now
        /\ pc = "idle" /\ holder' = holder /\ taken' = taken
    BY ONLY <1>12 DEF BeginMinute, DropsTo, orderVars
  <2> QED
    BY <2>1
<1>13. CASE TaskEnds
  BY <1>13 DEF TaskEnds, AnyRaised
<1>14. CASE TasksFail
  BY <1>14 DEF TasksFail
<1>15. CASE TasksDone
  BY <1>15 DEF TasksDone, Completed
<1>16. CASE HooksDone
  BY <1>16 DEF HooksDone
<1>17. CASE Save
  <2>1. /\ pc = "save" /\ sched' = sched
        /\ \/ pc' \in {"persist", "drain"} /\ UNCHANGED <<holder, taken>>
           \/ /\ pc' = "stopping"
              /\ \/ holder = "minute" /\ holder' = None /\ taken' = {}
                 \/ holder # "minute" /\ UNCHANGED <<holder, taken>>
    BY ONLY <1>17 DEF Save, Halt, minuteVars
  <2> QED
    BY <2>1
<1>18. CASE Autosave
  BY <1>18 DEF Autosave, GWritten, GFails
<1>19. CASE Drain
  <2>1. /\ pc = "drain" /\ sched' = sched /\ taken' = queue
        /\ \/ taken' = {} /\ pc' = "persist" /\ holder' = None
           \/ taken' # {} /\ pc' = "submit" /\ holder' = "minute"
    BY ONLY <1>19 DEF Drain, Take, minuteVars
  <2> QED
    BY <2>1
<1>20. CASE AskedDrain
  BY <1>20 DEF AskedDrain, Take
<1>21. CASE Submit
  <2>1. /\ taken # {} /\ taken' \subseteq taken /\ sched' = sched
        /\ \/ taken' = {} /\ holder' = None /\ holder = "minute" /\ pc' = "persist"
           \/ taken' = {} /\ holder' = None /\ holder # "minute" /\ pc' = pc
           \/ taken' # {} /\ holder' = holder /\ pc' = pc
    BY ONLY <1>21 DEF Submit, minuteVars
  <2> QED
    BY <2>1
<1>22. CASE AskedDies
  BY <1>22 DEF AskedDies
<1>23. CASE Persist
  BY <1>23 DEF Persist, Halt
<1>24. CASE Clock
  BY <1>24 DEF Clock, Tick, SetBack
<1>25. CASE UNCHANGED vars
  BY <1>25 DEF vars
<1> QED
  BY <1>1, <1>2, <1>3, <1>4, <1>5, <1>6, <1>7, <1>8, <1>9, <1>10, <1>11, <1>12, <1>13,
       <1>14, <1>15, <1>16, <1>17, <1>18, <1>19, <1>20, <1>21, <1>22, <1>23, <1>24, <1>25
       DEF Next

\* A file that does not exist is none of the contents it may have.
LEMMA NoFileIsNoSet == \A S \in SUBSET Orders : S # NoFile
BY LiveAssumption DEF LiveAssumption

\* The memory of the process always holds what the file holds.
LEMMA MemoryIsAheadStep ==
  ASSUME TypeOK, MemoryIsAhead, LastProcess, [Next]_vars
  PROVE  MemoryIsAhead'
<1> USE Bounds, NoFileIsNoSet DEF TypeOK, MemoryIsAhead, LastProcess, FilesOK, EngineOK,
     LockOK, Saved, Guarded, Up, FileCursor, modeVars, gVars, sVars, exitVars,
     worldVars, bookVars, batchVars, orderVars, minuteVars, engineVars
<1>1. CASE Start
  BY <1>1 DEF Start, Restored, Ahead
<1>2. CASE Booted
  BY <1>2 DEF Booted, WithMetadata, Gone
<1>3. CASE Crash
  BY <1>3 DEF Crash, Torn, Gone
<1>4. CASE Interrupt
  BY <1>4 DEF Interrupt, Ready, Halt
<1>5. CASE Release
  BY <1>5 DEF Release, Gone
<1>6. CASE FinalSave
  BY <1>6 DEF FinalSave, LastWrite
<1>7. CASE BootOrders
  BY <1>7 DEF BootOrders, Place, Accepted, Asks
<1>8. CASE TaskOrders
  BY <1>8 DEF TaskOrders, Place, Accepted, Asks
<1>9. CASE HookOrders
  BY <1>9 DEF HookOrders, Place, Accepted, Asks
<1>10. CASE ThreadOrders
  BY <1>10 DEF ThreadOrders, Place, Accepted, Asks
<1>11. CASE LateOrders
  BY <1>11 DEF LateOrders, Place, Accepted, Asks
<1>12. CASE BeginMinute
  BY <1>12 DEF BeginMinute, Ahead, DropsTo
<1>13. CASE TaskEnds
  BY <1>13 DEF TaskEnds, AnyRaised
<1>14. CASE TasksFail
  BY <1>14 DEF TasksFail
<1>15. CASE TasksDone
  BY <1>15 DEF TasksDone, Completed
<1>16. CASE HooksDone
  BY <1>16 DEF HooksDone
<1>17. CASE Save
  BY <1>17 DEF Save, GWritten, GFails, Halt
<1>18. CASE Autosave
  BY <1>18 DEF Autosave, GWritten, GFails
<1>19. CASE Drain
  BY <1>19 DEF Drain, Take
<1>20. CASE AskedDrain
  BY <1>20 DEF AskedDrain, Take
<1>21. CASE Submit
  BY <1>21 DEF Submit
<1>22. CASE AskedDies
  BY <1>22 DEF AskedDies
<1>23. CASE Persist
  BY <1>23 DEF Persist, Halt
<1>24. CASE Clock
  BY <1>24 DEF Clock, Tick, SetBack
<1>25. CASE UNCHANGED vars
  BY <1>25 DEF vars
<1> QED
  BY <1>1, <1>2, <1>3, <1>4, <1>5, <1>6, <1>7, <1>8, <1>9, <1>10, <1>11, <1>12, <1>13,
       <1>14, <1>15, <1>16, <1>17, <1>18, <1>19, <1>20, <1>21, <1>22, <1>23, <1>24, <1>25
       DEF Next

\* Until the next start, the last process holds what the file holds.
LEMMA LastProcessStep ==
  ASSUME TypeOK, MemoryIsAhead, LastProcess, [Next]_vars
  PROVE  LastProcess'
<1> USE Bounds, NoFileIsNoSet DEF TypeOK, MemoryIsAhead, LastProcess, EngineOK, FilesOK,
     Saved, Guarded, Up, FileCursor, modeVars, gVars, sVars, exitVars,
     worldVars, bookVars, batchVars, orderVars, minuteVars, engineVars
<1>1. CASE Start
  BY <1>1 DEF Start, Restored, Ahead
<1>2. CASE Booted
  BY <1>2 DEF Booted, WithMetadata, Gone
<1>3. CASE Crash
  BY <1>3 DEF Crash, Torn, Gone
<1>4. CASE Interrupt
  BY <1>4 DEF Interrupt, Ready, Halt
<1>5. CASE Release
  BY <1>5 DEF Release, Gone
<1>6. CASE FinalSave
  <2>1. pc' = pc
    BY <1>6 DEF FinalSave
  <2>2. /\ crossed => crossed'
        /\ crossed' \/ gfile' = gfile \/ gfile' \in leaving
        /\ leaving' \subseteq leaving
    BY ONLY <1>6, FinalSaveWrites, FilesOK, Zenon DEF FilesOK
  <2>3. leaving # {} => pc = "off"
    OBVIOUS
  <2>4. \A x, y \in leaving : x = y
    OBVIOUS
  <2>5. ~crossed => \A x \in leaving : Saved \subseteq x
    OBVIOUS
  <2>6. ~crossed' => \A x \in leaving' : Saved' \subseteq x
    BY <2>2, <2>4, <2>5
  <2> QED
    BY ONLY <2>1, <2>2, <2>3, <2>4, <2>6 DEF LastProcess
<1>7. CASE BootOrders
  BY <1>7 DEF BootOrders, Place, Accepted, Asks
<1>8. CASE TaskOrders
  BY <1>8 DEF TaskOrders, Place, Accepted, Asks
<1>9. CASE HookOrders
  BY <1>9 DEF HookOrders, Place, Accepted, Asks
<1>10. CASE ThreadOrders
  BY <1>10 DEF ThreadOrders, Place, Accepted, Asks
<1>11. CASE LateOrders
  BY <1>11 DEF LateOrders, Place, Accepted, Asks
<1>12. CASE BeginMinute
  BY <1>12 DEF BeginMinute, Ahead, DropsTo
<1>13. CASE TaskEnds
  BY <1>13 DEF TaskEnds, AnyRaised
<1>14. CASE TasksFail
  BY <1>14 DEF TasksFail
<1>15. CASE TasksDone
  BY <1>15 DEF TasksDone, Completed
<1>16. CASE HooksDone
  BY <1>16 DEF HooksDone
<1>17. CASE Save
  BY <1>17 DEF Save, GWritten, GFails, Halt
<1>18. CASE Autosave
  BY <1>18 DEF Autosave, GWritten, GFails
<1>19. CASE Drain
  BY <1>19 DEF Drain, Take
<1>20. CASE AskedDrain
  BY <1>20 DEF AskedDrain, Take
<1>21. CASE Submit
  <2>1. UNCHANGED <<leaving, gfile>> /\ pc' # "off" /\ pc # "off"
    BY <1>21 DEF Submit
  <2> QED
    BY <2>1
<1>22. CASE AskedDies
  BY <1>22 DEF AskedDies
<1>23. CASE Persist
  BY <1>23 DEF Persist, Halt
<1>24. CASE Clock
  BY <1>24 DEF Clock, Tick, SetBack
<1>25. CASE UNCHANGED vars
  BY <1>25 DEF vars
<1> QED
  BY <1>1, <1>2, <1>3, <1>4, <1>5, <1>6, <1>7, <1>8, <1>9, <1>10, <1>11, <1>12, <1>13,
       <1>14, <1>15, <1>16, <1>17, <1>18, <1>19, <1>20, <1>21, <1>22, <1>23, <1>24, <1>25
       DEF Next

\* Nothing gets between the save of a minute and its orders.
LEMMA SavedBeforeTakenStep ==
  ASSUME TypeOK, MemoryIsAhead, LastProcess, SavedBeforeTaken, [Next]_vars
  PROVE  SavedBeforeTaken'
<1> USE Bounds, NoFileIsNoSet DEF TypeOK, MemoryIsAhead, LastProcess, SavedBeforeTaken,
     FilesOK, EngineOK, LockOK, Saved, Guarded, Up, FileCursor, modeVars, gVars, sVars,
     exitVars, worldVars, bookVars, batchVars, orderVars, minuteVars, engineVars
<1>1. CASE Start
  BY <1>1 DEF Start, Restored, Ahead
<1>2. CASE Booted
  <2>1. UNCHANGED <<strict, failOn, gfile>> /\ pc = "boot"
    BY ONLY <1>2 DEF Booted, modeVars, gVars
  <2>2. \/ /\ asked' = FALSE /\ holder' = None /\ taken' = {} /\ raised' = FALSE
           /\ bad' = FALSE /\ batch' = "none" /\ pc' = "off"
        \/ UNCHANGED <<asked, holder, taken, raised, bad, batch>> /\ pc' = "idle"
    BY ONLY <1>2 DEF Booted, Gone, orderVars, batchVars
  <2> QED
    BY <2>1, <2>2
<1>3. CASE Crash
  BY <1>3 DEF Crash, Torn, Gone
<1>4. CASE Interrupt
  BY <1>4 DEF Interrupt, Ready, Halt
<1>5. CASE Release
  BY <1>5 DEF Release, Gone
<1>6. CASE FinalSave
  BY <1>6 DEF FinalSave, LastWrite
<1>7. CASE BootOrders
  BY <1>7 DEF BootOrders, Place, Accepted, Asks
<1>8. CASE TaskOrders
  BY <1>8 DEF TaskOrders, Place, Accepted, Asks
<1>9. CASE HookOrders
  BY <1>9 DEF HookOrders, Place, Accepted, Asks
<1>10. CASE ThreadOrders
  BY <1>10 DEF ThreadOrders, Place, Accepted, Asks
<1>11. CASE LateOrders
  BY <1>11 DEF LateOrders, Place, Accepted, Asks
<1>12. CASE BeginMinute
  BY <1>12 DEF BeginMinute, Ahead, DropsTo
<1>13. CASE TaskEnds
  BY <1>13 DEF TaskEnds, AnyRaised
<1>14. CASE TasksFail
  BY <1>14 DEF TasksFail
<1>15. CASE TasksDone
  BY <1>15 DEF TasksDone, Completed
<1>16. CASE HooksDone
  <2>1. /\ pc = "hooks" /\ pc' = (IF strict THEN "save" ELSE "drain")
        /\ UNCHANGED <<strict, failOn, gfile, asked, holder, taken, tagged, queue, raised, bad,
                       batch, dropped>>
    BY <1>16 DEF HooksDone
  <2>2. ~dropped
    BY <2>1
  <2> QED
    BY <2>1, <2>2
<1>17. CASE Save
  BY <1>17 DEF Save, GWritten, GFails, Halt
<1>18. CASE Autosave
  BY <1>18 DEF Autosave, GWritten, GFails
<1>19. CASE Drain
  BY <1>19 DEF Drain, Take
<1>20. CASE AskedDrain
  BY <1>20 DEF AskedDrain, Take
<1>21. CASE Submit
  BY <1>21 DEF Submit
<1>22. CASE AskedDies
  BY <1>22 DEF AskedDies
<1>23. CASE Persist
  <2>1. /\ UNCHANGED <<strict, failOn, gfile, crossed, slipped, queue, asked>>
        /\ pc = "persist"
    BY ONLY <1>23 DEF Persist, modeVars, gVars, exitVars
  <2>2. \/ /\ pc' = "idle" /\ batch' = "none" /\ raised' = FALSE
           /\ UNCHANGED <<holder, taken>>
        \/ /\ pc' = "stopping" /\ UNCHANGED <<raised, bad>>
           /\ batch' = (IF batch = "active" THEN "closed" ELSE batch)
           /\ \/ holder' = None /\ taken' = {}
              \/ UNCHANGED <<holder, taken>>
    BY ONLY <1>23 DEF Persist, Halt
  <2> QED
    BY <2>1, <2>2
<1>24. CASE Clock
  BY <1>24 DEF Clock, Tick, SetBack
<1>25. CASE UNCHANGED vars
  BY <1>25 DEF vars
<1> QED
  BY <1>1, <1>2, <1>3, <1>4, <1>5, <1>6, <1>7, <1>8, <1>9, <1>10, <1>11, <1>12, <1>13,
       <1>14, <1>15, <1>16, <1>17, <1>18, <1>19, <1>20, <1>21, <1>22, <1>23, <1>24, <1>25
       DEF Next

\* The strict pair of files is complete at every step.
LEMMA PairOnDiskStep ==
  ASSUME TypeOK, PairOnDisk, SavedBeforeTaken, [Next]_vars
  PROVE  PairOnDisk'
<1> USE Bounds, NoFileIsNoSet DEF TypeOK, PairOnDisk, SavedBeforeTaken, FilesOK, EngineOK,
     LockOK, Saved, Guarded, Up, FileCursor, modeVars, gVars, sVars, exitVars,
     worldVars, bookVars, batchVars, orderVars, minuteVars, engineVars
<1>1. CASE Start
  BY <1>1 DEF Start, Restored, Ahead
<1>2. CASE Booted
  <2>1. UNCHANGED <<strict, gfile, leaving, outlived>> /\ pc = "boot"
    BY ONLY <1>2 DEF Booted, modeVars, gVars, exitVars
  <2>2. \/ sfile' = (IF sfile = NoFile THEN None ELSE sfile) /\ pc' = "idle"
        \/ sfile' = sfile /\ pc' = "off"
    BY ONLY <1>2 DEF Booted, Gone, WithMetadata, FileCursor
  <2>3. NoFile # None
    BY LiveAssumption DEF LiveAssumption
  <2> QED
    BY <2>1, <2>2, <2>3
<1>3. CASE Crash
  BY <1>3 DEF Crash, Torn, Gone
<1>4. CASE Interrupt
  BY <1>4 DEF Interrupt, Ready, Halt
<1>5. CASE Release
  BY <1>5 DEF Release, Gone
<1>6. CASE FinalSave
  BY <1>6 DEF FinalSave, LastWrite
<1>7. CASE BootOrders
  BY <1>7 DEF BootOrders, Place, Accepted, Asks
<1>8. CASE TaskOrders
  BY <1>8 DEF TaskOrders, Place, Accepted, Asks
<1>9. CASE HookOrders
  BY <1>9 DEF HookOrders, Place, Accepted, Asks
<1>10. CASE ThreadOrders
  BY <1>10 DEF ThreadOrders, Place, Accepted, Asks
<1>11. CASE LateOrders
  BY <1>11 DEF LateOrders, Place, Accepted, Asks
<1>12. CASE BeginMinute
  BY <1>12 DEF BeginMinute, Ahead, DropsTo
<1>13. CASE TaskEnds
  BY <1>13 DEF TaskEnds, AnyRaised
<1>14. CASE TasksFail
  BY <1>14 DEF TasksFail
<1>15. CASE TasksDone
  BY <1>15 DEF TasksDone, Completed
<1>16. CASE HooksDone
  BY <1>16 DEF HooksDone
<1>17. CASE Save
  BY <1>17 DEF Save, GWritten, GFails, Halt
<1>18. CASE Autosave
  BY <1>18 DEF Autosave, GWritten, GFails
<1>19. CASE Drain
  BY <1>19 DEF Drain, Take
<1>20. CASE AskedDrain
  BY <1>20 DEF AskedDrain, Take
<1>21. CASE Submit
  BY <1>21 DEF Submit
<1>22. CASE AskedDies
  BY <1>22 DEF AskedDies
<1>23. CASE Persist
  <2>1. UNCHANGED <<strict, gfile, leaving, outlived>> /\ pc = "persist"
    BY ONLY <1>23 DEF Persist, modeVars, gVars, exitVars
  <2>2. sfile' \in {sched, sfile} /\ pc' \in {"idle", "stopping"}
    BY ONLY <1>23 DEF Persist, Halt
  <2>3. sched # NoFile
    BY LiveAssumption DEF LiveAssumption, ClockOK, Minutes
  <2> QED
    BY <2>1, <2>2, <2>3
<1>24. CASE Clock
  BY <1>24 DEF Clock, Tick, SetBack
<1>25. CASE UNCHANGED vars
  BY <1>25 DEF vars
<1> QED
  BY <1>1, <1>2, <1>3, <1>4, <1>5, <1>6, <1>7, <1>8, <1>9, <1>10, <1>11, <1>12, <1>13,
       <1>14, <1>15, <1>16, <1>17, <1>18, <1>19, <1>20, <1>21, <1>22, <1>23, <1>24, <1>25
       DEF Next

\* The cursor in memory and on disk is the last minute done.
LEMMA CursorIsLastStep ==
  ASSUME TypeOK, CursorIsLast, [Next]_vars
  PROVE  CursorIsLast'
<1> USE Bounds, NoFileIsNoSet DEF TypeOK, CursorIsLast, FilesOK, ClockOK, LockOK, EngineOK,
     InMinute, Minutes, Saved, Guarded, Up, FileCursor, modeVars, gVars, sVars, exitVars,
     worldVars, bookVars, batchVars, orderVars, minuteVars, engineVars
<1>1. CASE Start
  BY <1>1 DEF Start, Restored, Ahead
<1>2. CASE Booted
  <2>1. UNCHANGED <<backs, now, done>> /\ pc = "boot"
    BY ONLY <1>2 DEF Booted, worldVars
  <2>2. \/ sfile' = FileCursor /\ pc' = "idle" /\ cursor' = cursor
        \/ sfile' = sfile /\ pc' = "off"
    BY ONLY <1>2 DEF Booted, Gone, WithMetadata, minuteVars
  <2>3. FileCursor' = FileCursor
    BY <2>2
  <2> QED
    BY <2>1, <2>2, <2>3
<1>3. CASE Crash
  BY <1>3 DEF Crash, Torn, Gone
<1>4. CASE Interrupt
  BY <1>4 DEF Interrupt, Ready, Halt
<1>5. CASE Release
  BY <1>5 DEF Release, Gone
<1>6. CASE FinalSave
  BY <1>6 DEF FinalSave, LastWrite
<1>7. CASE BootOrders
  BY <1>7 DEF BootOrders, Place, Accepted, Asks
<1>8. CASE TaskOrders
  BY <1>8 DEF TaskOrders, Place, Accepted, Asks
<1>9. CASE HookOrders
  BY <1>9 DEF HookOrders, Place, Accepted, Asks
<1>10. CASE ThreadOrders
  BY <1>10 DEF ThreadOrders, Place, Accepted, Asks
<1>11. CASE LateOrders
  BY <1>11 DEF LateOrders, Place, Accepted, Asks
<1>12. CASE BeginMinute
  BY <1>12 DEF BeginMinute, Ahead, DropsTo
<1>13. CASE TaskEnds
  BY <1>13 DEF TaskEnds, AnyRaised
<1>14. CASE TasksFail
  BY <1>14 DEF TasksFail
<1>15. CASE TasksDone
  BY <1>15 DEF TasksDone, Completed
<1>16. CASE HooksDone
  BY <1>16 DEF HooksDone
<1>17. CASE Save
  BY <1>17 DEF Save, GWritten, GFails, Halt
<1>18. CASE Autosave
  BY <1>18 DEF Autosave, GWritten, GFails
<1>19. CASE Drain
  BY <1>19 DEF Drain, Take
<1>20. CASE AskedDrain
  BY <1>20 DEF AskedDrain, Take
<1>21. CASE Submit
  BY <1>21 DEF Submit
<1>22. CASE AskedDies
  BY <1>22 DEF AskedDies
<1>23. CASE Persist
  <2>1. UNCHANGED <<backs, now>> /\ pc = "persist" /\ sched # NoFile
    BY <1>23, LiveAssumption DEF Persist, LiveAssumption
  <2>2. \/ /\ sfile' = sched /\ pc' = "idle" /\ cursor' = sched
           /\ done' = done \cup {sched}
        \/ sfile' = sfile /\ pc' = "stopping" /\ UNCHANGED <<cursor, done>>
    BY ONLY <1>23 DEF Persist, Halt, minuteVars
  <2>3. CASE sfile' = sfile /\ pc' = "stopping" /\ UNCHANGED <<cursor, done>>
    BY <2>1, <2>3
  <2>4. CASE /\ sfile' = sched /\ pc' = "idle" /\ cursor' = sched
             /\ done' = done \cup {sched}
    <3>1. FileCursor' = sched
      BY <2>1, <2>4
    <3>2. ASSUME backs = 0, NEW m \in done PROVE m <= sched
      <4>1. Up /\ pc \in InMinute
        BY <2>1
      <4>2. cursor # None /\ m <= cursor /\ cursor < sched
        BY <3>2, <4>1
      <4>3. cursor \in Nat /\ sched \in Nat /\ m \in Nat
        BY <3>2, <4>1, <4>2
      <4> QED
        BY ONLY <4>2, <4>3
    <3> QED
      BY <2>1, <2>4, <3>1, <3>2
  <2> QED
    BY <2>2, <2>3, <2>4
<1>24. CASE Clock
  BY <1>24 DEF Clock, Tick, SetBack
<1>25. CASE UNCHANGED vars
  BY <1>25 DEF vars
<1> QED
  BY <1>1, <1>2, <1>3, <1>4, <1>5, <1>6, <1>7, <1>8, <1>9, <1>10, <1>11, <1>12, <1>13,
       <1>14, <1>15, <1>16, <1>17, <1>18, <1>19, <1>20, <1>21, <1>22, <1>23, <1>24, <1>25
       DEF Next

\* What is sent has been saved.
LEMMA SentIsSavedStep ==
  ASSUME TypeOK, MemoryIsAhead, LastProcess, SavedBeforeTaken, SentIsSaved, [Next]_vars
  PROVE  SentIsSaved'
<1> USE Bounds, NoFileIsNoSet DEF TypeOK, MemoryIsAhead, LastProcess, SavedBeforeTaken,
     SentIsSaved, FilesOK, EngineOK, LockOK, Saved, Guarded, Up, FileCursor, modeVars,
     gVars, sVars, exitVars, worldVars, bookVars, batchVars, orderVars, minuteVars, engineVars
<1>1. CASE Start
  BY <1>1 DEF Start, Restored, Ahead
<1>2. CASE Booted
  BY <1>2 DEF Booted, WithMetadata, Gone
<1>3. CASE Crash
  BY <1>3 DEF Crash, Torn, Gone
<1>4. CASE Interrupt
  BY <1>4 DEF Interrupt, Ready, Halt
<1>5. CASE Release
  BY <1>5 DEF Release, Gone
<1>6. CASE FinalSave
  <2>1. UNCHANGED <<strict, failOn, atBroker, slipped>>
    BY <1>6 DEF FinalSave
  <2>2. /\ crossed => crossed'
        /\ crossed' \/ gfile' = gfile \/ gfile' \in leaving
    BY ONLY <1>6, FinalSaveWrites, FilesOK, Zenon DEF FilesOK
  <2> QED
    BY <2>1, <2>2
<1>7. CASE BootOrders
  BY <1>7 DEF BootOrders, Place, Accepted, Asks
<1>8. CASE TaskOrders
  BY <1>8 DEF TaskOrders, Place, Accepted, Asks
<1>9. CASE HookOrders
  BY <1>9 DEF HookOrders, Place, Accepted, Asks
<1>10. CASE ThreadOrders
  BY <1>10 DEF ThreadOrders, Place, Accepted, Asks
<1>11. CASE LateOrders
  BY <1>11 DEF LateOrders, Place, Accepted, Asks
<1>12. CASE BeginMinute
  BY <1>12 DEF BeginMinute, Ahead, DropsTo
<1>13. CASE TaskEnds
  BY <1>13 DEF TaskEnds, AnyRaised
<1>14. CASE TasksFail
  BY <1>14 DEF TasksFail
<1>15. CASE TasksDone
  BY <1>15 DEF TasksDone, Completed
<1>16. CASE HooksDone
  BY <1>16 DEF HooksDone
<1>17. CASE Save
  BY <1>17 DEF Save, GWritten, GFails, Halt
<1>18. CASE Autosave
  BY <1>18 DEF Autosave, GWritten, GFails
<1>19. CASE Drain
  BY <1>19 DEF Drain, Take
<1>20. CASE AskedDrain
  BY <1>20 DEF AskedDrain, Take
<1>21. CASE Submit
  BY <1>21 DEF Submit
<1>22. CASE AskedDies
  BY <1>22 DEF AskedDies
<1>23. CASE Persist
  BY <1>23 DEF Persist, Halt
<1>24. CASE Clock
  BY <1>24 DEF Clock, Tick, SetBack
<1>25. CASE UNCHANGED vars
  BY <1>25 DEF vars
<1> QED
  BY <1>1, <1>2, <1>3, <1>4, <1>5, <1>6, <1>7, <1>8, <1>9, <1>10, <1>11, <1>12, <1>13,
       <1>14, <1>15, <1>16, <1>17, <1>18, <1>19, <1>20, <1>21, <1>22, <1>23, <1>24, <1>25
       DEF Next

\* The first start finds nothing.
LEMMA InitHolds == Init => IInv
<1> SUFFICES ASSUME Init PROVE IInv
  OBVIOUS
<1> USE Bounds DEF Init, NoProcess
<1>1. FilesOK /\ ClockOK /\ EngineOK /\ LockOK
  <2>1. strict \in BOOLEAN /\ failOn \in BOOLEAN
    OBVIOUS
  <2>2. FilesOK
    BY <2>1 DEF FilesOK
  <2>3. ClockOK
    BY DEF ClockOK, Minutes
  <2>4. EngineOK
    BY DEF EngineOK
  <2>5. LockOK
    BY DEF LockOK, InMinute
  <2> QED
    BY <2>2, <2>3, <2>4, <2>5
<1>2. MemoryIsAhead /\ LastProcess /\ SavedBeforeTaken
  BY DEF MemoryIsAhead, LastProcess, SavedBeforeTaken, Saved, Up
<1>3. PairOnDisk /\ CursorIsLast
  BY DEF PairOnDisk, CursorIsLast, FileCursor, Up, InMinute
<1>4. SentIsSaved
  BY DEF SentIsSaved
<1> QED
  BY <1>1, <1>2, <1>3, <1>4 DEF IInv, TypeOK

\* The four parts of the type invariant together.
LEMMA TypeStep == ASSUME TypeOK, [Next]_vars PROVE TypeOK'
BY FilesStep, ClockStep, EngineStep, LockStep DEF TypeOK

\* The parts of the inductive invariant together.
LEMMA InvariantStep == ASSUME IInv, [Next]_vars PROVE IInv'
BY TypeStep, MemoryIsAheadStep, LastProcessStep, SavedBeforeTakenStep, PairOnDiskStep,
   CursorIsLastStep, SentIsSavedStep DEF IInv

-----------------------------------------------------------------------------
(* Theorems *)

\* Every variable of the engine keeps its type, the order lock belongs to the one
\* that holds orders, and a minute under way has a scheduled time.
THEOREM TypeCorrect == Spec => []TypeOK
<1>1. Init => TypeOK
  BY InitHolds DEF IInv
<1>2. TypeOK /\ [Next]_vars => TypeOK'
  BY TypeStep
<1> QED
  BY <1>1, <1>2, PTL DEF Spec

\* Memory, files and the order queue stay in step: the inductive invariant of the
\* following theorems.
THEOREM Invariance == Spec => []IInv
<1>1. IInv /\ [Next]_vars => IInv'
  BY InvariantStep
<1> QED
  BY <1>1, InitHolds, PTL DEF Spec

\* In the guarded mode g.pkl notes every order that reached the broker, whatever
\* crashed, failed to be written or was interrupted: but for the orders that came
\* between the save of g and the drain from work outside the batch, and until a
\* process that a later one outran overwrites g.pkl.
THEOREM SentOrdersAreSaved == Spec => []SentIsSaved
<1>1. IInv => SentIsSaved
  BY DEF IInv
<1> QED
  BY <1>1, Invariance, PTL

\* In the guarded mode no order of a batch goes to the broker while the batch is
\* active, nor at any time once a task in it raised.
THEOREM FailedBatchIsNotSent == Spec => GateHolds
<1> DEFINE Gate == Guarded /\ (batch = "active" \/ raised)
                     => (atBroker' \ atBroker) \cap tagged = {}
<1>1. ASSUME IInv, [Next]_vars PROVE [Gate]_vars
  <2>1. atBroker' = atBroker \/ taken # {}
    <3>1. Submit => taken # {}
      BY DEF Submit
    <3>2. [Next]_vars /\ ~Submit => atBroker' = atBroker
      BY DEF Next, vars, bookVars, Start, Booted, Crash, Interrupt, Release, FinalSave,
           BootOrders, TaskOrders, HookOrders, ThreadOrders, LateOrders, Place,
           BeginMinute, TaskEnds, TasksFail, TasksDone, HooksDone, Save, Autosave, Drain,
           AskedDrain, AskedDies, Persist, Clock
    <3> QED
      BY <1>1, <3>1, <3>2
  <2>2. Guarded /\ (batch = "active" \/ raised) => taken = {}
    BY <1>1 DEF IInv, TypeOK, LockOK, SavedBeforeTaken, Guarded
  <2> QED
    BY <2>1, <2>2
<1>2. []IInv /\ [][Next]_vars => [][Gate]_vars
  BY <1>1, PTL
<1> QED
  BY <1>2, Invariance, PTL DEF Spec, GateHolds

\* A start finds files it accepts, but for a first write cut short or a clock set
\* back: also when the last process has its final save still to make.
THEOREM StartsAgain == Spec => []RestartAccepted
<1>1. IInv => RestartAccepted
  BY DEF IInv, PairOnDisk, CursorIsLast, RestartAccepted, Acceptable, Ahead, TypeOK,
         FilesOK, ClockOK, Minutes, FileCursor
<1> QED
  BY <1>1, Invariance, PTL

\* No step takes back what g.pkl notes, until a process that a later one outran
\* writes its own g.
THEOREM NotesAreKept == Spec => KeptUnlessCrossed
<1>1. ASSUME IInv, [Next]_vars PROVE [~crossed' => Kept]_vars
  <2>1. gmem \in SUBSET Orders /\ leaving \subseteq SUBSET Orders /\ crossed \in BOOLEAN
    BY <1>1 DEF IInv, TypeOK, FilesOK, EngineOK
  <2>2. ~crossed => (Up => Saved \subseteq gmem) /\ \A x \in leaving : Saved \subseteq x
    BY <1>1 DEF IInv, MemoryIsAhead, LastProcess
  <2>3. FinalSave => /\ gfile' = gfile \/ gfile' \in leaving \/ crossed'
                     /\ crossed => crossed'
    BY ONLY <2>1, FinalSaveWrites, Zenon
  <2>4. [Next]_vars /\ ~FinalSave => /\ gfile' = gfile \/ (gfile' = gmem /\ Up)
                                   /\ crossed' = crossed
    BY DEF Next, vars, gVars, engineVars, exitVars, Up, Start, Booted, Crash, Torn,
         Interrupt, Release, BootOrders, TaskOrders, HookOrders,
         ThreadOrders, LateOrders, Place, BeginMinute, TaskEnds, TasksFail, TasksDone,
         HooksDone, Save, Autosave, GWritten, GFails, Drain, AskedDrain, Submit,
         AskedDies, Persist, Clock
  <2> QED
    BY <1>1, <2>1, <2>2, <2>3, <2>4, NoFileIsNoSet DEF Saved, Kept
<1>2. []IInv /\ [][Next]_vars => [][~crossed' => Kept]_vars
  BY <1>1, PTL
<1> QED
  BY <1>2, Invariance, PTL DEF Spec, KeptUnlessCrossed

\* A minute whose cursor was written is not run again until the clock is set back.
THEOREM MinutesRunOnce == Spec => DoneNotRepeated
<1> DEFINE Once == pc' = "tasks" /\ pc # "tasks" => sched' \notin done \/ backs > 0
<1>1. ASSUME TypeOK, CursorIsLast, [Next]_vars PROVE [Once]_vars
  <2>1. pc' = "tasks" /\ pc # "tasks" => BeginMinute
    BY <1>1 DEF Next, vars, engineVars, Start, Booted, Gone, Crash, Interrupt, Halt,
         Release, FinalSave, BootOrders, TaskOrders, HookOrders, ThreadOrders, LateOrders,
         Place, TaskEnds, TasksFail, TasksDone, HooksDone, Save, Autosave, Drain, AskedDrain,
         Submit, AskedDies, Persist, Clock
  <2>2. BeginMinute => sched' = now /\ cursor # now /\ Up
    BY DEF BeginMinute, Up
  <2>3. backs = 0 \/ backs > 0
    BY <1>1, Bounds DEF TypeOK, ClockOK
  <2>4. ASSUME backs = 0, Up, cursor # now PROVE now \notin done
    BY <1>1, <2>4, Bounds DEF CursorIsLast, TypeOK, ClockOK, FilesOK, Minutes, FileCursor
  <2> QED
    BY <2>1, <2>2, <2>3, <2>4
<1>2. Init => TypeOK /\ CursorIsLast
  BY InitHolds DEF IInv
<1>3. TypeOK /\ CursorIsLast /\ [Next]_vars => (TypeOK /\ CursorIsLast)'
  BY TypeStep, CursorIsLastStep
<1> QED
  BY <1>1, <1>2, <1>3, PTL DEF Spec, DoneNotRepeated
=============================================================================
