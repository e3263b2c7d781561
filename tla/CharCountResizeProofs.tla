----------------------- MODULE CharCountResizeProofs -----------------------
(* Proofs that resizing keeps the shares and the crew consistent, for any   *)
(* file, table and crew size and any number of commands.                    *)
EXTENDS CharCountResize, CharCountProofs, FiniteSetTheorems

\* While there is something left to hand out, what remains of the crew fits
\* between the end of the next share and the end of the file.  This is what
\* keeps every share from ending before it starts.
RestFits ==
    start < FileSize =>
        /\ start <= end
        /\ 0 <= segment_size
        /\ end + (remaining_workers - 1) * segment_size <= FileSize

\* Where main is about to launch there is something left to hand out, and no
\* worker is ever terminated.
AtPoint ==
    /\ start <= FileSize
    /\ dpc = "launch" => start < FileSize
    /\ dpc \in {"cmd", "clear"} /\ after = "launch" => start < FileSize
    /\ dpc \notin {"find", "kill", "mark", "load", "store"}

ResizeInv == TypeOK /\ CrewAccounted /\ RestFits /\ AtPoint /\ SharesTile

LEMMA DivBounds ==
    ASSUME NEW a \in Nat, NEW b \in Nat \ {0}
    PROVE  /\ CDiv(a, b) \in Nat
           /\ (b - 1) * CDiv(a, b) <= a
  <1>1. CDiv(a, b) = a \div b
    BY DEF CDiv
  <1>2. a \div b \in Nat /\ b * (a \div b) <= a
    OBVIOUS
  <1>3. (b - 1) * (a \div b) = b * (a \div b) - (a \div b)
    BY <1>2
  <1>4. b * (a \div b) \in Int
    BY <1>2
  <1>5. QED
    BY <1>1, <1>2, <1>3, <1>4

\* The next share ends at or before the start of those that remain.
LEMMA EndInFile ==
    ASSUME ResizeInv, start < FileSize
    PROVE  /\ end <= FileSize
           /\ start <= ShareEnd /\ ShareEnd <= FileSize
  <1>1. /\ remaining_workers \in Nat \ {0} /\ segment_size \in Nat
        /\ end \in Int /\ start \in Int
        /\ end + (remaining_workers - 1) * segment_size <= FileSize
    BY DEF ResizeInv, CrewAccounted, RestFits, TypeOK, DispatcherTypeOK
  <1>2. (remaining_workers - 1) * segment_size \in Nat
    BY <1>1
  <1>3. QED
    BY <1>1, <1>2, FileSizeAssumption DEF ResizeInv, RestFits, ShareEnd

LEMMA ResizeInit == Init => ResizeInv
  <1> SUFFICES ASSUME Init PROVE ResizeInv
    OBVIOUS
  <1> USE FileSizeAssumption, WorkersAssumption
  <1>1. TypeOK
    BY TypeInit
  <1>2. DispatcherInit
    BY DEF Init
  <1>3. CrewAccounted
    BY <1>2 DEF DispatcherInit, CrewAccounted
  <1>4. RestFits
    <2> DEFINE q == FileSize \div InitialWorkers
    <2>1. q \in Nat /\ InitialWorkers * q <= FileSize
      OBVIOUS
    <2> HIDE DEF q
    <2>2. (InitialWorkers - 1) * q = InitialWorkers * q - q
      BY <2>1
    <2>3. InitialWorkers * q \in Int
      BY <2>1
    <2>4. start = 0 /\ end = q /\ segment_size = q /\ remaining_workers = InitialWorkers
      BY <1>2 DEF DispatcherInit, q
    <2>5. QED
      BY <2>1, <2>2, <2>3, <2>4 DEF RestFits
  <1>5. AtPoint
    BY <1>2 DEF DispatcherInit, AtPoint
  <1>6. SharesTile
    BY <1>2 DEF DispatcherInit, SharesTile, Bytes, Launched, Slots
  <1>7. QED
    BY <1>1, <1>3, <1>4, <1>5, <1>6 DEF ResizeInv

\* The shares handed out depend only on where they start and end.
LEMMA TileKept ==
    ASSUME SharesTile, current_worker' = current_worker, start' = start,
           \A i \in Slots : /\ workers'[i].workerstart = workers[i].workerstart
                            /\ workers'[i].workerend = workers[i].workerend
    PROVE  SharesTile'
  <1>1. Launched' = Launched
    BY DEF Launched, Slots
  <1>2. \A i \in Slots : ShareOf(i)' = ShareOf(i)
    BY DEF ShareOf, Share, Bytes
  <1>3. QED
    BY <1>1, <1>2 DEF SharesTile, Launched

\* A new share between the ones handed out and the new start.
LEMMA LaunchTiles ==
    ASSUME ResizeInv, Launch
    PROVE  SharesTile'
  <1>0. PICK w \in Slots : w = current_worker
    BY WorkersAssumption DEF ResizeInv, TypeOK, DispatcherTypeOK, Launch, Slots
  <1>1. start \in Int /\ ShareEnd \in Int /\ start <= ShareEnd
    <2>1. start < FileSize
      BY DEF ResizeInv, AtPoint, Launch
    <2>2. start \in Int /\ end \in Int
      BY DEF ResizeInv, TypeOK, DispatcherTypeOK
    <2>3. ShareEnd \in Int /\ start <= ShareEnd
      BY <2>1, <2>2, EndInFile, FileSizeAssumption DEF ShareEnd
    <2>4. QED
      BY <2>2, <2>3
  <1>2. /\ \A i \in Slots : i # w =>
              /\ workers'[i].workerstart = workers[i].workerstart
              /\ workers'[i].workerend = workers[i].workerend
        /\ workers'[w].workerstart = start
        /\ workers'[w].workerend = ShareEnd
    <2>1. \A i \in Slots : workers[i] \in Tasks
      BY DEF ResizeInv, TypeOK, DispatcherTypeOK
    <2>2. PICK a \in Slots \cup {-1} :
              workers' = [i \in Slots |->
                    IF i = w
                    THEN [pid |-> w, workerstart |-> start,
                          workerend |-> ShareEnd, active |-> 1]
                    ELSE IF i = a THEN [workers[i] EXCEPT !.active = 0]
                    ELSE workers[i]]
      BY <1>0 DEF Launch
    <2>3. QED
      BY <2>1, <2>2 DEF Tasks
  <1>3. start' = ShareEnd /\ current_worker' = w + 1
    BY <1>0 DEF Launch
  <1>4. /\ \A i \in Slots : i \in Launched' <=> i \in Launched \/ i = w
        /\ w \notin Launched /\ w \in Launched'
        /\ Launched \subseteq Slots /\ Launched' \subseteq Slots
    BY <1>0, <1>3 DEF Launched, Slots
  <1>5. ASSUME NEW p \in Bytes, NEW i \in Launched
        PROVE  p \in ShareOf(i)' <=> p \in ShareOf(i)
    BY <1>2, <1>4 DEF ShareOf, Share, Bytes
  <1>6. ASSUME NEW p \in Bytes
        PROVE  p \in ShareOf(w)' <=> start <= p /\ p < ShareEnd
    BY <1>2 DEF ShareOf, Share, Bytes
  <1>7. ASSUME NEW p \in Bytes, p < start
        PROVE  \E i \in Launched' :
                  /\ p \in ShareOf(i)'
                  /\ \A j \in Launched' \ {i} : p \notin ShareOf(j)'
    <2>1. PICK i \in Launched : p \in ShareOf(i)
                                /\ \A j \in Launched \ {i} : p \notin ShareOf(j)
      BY <1>7 DEF ResizeInv, SharesTile
    <2>2. p \notin ShareOf(w)'
      BY <1>1, <1>6, <1>7 DEF Bytes
    <2>3. ASSUME NEW j \in Launched' \ {i} PROVE p \notin ShareOf(j)'
      BY <1>4, <1>5, <2>1, <2>2, <2>3
    <2>4. i \in Launched' /\ p \in ShareOf(i)'
      BY <1>4, <1>5, <2>1
    <2>5. QED
      BY <2>3, <2>4
  <1>8. ASSUME NEW p \in Bytes
        PROVE  IF p < ShareEnd
               THEN \E i \in Launched' :
                       /\ p \in ShareOf(i)'
                       /\ \A j \in Launched' \ {i} : p \notin ShareOf(j)'
               ELSE \A i \in Launched' : p \notin ShareOf(i)'
    <2>1. p \in Int
      BY DEF Bytes
    <2>2. CASE p < start
      BY <1>1, <1>7, <2>1, <2>2
    <2>3. CASE ~ (p < start)
      <3>1. \A i \in Launched' : i # w => p \notin ShareOf(i)'
        BY <1>4, <1>5, <2>3 DEF ResizeInv, SharesTile
      <3>2. CASE p < ShareEnd
        <4>1. p \in ShareOf(w)'
          BY <1>1, <1>6, <2>1, <2>3, <3>2
        <4>2. QED
          BY <1>4, <3>1, <3>2, <4>1
      <3>3. CASE ~ (p < ShareEnd)
        <4>1. p \notin ShareOf(w)'
          BY <1>6, <3>3
        <4>2. QED
          BY <1>4, <3>1, <3>3, <4>1
      <3>4. QED
        BY <3>2, <3>3
    <2>4. QED
      BY <2>2, <2>3
  <1>9. QED
    BY <1>3, <1>8 DEF SharesTile, Bytes

\* A step that hands out nothing and does not resize the crew.
LEMMA QuietStep ==
    ASSUME ResizeInv, TypeOK', UNCHANGED <<shareVars, crewVars>>, AtPoint',
           dpc' \notin {"crashed", "overrun", "killedAll"},
           \A i \in Slots : /\ workers'[i].workerstart = workers[i].workerstart
                            /\ workers'[i].workerend = workers[i].workerend
    PROVE  ResizeInv'
  <1>1. SharesTile'
    BY TileKept DEF ResizeInv, shareVars, crewVars
  <1>2. CrewAccounted' /\ RestFits'
    BY DEF ResizeInv, CrewAccounted, RestFits, shareVars, crewVars
  <1>3. QED
    BY <1>1, <1>2 DEF ResizeInv

\* A worker is started where something is left, and the rest still fits.
LEMMA LaunchStep ==
    ASSUME ResizeInv, TypeOK', Launch
    PROVE  ResizeInv'
  <1>1. start < FileSize /\ dpc = "launch"
    BY DEF ResizeInv, AtPoint, Launch
  <1>2. /\ start \in Int /\ end \in Int /\ segment_size \in Nat
        /\ current_worker \in Int /\ remaining_workers \in Nat \ {0}
        /\ total_current_workers \in Int
        /\ remaining_workers = total_current_workers - current_worker
        /\ total_current_workers < MostWorkers
        /\ start <= end
        /\ end + (remaining_workers - 1) * segment_size <= FileSize
    BY <1>1, WorkersAssumption
       DEF ResizeInv, TypeOK, DispatcherTypeOK, CrewAccounted, RestFits
  <1>3. /\ start' = ShareEnd /\ end' = ShareEnd + segment_size
        /\ segment_size' = segment_size
        /\ remaining_workers' = remaining_workers - 1
        /\ current_worker' = current_worker + 1
        /\ total_current_workers' = total_current_workers
        /\ dpc' = "pause"
    BY DEF Launch
  <1>4. ShareEnd <= FileSize
    BY <1>1, EndInFile
  <1>5. ShareEnd < FileSize => ShareEnd = end /\ remaining_workers >= 2
    BY <1>2, FileSizeAssumption DEF ShareEnd
  <1>6. CrewAccounted'
    BY <1>2, <1>3, <1>5 DEF CrewAccounted
  <1>7. RestFits'
    <2>1. SUFFICES ASSUME ShareEnd < FileSize
                   PROVE  /\ ShareEnd <= ShareEnd + segment_size
                          /\ 0 <= segment_size
                          /\ ShareEnd + segment_size
                               + (remaining_workers - 1 - 1) * segment_size <= FileSize
      BY <1>3 DEF RestFits
    <2>2. ShareEnd = end
      BY <1>5, <2>1
    <2>3. (remaining_workers - 1 - 1) * segment_size
            = (remaining_workers - 1) * segment_size - segment_size
      BY <1>2
    <2>4. (remaining_workers - 1) * segment_size \in Int
      BY <1>2
    <2>5. QED
      BY <1>2, <2>2, <2>3, <2>4, FileSizeAssumption
  <1>8. AtPoint'
    BY <1>3, <1>4 DEF AtPoint
  <1>9. QED
    BY <1>6, <1>7, <1>8, LaunchTiles DEF ResizeInv

\* The crew changes size by d: what is left is divided among at least one.
LEMMA ResizeStep ==
    ASSUME ResizeInv, TypeOK', NEW d \in Int, Resize(d),
           remaining_workers + d >= 1, total_current_workers + d < MostWorkers,
           UNCHANGED <<workers, start, end, current_worker, after>>
    PROVE  ResizeInv'
  <1>1. /\ remaining_workers \in Int /\ total_current_workers \in Int
        /\ current_worker \in Int /\ start \in Int /\ end \in Int
    BY WorkersAssumption DEF ResizeInv, TypeOK, DispatcherTypeOK
  <1>2. /\ remaining_workers' = remaining_workers + d
        /\ total_current_workers' = total_current_workers + d
        /\ segment_size' = CDiv(FileSize - end, remaining_workers + d)
        /\ dpc' = dpc
    BY <1>1 DEF Resize
  <1>3. CrewAccounted'
    BY <1>1, <1>2 DEF ResizeInv, CrewAccounted
  <1>4. RestFits'
    <2> SUFFICES ASSUME start < FileSize
                 PROVE  /\ start <= end
                        /\ 0 <= segment_size'
                        /\ end + (remaining_workers' - 1) * segment_size' <= FileSize
      <3>1. start' = start /\ end' = end
        OBVIOUS
      <3>2. QED
        BY <3>1 DEF RestFits
    <2> DEFINE room == FileSize - end
               crew == remaining_workers + d
               size == segment_size'
    <2>1. start <= end
      BY DEF ResizeInv, RestFits
    <2>2. room \in Nat
      BY <1>1, EndInFile, FileSizeAssumption
    <2>3. crew \in Nat \ {0} /\ remaining_workers' = crew
      BY <1>1, <1>2
    <2>4. size = CDiv(room, crew) /\ end + room = FileSize
      BY <1>1, <1>2, FileSizeAssumption
    <2> HIDE DEF room, crew, size
    <2>5. size \in Nat /\ (crew - 1) * size <= room
      BY <2>2, <2>3, <2>4, DivBounds
    <2>6. (crew - 1) * size \in Int
      BY <2>3, <2>5
    <2>7. end + (crew - 1) * size <= FileSize
      BY <1>1, <2>2, <2>4, <2>5, <2>6
    <2>8. QED
      BY <2>1, <2>3, <2>5, <2>7 DEF size
  <1>5. AtPoint'
    BY <1>2 DEF ResizeInv, AtPoint
  <1>6. SharesTile'
    BY TileKept DEF ResizeInv
  <1>7. QED
    BY <1>3, <1>4, <1>5, <1>6 DEF ResizeInv

\* The user types only what the module's assumption allows.
LEMMA CommandsAllowed ==
    ASSUME TypeOK, cmdPipe # <<>>
    PROVE  /\ Head(cmdPipe).verb \in {"increase", "decrease", "progress", "info"}
           /\ Head(cmdPipe).verb \in Sized => Head(cmdPipe).value \in Nat \ {0}
  <1>1. Head(cmdPipe) \in Commands
    BY HeadIsCommand DEF TypeOK
  <1>2. ASSUME NEW c \in [verb : Verbs \cap Sized, value : Amounts]
        PROVE  c.verb \in Verbs /\ c.value \in Nat \ {0}
    BY ResizeAssumption
  <1>3. ASSUME NEW c \in [verb : Verbs \ Sized, value : {0}]
        PROVE  c.verb \in Verbs /\ c.verb \notin Sized
    OBVIOUS
  <1>4. QED
    BY <1>1, <1>2, <1>3, ResizeAssumption DEF Commands

\* One step per step of main; those of terminate cannot be taken.
LEMMA MainKeepsResizeInv ==
    ASSUME ResizeInv, TypeOK', DispatcherMain
    PROVE  ResizeInv'
  <1> USE DEF tableVars, linkVars
  <1>1. TypeOK /\ AtPoint /\ CrewAccounted
    BY DEF ResizeInv
  <1>2. CASE Launch
    BY <1>2, LaunchStep
  <1>3. CASE Overrun
    <2>1. dpc = "launch" /\ current_worker >= MostWorkers
      BY <1>3 DEF Overrun
    <2>2. start < FileSize
      BY <1>1, <2>1 DEF AtPoint
    <2>3. FALSE
      BY <1>1, <2>1, <2>2, WorkersAssumption
         DEF CrewAccounted, TypeOK, DispatcherTypeOK
    <2>4. QED
      BY <2>3
  <1>4. CASE increase_workers
    <2>1. Value \in Nat \ {0}
      BY <1>1, <1>4, CommandsAllowed DEF increase_workers, Received, Value, Sized
    <2>2. CASE total_current_workers + Value < MostWorkers
      <3>1. remaining_workers + Value >= 1
        BY <1>1, <2>1 DEF CrewAccounted, TypeOK, DispatcherTypeOK
      <3>2. QED
        BY <1>4, <2>1, <2>2, <3>1, ResizeStep DEF increase_workers
    <2>3. CASE ~ (total_current_workers + Value < MostWorkers)
      <3>1. /\ UNCHANGED <<shareVars, crewVars, workers>> /\ dpc' = dpc
            /\ after' = after
        BY <1>4, <2>3 DEF increase_workers, Refuse, shareVars, crewVars
      <3>2. AtPoint'
        BY <1>1, <3>1 DEF AtPoint, shareVars
      <3>3. QED
        BY <1>1, <3>1, <3>2, QuietStep DEF CrewAccounted
    <2>4. QED
      BY <2>2, <2>3
  <1>5. CASE decrease_workers
    <2>1. Value \in Nat \ {0}
      BY <1>1, <1>5, CommandsAllowed DEF decrease_workers, Received, Value, Sized
    <2>2. CASE remaining_workers - Value >= 1
      <3>1. /\ -Value \in Int /\ remaining_workers + (-Value) >= 1
            /\ total_current_workers + (-Value) < MostWorkers
        BY <1>1, <2>1, <2>2, WorkersAssumption
           DEF CrewAccounted, TypeOK, DispatcherTypeOK
      <3>2. QED
        BY <1>5, <2>2, <3>1, ResizeStep DEF decrease_workers
    <2>3. CASE ~ (remaining_workers - Value >= 1)
      <3>1. /\ UNCHANGED <<shareVars, crewVars, workers>> /\ dpc' = dpc
            /\ after' = after
        BY <1>5, <2>3 DEF decrease_workers, Refuse, shareVars, crewVars
      <3>2. AtPoint'
        BY <1>1, <3>1 DEF AtPoint, shareVars
      <3>3. QED
        BY <1>1, <3>1, <3>2, QuietStep DEF CrewAccounted
    <2>4. QED
      BY <2>2, <2>3
  <1>6. CASE OtherCommand \/ Terminate
    <2>1. cmdPipe # <<>> /\ Head(cmdPipe).verb \in {"other", "terminate"}
      BY <1>6 DEF OtherCommand, Terminate, Received
    <2>2. FALSE
      BY <1>1, <2>1, CommandsAllowed
    <2>3. QED
      BY <2>2
  <1>7. CASE FindVictim \/ KillVictim \/ MarkVictim \/ LoadTerminated \/ StoreTerminated
    <2>1. dpc \in {"find", "kill", "mark", "load", "store"}
      BY <1>7 DEF FindVictim, KillVictim, MarkVictim, LoadTerminated, StoreTerminated
    <2>2. QED
      BY <1>1, <2>1 DEF AtPoint
  <1>8. CASE Boot \/ LoopTop \/ Pause \/ CommandsDone \/ ClearFlag
               \/ Report("progress") \/ Report("info")
               \/ Drained \/ SignalEnd \/ Exit
    <2>1. UNCHANGED <<shareVars, crewVars, workers>>
      BY <1>8 DEF Boot, LoopTop, Pause, CommandsDone, ClearFlag, Report, Drained,
                  SignalEnd, Exit
    <2>2. AtPoint' /\ dpc' \notin {"crashed", "overrun", "killedAll"}
      <3>1. start \in Int /\ after \in {"loop", "launch"} /\ start' = start
        BY <1>1, <2>1 DEF TypeOK, DispatcherTypeOK, shareVars
      <3>2. CASE LoopTop
        BY <1>1, <3>1, <3>2, FileSizeAssumption DEF LoopTop, AtPoint
      <3>3. CASE Boot \/ Pause \/ Drained \/ SignalEnd \/ Exit
        BY <1>1, <3>1, <3>3 DEF Boot, Pause, Drained, SignalEnd, Exit, AtPoint
      <3>4. CASE CommandsDone \/ ClearFlag
        BY <1>1, <3>1, <3>4 DEF CommandsDone, ClearFlag, AtPoint
      <3>5. CASE Report("progress") \/ Report("info")
        <4>1. dpc' = dpc /\ after' = after
          BY <3>5 DEF Report
        <4>2. QED
          BY <1>1, <3>1, <4>1 DEF AtPoint, CrewAccounted
      <3>6. QED
        BY <1>8, <3>2, <3>3, <3>4, <3>5
    <2>3. QED
      BY <2>1, <2>2, QuietStep
  <1>9. QED
    BY <1>2, <1>3, <1>4, <1>5, <1>6, <1>7, <1>8
       DEF DispatcherMain, give_file_percentage_and_count_till_now, get_info

\* The handlers, the workers and front_end hand out and resize nothing.
LEMMA ResizeInvStep == ResizeInv /\ [Next]_vars => ResizeInv'
  <1> SUFFICES ASSUME ResizeInv, [Next]_vars PROVE ResizeInv'
    OBVIOUS
  <1>1. TypeOK /\ TypeOK' /\ AtPoint /\ CrewAccounted
    BY TypeStep DEF ResizeInv
  <1>2. CASE DispatcherMain
    BY <1>1, <1>2, MainKeepsResizeInv
  <1>3. CASE Calamity
    BY <1>1, <1>3 DEF Calamity, KillEveryone, AtPoint
  <1>4. CASE UNCHANGED dispatcherVars
    <2>1. UNCHANGED <<shareVars, crewVars, workers, dpc, after>>
      BY <1>4 DEF dispatcherVars, tableVars
    <2>2. AtPoint'
      BY <1>1, <2>1 DEF AtPoint, shareVars
    <2>3. QED
      BY <1>1, <2>1, <2>2, QuietStep DEF CrewAccounted
  <1>5. CASE NotifyTooEarly
    <2>1. UNCHANGED <<shareVars, crewVars, workers>> /\ dpc' = "dead"
      BY <1>5 DEF NotifyTooEarly, tableVars
    <2>2. AtPoint'
      BY <1>1, <2>1 DEF AtPoint, shareVars
    <2>3. QED
      BY <1>1, <2>1, <2>2, QuietStep
  <1>6. ASSUME NEW w \in Slots, WorkerExit(w) \/ Reap(w)
        PROVE  ResizeInv'
    <2>1. UNCHANGED <<shareVars, crewVars, dpc, after>>
      BY <1>6 DEF WorkerExit, Reap, ReapExited, ReapKilled
    <2>2. workers' = workers
            \/ workers' = [workers EXCEPT ![w].pid = -1, ![w].active = 0]
      BY <1>6 DEF WorkerExit, Reap, ReapExited, ReapKilled
    <2>3. \A i \in Slots : /\ workers'[i].workerstart = workers[i].workerstart
                           /\ workers'[i].workerend = workers[i].workerend
      <3>1. workers \in [Slots -> Tasks]
        BY <1>1 DEF TypeOK, DispatcherTypeOK
      <3>2. QED
        BY <2>2, <3>1 DEF Tasks
    <2>4. AtPoint'
      BY <1>1, <2>1 DEF AtPoint, shareVars
    <2>5. QED
      BY <1>1, <2>1, <2>3, <2>4, QuietStep DEF CrewAccounted
  <1>7. CASE UNCHANGED vars
    BY <1>4, <1>7 DEF vars
  <1>8. QED
    BY <1>2, <1>3, <1>4, <1>5, <1>6, <1>7
       DEF Next, User, FrontEndMain, Dispatching, Exiting, Reaping, NotifyFlag

\* The strengthened invariant of a program whose user only resizes the crew
\* (dispatcher.c 54-104, 351-440).
THEOREM ResizeInvariant == Spec => []ResizeInv
  BY ResizeInit, ResizeInvStep, PTL DEF Spec

\* However the crew is made larger or smaller while shares are handed out, the
\* shares launched so far cover the file up to start, each offset once
\* (dispatcher.c 54-104, 366-381, 430-433).
THEOREM SharesAlwaysTile == Spec => []SharesTile
  BY ResizeInvariant, PTL DEF ResizeInv

\* With amounts above zero and no terminate, the counters of the crew agree
\* with the launches, WORKERS is not overrun, and no division is by zero
\* (dispatcher.c 54-104, 374-433).
THEOREM CrewStaysAccounted == Spec => []CrewAccounted
  BY ResizeInvariant, PTL DEF ResizeInv

-----------------------------------------------------------------------------
(* The count.                                                                *)

\* No share that was handed out is empty.  A worker whose share is empty reads
\* the first byte of the next one all the same (worker.c 32-38).
NoEmptyShare == \A i \in Launched : workers[i].workerstart < workers[i].workerend

Reaped == {i \in Launched : proc[i] = "reaped"}

\* A slot before current_worker is that of a worker which searches, has exited
\* or is reaped, and was given one share; the others were never used.
SlotOK(i) ==
    IF i \in Launched
    THEN /\ proc[i] \in {"running", "exited", "reaped"} /\ redo[i] = -1
         /\ IF proc[i] = "reaped"
            THEN workers[i].active = 0
            ELSE workers[i].active = 1 /\ workers[i].pid = i
         /\ 0 <= workers[i].workerend /\ workers[i].workerend <= start
    ELSE proc[i] = "none" /\ workers[i].active = 0 /\ workers[i].workerend = -1

\* The share handed out last ends where the next one starts.
SlotsOK ==
    /\ \A i \in Slots : SlotOK(i)
    /\ IF current_worker = 0
       THEN start = 0
       ELSE workers[current_worker - 1].workerend = start

\* The numbers added are those of the workers reaped.
CountOK ==
    /\ terminated_children = Cardinality(Reaped)
    /\ NoEmptyShare =>
           \A p \in Bytes :
               count[p] = IF \E i \in Reaped : p \in ShareOf(i) THEN 1 ELSE 0

AtEnd == dpc \in {"drain", "signal", "exit", "done"}

\* main leaves its loop when all is handed out, and reports when all it
\* launched are reaped.
EndOK ==
    /\ AtEnd => start = FileSize
    /\ reported # <<>> => dpc \in {"signal", "exit", "done"} /\ Reaped = Launched

CountInv == ResizeInv /\ SlotsOK /\ CountOK /\ EndOK

LEMMA CountInit == Init => CountInv
  <1> SUFFICES ASSUME Init PROVE CountInv
    OBVIOUS
  <1>1. /\ DispatcherInit /\ ResizeInv
    BY ResizeInit DEF Init
  <1>2. /\ current_worker = 0 /\ start = 0 /\ terminated_children = 0
        /\ reported = <<>> /\ dpc = "boot"
        /\ \A i \in Slots : /\ proc[i] = "none" /\ workers[i].active = 0
                            /\ workers[i].workerend = -1
        /\ \A p \in Bytes : count[p] = 0
    BY <1>1 DEF DispatcherInit
  <1>3. Launched = {} /\ Reaped = {}
    BY <1>2 DEF Launched, Reaped, Slots
  <1>4. SlotsOK
    BY <1>2, <1>3 DEF SlotsOK, SlotOK
  <1>5. CountOK
    BY <1>2, <1>3, FS_EmptySet DEF CountOK
  <1>6. EndOK
    BY <1>2 DEF EndOK, AtEnd
  <1>7. QED
    BY <1>1, <1>4, <1>5, <1>6 DEF CountInv

\* What the proofs about the count need to know of a step: a worker is started,
\* exits or is reaped, the count is reported, or none of these.
Rests ==
    /\ UNCHANGED <<workers, redo, proc, start, current_worker, terminated_children,
                   count, reported>>
    /\ AtEnd' => AtEnd \/ start >= FileSize
    /\ dpc \in {"signal", "exit", "done"} => dpc' \in {"signal", "exit", "done"}

LEMMA Steps ==
    ASSUME ResizeInv, [Next]_vars
    PROVE  Launch \/ Drained \/ Rests \/ \E w \in Slots : WorkerExit(w) \/ Reap(w)
  <1> USE DEF tableVars, linkVars, shareVars, crewVars
  <1>1. TypeOK /\ AtPoint /\ CrewAccounted
    BY DEF ResizeInv
  <1>2. CASE Overrun \/ OtherCommand \/ Terminate
    <2>1. CASE Overrun
      BY <1>1, <2>1, WorkersAssumption
         DEF Overrun, AtPoint, CrewAccounted, TypeOK, DispatcherTypeOK
    <2>2. CASE OtherCommand \/ Terminate
      BY <1>1, <2>2, CommandsAllowed DEF OtherCommand, Terminate, Received
    <2>3. QED
      BY <1>2, <2>1, <2>2
  <1>3. CASE FindVictim \/ KillVictim \/ MarkVictim \/ LoadTerminated \/ StoreTerminated
             \/ Calamity
    BY <1>1, <1>3 DEF FindVictim, KillVictim, MarkVictim, LoadTerminated,
                      StoreTerminated, Calamity, KillEveryone, AtPoint
  <1>4. CASE increase_workers \/ decrease_workers \/ Report("progress") \/ Report("info")
    <2>1. /\ dpc = "cmd" /\ dpc' \in {"cmd", "crashed"}
          /\ UNCHANGED <<workers, redo, proc, start, current_worker,
                         terminated_children, count, reported>>
      BY <1>4 DEF increase_workers, decrease_workers, Report, Received, Resize, Refuse
    <2>2. QED
      BY <2>1 DEF Rests, AtEnd
  <1>5. CASE Boot \/ LoopTop \/ Pause \/ CommandsDone \/ ClearFlag \/ SignalEnd \/ Exit
    <2>1. UNCHANGED <<workers, redo, proc, start, current_worker,
                      terminated_children, count, reported>>
      BY <1>5 DEF Boot, LoopTop, Pause, CommandsDone, ClearFlag, SignalEnd, Exit
    <2>2. after \in {"loop", "launch"}
      BY <1>1 DEF TypeOK, DispatcherTypeOK
    <2>3. /\ AtEnd' => AtEnd \/ start >= FileSize
          /\ dpc \in {"signal", "exit", "done"} => dpc' \in {"signal", "exit", "done"}
      BY <1>5, <2>2 DEF Boot, LoopTop, Pause, CommandsDone, ClearFlag, SignalEnd, Exit,
                        AtEnd
    <2>4. QED
      BY <2>1, <2>3 DEF Rests
  <1>6. CASE NotifyTooEarly
    BY <1>6 DEF NotifyTooEarly, Rests, AtEnd
  <1>7. CASE UNCHANGED dispatcherVars
    BY <1>7 DEF dispatcherVars, Rests, AtEnd
  <1>8. QED
    BY <1>2, <1>3, <1>4, <1>5, <1>6, <1>7
       DEF Next, vars, User, FrontEndMain, Dispatching, Exiting, Reaping, NotifyFlag,
           DispatcherMain, give_file_percentage_and_count_till_now, get_info

LEMMA LaunchedFinite ==
    ASSUME TypeOK
    PROVE  /\ IsFiniteSet(Launched) /\ Cardinality(Launched) = current_worker
           /\ IsFiniteSet(Reaped) /\ Cardinality(Reaped) \in Nat
           /\ Reaped \subseteq Launched
  <1>1. PICK n \in Nat : n = current_worker /\ n <= MostWorkers
    BY WorkersAssumption DEF TypeOK, DispatcherTypeOK
  <1>2. Launched = 0 .. n - 1
    BY <1>1, WorkersAssumption DEF Launched, Slots
  <1>3. IsFiniteSet(0 .. n - 1) /\ Cardinality(0 .. n - 1) = n
    BY FS_Interval
  <1>4. Reaped \subseteq Launched
    BY DEF Reaped
  <1>5. QED
    BY <1>1, <1>2, <1>3, <1>4, FS_Subset, FS_CardinalityType

\* No worker is ever killed, and one that has exited is in the table.
LEMMA OnlyExited ==
    ASSUME SlotsOK, NEW w \in Slots, WorkerExit(w) \/ Reap(w)
    PROVE  /\ w \in Launched /\ workers[w].active = 1 /\ workers[w].pid = w
           /\ \/ WorkerExit(w) /\ proc[w] = "running"
              \/ ReapExited(w) /\ proc[w] = "exited"
  <1>1. SlotOK(w)
    BY DEF SlotsOK
  <1>2. proc[w] \in {"running", "exited", "killed"}
    BY DEF WorkerExit, Reap, ReapExited, ReapKilled
  <1>3. w \in Launched /\ proc[w] \in {"running", "exited"}
    BY <1>1, <1>2 DEF SlotOK
  <1>4. QED
    BY <1>1, <1>3 DEF SlotOK, WorkerExit, Reap, ReapExited, ReapKilled

\* No share is left over by a worker that was killed, so none is handed out twice.
LEMMA LaunchOfOne ==
    ASSUME ResizeInv, SlotsOK, Launch
    PROVE  \E w \in Slots :
               /\ w = current_worker /\ current_worker' = w + 1
               /\ proc[w] = "none" /\ proc' = [proc EXCEPT ![w] = "running"]
               /\ redo' = [redo EXCEPT ![w] = -1]
               /\ workers' = [workers EXCEPT ![w] = [pid |-> w, workerstart |-> start,
                                                     workerend |-> ShareEnd, active |-> 1]]
               /\ start' = ShareEnd /\ start <= ShareEnd /\ ShareEnd \in Int
               /\ UNCHANGED <<terminated_children, count, reported>>
               /\ dpc = "launch" /\ dpc' = "pause"
  <1>1. PICK w \in Slots : w = current_worker
    BY WorkersAssumption DEF ResizeInv, TypeOK, DispatcherTypeOK, Launch, Slots
  <1>2. workers \in [Slots -> Tasks]
    BY DEF ResizeInv, TypeOK, DispatcherTypeOK
  <1>3. \A i \in Slots : workers[i].active # -2
    <2>1. ASSUME NEW i \in Slots PROVE workers[i].active \in {0, 1}
      BY DEF SlotsOK, SlotOK
    <2>2. QED
      BY <2>1
  <1>4. PICK a \in Slots \cup {-1} :
            /\ check_remaining_file_search(a)
            /\ workers' = [i \in Slots |->
                    IF i = w
                    THEN [pid |-> w, workerstart |-> start,
                          workerend |-> ShareEnd, active |-> 1]
                    ELSE IF i = a THEN [workers[i] EXCEPT !.active = 0]
                    ELSE workers[i]]
            /\ redo' = [redo EXCEPT ![w] = a]
            /\ proc' = [proc EXCEPT ![w] = "running"]
    BY <1>1 DEF Launch
  <1>5. a = -1
    <2>1. {j \in Visited : workers[j].active = -2} = {}
      BY <1>3 DEF Visited
    <2>2. QED
      BY <1>4, <2>1 DEF check_remaining_file_search, IsFirst
  <1>6. a \notin Slots
    BY <1>5 DEF Slots
  <1>7. workers' = [workers EXCEPT ![w] = [pid |-> w, workerstart |-> start,
                                           workerend |-> ShareEnd, active |-> 1]]
    BY <1>2, <1>4, <1>6
  <1>8. proc[w] = "none"
    <2>1. w \notin Launched /\ SlotOK(w)
      BY <1>1 DEF Launched, SlotsOK, Slots
    <2>2. QED
      BY <2>1 DEF SlotOK
  <1>9. start <= ShareEnd /\ ShareEnd \in Int
    <2>1. start < FileSize /\ end \in Int
      BY DEF ResizeInv, AtPoint, Launch, TypeOK, DispatcherTypeOK
    <2>2. QED
      BY <2>1, EndInFile, FileSizeAssumption DEF ShareEnd
  <1>10. QED
    BY <1>1, <1>4, <1>5, <1>7, <1>8, <1>9 DEF Launch

LEMMA SlotsStep == ResizeInv /\ SlotsOK /\ [Next]_vars => SlotsOK'
  <1> SUFFICES ASSUME ResizeInv, SlotsOK, [Next]_vars PROVE SlotsOK'
    OBVIOUS
  <1>0. /\ workers \in [Slots -> Tasks] /\ current_worker \in Nat
        /\ proc \in [Slots -> {"none", "running", "exited", "killed", "reaped"}]
        /\ redo \in [Slots -> Slots \cup {-1}] /\ start \in Int
        /\ \A i \in Slots : SlotOK(i)
    BY WorkersAssumption DEF ResizeInv, TypeOK, DispatcherTypeOK, SlotsOK
  <1>1. CASE Launch
    <2>1. PICK w \in Slots :
               /\ w = current_worker /\ current_worker' = w + 1
               /\ proc[w] = "none" /\ proc' = [proc EXCEPT ![w] = "running"]
               /\ redo' = [redo EXCEPT ![w] = -1]
               /\ workers' = [workers EXCEPT ![w] = [pid |-> w, workerstart |-> start,
                                                     workerend |-> ShareEnd, active |-> 1]]
               /\ start' = ShareEnd /\ start <= ShareEnd /\ ShareEnd \in Int
      BY <1>1, LaunchOfOne
    <2>2. /\ \A i \in Slots : i \in Launched' <=> i \in Launched \/ i = w
          /\ w \in Nat /\ w \in Launched' /\ Launched \subseteq Slots
      BY <2>1 DEF Launched, Slots
    <2>3. 0 <= start
      <3>1. CASE current_worker = 0
        BY <3>1 DEF SlotsOK
      <3>2. CASE current_worker # 0
        <4>1. w - 1 \in Launched
          BY <2>1, <2>2, <3>2, WorkersAssumption DEF Launched, Slots
        <4>2. SlotOK(w - 1)
          BY <1>0, <2>2, <4>1
        <4>3. 0 <= workers[w - 1].workerend
          BY <4>1, <4>2 DEF SlotOK
        <4>4. QED
          BY <2>1, <3>2, <4>3 DEF SlotsOK
      <3>3. QED
        BY <3>1, <3>2
    <2>4. /\ workers'[w].workerend = start' /\ workers'[w].active = 1
          /\ workers'[w].pid = w /\ proc'[w] = "running" /\ redo'[w] = -1
      BY <1>0, <2>1
    <2>5. ASSUME NEW i \in Slots, i # w
          PROVE  SlotOK(i)'
      <3>1. /\ workers'[i] = workers[i] /\ proc'[i] = proc[i] /\ redo'[i] = redo[i]
            /\ (i \in Launched' <=> i \in Launched) /\ SlotOK(i)
        BY <1>0, <2>1, <2>2, <2>5
      <3>2. workers[i].workerend \in Int
        BY <1>0 DEF Tasks
      <3>3. workers[i].workerend <= start => workers[i].workerend <= start'
        BY <1>0, <2>1, <3>2
      <3>4. QED
        BY <3>1, <3>3 DEF SlotOK
    <2>6. SlotOK(w)'
      BY <2>1, <2>2, <2>3, <2>4, <1>0 DEF SlotOK
    <2>7. workers'[current_worker' - 1].workerend = start' /\ current_worker' # 0
      <3>1. current_worker' - 1 = w /\ current_worker' # 0
        BY <2>1, <2>2
      <3>2. QED
        BY <2>4, <3>1
    <2>8. QED
      BY <2>5, <2>6, <2>7 DEF SlotsOK
  <1>2. ASSUME NEW w \in Slots, WorkerExit(w) \/ Reap(w)
        PROVE  SlotsOK'
    <2>1. /\ w \in Launched /\ workers[w].active = 1 /\ workers[w].pid = w
          /\ \/ WorkerExit(w) /\ proc[w] = "running"
             \/ ReapExited(w) /\ proc[w] = "exited"
      BY <1>2, OnlyExited
    <2>2. UNCHANGED <<start, current_worker, redo>>
      BY <2>1 DEF WorkerExit, ReapExited, shareVars, crewVars
    <2>3. Launched' = Launched
      BY <2>2 DEF Launched, Slots
    <2>4. \/ /\ proc' = [proc EXCEPT ![w] = "exited"] /\ workers' = workers
          \/ /\ proc' = [proc EXCEPT ![w] = "reaped"]
             /\ workers' = [workers EXCEPT ![w].pid = -1, ![w].active = 0]
      BY <2>1 DEF WorkerExit, ReapExited
    <2>5. /\ \A i \in Slots : workers'[i].workerend = workers[i].workerend
          /\ \A i \in Slots : i # w => workers'[i] = workers[i] /\ proc'[i] = proc[i]
          /\ \/ proc'[w] = "exited" /\ workers'[w] = workers[w]
             \/ proc'[w] = "reaped" /\ workers'[w].active = 0
      BY <1>0, <2>4 DEF Tasks
    <2>6. ASSUME NEW i \in Slots, i # w
          PROVE  SlotOK(i)'
      <3>1. /\ workers'[i] = workers[i] /\ proc'[i] = proc[i] /\ SlotOK(i)
        BY <1>0, <2>5, <2>6
      <3>2. QED
        BY <2>2, <2>3, <3>1 DEF SlotOK
    <2>7. SlotOK(w)'
      <3>1. SlotOK(w) /\ workers'[w].workerend = workers[w].workerend
        BY <1>0, <2>5
      <3>2. QED
        BY <2>1, <2>2, <2>3, <2>5, <3>1 DEF SlotOK
    <2>8. current_worker # 0 =>
              workers'[current_worker - 1].workerend = workers[current_worker - 1].workerend
      <3>1. current_worker # 0 => current_worker - 1 \in Slots
        BY <1>0, WorkersAssumption DEF ResizeInv, TypeOK, DispatcherTypeOK, Slots
      <3>2. QED
        BY <2>5, <3>1
    <2>9. QED
      BY <2>2, <2>6, <2>7, <2>8 DEF SlotsOK
  <1>3. CASE Rests \/ Drained
    <2>1. UNCHANGED <<workers, redo, proc, start, current_worker>>
      BY <1>3 DEF Rests, Drained, tableVars, shareVars, crewVars
    <2>2. QED
      BY <2>1 DEF SlotsOK, SlotOK, Launched, Slots
  <1>4. QED
    BY <1>1, <1>2, <1>3, Steps

\* A share once handed out keeps its bounds: while none is empty, none was.
LEMMA NoneWasEmpty ==
    ASSUME ResizeInv, SlotsOK, [Next]_vars, NoEmptyShare'
    PROVE  NoEmptyShare
  <1>0. workers \in [Slots -> Tasks] /\ current_worker \in Nat
    BY WorkersAssumption DEF ResizeInv, TypeOK, DispatcherTypeOK
  <1>1. CASE Launch
    <2>1. PICK w \in Slots :
               /\ w = current_worker /\ current_worker' = w + 1
               /\ workers' = [workers EXCEPT ![w] = [pid |-> w, workerstart |-> start,
                                                     workerend |-> ShareEnd, active |-> 1]]
      BY <1>1, LaunchOfOne
    <2>2. ASSUME NEW i \in Launched
          PROVE  i \in Launched' /\ workers'[i] = workers[i]
      BY <1>0, <2>1 DEF Launched, Slots
    <2>3. QED
      BY <2>2 DEF NoEmptyShare
  <1>2. ASSUME NEW w \in Slots, WorkerExit(w) \/ Reap(w)
        PROVE  NoEmptyShare
    <2>1. /\ UNCHANGED current_worker
          /\ workers' = workers
               \/ workers' = [workers EXCEPT ![w].pid = -1, ![w].active = 0]
      BY <1>2 DEF WorkerExit, Reap, ReapExited, ReapKilled, crewVars
    <2>2. \A i \in Slots : /\ workers'[i].workerstart = workers[i].workerstart
                           /\ workers'[i].workerend = workers[i].workerend
      BY <1>0, <2>1 DEF Tasks
    <2>3. QED
      BY <2>1, <2>2 DEF NoEmptyShare, Launched, Slots
  <1>3. CASE Rests \/ Drained
    <2>1. UNCHANGED <<workers, current_worker>>
      BY <1>3 DEF Rests, Drained, tableVars, crewVars
    <2>2. QED
      BY <2>1 DEF NoEmptyShare, Launched, Slots
  <1>4. QED
    BY <1>1, <1>2, <1>3, Steps

\* No offset lies in the shares of two workers.
LEMMA SharesApart ==
    ASSUME SharesTile, NEW p \in Bytes, NEW i \in Launched, NEW j \in Launched,
           p \in ShareOf(i), p \in ShareOf(j)
    PROVE  i = j
  <1>1. PICK k \in Launched : \A l \in Launched \ {k} : p \notin ShareOf(l)
    BY DEF SharesTile
  <1>2. QED
    BY <1>1

\* What is added when a worker is reaped: its share, none of which was counted
\* before.
LEMMA ReapAdds ==
    ASSUME CountInv, NEW w \in Slots, ReapExited(w)
    PROVE  /\ w \in Launched \ Reaped /\ proc[w] = "exited"
           /\ UNCHANGED <<current_worker, start, reported, dpc>>
           /\ Launched' = Launched /\ Reaped' = Reaped \cup {w}
           /\ terminated_children' = terminated_children + 1
           /\ \A i \in Slots : ShareOf(i)' = ShareOf(i)
           /\ NoEmptyShare =>
                  /\ \A p \in ShareOf(w) : count[p] = 0
                  /\ count' = [p \in Bytes |-> IF p \in ShareOf(w) THEN 1 ELSE count[p]]
  <1>0. /\ workers \in [Slots -> Tasks]
        /\ proc \in [Slots -> {"none", "running", "exited", "killed", "reaped"}]
        /\ count \in [Bytes -> Nat]
    BY DEF CountInv, ResizeInv, TypeOK, DispatcherTypeOK, Tallies
  <1>1. w \in Launched /\ workers[w].pid = w /\ proc[w] = "exited" /\ redo[w] = -1
    <2>1. w \in Launched /\ workers[w].pid = w
      BY OnlyExited DEF CountInv, Reap
    <2>2. SlotOK(w)
      BY DEF CountInv, SlotsOK
    <2>3. QED
      BY <2>1, <2>2 DEF SlotOK, ReapExited
  <1>2. /\ UNCHANGED <<current_worker, start, reported, dpc>>
        /\ terminated_children' = terminated_children + 1
        /\ proc' = [proc EXCEPT ![w] = "reaped"]
        /\ workers' = [workers EXCEPT ![w].pid = -1, ![w].active = 0]
        /\ count' = [p \in Bytes |-> count[p] + Scanned(w)[p]]
    BY <1>1 DEF ReapExited, crewVars, shareVars
  <1>3. w \notin Reaped
    BY <1>1 DEF Reaped
  <1>4. Launched' = Launched
    BY <1>2 DEF Launched, Slots
  <1>5. Reaped' = Reaped \cup {w}
    <2>1. \A i \in Slots : proc'[i] = IF i = w THEN "reaped" ELSE proc[i]
      BY <1>0, <1>2
    <2>2. Launched \subseteq Slots
      BY DEF Launched
    <2>3. QED
      BY <1>1, <1>4, <2>1, <2>2 DEF Reaped
  <1>6. \A i \in Slots : ShareOf(i)' = ShareOf(i)
    <2>1. \A i \in Slots : /\ workers'[i].workerstart = workers[i].workerstart
                           /\ workers'[i].workerend = workers[i].workerend
      BY <1>0, <1>2 DEF Tasks
    <2>2. QED
      BY <2>1 DEF ShareOf, Share, Bytes
  <1>7. ASSUME NoEmptyShare, NEW p \in Bytes
        PROVE  /\ p \in ShareOf(w) => count[p] = 0
               /\ count'[p] = IF p \in ShareOf(w) THEN 1 ELSE count[p]
    <2>1. PICK s \in Int, e \in Int :
              s = workers[w].workerstart /\ e = workers[w].workerend /\ s < e
      BY <1>0, <1>1, <1>7 DEF NoEmptyShare, Tasks
    <2>2. p \in ScanShare(s, e) <=> p \in ShareOf(w)
      BY <2>1 DEF ScanShare, ShareOf, Share, Bytes
    <2>3. Scanned(w)[p] = IF p \in ShareOf(w) THEN 1 ELSE 0
      BY <1>1, <2>1, <2>2 DEF Scanned
    <2>4. p \in ShareOf(w) => ~\E i \in Reaped : p \in ShareOf(i)
      BY <1>1, <1>3, SharesApart DEF Reaped, CountInv, ResizeInv
    <2>5. count[p] = IF \E i \in Reaped : p \in ShareOf(i) THEN 1 ELSE 0
      BY <1>7 DEF CountInv, CountOK
    <2>6. count'[p] = count[p] + Scanned(w)[p] /\ count[p] \in Nat
      BY <1>0, <1>2
    <2>7. QED
      BY <2>3, <2>4, <2>5, <2>6
  <1>8. ASSUME NoEmptyShare
        PROVE  /\ \A p \in ShareOf(w) : count[p] = 0
               /\ count' = [p \in Bytes |-> IF p \in ShareOf(w) THEN 1 ELSE count[p]]
    <2>1. \A p \in ShareOf(w) : p \in Bytes
      BY DEF ShareOf, Share
    <2>2. \A p \in Bytes : /\ p \in ShareOf(w) => count[p] = 0
                           /\ count'[p] = IF p \in ShareOf(w) THEN 1 ELSE count[p]
      BY <1>7, <1>8
    <2>3. count' = [p \in Bytes |-> count'[p]]
      BY <1>2
    <2>4. QED
      BY <2>1, <2>2, <2>3
  <1>9. QED
    BY <1>1, <1>2, <1>3, <1>4, <1>5, <1>6, <1>8

LEMMA CountStep == CountInv /\ [Next]_vars => CountOK'
  <1> SUFFICES ASSUME CountInv, [Next]_vars PROVE CountOK'
    OBVIOUS
  <1>0. ResizeInv /\ SlotsOK /\ CountOK /\ TypeOK
    BY DEF CountInv, ResizeInv
  <1>1. CASE Launch
    <2>1. PICK w \in Slots :
               /\ w = current_worker /\ current_worker' = w + 1
               /\ proc[w] = "none" /\ proc' = [proc EXCEPT ![w] = "running"]
               /\ workers' = [workers EXCEPT ![w] = [pid |-> w, workerstart |-> start,
                                                     workerend |-> ShareEnd, active |-> 1]]
               /\ UNCHANGED <<terminated_children, count>>
      BY <1>0, <1>1, LaunchOfOne
    <2>2. /\ proc \in [Slots -> {"none", "running", "exited", "killed", "reaped"}]
          /\ workers \in [Slots -> Tasks]
      BY <1>0 DEF TypeOK, DispatcherTypeOK
    <2>3. /\ \A i \in Slots : i \in Launched' <=> i \in Launched \/ i = w
          /\ w \notin Launched /\ Launched \subseteq Slots /\ Launched' \subseteq Slots
      BY <2>1 DEF Launched, Slots
    <2>4. \A i \in Slots : i # w => workers'[i] = workers[i] /\ proc'[i] = proc[i]
      BY <2>1, <2>2
    <2>5. proc'[w] = "running"
      BY <2>1, <2>2
    <2>6. Reaped' = Reaped
      BY <2>3, <2>4, <2>5 DEF Reaped
    <2>7. \A i \in Reaped : ShareOf(i)' = ShareOf(i)
      BY <2>3, <2>4 DEF Reaped, ShareOf, Share, Bytes
    <2>8. NoEmptyShare' => NoEmptyShare
      BY <1>0, NoneWasEmpty
    <2>9. QED
      BY <1>0, <2>1, <2>6, <2>7, <2>8 DEF CountOK, Bytes
  <1>2. ASSUME NEW w \in Slots, WorkerExit(w), proc[w] = "running"
        PROVE  CountOK'
    <2>1. /\ proc \in [Slots -> {"none", "running", "exited", "killed", "reaped"}]
      BY <1>0 DEF TypeOK, DispatcherTypeOK
    <2>2. /\ UNCHANGED <<workers, current_worker, terminated_children, count>>
          /\ proc' = [proc EXCEPT ![w] = "exited"]
      BY <1>2 DEF WorkerExit, crewVars
    <2>3. Launched' = Launched /\ Launched \subseteq Slots
      BY <2>2 DEF Launched, Slots
    <2>4. \A i \in Slots : proc'[i] = "reaped" <=> proc[i] = "reaped"
      BY <1>2, <2>1, <2>2
    <2>5. Reaped' = Reaped
      BY <2>3, <2>4 DEF Reaped
    <2>6. (NoEmptyShare' => NoEmptyShare) /\ \A i \in Slots : ShareOf(i)' = ShareOf(i)
      BY <2>2, <2>3 DEF NoEmptyShare, ShareOf, Share, Bytes
    <2>7. Reaped \subseteq Slots
      BY DEF Reaped, Launched
    <2>8. QED
      BY <1>0, <2>2, <2>5, <2>6, <2>7 DEF CountOK, Bytes
  <1>3. ASSUME NEW w \in Slots, ReapExited(w)
        PROVE  CountOK'
    <2>1. /\ w \in Launched \ Reaped
          /\ Reaped' = Reaped \cup {w}
          /\ terminated_children' = terminated_children + 1
          /\ \A i \in Slots : ShareOf(i)' = ShareOf(i)
          /\ NoEmptyShare =>
                  count' = [p \in Bytes |-> IF p \in ShareOf(w) THEN 1 ELSE count[p]]
      BY <1>3, ReapAdds
    <2>2. terminated_children' = Cardinality(Reaped')
      <3>1. Cardinality(Reaped \cup {w}) = Cardinality(Reaped) + 1
        BY <1>0, <2>1, LaunchedFinite, FS_AddElement
      <3>2. QED
        BY <1>0, <2>1, <3>1 DEF CountOK
    <2>3. NoEmptyShare' => NoEmptyShare
      BY <1>0, NoneWasEmpty
    <2>4. ASSUME NoEmptyShare, NEW p \in Bytes
          PROVE  count'[p] = IF \E i \in Reaped' : p \in ShareOf(i)' THEN 1 ELSE 0
      <3>1. count[p] = IF \E i \in Reaped : p \in ShareOf(i) THEN 1 ELSE 0
        BY <1>0, <2>4 DEF CountOK
      <3>2. count'[p] = IF p \in ShareOf(w) THEN 1 ELSE count[p]
        BY <2>1, <2>4
      <3>3. (\E i \in Reaped' : p \in ShareOf(i)')
                <=> p \in ShareOf(w) \/ \E i \in Reaped : p \in ShareOf(i)
        <4>1. Reaped \cup {w} \subseteq Slots
          BY DEF Reaped, Launched
        <4>2. QED
          BY <2>1, <4>1
      <3>4. QED
        BY <3>1, <3>2, <3>3
    <2>5. QED
      BY <2>2, <2>3, <2>4 DEF CountOK, Bytes
  <1>4. CASE Rests \/ Drained
    <2>1. UNCHANGED <<workers, proc, current_worker, terminated_children, count>>
      BY <1>4 DEF Rests, Drained, tableVars, crewVars
    <2>2. Launched' = Launched /\ Reaped' = Reaped
      BY <2>1 DEF Launched, Reaped, Slots
    <2>3. NoEmptyShare' = NoEmptyShare /\ \A i \in Slots : ShareOf(i)' = ShareOf(i)
      BY <2>1, <2>2 DEF NoEmptyShare, ShareOf, Share, Bytes
    <2>4. Reaped \subseteq Slots
      BY DEF Reaped, Launched
    <2>5. QED
      BY <1>0, <2>1, <2>2, <2>3, <2>4 DEF CountOK, Bytes
  <1>5. QED
    BY <1>0, <1>1, <1>2, <1>3, <1>4, Steps, OnlyExited

\* The wait at the end is over when all workers launched are reaped.
LEMMA DrainedAll ==
    ASSUME CountInv, Drained
    PROVE  Reaped = Launched /\ start = FileSize /\ reported' = <<count>>
  <1>1. /\ dpc = "drain" /\ terminated_children >= total_current_workers
        /\ reported' = <<count>>
    BY DEF Drained
  <1>2. start = FileSize
    BY <1>1 DEF CountInv, EndOK, AtEnd
  <1>3. /\ IsFiniteSet(Launched) /\ Cardinality(Launched) = current_worker
        /\ Cardinality(Reaped) \in Nat /\ Reaped \subseteq Launched
    BY LaunchedFinite DEF CountInv, ResizeInv
  <1>4. /\ current_worker \in Nat /\ remaining_workers \in Int
        /\ total_current_workers \in Int /\ remaining_workers >= 0
        /\ remaining_workers = total_current_workers - current_worker
    BY WorkersAssumption
       DEF CountInv, ResizeInv, CrewAccounted, TypeOK, DispatcherTypeOK
  <1>5. terminated_children = Cardinality(Reaped)
    BY DEF CountInv, CountOK
  <1>6. Cardinality(Reaped) <= Cardinality(Launched)
    BY <1>3, FS_Subset
  <1>7. Cardinality(Reaped) = Cardinality(Launched)
    BY <1>1, <1>3, <1>4, <1>5, <1>6
  <1>8. Reaped = Launched
    BY <1>3, <1>7, FS_Subset
  <1>9. QED
    BY <1>1, <1>2, <1>8

LEMMA EndStep == CountInv /\ [Next]_vars => EndOK'
  <1> SUFFICES ASSUME CountInv, [Next]_vars PROVE EndOK'
    OBVIOUS
  <1>0. ResizeInv /\ SlotsOK /\ EndOK /\ start \in Int /\ start <= FileSize
    BY DEF CountInv, ResizeInv, AtPoint, TypeOK, DispatcherTypeOK
  <1>1. CASE Launch
    <2>1. dpc = "launch" /\ dpc' = "pause" /\ reported' = reported
      BY <1>1 DEF Launch
    <2>2. QED
      BY <1>0, <2>1 DEF EndOK, AtEnd
  <1>2. ASSUME NEW w \in Slots, WorkerExit(w), w \in Launched, proc[w] = "running"
        PROVE  EndOK'
    <2>1. UNCHANGED <<start, dpc, reported>>
      BY <1>2 DEF WorkerExit, shareVars
    <2>2. reported = <<>>
      BY <1>0, <1>2 DEF EndOK, Reaped
    <2>3. QED
      BY <1>0, <2>1, <2>2 DEF EndOK, AtEnd
  <1>3. ASSUME NEW w \in Slots, ReapExited(w)
        PROVE  EndOK'
    <2>1. w \in Launched \ Reaped /\ UNCHANGED <<start, dpc, reported>>
      BY <1>3, ReapAdds
    <2>2. reported = <<>>
      BY <1>0, <2>1 DEF EndOK
    <2>3. QED
      BY <1>0, <2>1, <2>2 DEF EndOK, AtEnd
  <1>4. CASE Drained
    <2>1. /\ dpc' = "signal" /\ UNCHANGED <<start, proc, current_worker>>
      BY <1>4 DEF Drained, shareVars, tableVars, crewVars
    <2>2. Launched' = Launched /\ Reaped' = Reaped
      BY <2>1 DEF Launched, Reaped, Slots
    <2>3. QED
      BY <1>4, <2>1, <2>2, DrainedAll DEF EndOK
  <1>5. CASE Rests
    <2>1. /\ UNCHANGED <<proc, start, current_worker, reported>>
          /\ AtEnd' => AtEnd \/ start >= FileSize
          /\ dpc \in {"signal", "exit", "done"} => dpc' \in {"signal", "exit", "done"}
      BY <1>5 DEF Rests
    <2>2. Launched' = Launched /\ Reaped' = Reaped
      BY <2>1 DEF Launched, Reaped, Slots
    <2>3. AtEnd' => start' = FileSize
      BY <1>0, <2>1, FileSizeAssumption DEF EndOK
    <2>4. QED
      BY <1>0, <2>1, <2>2, <2>3 DEF EndOK
  <1>6. QED
    BY <1>0, <1>1, <1>2, <1>3, <1>4, <1>5, Steps, OnlyExited

LEMMA CountInvariant == Spec => []CountInv
  <1>1. CountInv /\ [Next]_vars => CountInv'
    BY ResizeInvStep, SlotsStep, CountStep, EndStep DEF CountInv
  <1>2. QED
    BY <1>1, CountInit, PTL DEF Spec

\* When no launched worker is searching, all launched are reaped.
LEMMA IdleIsReaped ==
    ASSUME SlotsOK, \A i \in Launched : workers[i].active = 0
    PROVE  Reaped = Launched
  <1>1. ASSUME NEW i \in Launched PROVE i \in Reaped
    <2>1. SlotOK(i)
      BY DEF SlotsOK, Launched
    <2>2. QED
      BY <2>1 DEF SlotOK, Reaped
  <1>2. QED
    BY <1>1 DEF Reaped

\* When all launched are reaped, each byte handed out has been counted once.
LEMMA AllCounted ==
    ASSUME CountInv, NoEmptyShare, Reaped = Launched
    PROVE  \A p \in Bytes : count[p] = IF p < start THEN 1 ELSE 0
  <1> SUFFICES ASSUME NEW p \in Bytes PROVE count[p] = IF p < start THEN 1 ELSE 0
    OBVIOUS
  <1>1. count[p] = IF \E i \in Launched : p \in ShareOf(i) THEN 1 ELSE 0
    BY DEF CountInv, CountOK
  <1>2. (\E i \in Launched : p \in ShareOf(i)) <=> p < start
    BY DEF CountInv, ResizeInv, SharesTile
  <1>3. QED
    BY <1>1, <1>2

LEMMA ExaminedToStart ==
    ASSUME CountInv, Reaped = Launched
    PROVE  Examined = start
  <1>0. /\ workers \in [Slots -> Tasks] /\ current_worker \in Nat
        /\ current_worker <= MostWorkers /\ start \in Int
    BY WorkersAssumption DEF CountInv, ResizeInv, TypeOK, DispatcherTypeOK
  <1> DEFINE idle == {i \in Visited : workers[i].active = 0}
             ends == {0} \cup {workers[i].workerend : i \in idle}
  <1>1. \A i \in Visited : workers[i].active = 0 /\ workers[i].workerend \in Int
    <2>1. ASSUME NEW i \in Slots PROVE workers[i].active = 0 /\ workers[i].workerend \in Int
      <3>1. SlotOK(i) /\ workers[i].workerend \in Int
        BY <1>0 DEF CountInv, SlotsOK, Tasks
      <3>2. i \in Launched => proc[i] = "reaped"
        BY DEF Reaped
      <3>3. QED
        BY <3>1, <3>2 DEF SlotOK
    <2>2. QED
      BY <2>1 DEF Visited
  <1>2. idle = Visited
    BY <1>1
  <1>3. start \in ends /\ 0 <= start
    <2>1. CASE current_worker = 0
      BY <2>1 DEF CountInv, SlotsOK
    <2>2. CASE current_worker # 0
      <3>1. current_worker - 1 \in Launched /\ current_worker - 1 \in Visited
        BY <1>0, <2>2, WorkersAssumption DEF Launched, Visited, Slots
      <3>2. SlotOK(current_worker - 1) /\ workers[current_worker - 1].workerend = start
        BY <2>2, <3>1 DEF CountInv, SlotsOK, Visited
      <3>3. start \in ends
        BY <1>2, <3>1, <3>2
      <3>4. 0 <= start
        BY <3>1, <3>2 DEF SlotOK
      <3>5. QED
        BY <3>3, <3>4
    <2>3. QED
      BY <2>1, <2>2
  <1>4. \A f \in ends : f \in Int /\ f <= start
    <2>1. ASSUME NEW i \in Visited PROVE workers[i].workerend <= start
      <3>1. SlotOK(i) /\ workers[i].workerend \in Int
        BY <1>1 DEF CountInv, SlotsOK, Visited
      <3>2. QED
        BY <1>0, <1>3, <3>1 DEF SlotOK
    <2>2. QED
      BY <1>1, <1>2, <1>3, <2>1
  <1>5. Examined = CHOOSE e \in ends : \A f \in ends : f <= e
    BY DEF Examined
  <1> HIDE DEF ends
  <1>6. \A e \in ends : (\A f \in ends : f <= e) => e = start
    BY <1>0, <1>3, <1>4
  <1>7. QED
    BY <1>3, <1>4, <1>5, <1>6

\* When none of the workers launched is still searching, progress says that all
\* they were given was examined, and each byte of it has been counted once, as
\* long as no share handed out was empty (dispatcher.c 128-138, 285-290;
\* worker.c 32-38).
THEOREM ProgressIsSettled == Spec => [](NoEmptyShare => ProgressSettles)
  <1>1. CountInv => (NoEmptyShare => ProgressSettles)
    BY IdleIsReaped, AllCounted, ExaminedToStart DEF CountInv, ProgressSettles
  <1>2. QED
    BY <1>1, CountInvariant, PTL

\* The program implements ExactCount: whatever the crew is made larger or
\* smaller to, and in whatever order the workers end, each byte is counted at
\* most once, and the count is reported when each has been counted once; as
\* long as no share handed out is empty (dispatcher.c 285-290, 444-447).
THEOREM CountIsAlwaysExact == Spec /\ []NoEmptyShare => CountIsExact
  <1>1. Init => Exact!Init
    BY DEF Init, DispatcherInit, Exact!Init
  <1>2. CountInv /\ NoEmptyShare /\ [Next]_vars => [Exact!Next]_(Exact!vars)
    <2> SUFFICES ASSUME CountInv, NoEmptyShare, [Next]_vars
                 PROVE  [Exact!Next]_(Exact!vars)
      OBVIOUS
    <2>0. ResizeInv /\ SlotsOK
      BY DEF CountInv
    <2>1. ASSUME UNCHANGED <<count, reported>> PROVE [Exact!Next]_(Exact!vars)
      BY <2>1 DEF Exact!vars
    <2>2. ASSUME NEW w \in Slots, ReapExited(w)
          PROVE  Exact!Next
      <3>1. /\ w \in Launched \ Reaped /\ reported' = reported
            /\ \A p \in ShareOf(w) : count[p] = 0
            /\ count' = [p \in Bytes |-> IF p \in ShareOf(w) THEN 1 ELSE count[p]]
        BY <2>2, ReapAdds
      <3>2. reported = <<>>
        BY <3>1 DEF CountInv, EndOK
      <3>3. ShareOf(w) \in SUBSET Bytes
        BY DEF ShareOf, Share
      <3>4. Exact!Add(ShareOf(w))
        BY <3>1, <3>2 DEF Exact!Add
      <3>5. QED
        BY <3>3, <3>4 DEF Exact!Next
    <2>3. CASE Drained
      <3>1. Reaped = Launched /\ start = FileSize /\ reported' = <<count>> /\ count' = count
        BY <2>3, DrainedAll DEF Drained
      <3>2. reported = <<>>
        BY <2>3 DEF CountInv, EndOK, Drained
      <3>3. \A p \in Bytes : count[p] = 1
        <4>1. \A p \in Bytes : p < start
          BY <3>1, FileSizeAssumption DEF Bytes
        <4>2. QED
          BY <3>1, <4>1, AllCounted
      <3>4. QED
        BY <3>1, <3>2, <3>3 DEF Exact!Next, Exact!Report
    <2>4. CASE Launch
      BY <2>1, <2>4 DEF Launch
    <2>5. ASSUME NEW w \in Slots, WorkerExit(w)
          PROVE  UNCHANGED <<count, reported>>
      BY <2>5 DEF WorkerExit
    <2>6. CASE Rests
      BY <2>1, <2>6 DEF Rests
    <2>7. QED
      BY <2>0, <2>1, <2>2, <2>3, <2>4, <2>5, <2>6, Steps, OnlyExited
  <1>3. QED
    BY <1>1, <1>2, CountInvariant, PTL DEF Spec, CountIsExact, Exact!Spec

-----------------------------------------------------------------------------
(* When no share is empty.                                                   *)

\* What is left holds at least one byte for each of the crew.
RoomLeft == start < FileSize => start < end /\ 1 <= segment_size

LEMMA DivPositive ==
    ASSUME NEW n \in Nat \ {0}, NEW f \in Nat, n <= f
    PROVE  1 <= f \div n
  <1>1. /\ f \div n \in Nat /\ f % n \in 0 .. n - 1
        /\ f = (f % n) + (f \div n) * n
    OBVIOUS
  <1>2. PICK q \in Nat, r \in 0 .. n - 1 : q = f \div n /\ f = r + q * n
    BY <1>1
  <1>3. q = 0 => q * n = 0
    OBVIOUS
  <1>4. QED
    BY <1>2, <1>3

LEMMA RoomInit == Init /\ InitialWorkers <= FileSize => RoomLeft /\ NoEmptyShare
  <1> SUFFICES ASSUME Init, InitialWorkers <= FileSize PROVE RoomLeft /\ NoEmptyShare
    OBVIOUS
  <1>1. start = 0 /\ current_worker = 0 /\ end = segment_size
        /\ segment_size = FileSize \div InitialWorkers
    BY DEF Init, DispatcherInit
  <1>2. 1 <= segment_size
    BY <1>1, DivPositive, FileSizeAssumption, WorkersAssumption
  <1>3. segment_size \in Int
    BY ResizeInit DEF ResizeInv, TypeOK, DispatcherTypeOK
  <1>4. Launched = {}
    BY <1>1 DEF Launched, Slots
  <1>5. QED
    BY <1>1, <1>2, <1>3, <1>4 DEF RoomLeft, NoEmptyShare

\* A crew made smaller leaves each worker at least as much.
LEMMA RoomAfterDecrease ==
    ASSUME ResizeInv, RoomLeft, decrease_workers
    PROVE  RoomLeft'
  <1>1. TypeOK
    BY DEF ResizeInv
  <1>2. Value \in Nat \ {0}
    BY <1>1, CommandsAllowed DEF decrease_workers, Received, Value, Sized
  <1>3. start' = start /\ end' = end
    BY DEF decrease_workers
  <1>4. CASE Refuse
    BY <1>3, <1>4 DEF Refuse, RoomLeft
  <1>5. CASE Resize(-Value) /\ remaining_workers - Value >= 1
    <2> SUFFICES ASSUME start < FileSize PROVE start < end /\ 1 <= segment_size'
      BY <1>3 DEF RoomLeft
    <2>1. PICK r \in Nat \ {0}, s \in Nat \ {0}, e \in Int, v \in Nat \ {0} :
              /\ r = remaining_workers /\ s = segment_size /\ e = end /\ v = Value
              /\ r - v >= 1 /\ e + (r - 1) * s <= FileSize
      BY <1>1, <1>2, <1>5
         DEF ResizeInv, RestFits, RoomLeft, TypeOK, DispatcherTypeOK
    <2>2. segment_size' = CDiv(FileSize - e, r - v)
      <3>1. remaining_workers + (-Value) = r - v
        BY <2>1
      <3>2. r - v # 0
        BY <2>1
      <3>3. QED
        BY <1>5, <2>1, <3>1, <3>2 DEF Resize
    <2>3. (r - 1) * s >= r - 1
      <3>1. PICK m \in Nat, k \in Nat : m = r - 1 /\ s = k + 1
        <4>1. r - 1 \in Nat /\ s - 1 \in Nat /\ s = (s - 1) + 1
          OBVIOUS
        <4>2. QED
          BY <4>1
      <3>2. m * (k + 1) = m * k + m /\ m * k \in Nat
        OBVIOUS
      <3>3. QED
        BY <3>1, <3>2
    <2>4. PICK c \in Nat \ {0}, f \in Nat : c = r - v /\ f = FileSize - e /\ c <= f
      <3>1. (r - 1) * s \in Int
        OBVIOUS
      <3>2. r - v \in Nat \ {0} /\ FileSize - e \in Nat /\ r - v <= FileSize - e
        BY <2>1, <2>3, <3>1, FileSizeAssumption
      <3>3. QED
        BY <3>2
    <2>5. CDiv(f, c) = f \div c
      BY DEF CDiv
    <2>6. 1 <= f \div c
      BY <2>4, DivPositive
    <2>7. start < end
      BY DEF RoomLeft
    <2>8. QED
      BY <2>2, <2>4, <2>5, <2>6, <2>7
  <1>6. QED
    BY <1>4, <1>5 DEF decrease_workers

LEMMA RoomStep ==
    ASSUME ResizeInv, SlotsOK, RoomLeft, NoEmptyShare, [Next]_vars, "increase" \notin Verbs
    PROVE  RoomLeft' /\ NoEmptyShare'
  <1>0. /\ TypeOK /\ workers \in [Slots -> Tasks] /\ current_worker \in Nat
        /\ start \in Int /\ end \in Int /\ segment_size \in Int
    BY WorkersAssumption DEF ResizeInv, TypeOK, DispatcherTypeOK
  <1>1. CASE Launch
    <2>1. PICK w \in Slots :
               /\ w = current_worker /\ current_worker' = w + 1
               /\ workers' = [workers EXCEPT ![w] = [pid |-> w, workerstart |-> start,
                                                     workerend |-> ShareEnd, active |-> 1]]
      BY <1>1, LaunchOfOne DEF ResizeInv
    <2>2. start < FileSize /\ start < end /\ 1 <= segment_size
      BY <1>1 DEF ResizeInv, AtPoint, RoomLeft, Launch
    <2>3. start < ShareEnd /\ ShareEnd \in Int
      BY <1>0, <2>2, FileSizeAssumption DEF ShareEnd
    <2>4. RoomLeft'
      <3>1. start' = ShareEnd /\ end' = ShareEnd + segment_size /\ segment_size' = segment_size
        BY <1>1 DEF Launch
      <3>2. QED
        BY <1>0, <2>2, <2>3, <3>1 DEF RoomLeft
    <2>5. \A i \in Slots : workers'[i] = IF i = w
                                         THEN [pid |-> w, workerstart |-> start,
                                               workerend |-> ShareEnd, active |-> 1]
                                         ELSE workers[i]
      BY <1>0, <2>1
    <2>6. \A i \in Slots : i \in Launched' <=> i \in Launched \/ i = w
      BY <1>0, <2>1 DEF Launched, Slots
    <2>7. Launched' \subseteq Slots
      BY <2>1 DEF Launched, Slots
    <2>8. ASSUME NEW i \in Slots, i \in Launched'
          PROVE  workers'[i].workerstart < workers'[i].workerend
      <3>1. CASE i = w
        BY <2>3, <2>5, <3>1
      <3>2. CASE i # w
        BY <2>5, <2>6, <2>8, <3>2 DEF NoEmptyShare
      <3>3. QED
        BY <3>1, <3>2
    <2>9. NoEmptyShare'
      BY <2>7, <2>8 DEF NoEmptyShare
    <2>10. QED
      BY <2>4, <2>9
  <1>2. ASSUME ~Launch PROVE NoEmptyShare'
    <2>1. /\ current_worker' = current_worker
          /\ \/ workers' = workers
             \/ \E w \in Slots : workers' = [workers EXCEPT ![w].pid = -1, ![w].active = 0]
      <3>1. CASE Rests \/ Drained
        BY <3>1 DEF Rests, Drained, tableVars, crewVars
      <3>2. CASE \E w \in Slots : WorkerExit(w) \/ Reap(w)
        BY <3>2 DEF WorkerExit, Reap, ReapExited, ReapKilled, crewVars
      <3>3. QED
        BY <1>2, <3>1, <3>2, Steps
    <2>2. \A i \in Slots : /\ workers'[i].workerstart = workers[i].workerstart
                           /\ workers'[i].workerend = workers[i].workerend
      <3>1. CASE workers' = workers
        BY <3>1
      <3>2. ASSUME NEW w \in Slots,
                   workers' = [workers EXCEPT ![w].pid = -1, ![w].active = 0]
            PROVE  \A i \in Slots : /\ workers'[i].workerstart = workers[i].workerstart
                                     /\ workers'[i].workerend = workers[i].workerend
        BY <1>0, <3>2 DEF Tasks
      <3>3. QED
        BY <2>1, <3>1, <3>2
    <2>3. QED
      BY <2>1, <2>2 DEF NoEmptyShare, Launched, Slots
  <1>3. CASE UNCHANGED shareVars /\ ~Launch
    BY <1>2, <1>3 DEF shareVars, RoomLeft
  <1>4. CASE increase_workers
    <2>1. cmdPipe # <<>> /\ Head(cmdPipe).verb = "increase"
      BY <1>4 DEF increase_workers, Received
    <2>2. Head(cmdPipe) \in Commands
      BY <1>0, <2>1, HeadIsCommand DEF TypeOK
    <2>3. \A c \in Commands : c.verb \in Verbs
      BY DEF Commands
    <2>4. FALSE
      BY <2>1, <2>2, <2>3
    <2>5. QED
      BY <2>4
  <1>5. CASE decrease_workers
    <2>1. dpc = "cmd"
      BY <1>5 DEF decrease_workers, Received
    <2>2. ~Launch
      BY <2>1 DEF Launch
    <2>3. QED
      BY <1>2, <1>5, <2>2, RoomAfterDecrease
  <1>6. Launch \/ increase_workers \/ decrease_workers \/ UNCHANGED shareVars
    BY DEF Next, vars, dispatcherVars, User, FrontEndMain, Dispatching, Calamity,
           KillEveryone, Exiting, Reaping, NotifyFlag, NotifyTooEarly, WorkerExit, Reap,
           ReapExited, ReapKilled, DispatcherMain, Boot, LoopTop, Pause, Overrun, Report,
           give_file_percentage_and_count_till_now, get_info, OtherCommand,
           CommandsDone, ClearFlag, Terminate, FindVictim, KillVictim, MarkVictim,
           LoadTerminated, StoreTerminated, Drained, SignalEnd, Exit
  <1>7. QED
    BY <1>1, <1>3, <1>4, <1>5, <1>6

\* When the file has a byte for each worker of the first crew, a user who only
\* makes the crew smaller never makes a share empty: the count is exact without
\* any condition on the shares (dispatcher.c 54-104, 351-381).
THEOREM SmallerCrewsAreExact ==
    ASSUME "increase" \notin Verbs, InitialWorkers <= FileSize
    PROVE  Spec => []NoEmptyShare /\ CountIsExact
  <1>1. Init => RoomLeft /\ NoEmptyShare
    BY RoomInit
  <1>2. CountInv /\ RoomLeft /\ NoEmptyShare /\ [Next]_vars => RoomLeft' /\ NoEmptyShare'
    BY RoomStep DEF CountInv
  <1>3. Spec => []NoEmptyShare
    BY <1>1, <1>2, CountInvariant, PTL DEF Spec
  <1>4. QED
    BY <1>3, CountIsAlwaysExact, PTL
=============================================================================
