-------------------------- MODULE CharCountProofs --------------------------
(* Proofs about the character-counting program with a user who types        *)
(* whatever he likes: types, the table of workers, and the dialogue.        *)
EXTENDS CharCount, TLAPS

\* C's division of integers is an integer; \div alone is one for divisors
\* above zero.
LEMMA CDivInt ==
    ASSUME NEW a \in Int, NEW b \in Int, b # 0
    PROVE  CDiv(a, b) \in Int
  <1>1. ASSUME NEW m \in Nat, NEW n \in Nat \ {0} PROVE m \div n \in Int
    BY <1>1
  <1>2. /\ IF a < 0 THEN -a \in Nat ELSE a \in Nat
        /\ IF b < 0 THEN -b \in Nat \ {0} ELSE b \in Nat \ {0}
    OBVIOUS
  <1>3. QED
    BY <1>1, <1>2 DEF CDiv

\* The command taken from the pipe is one the user typed.
LEMMA HeadIsCommand ==
    ASSUME LinkTypeOK, cmdPipe # <<>>
    PROVE  Head(cmdPipe) \in Commands /\ Head(cmdPipe).value \in Int
  <1>1. Head(cmdPipe) \in Commands
    BY DEF LinkTypeOK
  <1>2. ASSUME NEW c \in [verb : Verbs \cap Sized, value : Amounts]
        PROVE  c.value \in Int
    BY LinkAssumption
  <1>3. ASSUME NEW c \in [verb : Verbs \ Sized, value : {0}]
        PROVE  c.value \in Int
    OBVIOUS
  <1>4. QED
    BY <1>1, <1>2, <1>3 DEF Commands

LEMMA AnswerType ==
    ASSUME LinkTypeOK, Answer \/ UNCHANGED outPipe
    PROVE  outPipe' \in Seq(Outputs)
  BY DEF Answer, LinkTypeOK, Outputs

LEMMA ReceivedType ==
    ASSUME NEW v, Received(v)
    PROVE  cmdPipe' \in Seq(Commands)
  <1>1. cmdPipe' = <<>>
    BY DEF Received
  <1>2. QED
    BY <1>1

\* Both resizes and their refusal leave integers.
LEMMA ResizeType ==
    ASSUME DispatcherTypeOK, LinkTypeOK, NEW d \in Int, Resize(d) \/ Refuse
    PROVE  /\ segment_size' \in Int /\ total_current_workers' \in Int
           /\ remaining_workers' \in Int
           /\ outPipe' \in Seq(Outputs) /\ dpc' \in Points
  <1>1. CASE Refuse
    BY <1>1, AnswerType DEF Refuse, DispatcherTypeOK
  <1>2. CASE Resize(d)
    <2>1. remaining_workers' \in Int /\ total_current_workers' \in Int
      BY <1>2 DEF Resize, DispatcherTypeOK
    <2>2. CASE remaining_workers + d = 0
      BY <1>2, <2>1, <2>2 DEF Resize, DispatcherTypeOK, LinkTypeOK, Points, Ends
    <2>3. CASE remaining_workers + d # 0
      <3>1. CDiv(FileSize - end, remaining_workers + d) \in Int
        BY <2>3, CDivInt, FileSizeAssumption DEF DispatcherTypeOK
      <3>2. QED
        BY <1>2, <2>1, <2>3, <3>1, AnswerType DEF Resize, DispatcherTypeOK
    <2>4. QED
      BY <2>2, <2>3
  <1>3. QED
    BY <1>1, <1>2

LEMMA TypeInit == Init => TypeOK
  <1> SUFFICES ASSUME Init PROVE TypeOK
    OBVIOUS
  <1> USE FileSizeAssumption, WorkersAssumption, MaxCommandsAssumption
  <1>1. LinkTypeOK
    <2>1. LinkInit
      BY DEF Init
    <2>2. cmdPipe \in Seq(Commands) /\ outPipe \in Seq(Outputs)
      BY <2>1 DEF LinkInit
    <2>3. QED
      BY <2>1, <2>2 DEF LinkInit, LinkTypeOK
  <1>2. FrontEndTypeOK
    BY DEF Init, FrontEndInit, FrontEndTypeOK
  <1>3. DispatcherTypeOK
    <2>1. workers \in [Slots -> Tasks]
      BY DEF Init, DispatcherInit, Tasks
    <2>2. FileSize \div InitialWorkers \in Int
      OBVIOUS
    <2>3. count \in Tallies /\ reported \in Seq(Tallies)
      BY DEF Init, DispatcherInit, Tallies
    <2>4. DispatcherInit
      BY DEF Init
    <2>5. /\ redo \in [Slots -> Slots \cup {-1}]
          /\ proc \in [Slots -> {"none", "running", "exited", "killed", "reaped"}]
          /\ current_worker \in 0 .. MostWorkers /\ victim \in Slots
          /\ dpc \in Points
      BY <2>4 DEF DispatcherInit, Slots, Points
    <2>6. QED
      BY <2>1, <2>2, <2>3, <2>4, <2>5 DEF DispatcherInit, DispatcherTypeOK
  <1>4. QED
    BY <1>1, <1>2, <1>3 DEF TypeOK

\* One step per step of the dispatcher's main and handler, and of a worker.
LEMMA DispatcherTypeStep ==
    ASSUME TypeOK,
           DispatcherMain \/ KillEveryone \/ \E w \in Slots : WorkerExit(w) \/ Reap(w)
    PROVE  LinkTypeOK' /\ DispatcherTypeOK'
  <1> USE FileSizeAssumption, WorkersAssumption DEF TypeOK
  <1> USE DEF linkVars, tableVars, shareVars, crewVars, killVars
  <1>1. CASE Boot
    BY <1>1 DEF Boot, Received, Answer, DispatcherTypeOK, LinkTypeOK, Outputs, Points, Ends
  <1>2. CASE LoopTop
    BY <1>2 DEF LoopTop, Received, Answer, DispatcherTypeOK, LinkTypeOK, Outputs, Points, Ends
  <1>3. CASE Pause
    BY <1>3 DEF Pause, Received, Answer, DispatcherTypeOK, LinkTypeOK, Outputs, Points, Ends
  <1>4. CASE Overrun
    BY <1>4 DEF Overrun, Received, Answer, DispatcherTypeOK, LinkTypeOK, Outputs, Points, Ends
  <1>5. CASE CommandsDone
    BY <1>5 DEF CommandsDone, Received, Answer, DispatcherTypeOK, LinkTypeOK, Outputs, Points, Ends
  <1>6. CASE ClearFlag
    BY <1>6 DEF ClearFlag, Received, Answer, DispatcherTypeOK, LinkTypeOK, Outputs, Points, Ends
  <1>7. CASE Terminate
    <2>1. cmdPipe' \in Seq(Commands)
      BY <1>7, ReceivedType DEF Terminate
    <2>2. outPipe' \in Seq(Outputs) /\ dpc' \in Points
      BY <1>7, AnswerType DEF Terminate, DispatcherTypeOK, LinkTypeOK, Points
    <2>3. QED
      BY <1>7, <2>1, <2>2 DEF Terminate, Received, DispatcherTypeOK, LinkTypeOK
  <1>8. CASE FindVictim
    BY <1>8 DEF FindVictim, Received, Answer, DispatcherTypeOK, LinkTypeOK, Outputs, Points, Ends
  <1>9. CASE KillVictim
    <2>1. outPipe' \in Seq(Outputs) /\ dpc' \in Points
      BY <1>9 DEF KillVictim, Answer, LinkTypeOK, Outputs, Points
    <2>2. workers[victim].pid \in Slots
      BY <1>9 DEF KillVictim, DispatcherTypeOK, Tasks
    <2>3. proc' \in [Slots -> {"none", "running", "exited", "killed", "reaped"}]
      BY <1>9, <2>2 DEF KillVictim, DispatcherTypeOK
    <2>4. QED
      BY <1>9, <2>1, <2>3 DEF KillVictim, DispatcherTypeOK, LinkTypeOK
  <1>10. CASE MarkVictim
    <2>1. workers' \in [Slots -> Tasks]
      BY <1>10 DEF MarkVictim, DispatcherTypeOK, Tasks
    <2>2. QED
      BY <1>10, <2>1 DEF MarkVictim, DispatcherTypeOK, LinkTypeOK, Points
  <1>11. CASE LoadTerminated
    BY <1>11 DEF LoadTerminated, Received, Answer, DispatcherTypeOK, LinkTypeOK, Outputs, Points, Ends
  <1>12. CASE StoreTerminated
    BY <1>12 DEF StoreTerminated, Received, Answer, DispatcherTypeOK, LinkTypeOK, Outputs, Points, Ends
  <1>13. CASE Drained
    BY <1>13 DEF Drained, Received, Answer, DispatcherTypeOK, LinkTypeOK, Outputs, Points, Ends
  <1>14. CASE SignalEnd
    BY <1>14 DEF SignalEnd, Received, Answer, DispatcherTypeOK, LinkTypeOK, Outputs, Points, Ends
  <1>15. CASE Exit
    <2>1. outPipe' \in Seq(Outputs)
      BY <1>15 DEF Exit, LinkTypeOK, Outputs
    <2>2. QED
      BY <1>15, <2>1 DEF Exit, DispatcherTypeOK, LinkTypeOK, Points, Ends
  <1>16. CASE increase_workers \/ decrease_workers
    <2>1. Value \in Int /\ -Value \in Int
      BY <1>16, HeadIsCommand DEF increase_workers, decrease_workers, Received, Value
    <2>2. \E d \in Int : Resize(d) \/ Refuse
      BY <1>16, <2>1 DEF increase_workers, decrease_workers
    <2>3. /\ segment_size' \in Int /\ total_current_workers' \in Int
          /\ remaining_workers' \in Int
          /\ outPipe' \in Seq(Outputs) /\ dpc' \in Points
      BY <2>2, ResizeType
    <2>4. cmdPipe' \in Seq(Commands)
      BY <1>16, ReceivedType DEF increase_workers, decrease_workers
    <2>5. QED
      BY <1>16, <2>3, <2>4
         DEF increase_workers, decrease_workers, Received, DispatcherTypeOK, LinkTypeOK
  <1>17. CASE Report("progress") \/ Report("info") \/ OtherCommand
    <2>1. cmdPipe' \in Seq(Commands)
      BY <1>17, ReceivedType DEF Report, OtherCommand
    <2>2. outPipe' \in Seq(Outputs)
      BY <1>17, AnswerType DEF Report, OtherCommand
    <2>3. QED
      BY <1>17, <2>1, <2>2 DEF Report, OtherCommand, Received, DispatcherTypeOK, LinkTypeOK
  <1>18. CASE Launch
    <2>1. PICK a \in Slots \cup {-1} :
              /\ workers' = [i \in Slots |->
                    IF i = current_worker
                    THEN [pid |-> current_worker, workerstart |-> start,
                          workerend |-> ShareEnd, active |-> 1]
                    ELSE IF i = a THEN [workers[i] EXCEPT !.active = 0]
                    ELSE workers[i]]
              /\ redo' = [redo EXCEPT ![current_worker] = a]
      BY <1>18 DEF Launch
    <2>2. ShareEnd \in Int /\ current_worker \in Slots
      BY <1>18 DEF ShareEnd, DispatcherTypeOK, Launch, Slots
    <2>3. workers' \in [Slots -> Tasks]
      <3>1. ASSUME NEW i \in Slots PROVE [workers[i] EXCEPT !.active = 0] \in Tasks
        BY DEF DispatcherTypeOK, Tasks
      <3>2. [pid |-> current_worker, workerstart |-> start,
             workerend |-> ShareEnd, active |-> 1] \in Tasks
        BY <2>2 DEF DispatcherTypeOK, Tasks
      <3>3. QED
        BY <2>1, <3>1, <3>2 DEF DispatcherTypeOK
    <2>4. redo' \in [Slots -> Slots \cup {-1}]
      BY <2>1, <2>2 DEF DispatcherTypeOK
    <2>5. proc' \in [Slots -> {"none", "running", "exited", "killed", "reaped"}]
      BY <1>18, <2>2 DEF Launch, DispatcherTypeOK
    <2>6. /\ start' \in Int /\ end' \in Int /\ remaining_workers' \in Int
          /\ current_worker' \in 0 .. MostWorkers /\ dpc' \in Points
      BY <1>18, <2>2 DEF Launch, DispatcherTypeOK, Points
    <2>7. QED
      BY <1>18, <2>3, <2>4, <2>5, <2>6 DEF Launch, DispatcherTypeOK, LinkTypeOK
  <1>19. CASE KillEveryone
    BY <1>19 DEF KillEveryone, DispatcherTypeOK, LinkTypeOK, Points, Ends
  <1>20. ASSUME NEW w \in Slots, WorkerExit(w) \/ ReapKilled(w)
         PROVE  LinkTypeOK' /\ DispatcherTypeOK'
    BY <1>20 DEF WorkerExit, ReapKilled, DispatcherTypeOK, LinkTypeOK
  <1>21. ASSUME NEW w \in Slots, ReapExited(w)
         PROVE  LinkTypeOK' /\ DispatcherTypeOK'
    <2>1. count' \in Tallies
      <3>1. ASSUME NEW p \in Bytes PROVE count[p] + Scanned(w)[p] \in Nat
        BY DEF DispatcherTypeOK, Tallies, Scanned
      <3>2. QED
        BY <1>21, <3>1 DEF ReapExited, DispatcherTypeOK, Tallies
    <2>2. workers' \in [Slots -> Tasks]
      <3>1. [workers EXCEPT ![w].pid = -1, ![w].active = 0] \in [Slots -> Tasks]
        BY DEF DispatcherTypeOK, Tasks
      <3>2. QED
        BY <1>21, <3>1 DEF ReapExited, DispatcherTypeOK
    <2>3. proc' \in [Slots -> {"none", "running", "exited", "killed", "reaped"}]
          /\ terminated_children' \in Nat
      BY <1>21 DEF ReapExited, DispatcherTypeOK
    <2>4. QED
      BY <1>21, <2>1, <2>2, <2>3 DEF ReapExited, DispatcherTypeOK, LinkTypeOK
  <1>22. QED
    BY <1>1, <1>2, <1>3, <1>4, <1>5, <1>6, <1>7, <1>8, <1>9, <1>10, <1>11, <1>12,
       <1>13, <1>14, <1>15, <1>16, <1>17, <1>18, <1>19, <1>20, <1>21
       DEF DispatcherMain, Reap, give_file_percentage_and_count_till_now, get_info

LEMMA TypeStep == TypeOK /\ [Next]_vars => TypeOK'
  <1> SUFFICES ASSUME TypeOK, [Next]_vars PROVE TypeOK'
    OBVIOUS
  <1> USE MaxCommandsAssumption
  <1>0. LinkTypeOK /\ DispatcherTypeOK /\ FrontEndTypeOK
    BY DEF TypeOK
  <1>1. CASE Dispatching
    <2>1. LinkTypeOK' /\ DispatcherTypeOK'
      BY <1>1, DispatcherTypeStep DEF Dispatching, Calamity
    <2>2. FrontEndTypeOK'
      BY <1>0, <1>1 DEF Dispatching, Calamity, frontEndVars, FrontEndTypeOK
    <2>3. QED
      BY <2>1, <2>2 DEF TypeOK
  <1>2. ASSUME NEW w \in Slots, Exiting(w) \/ Reaping(w)
        PROVE  TypeOK'
    <2>1. LinkTypeOK' /\ DispatcherTypeOK'
      BY <1>2, DispatcherTypeStep DEF Exiting, Reaping
    <2>2. FrontEndTypeOK'
      BY <1>0, <1>2 DEF Exiting, Reaping, frontEndVars, FrontEndTypeOK
    <2>3. QED
      BY <2>1, <2>2 DEF TypeOK
  <1>3. CASE User
    <2>1. DispatcherTypeOK'
      BY <1>0, <1>3 DEF User, dispatcherVars, tableVars, shareVars, crewVars, killVars,
                        DispatcherTypeOK
    <2>2. LinkTypeOK'
      <3>1. ASSUME NEW c \in Commands, Type(c, Readers)
            PROVE  cmdPipe' \in Seq(Commands)
        BY <1>0, <3>1 DEF Type, LinkTypeOK
      <3>2. QED
        BY <1>0, <1>3, <3>1 DEF User, Type, Quit, linkVars, LinkTypeOK
    <2>3. FrontEndTypeOK'
      BY <1>0, <1>3 DEF User, Type, Quit, FrontEndTypeOK
    <2>4. QED
      BY <2>1, <2>2, <2>3 DEF TypeOK
  <1>4. CASE NotifyFlag \/ NotifyTooEarly
    <2>1. DispatcherTypeOK'
      BY <1>0, <1>4 DEF NotifyFlag, NotifyTooEarly, dispatcherVars, tableVars, shareVars,
                        crewVars, killVars, DispatcherTypeOK, Points, Ends
    <2>2. LinkTypeOK' /\ FrontEndTypeOK'
      BY <1>0, <1>4 DEF NotifyFlag, NotifyTooEarly, Notify, LinkTypeOK, FrontEndTypeOK
    <2>3. QED
      BY <2>1, <2>2 DEF TypeOK
  <1>5. ASSUME Top(Gone) \/ Awake \/ ReadResponse \/ Leave(Gone) \/ HandleEnd
                 \/ callend(Gone),
               UNCHANGED dispatcherVars
        PROVE  TypeOK'
    <2>1. DispatcherTypeOK'
      BY <1>0, <1>5 DEF dispatcherVars, tableVars, shareVars, crewVars, killVars,
                        DispatcherTypeOK
    <2>2. outPipe' \in Seq(Outputs)
      <3>1. CASE ReadResponse
        <4>1. outPipe' = <<>>
          BY <3>1 DEF ReadResponse
        <4>2. QED
          BY <4>1
      <3>2. CASE callend(Gone)
        BY <1>0, <3>2 DEF callend, LinkTypeOK
      <3>3. CASE UNCHANGED outPipe
        BY <1>0, <3>3 DEF LinkTypeOK
      <3>4. QED
        BY <1>5, <3>1, <3>2, <3>3 DEF Top, Awake, Leave, HandleEnd, linkVars
    <2>3. LinkTypeOK' /\ FrontEndTypeOK'
      BY <1>0, <1>5, <2>2 DEF Top, Awake, ReadResponse, Leave, HandleEnd, callend,
                              linkVars, LinkTypeOK, FrontEndTypeOK
    <2>4. QED
      BY <2>1, <2>3 DEF TypeOK
  <1>6. CASE UNCHANGED vars
    BY <1>0, <1>6 DEF vars, linkVars, dispatcherVars, frontEndVars, tableVars, shareVars,
                      crewVars, killVars, TypeOK, LinkTypeOK, DispatcherTypeOK,
                      FrontEndTypeOK
  <1>7. QED
    BY <1>1, <1>2, <1>3, <1>4, <1>5, <1>6 DEF Next, FrontEndMain

\* Type correctness of the whole program, for any file, crew and commands: in
\* particular the parts of WORKERS and the tally keep their types when a
\* terminate races the SIGCHLD handler (dispatcher.c 173-210, 269-306).
THEOREM TypeCorrect == Spec => []TypeOK
  BY TypeInit, TypeStep, PTL DEF Spec

-----------------------------------------------------------------------------
(* The table of workers.                                                    *)

\* Slot i holds the pid of worker i or none; a mark goes with no pid; slots not
\* launched yet are idle; and the worker that is being marked searches no more.
WorkersInv ==
    /\ \A i \in Slots : workers[i].pid \in {-1, i}
    /\ \A i \in Slots : workers[i].active = -2 => workers[i].pid = -1
    /\ \A i \in Slots : i >= current_worker => proc[i] = "none" /\ workers[i].active = 0
    /\ dpc \in {"kill", "mark"} => victim < current_worker
    /\ dpc = "mark" => proc[victim] # "running"
    /\ NoOrphanWorker

\* What MarkStays says of a step.
MarkKept ==
    \A i \in Slots :
        workers[i].active = -2 /\ workers'[i].active # -2 =>
            \E w \in Slots : /\ proc[w] = "none" /\ proc'[w] = "running"
                             /\ redo'[w] = i

\* Most steps leave the table alone and do not go to mark a victim.
TableAlone ==
    /\ UNCHANGED <<workers, proc, current_worker, victim>>
    /\ dpc' = dpc \/ dpc' \notin {"kill", "mark"}

LEMMA WorkersInit == Init => WorkersInv
  <1> SUFFICES ASSUME Init PROVE WorkersInv
    OBVIOUS
  <1>1. DispatcherInit
    BY DEF Init
  <1>2. QED
    BY <1>1 DEF DispatcherInit, WorkersInv, NoOrphanWorker, Slots

LEMMA TableAloneKeeps ==
    ASSUME WorkersInv, TableAlone
    PROVE  WorkersInv' /\ MarkKept
  BY DEF WorkersInv, TableAlone, NoOrphanWorker, MarkKept

\* main's step that gives a share out writes to a slot nobody has used, and to
\* the one whose share it gives out again.
LEMMA LaunchKeeps ==
    ASSUME TypeOK, WorkersInv, Launch
    PROVE  WorkersInv' /\ MarkKept
  <1> USE WorkersAssumption
  <1>1. PICK a \in Slots \cup {-1} :
            /\ check_remaining_file_search(a)
            /\ workers' = [i \in Slots |->
                  IF i = current_worker
                  THEN [pid |-> current_worker, workerstart |-> start,
                        workerend |-> ShareEnd, active |-> 1]
                  ELSE IF i = a THEN [workers[i] EXCEPT !.active = 0]
                  ELSE workers[i]]
            /\ redo' = [redo EXCEPT ![current_worker] = a]
    BY DEF Launch
  <1>2. /\ current_worker \in Slots /\ current_worker \in Int
        /\ current_worker' = current_worker + 1
        /\ proc' = [proc EXCEPT ![current_worker] = "running"]
        /\ dpc' = "pause"
    BY DEF TypeOK, DispatcherTypeOK, Launch, Slots
  <1>3. /\ workers'[current_worker].pid = current_worker
        /\ workers'[current_worker].active = 1
        /\ proc'[current_worker] = "running" /\ proc[current_worker] = "none"
        /\ redo'[current_worker] = a
    BY <1>1, <1>2 DEF TypeOK, DispatcherTypeOK, WorkersInv
  <1>4. a # -1 => a \in Slots /\ workers[a].active = -2
    BY <1>1, <1>2 DEF check_remaining_file_search, IsFirst, Visited
  <1>5. ASSUME NEW i \in Slots, i # current_worker
        PROVE  /\ proc'[i] = proc[i]
               /\ workers'[i].pid = workers[i].pid
               /\ i # a => workers'[i].active = workers[i].active
               /\ i = a => workers'[i].active = 0
    <2>1. proc'[i] = proc[i]
      BY <1>2, <1>5 DEF TypeOK, DispatcherTypeOK
    <2>2. workers'[i] = IF i = a THEN [workers[i] EXCEPT !.active = 0] ELSE workers[i]
      BY <1>1, <1>5
    <2>3. workers[i] \in Tasks
      BY DEF TypeOK, DispatcherTypeOK
    <2>4. QED
      BY <2>1, <2>2, <2>3 DEF Tasks
  <1>6. a # -1 => proc[a] # "running" /\ a # current_worker
    BY <1>2, <1>4 DEF WorkersInv, NoOrphanWorker
  <1>7. WorkersInv'
    <2>1. \A i \in Slots : workers'[i].pid \in {-1, i}
      BY <1>3, <1>5 DEF WorkersInv
    <2>2. \A i \in Slots : workers'[i].active = -2 => workers'[i].pid = -1
      BY <1>3, <1>5 DEF WorkersInv
    <2>3. ASSUME NEW i \in Slots, i >= current_worker'
          PROVE  proc'[i] = "none" /\ workers'[i].active = 0
      <3>1. i # current_worker /\ i >= current_worker
        BY <1>2, <2>3 DEF Slots
      <3>2. QED
        BY <1>5, <3>1 DEF WorkersInv
    <2>4. ASSUME NEW i \in Slots, proc'[i] = "running"
          PROVE  workers'[i].active = 1 /\ workers'[i].pid = i
      <3>1. CASE i = current_worker
        BY <1>3, <3>1
      <3>2. CASE i # current_worker
        <4>1. proc[i] = "running"
          BY <1>5, <2>4, <3>2
        <4>2. i # a
          BY <1>6, <4>1 DEF Slots
        <4>3. workers[i].active = 1 /\ workers[i].pid = i
          BY <4>1 DEF WorkersInv, NoOrphanWorker
        <4>4. QED
          BY <1>5, <3>2, <4>2, <4>3
      <3>3. QED
        BY <3>1, <3>2
    <2>5. QED
      BY <1>2, <2>1, <2>2, <2>3, <2>4 DEF WorkersInv, NoOrphanWorker
  <1>8. ASSUME NEW i \in Slots, workers[i].active = -2, workers'[i].active # -2
        PROVE  \E w \in Slots : /\ proc[w] = "none" /\ proc'[w] = "running"
                                /\ redo'[w] = i
    <2>1. i # current_worker
      BY <1>2, <1>8 DEF WorkersInv
    <2>2. i = a
      BY <1>5, <1>8, <2>1
    <2>3. QED
      BY <1>2, <1>3, <2>2
  <1>9. QED
    BY <1>7, <1>8 DEF MarkKept

\* The steps of a terminate, and the ends of workers.
LEMMA KillingKeeps ==
    ASSUME TypeOK, WorkersInv, FindVictim \/ KillVictim \/ MarkVictim \/ KillEveryone
    PROVE  WorkersInv' /\ MarkKept
  <1> USE WorkersAssumption DEF tableVars, crewVars, killVars
  <1>0. /\ workers \in [Slots -> Tasks] /\ victim \in Slots
        /\ proc \in [Slots -> {"none", "running", "exited", "killed", "reaped"}]
        /\ current_worker \in Int
    BY DEF TypeOK, DispatcherTypeOK
  <1>1. CASE FindVictim
    <2>1. UNCHANGED <<workers, proc, current_worker>>
      BY <1>1 DEF FindVictim
    <2>2. dpc' = "load" \/ (dpc' = "kill" /\ victim' \in Slots /\ workers[victim'].active = 1)
      BY <1>1 DEF FindVictim, IsFirst
    <2>3. dpc' = "kill" => victim' < current_worker
      <3>1. ASSUME dpc' = "kill" PROVE victim' < current_worker
        <4>1. ~(victim' >= current_worker)
          BY <2>2, <3>1 DEF WorkersInv
        <4>2. QED
          BY <1>0, <2>2, <3>1, <4>1 DEF Slots
      <3>2. QED
        BY <3>1
    <2>4. QED
      BY <2>1, <2>2, <2>3 DEF WorkersInv, NoOrphanWorker, MarkKept
  <1>2. CASE KillVictim
    <2>1. workers[victim].pid = victim /\ victim < current_worker
      BY <1>0, <1>2 DEF KillVictim, WorkersInv
    <2>2. /\ UNCHANGED <<workers, current_worker, victim>> /\ dpc' = "mark"
          /\ proc' = [proc EXCEPT ![victim] = IF @ = "running" THEN "killed" ELSE @]
      BY <1>2, <2>1 DEF KillVictim
    <2>3. ASSUME NEW i \in Slots
          PROVE  /\ proc'[i] = "running" => proc[i] = "running"
                 /\ proc[i] = "none" => proc'[i] = "none"
      BY <1>0, <2>2
    <2>4. proc'[victim] # "running"
      BY <1>0, <2>2
    <2>5. QED
      BY <2>1, <2>2, <2>3, <2>4 DEF WorkersInv, NoOrphanWorker, MarkKept
  <1>3. CASE MarkVictim
    <2>1. /\ UNCHANGED <<proc, current_worker, victim>> /\ dpc' = "load" /\ dpc = "mark"
          /\ workers' = [workers EXCEPT ![victim].pid = -1, ![victim].active = -2]
      BY <1>3 DEF MarkVictim
    <2>2. workers'[victim].pid = -1 /\ workers'[victim].active = -2
      <3>1. workers[victim] \in Tasks
        BY <1>0
      <3>2. QED
        BY <1>0, <2>1, <3>1 DEF Tasks
    <2>3. \A i \in Slots : i # victim => workers'[i] = workers[i]
      BY <1>0, <2>1
    <2>4. proc[victim] # "running" /\ victim < current_worker
      BY <2>1 DEF WorkersInv
    <2>5. \A i \in Slots : i >= current_worker => i # victim
      BY <1>0, <2>4 DEF Slots
    <2>6. QED
      BY <2>1, <2>2, <2>3, <2>4, <2>5 DEF WorkersInv, NoOrphanWorker, MarkKept
  <1>4. CASE KillEveryone
    <2>1. /\ UNCHANGED <<workers, current_worker, victim>> /\ dpc' = "killedAll"
          /\ proc' = [w \in Slots |-> IF proc[w] = "running" THEN "killed" ELSE proc[w]]
      BY <1>4 DEF KillEveryone
    <2>2. QED
      BY <1>0, <2>1 DEF WorkersInv, NoOrphanWorker, MarkKept
  <1>5. QED
    BY <1>1, <1>2, <1>3, <1>4

LEMMA WorkerEndsKeep ==
    ASSUME TypeOK, WorkersInv, NEW w \in Slots, WorkerExit(w) \/ Reap(w)
    PROVE  WorkersInv' /\ MarkKept
  <1> USE DEF tableVars, crewVars, killVars
  <1>0. /\ workers \in [Slots -> Tasks] /\ victim \in Slots
        /\ proc \in [Slots -> {"none", "running", "exited", "killed", "reaped"}]
    BY DEF TypeOK, DispatcherTypeOK
  <1>1. /\ UNCHANGED <<current_worker, victim, dpc>>
        /\ proc[w] # "none"
        /\ proc'[w] \in {"exited", "reaped"}
        /\ \A i \in Slots : i # w => proc'[i] = proc[i]
    BY <1>0 DEF WorkerExit, Reap, ReapExited, ReapKilled
  <1>2. CASE UNCHANGED workers
    BY <1>0, <1>1, <1>2 DEF WorkersInv, NoOrphanWorker, MarkKept
  <1>3. CASE workers[w].pid = w /\ workers' = [workers EXCEPT ![w].pid = -1, ![w].active = 0]
    <2>1. workers'[w].pid = -1 /\ workers'[w].active = 0
      <3>1. workers[w] \in Tasks
        BY <1>0
      <3>2. QED
        BY <1>0, <1>3, <3>1 DEF Tasks
    <2>2. \A i \in Slots : i # w => workers'[i] = workers[i]
      BY <1>0, <1>3
    <2>3. workers[w].active # -2
      BY <1>3 DEF WorkersInv, Slots
    <2>4. WorkersInv'
      BY <1>0, <1>1, <2>1, <2>2 DEF WorkersInv, NoOrphanWorker
    <2>5. MarkKept
      BY <2>2, <2>3 DEF MarkKept
    <2>6. QED
      BY <2>4, <2>5
  <1>4. QED
    BY <1>2, <1>3 DEF WorkerExit, Reap, ReapExited, ReapKilled

LEMMA WorkersStep ==
    ASSUME TypeOK, WorkersInv, [Next]_vars
    PROVE  WorkersInv' /\ MarkKept
  <1> USE DEF tableVars, crewVars, killVars, TableAlone
  <1>1. CASE Dispatching
    <2>1. CASE Boot \/ LoopTop \/ Pause \/ Overrun \/ CommandsDone \/ LoadTerminated
                 \/ StoreTerminated \/ Drained \/ SignalEnd \/ Exit
      <3>1. TableAlone
        BY <2>1 DEF Boot, LoopTop, Pause, Overrun, CommandsDone, LoadTerminated,
                    StoreTerminated, Drained, SignalEnd, Exit
      <3>2. QED
        BY <3>1, TableAloneKeeps
    <2>2. CASE ClearFlag
      <3>1. after \in {"loop", "launch"}
        BY DEF TypeOK, DispatcherTypeOK
      <3>2. TableAlone
        BY <2>2, <3>1 DEF ClearFlag
      <3>3. QED
        BY <3>2, TableAloneKeeps
    <2>3. CASE increase_workers \/ decrease_workers
      <3>1. TableAlone
        BY <2>3 DEF increase_workers, decrease_workers, Resize, Refuse
      <3>2. QED
        BY <3>1, TableAloneKeeps
    <2>4. CASE Report("progress") \/ Report("info") \/ OtherCommand \/ Terminate
      <3>1. TableAlone
        BY <2>4 DEF Report, OtherCommand, Terminate
      <3>2. QED
        BY <3>1, TableAloneKeeps
    <2>5. CASE Launch
      BY <2>5, LaunchKeeps
    <2>6. CASE FindVictim \/ KillVictim \/ MarkVictim \/ KillEveryone
      BY <2>6, KillingKeeps
    <2>7. QED
      BY <1>1, <2>1, <2>2, <2>3, <2>4, <2>5, <2>6
         DEF Dispatching, Calamity, DispatcherMain, get_info,
             give_file_percentage_and_count_till_now
  <1>2. ASSUME NEW w \in Slots, Exiting(w) \/ Reaping(w)
        PROVE  WorkersInv' /\ MarkKept
    BY <1>2, WorkerEndsKeep DEF Exiting, Reaping
  <1>3. CASE User \/ FrontEndMain
    <2>1. TableAlone
      BY <1>3 DEF User, FrontEndMain, NotifyFlag, NotifyTooEarly, dispatcherVars
    <2>2. QED
      BY <2>1, TableAloneKeeps
  <1>4. CASE UNCHANGED vars
    <2>1. TableAlone
      BY <1>4 DEF vars, dispatcherVars
    <2>2. QED
      BY <2>1, TableAloneKeeps
  <1>5. QED
    BY <1>1, <1>2, <1>3, <1>4 DEF Next

\* terminate can find every worker that still searches, and the handler of
\* SIGCHLD can match it, however kills, ends and reaps interleave (dispatcher.c
\* 187-207, 269-306, 379-426).
THEOREM NoWorkerIsOrphaned == Spec => []NoOrphanWorker
  <1>1. WorkersInv => NoOrphanWorker
    BY DEF WorkersInv
  <1>2. QED
    BY <1>1, TypeCorrect, WorkersInit, WorkersStep, PTL DEF Spec

\* The mark of a killed worker's share is taken away only by the launch that is
\* given the share (dispatcher.c 204-206, 386-391).
THEOREM MarksStay == Spec => MarkStays
  <1>1. ASSUME TypeOK, WorkersInv, [Next]_vars
        PROVE  [\A i \in Slots :
                  workers[i].active = -2 /\ workers'[i].active # -2 =>
                      \E w \in Slots : /\ proc[w] = "none" /\ proc'[w] = "running"
                                       /\ redo'[w] = i]_vars
    BY <1>1, WorkersStep DEF MarkKept
  <1>2. QED
    BY <1>1, TypeCorrect, WorkersInit, WorkersStep, PTL DEF Spec, MarkStays

-----------------------------------------------------------------------------
(* The dialogue of front_end and dispatcher.                                *)

InCommand == {"cmd", "find", "kill", "mark", "load", "store"}

\* The dispatcher is in no command and will not begin one unless notified.
Quiet == dpc \notin InCommand /\ (command_available => dpc = "clear")

NoText == \A i \in 1 .. Len(outPipe) : outPipe[i] # "text"

\* While the user has the word the dispatcher is quiet and has nothing left
\* over; so it is, once it has answered, until front_end has read the answer.
DialogueInv ==
    /\ Len(cmdPipe) <= 1
    /\ fpc \in {"top", "prompt", "exiting", "reading"} => cmdPipe = <<>>
    /\ fpc \in {"top", "prompt", "exiting", "reading", "written"} => ~responseReady /\ Quiet
    /\ fpc = "await" /\ responseReady => cmdPipe = <<>> /\ Quiet
    /\ fpc \in {"top", "prompt", "exiting"} => NoText

LEMMA DialogueInit == Init => DialogueInv
  BY DEF Init, LinkInit, DispatcherInit, FrontEndInit, DialogueInv, Quiet, NoText, InCommand

\* A step of the dispatcher that neither begins nor ends a command and writes no
\* answer.
Outside ==
    /\ UNCHANGED <<cmdPipe, responseReady, fpc>>
    /\ command_available' => command_available
    /\ Quiet => Quiet'
    /\ NoText => NoText'

LEMMA OutsideKeeps ==
    ASSUME DialogueInv, Outside
    PROVE  DialogueInv'
  BY DEF DialogueInv, Outside

\* A step of the dispatcher in a command: front_end waits, or has gone.
LEMMA InsideKeeps ==
    ASSUME DialogueInv, dpc \in InCommand, fpc' \in {fpc, "killed", "done"},
           cmdPipe' = cmdPipe \/ cmdPipe' = <<>>,
           responseReady' = responseReady \/ (cmdPipe' = <<>> /\ Quiet')
    PROVE  DialogueInv'
  <1>1. fpc \notin {"top", "prompt", "exiting", "reading", "written"}
    BY DEF DialogueInv, Quiet
  <1>2. fpc = "await" => ~responseReady
    BY DEF DialogueInv, Quiet
  <1>3. Len(cmdPipe') <= 1
    BY DEF DialogueInv
  <1>4. QED
    BY <1>1, <1>2, <1>3 DEF DialogueInv

LEMMA CountIsNoText ==
    ASSUME LinkTypeOK, NEW out \in {"count", "log"}, outPipe' = Append(outPipe, out), NoText
    PROVE  NoText'
  BY DEF LinkTypeOK, NoText, Outputs

LEMMA DispatchingKeeps ==
    ASSUME TypeOK, DialogueInv, Dispatching
    PROVE  DialogueInv'
  <1> USE DEF linkVars, frontEndVars
  <1>0. LinkTypeOK /\ after \in {"loop", "launch"}
    BY DEF TypeOK, DispatcherTypeOK
  <1>1. CASE dpc \in InCommand
    <2>1. fpc' \in {fpc, "killed", "done"}
      BY DEF Dispatching, Calamity
    <2>2. /\ cmdPipe' = cmdPipe \/ cmdPipe' = <<>>
          /\ responseReady' = responseReady \/ (cmdPipe' = <<>> /\ Quiet')
      BY <1>1 DEF Dispatching, DispatcherMain, Calamity, KillEveryone, Boot, LoopTop, Pause,
                  Launch, Overrun, increase_workers, decrease_workers, Report,
                  give_file_percentage_and_count_till_now, get_info, OtherCommand,
                  CommandsDone, ClearFlag, Terminate, FindVictim, KillVictim, MarkVictim,
                  LoadTerminated, StoreTerminated, Drained, SignalEnd, Exit, Received,
                  InCommand, Quiet
    <2>3. QED
      BY <1>1, <2>1, <2>2, InsideKeeps
  <1>2. CASE dpc \notin InCommand
    <2>0. \/ Boot \/ LoopTop \/ Pause \/ Launch \/ Overrun \/ ClearFlag \/ Drained
          \/ SignalEnd \/ Exit
      BY <1>2 DEF Dispatching, DispatcherMain, Calamity, KillEveryone, increase_workers,
                  decrease_workers, Report, give_file_percentage_and_count_till_now,
                  get_info, OtherCommand, CommandsDone, Terminate, FindVictim, KillVictim,
                  MarkVictim, LoadTerminated, StoreTerminated, Received, InCommand
    <2>1. UNCHANGED fpc
      BY <2>0 DEF Dispatching, Calamity, KillEveryone, Boot, LoopTop, Pause, Launch, Overrun,
                  ClearFlag, Drained, SignalEnd, Exit
    <2>2. CASE Boot \/ LoopTop \/ Pause \/ Launch \/ Overrun \/ SignalEnd
      <3>1. UNCHANGED <<cmdPipe, outPipe, command_available, responseReady>>
        BY <2>2 DEF Boot, LoopTop, Pause, Launch, Overrun, SignalEnd
      <3>2. Quiet => Quiet'
        BY <2>2, <3>1 DEF Boot, LoopTop, Pause, Launch, Overrun, SignalEnd, Quiet, InCommand
      <3>3. QED
        BY <2>1, <3>1, <3>2, OutsideKeeps DEF Outside, NoText
    <2>3. CASE ClearFlag
      <3>1. UNCHANGED <<cmdPipe, outPipe, responseReady>> /\ command_available' = FALSE
            /\ dpc' \in {"loop", "launch"}
        BY <1>0, <2>3 DEF ClearFlag
      <3>2. QED
        BY <2>1, <3>1, OutsideKeeps DEF Outside, NoText, Quiet, InCommand
    <2>4. CASE Drained \/ Exit
      <3>1. UNCHANGED <<cmdPipe, command_available, responseReady>>
        BY <2>4 DEF Drained, Exit
      <3>2. Quiet => Quiet'
        BY <2>4, <3>1 DEF Drained, Exit, Quiet, InCommand
      <3>3. \/ UNCHANGED outPipe
            \/ \E out \in {"count", "log"} : outPipe' = Append(outPipe, out)
        BY <2>4 DEF Drained, Exit
      <3>4. NoText => NoText'
        <4>1. CASE UNCHANGED outPipe
          BY <4>1 DEF NoText
        <4>2. QED
          BY <1>0, <3>3, <4>1, CountIsNoText
      <3>5. QED
        BY <2>1, <3>1, <3>2, <3>4, OutsideKeeps DEF Outside
    <2>5. QED
      BY <2>0, <2>2, <2>3, <2>4
  <1>3. QED
    BY <1>1, <1>2

LEMMA FrontEndKeeps ==
    ASSUME TypeOK, DialogueInv, User \/ FrontEndMain
    PROVE  DialogueInv'
  <1> USE DEF linkVars, dispatcherVars
  <1>0. LinkTypeOK
    BY DEF TypeOK
  <1>1. ASSUME NEW c \in Commands, Type(c, Readers), UNCHANGED dispatcherVars
        PROVE  DialogueInv'
    <2>1. fpc = "prompt" /\ cmdPipe = <<>>
      BY <1>1 DEF Type, At, DialogueInv
    <2>2. UNCHANGED <<command_available, responseReady, dpc>>
      BY <1>1 DEF Type
    <2>3. ~responseReady' /\ Quiet'
      BY <2>1, <2>2 DEF DialogueInv, Quiet
    <2>4. fpc' \in {"written", "killed"} /\ cmdPipe' \in {<<>>, Append(<<>>, c)}
      BY <1>1, <2>1 DEF Type
    <2>5. Len(cmdPipe') <= 1
      <3>1. <<>> \in Seq(Commands) /\ Len(<<>>) = 0
        OBVIOUS
      <3>2. Len(Append(<<>>, c)) = 1
        BY <3>1
      <3>3. CASE cmdPipe' = <<>>
        BY <3>1, <3>3
      <3>4. CASE cmdPipe' = Append(<<>>, c)
        BY <3>2, <3>4
      <3>5. QED
        BY <2>4, <3>3, <3>4
    <2>6. QED
      BY <2>3, <2>4, <2>5 DEF DialogueInv
  <1>2. ASSUME Quit \/ Top(Gone) \/ Leave(Gone) \/ HandleEnd, UNCHANGED dispatcherVars
        PROVE  DialogueInv'
    <2>1. UNCHANGED <<cmdPipe, outPipe, command_available, responseReady, dpc>>
      BY <1>2 DEF Quit, Top, Leave, HandleEnd
    <2>2. \/ fpc \in {"top", "prompt"} /\ fpc' \in {"prompt", "exiting"}
          \/ fpc' \in {"done", "callend"}
      BY <1>2 DEF Quit, Top, Leave, HandleEnd, At
    <2>3. QED
      BY <2>1, <2>2 DEF DialogueInv, Quiet, NoText
  <1>3. CASE NotifyFlag \/ NotifyTooEarly
    <2>1. /\ fpc = "written" /\ fpc' = "await"
          /\ UNCHANGED <<cmdPipe, responseReady>>
      BY <1>3 DEF NotifyFlag, NotifyTooEarly, Notify
    <2>2. QED
      BY <2>1 DEF DialogueInv
  <1>4. CASE Awake /\ UNCHANGED dispatcherVars
    <2>1. /\ fpc = "await" /\ responseReady /\ fpc' = "reading" /\ responseReady' = FALSE
          /\ UNCHANGED <<cmdPipe, command_available, dpc>>
      BY <1>4 DEF Awake, At
    <2>2. QED
      BY <2>1 DEF DialogueInv, Quiet
  <1>5. CASE ReadResponse /\ UNCHANGED dispatcherVars
    <2>1. /\ fpc = "reading" /\ fpc' = "top" /\ outPipe' = <<>>
          /\ UNCHANGED <<cmdPipe, command_available, responseReady, dpc>>
      BY <1>5 DEF ReadResponse
    <2>2. NoText'
      BY <2>1 DEF NoText
    <2>3. QED
      BY <2>1, <2>2 DEF DialogueInv, Quiet
  <1>6. CASE callend(Gone) /\ UNCHANGED dispatcherVars
    <2>1. fpc' = "done" /\ UNCHANGED cmdPipe
      BY <1>6 DEF callend
    <2>2. QED
      BY <2>1 DEF DialogueInv
  <1>7. QED
    BY <1>1, <1>2, <1>3, <1>4, <1>5, <1>6 DEF User, FrontEndMain

LEMMA DialogueStep ==
    ASSUME TypeOK, DialogueInv, [Next]_vars
    PROVE  DialogueInv'
  <1>1. CASE Dispatching
    BY <1>1, DispatchingKeeps
  <1>2. CASE User \/ FrontEndMain
    BY <1>2, FrontEndKeeps
  <1>3. CASE UNCHANGED vars \/ \E w \in Slots : Exiting(w) \/ Reaping(w)
    <2>1. UNCHANGED <<cmdPipe, outPipe, command_available, responseReady, dpc, fpc>>
      BY <1>3 DEF vars, linkVars, dispatcherVars, frontEndVars, Exiting, Reaping,
                  WorkerExit, Reap, ReapExited, ReapKilled
    <2>2. QED
      BY <2>1 DEF DialogueInv, Quiet, NoText
  <1>4. QED
    BY <1>1, <1>2, <1>3 DEF Next

\* Although notices are lost and the dispatcher may look for commands when there
\* is none, the pipe holds one command at most, and no answer is left in the
\* other pipe when the user has the word: the four bytes that callend takes for
\* the total are never those of an answer main has passed over (front_end.c
\* 22-33, 122-138).
THEOREM DialogueStaysInTurn == Spec => []DialogueInTurn
  <1>1. ASSUME TypeOK, DialogueInv PROVE DialogueInTurn
    BY <1>1 DEF DialogueInv, NoText, DialogueInTurn, TypeOK, FrontEndTypeOK
  <1>2. QED
    BY <1>1, TypeCorrect, DialogueInit, DialogueStep, PTL DEF Spec
=============================================================================
