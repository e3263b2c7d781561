---------------------------- MODULE Dispatcher ----------------------------
(* The dispatcher process (dispatcher.c) and its worker processes.  main is *)
(* cut into steps where a SIGCHLD or SIGUSR1 handler can run between two of *)
(* its accesses to the same state; worker w is the process whose slot in    *)
(* WORKERS is w.  The int `count` is kept as a tally, offset |-> times its  *)
(* byte was counted, which stands for a file of any contents.               *)
EXTENDS FileShares, Link

CONSTANTS
    MostWorkers,    \* most_workers, 20 in the code
    InitialWorkers  \* total_current_workers at the start, 10 in the code

ASSUME WorkersAssumption ==
    /\ MostWorkers \in Nat
    /\ InitialWorkers \in Nat \ {0}
    /\ InitialWorkers < MostWorkers

VARIABLES
    workers,  \* WORKERS: slot |-> [pid, workerstart, workerend, active]
    redo,     \* worker |-> slot whose share it was given as a second one, or -1
    proc,     \* worker |-> its process, "none" before fork
    start, end, segment_size,
    current_worker, remaining_workers, total_current_workers,
    terminated_children,
    count,
    reported, \* <<>>, then <<t>> once the tally t is written to front_end
    dpc,      \* where main is
    after,    \* where main goes when getcommand returns
    victim,   \* the i of terminate_first_active_worker
    loaded    \* terminated_children as loaded by its ++ in main

shareVars == <<start, end, segment_size>>
crewVars == <<current_worker, remaining_workers, total_current_workers>>
tableVars == <<workers, redo, proc>>
killVars == <<victim, loaded>>
dispatcherVars ==
    <<tableVars, shareVars, crewVars, terminated_children, count, reported,
      dpc, after, killVars>>

Slots == 0 .. MostWorkers - 1
Tallies == [Bytes -> Nat]

\* active: 1 searching, 0 idle or finished, -2 killed and to be searched again.
Tasks == [pid : Slots \cup {-1}, workerstart : Int, workerend : Int,
          active : {-2, 0, 1}]

\* main has ended: normally, or by a signal, a division by zero, a write past
\* the end of WORKERS, or with every process of the user.
Ends == {"done", "dead", "crashed", "overrun", "killedAll"}
Points == {"boot", "loop", "launch", "pause", "cmd", "clear", "find", "kill",
           "mark", "load", "store", "drain", "signal", "exit"} \cup Ends

DispatcherTypeOK ==
    /\ workers \in [Slots -> Tasks]
    /\ redo \in [Slots -> Slots \cup {-1}]
    /\ proc \in [Slots -> {"none", "running", "exited", "killed", "reaped"}]
    /\ start \in Int /\ end \in Int /\ segment_size \in Int
    /\ current_worker \in 0 .. MostWorkers
    /\ remaining_workers \in Int
    /\ total_current_workers \in Int
    /\ terminated_children \in Nat
    /\ count \in Tallies
    /\ reported \in Seq(Tallies)
    /\ dpc \in Points
    /\ after \in {"loop", "launch"}
    /\ victim \in Slots
    /\ loaded \in Nat

DispatcherInit ==
    /\ workers = [i \in Slots |-> [pid |-> -1, workerstart |-> -1,
                                   workerend |-> -1, active |-> 0]]
    /\ redo = [i \in Slots |-> -1]
    /\ proc = [i \in Slots |-> "none"]
    /\ start = 0
    /\ segment_size = FileSize \div InitialWorkers
    /\ end = segment_size
    /\ current_worker = 0
    /\ remaining_workers = InitialWorkers
    /\ total_current_workers = InitialWorkers
    /\ terminated_children = 0
    /\ count = [p \in Bytes |-> 0]
    /\ reported = <<>>
    /\ dpc = "boot"
    /\ after = "loop"
    /\ victim = 0
    /\ loaded = 0

Gone == dpc \in Ends

-----------------------------------------------------------------------------
\* The slots the loops "for (i = 0; i <= current_worker; i++)" visit (what they
\* find past the end of WORKERS is left out), and the first of some slots, -1
\* standing for none.
Visited == {i \in Slots : i <= current_worker}
IsFirst(i, S) == IF S = {} THEN i = -1 ELSE i \in S /\ \A j \in S : i <= j

\* Mutant: the search is for slots still searched, not for those left over.
check_remaining_file_search_Active(a) ==
    IsFirst(a, {j \in Visited : workers[j].active = 1})

\* a is what check_remaining_file_search returns.
check_remaining_file_search(a) ==
    IsFirst(a, {j \in Visited : workers[j].active = -2})

\* signal(SIGUSR1) is installed, the table and the first share are set up.
Boot ==
    /\ dpc = "boot"
    /\ dpc' = "loop"
    /\ UNCHANGED <<linkVars, tableVars, shareVars, crewVars,
                   terminated_children, count, reported, after, killVars>>

\* The head of the while loop and the check for a command after it.
LoopTop ==
    /\ dpc = "loop"
    /\ dpc' = IF start >= FileSize THEN "drain"
              ELSE IF command_available THEN "cmd" ELSE "launch"
    /\ after' = "launch"
    /\ UNCHANGED <<linkVars, tableVars, shareVars, crewVars,
                   terminated_children, count, reported, killVars>>

\* The check for a command between the two sleeps of the loop.
Pause ==
    /\ dpc = "pause"
    /\ dpc' = IF command_available THEN "cmd" ELSE "loop"
    /\ after' = "loop"
    /\ UNCHANGED <<linkVars, tableVars, shareVars, crewVars,
                   terminated_children, count, reported, killVars>>

\* Mutant: the last worker of the crew is not given the remainder.
ShareEnd_NoRemainder == IF end > FileSize THEN FileSize ELSE end

\* Where the next share ends: the last worker of the crew takes all the rest.
ShareEnd ==
    IF end > FileSize \/ current_worker = total_current_workers - 1
    THEN FileSize
    ELSE end

\* Mutant: the next share starts at the end planned for this one.
Launch_PlannedEnd ==
    /\ dpc = "launch"
    /\ current_worker < MostWorkers
    /\ LET w == current_worker IN
       /\ workers' = [workers EXCEPT ![w] = [pid |-> w, workerstart |-> start,
                                            workerend |-> ShareEnd, active |-> 1]]
       /\ proc' = [proc EXCEPT ![w] = "running"]
    /\ start' = end
    /\ end' = end + segment_size
    /\ remaining_workers' = remaining_workers - 1
    /\ current_worker' = current_worker + 1
    /\ dpc' = "pause"
    /\ UNCHANGED <<linkVars, redo, segment_size, total_current_workers,
                   terminated_children, count, reported, after, killVars>>

\* A worker is started on the next share; the first share a killed worker has
\* left is handed to it as well.
Launch ==
    /\ dpc = "launch"
    /\ current_worker < MostWorkers
    /\ \E a \in Slots \cup {-1} :
           LET w == current_worker IN
           /\ check_remaining_file_search(a)
           /\ workers' = [i \in Slots |->
                 IF i = w THEN [pid |-> w, workerstart |-> start,
                                workerend |-> ShareEnd, active |-> 1]
                 ELSE IF i = a THEN [workers[i] EXCEPT !.active = 0]
                 ELSE workers[i]]
           /\ redo' = [redo EXCEPT ![w] = a]
           /\ proc' = [proc EXCEPT ![w] = "running"]
    /\ start' = ShareEnd
    /\ end' = ShareEnd + segment_size
    /\ remaining_workers' = remaining_workers - 1
    /\ current_worker' = current_worker + 1
    /\ dpc' = "pause"
    /\ UNCHANGED <<linkVars, segment_size, total_current_workers,
                   terminated_children, count, reported, after, killVars>>

\* Nothing in the loop keeps current_worker below most_workers: pipefdread and
\* WORKERS are written past their ends.  What follows is undefined.
Overrun ==
    /\ dpc = "launch"
    /\ current_worker >= MostWorkers
    /\ dpc' = "overrun"
    /\ UNCHANGED <<linkVars, tableVars, shareVars, crewVars,
                   terminated_children, count, reported, after, killVars>>

-----------------------------------------------------------------------------
\* getcommand: one read takes all there is in the pipe, and only its first
\* command is looked at.
Received(verb) ==
    /\ dpc = "cmd"
    /\ cmdPipe # <<>>
    /\ Head(cmdPipe).verb = verb
    /\ cmdPipe' = <<>>
    /\ UNCHANGED <<command_available, responseReady, ended, reported>>

Value == Head(cmdPipe).value

Answer == outPipe' = Append(outPipe, "text")

\* The crew becomes larger or smaller by d; what lies beyond the next share is
\* divided anew.  Dividing by zero ends the process before it answers.
Resize(d) ==
    /\ total_current_workers' = total_current_workers + d
    /\ remaining_workers' = remaining_workers + d
    /\ IF remaining_workers + d = 0
       THEN /\ dpc' = "crashed"
            /\ UNCHANGED <<segment_size, outPipe>>
       ELSE /\ segment_size' = CDiv(FileSize - end, remaining_workers + d)
            /\ Answer
            /\ UNCHANGED dpc

Refuse ==
    /\ Answer
    /\ UNCHANGED <<segment_size, total_current_workers, remaining_workers, dpc>>

increase_workers ==
    /\ Received("increase")
    /\ IF total_current_workers + Value < MostWorkers
       THEN Resize(Value)
       ELSE Refuse
    /\ UNCHANGED <<tableVars, start, end, current_worker,
                   terminated_children, count, after, killVars>>

decrease_workers ==
    /\ Received("decrease")
    /\ IF remaining_workers - Value >= 1
       THEN Resize(-Value)
       ELSE Refuse
    /\ UNCHANGED <<tableVars, start, end, current_worker,
                   terminated_children, count, after, killVars>>

\* Mutant: the loop leaves the last worker launched out.
Examined_NotLast ==
    LET idle == {i \in Slots : i < current_worker - 1 /\ workers[i].active = 0}
        ends == {0} \cup {workers[i].workerend : i \in idle}
    IN  CHOOSE e \in ends : \A f \in ends : f <= e

\* The part of the file that progress says was examined: the largest end of a
\* slot that is not active.
Examined ==
    LET idle == {i \in Visited : workers[i].active = 0}
        ends == {0} \cup {workers[i].workerend : i \in idle}
    IN  CHOOSE e \in ends : \A f \in ends : f <= e

\* progress and info only answer; what progress says is Examined and count.
Report(verb) ==
    /\ Received(verb)
    /\ Answer
    /\ UNCHANGED <<tableVars, shareVars, crewVars, terminated_children, count,
                   dpc, after, killVars>>
give_file_percentage_and_count_till_now == Report("progress")
get_info == Report("info")

\* A first word that is no command is dropped without an answer.
OtherCommand ==
    /\ Received("other")
    /\ UNCHANGED <<outPipe, tableVars, shareVars, crewVars,
                   terminated_children, count, dpc, after, killVars>>

\* Nothing is left in the pipe: SIGUSR2 goes to front_end.
CommandsDone ==
    /\ dpc = "cmd"
    /\ cmdPipe = <<>>
    /\ responseReady' = TRUE
    /\ dpc' = "clear"
    /\ UNCHANGED <<cmdPipe, outPipe, command_available, ended, tableVars,
                   shareVars, crewVars, terminated_children, count, reported,
                   after, killVars>>

\* command_available = 0, after getcommand has returned.
ClearFlag ==
    /\ dpc = "clear"
    /\ command_available' = FALSE
    /\ dpc' = after
    /\ UNCHANGED <<cmdPipe, outPipe, responseReady, ended, tableVars,
                   shareVars, crewVars, terminated_children, count, reported,
                   after, killVars>>

-----------------------------------------------------------------------------
\* terminate_first_active_worker, in the steps between which a SIGCHLD can be
\* handled.
Terminate ==
    /\ Received("terminate")
    /\ IF remaining_workers < 1
       THEN Answer /\ UNCHANGED dpc
       ELSE dpc' = "find" /\ UNCHANGED outPipe
    /\ UNCHANGED <<tableVars, shareVars, crewVars, terminated_children, count,
                   after, killVars>>

\* The loop looks for a slot with active = 1; the counters after it change
\* whether there is one or not.
FindVictim ==
    /\ dpc = "find"
    /\ \E i \in Slots \cup {-1} :
           /\ IsFirst(i, {j \in Visited : workers[j].active = 1})
           /\ IF i = -1
              THEN dpc' = "load" /\ UNCHANGED victim
              ELSE dpc' = "kill" /\ victim' = i
    /\ UNCHANGED <<linkVars, tableVars, shareVars, crewVars,
                   terminated_children, count, reported, after, loaded>>

\* kill(WORKERS[i].pid, SIGKILL): a worker that has exited and waits to be
\* reaped is not touched by it.
KillVictim ==
    /\ dpc = "kill"
    /\ workers[victim].pid # -1
    /\ proc' = [proc EXCEPT ![workers[victim].pid] =
                  IF @ = "running" THEN "killed" ELSE @]
    /\ Answer
    /\ dpc' = "mark"
    /\ UNCHANGED <<cmdPipe, command_available, responseReady, ended, workers,
                   redo, shareVars, crewVars, terminated_children, count,
                   reported, after, killVars>>

\* The SIGCHLD handler has set the pid to -1 since it was looked at: kill(-1)
\* kills every process of the user but the caller, and the write that follows
\* finds no reader.
KillEveryone ==
    /\ dpc = "kill"
    /\ workers[victim].pid = -1
    /\ proc' = [w \in Slots |-> IF proc[w] = "running" THEN "killed" ELSE proc[w]]
    /\ dpc' = "killedAll"
    /\ UNCHANGED <<linkVars, workers, redo, shareVars, crewVars,
                   terminated_children, count, reported, after, killVars>>

MarkVictim ==
    /\ dpc = "mark"
    /\ workers' = [workers EXCEPT ![victim].pid = -1, ![victim].active = -2]
    /\ dpc' = "load"
    /\ UNCHANGED <<linkVars, redo, proc, shareVars, crewVars,
                   terminated_children, count, reported, after, killVars>>

\* total_current_workers-- and the load of terminated_children++.
LoadTerminated ==
    /\ dpc = "load"
    /\ total_current_workers' = total_current_workers - 1
    /\ loaded' = terminated_children
    /\ dpc' = "store"
    /\ UNCHANGED <<linkVars, tableVars, shareVars, current_worker,
                   remaining_workers, terminated_children, count, reported,
                   after, victim>>

\* Mutant: terminated_children-- for terminated_children++.
StoreTerminated_Decrements ==
    /\ dpc = "store"
    /\ terminated_children' = loaded - 1
    /\ dpc' = "cmd"
    /\ UNCHANGED <<linkVars, tableVars, shareVars, crewVars, count, reported,
                   after, killVars>>

\* The store of terminated_children++, over what a handler did in between.
StoreTerminated ==
    /\ dpc = "store"
    /\ terminated_children' = loaded + 1
    /\ dpc' = "cmd"
    /\ UNCHANGED <<linkVars, tableVars, shareVars, crewVars, count, reported,
                   after, killVars>>

-----------------------------------------------------------------------------
\* Mutant: the drain loop ends one worker early.
Drained_Early ==
    /\ dpc = "drain"
    /\ terminated_children >= total_current_workers - 1
    /\ outPipe' = Append(outPipe, "count")
    /\ reported' = <<count>>
    /\ dpc' = "signal"
    /\ UNCHANGED <<cmdPipe, command_available, responseReady, ended, tableVars,
                   shareVars, crewVars, terminated_children, count, after,
                   killVars>>

\* All workers of the crew are accounted for: the count is written.
Drained ==
    /\ dpc = "drain"
    /\ terminated_children >= total_current_workers
    /\ outPipe' = Append(outPipe, "count")
    /\ reported' = <<count>>
    /\ dpc' = "signal"
    /\ UNCHANGED <<cmdPipe, command_available, responseReady, ended, tableVars,
                   shareVars, crewVars, terminated_children, count, after,
                   killVars>>

\* Mutant: front_end is not told of the end.
SignalEnd_Missing ==
    /\ dpc = "signal"
    /\ dpc' = "exit"
    /\ UNCHANGED <<linkVars, tableVars, shareVars, crewVars,
                   terminated_children, count, reported, after, killVars>>

\* SIGUSR1 goes to front_end.
SignalEnd ==
    /\ dpc = "signal"
    /\ ended' = TRUE
    /\ dpc' = "exit"
    /\ UNCHANGED <<cmdPipe, outPipe, command_available, responseReady,
                   tableVars, shareVars, crewVars, terminated_children, count,
                   reported, after, killVars>>

\* main returns; what the SIGCHLD handler printed for each number it added is
\* flushed to the pipe only now.
Exit ==
    /\ dpc = "exit"
    /\ outPipe' = IF \E p \in Bytes : count[p] > 0 THEN Append(outPipe, "log")
                  ELSE outPipe
    /\ dpc' = "done"
    /\ UNCHANGED <<cmdPipe, command_available, responseReady, ended, tableVars,
                   shareVars, crewVars, terminated_children, count, reported,
                   after, killVars>>

-----------------------------------------------------------------------------
\* A worker has scanned its shares, written its number and exits.
WorkerExit(w) ==
    /\ proc[w] = "running"
    /\ proc' = [proc EXCEPT ![w] = "exited"]
    /\ UNCHANGED <<linkVars, workers, redo, shareVars, crewVars,
                   terminated_children, count, reported, dpc, after, killVars>>

\* What worker w read, each offset as often as it was read.
Scanned(w) ==
    LET scan(i) == ScanShare(workers[i].workerstart, workers[i].workerend)
    IN  [p \in Bytes |-> (IF p \in scan(w) THEN 1 ELSE 0)
             + (IF redo[w] # -1 /\ p \in scan(redo[w]) THEN 1 ELSE 0)]

\* Mutant: the slot is taken by the worker's number, its pid is not compared.
ReapExited_NoPidCheck(w) ==
    /\ ~Gone
    /\ proc[w] = "exited"
    /\ proc' = [proc EXCEPT ![w] = "reaped"]
    /\ count' = [p \in Bytes |-> count[p] + Scanned(w)[p]]
    /\ workers' = [workers EXCEPT ![w].pid = -1, ![w].active = 0]
    /\ terminated_children' = terminated_children + 1
    /\ UNCHANGED <<linkVars, redo, shareVars, crewVars, reported, dpc, after,
                   killVars>>

\* handle_sigchild for a worker that exited: its number is added if its pid is
\* still in the table.
ReapExited(w) ==
    /\ ~Gone
    /\ proc[w] = "exited"
    /\ proc' = [proc EXCEPT ![w] = "reaped"]
    /\ IF workers[w].pid = w
       THEN /\ count' = [p \in Bytes |-> count[p] + Scanned(w)[p]]
            /\ workers' = [workers EXCEPT ![w].pid = -1, ![w].active = 0]
            /\ terminated_children' = terminated_children + 1
       ELSE UNCHANGED <<count, workers, terminated_children>>
    /\ UNCHANGED <<linkVars, redo, shareVars, crewVars, reported, dpc, after,
                   killVars>>

\* handle_sigchild for a worker that was killed: nothing but the waitpid.
ReapKilled(w) ==
    /\ ~Gone
    /\ proc[w] = "killed"
    /\ proc' = [proc EXCEPT ![w] = "reaped"]
    /\ UNCHANGED <<linkVars, workers, redo, shareVars, crewVars,
                   terminated_children, count, reported, dpc, after, killVars>>

Reap(w) == ReapExited(w) \/ ReapKilled(w)

\* main's steps that do not involve front_end's process.
DispatcherMain ==
    \/ Boot \/ LoopTop \/ Pause \/ Launch \/ Overrun
    \/ increase_workers \/ decrease_workers
    \/ give_file_percentage_and_count_till_now \/ get_info \/ OtherCommand
    \/ CommandsDone \/ ClearFlag
    \/ Terminate \/ FindVictim \/ KillVictim \/ MarkVictim
    \/ LoadTerminated \/ StoreTerminated
    \/ Drained \/ SignalEnd \/ Exit
=============================================================================
