------------------------- MODULE SignalDispatcher -------------------------
(* first_ex_ex_4.c, the dispatcher that is driven by the keyboard: Ctrl+C   *)
(* hires, Ctrl+Z fires and Ctrl+\ kills a worker.  The signals go to every  *)
(* process of the terminal, and the workers inherit the dispatcher's        *)
(* handlers together with copies of the variables they change.  Every byte  *)
(* of the file is a match, and no sum leaves the range of an int.           *)
EXTENDS FileShares, Sequences, FiniteSets, FiniteSetsExt

CONSTANTS
    most_workers,    \* slots of WORKERS and pipefd2, 10 in the code
    InitialWorkers,  \* total_current_workers at first, 5 in the code
    Amounts,         \* the numbers the user may type, any that scanf takes
    MaxKeys          \* bound: keys pressed

ASSUME SignalAssumption ==
    /\ InitialWorkers \in Nat \ {0}
    /\ most_workers \in Nat /\ most_workers >= InitialWorkers
    /\ Amounts \subseteq Int
    /\ MaxKeys \in Nat

Dispatcher == 0

\* The w-th worker launched has slot w - 1 of WORKERS; no slot is used twice.
Workers == 1 .. most_workers

Processes == {Dispatcher} \cup Workers

\* What count holds once an uninitialised counter was added to it.
Garbage == -1

VARIABLES
    dpc,                    \* where the dispatcher's main is
    start, end,             \* the share to be launched next, or just launched
    segment_size,
    loaded,                 \* what main has computed and not stored yet
    strays,                 \* ways in which a resize has gone astray
    current_worker,
    slots,                  \* worker |-> its entry in WORKERS
    saved,                  \* the shares in save_start and save_end, oldest first
    terminated_children,
    count,
    total_current_workers,  \* process |-> its own copy
    remaining_workers,      \* process |-> its own copy
    shares,                 \* worker |-> start and end in its copy
    redo,                   \* workers forked with check_remaining # -1
    mates,                  \* worker |-> active slots in its copy of WORKERS
    workers,                \* worker |-> its state
    numbers,                \* workers whose number is in their pipe
    heard,                  \* workers whose pipe the dispatcher read and closed
    key, keys,              \* the last key, and how many were pressed
    facing,                 \* workers in the handler of that key
    frames,                 \* the dispatcher's active handlers, innermost first
    reading,                \* the worker handle_sigchild is reading from
    victim,                 \* the worker handle_kill_active_worker has killed
    front_end,              \* what has become of front_end
    front_end_count         \* <<>>, then <<n>> once n is printed

shareVars == <<start, end, segment_size>>
crewVars == <<total_current_workers, remaining_workers>>
tallyVars == <<terminated_children, count, heard>>
forkVars == <<shares, redo>>
keyVars == <<key, keys>>
frameVars == <<frames, reading, victim>>
endVars == <<front_end, front_end_count>>
vars == <<dpc, shareVars, loaded, strays, current_worker, slots, saved, tallyVars, crewVars,
          forkVars, mates, workers, numbers, keyVars, facing, frameVars, endVars>>

TypeOK ==
    /\ dpc \in {"top", "fork", "pid", "task", "pause", "advance", "load", "store", "drain",
                "waitpid", "count", "write", "exited", "dead", "overrun"}
    /\ start \in Int /\ end \in Int /\ segment_size \in Int
    /\ loaded \in Int
    /\ strays \subseteq {"crossed", "undercut"}
    /\ current_worker \in 0 .. most_workers
    /\ slots \in [Workers -> {"empty", "named", "active", "done", "killed"}]
    /\ saved \in Seq(Int \X Int)
    /\ terminated_children \in Nat
    /\ count \in Nat \cup {Garbage}
    /\ total_current_workers \in [Processes -> Int]
    /\ remaining_workers \in [Processes -> Int]
    /\ shares \in [Workers -> Int \X Int]
    /\ redo \subseteq Nat
    /\ mates \in [Workers -> SUBSET Workers]
    /\ workers \in [Workers -> {"none", "runs", "exited", "failed", "killed", "reaped"}]
    /\ numbers \subseteq Workers
    /\ heard \subseteq Workers
    /\ key \in {"none", "increase", "decrease", "kill"}
    /\ keys \in 0 .. MaxKeys
    /\ facing \subseteq {w \in Workers : workers[w] = "runs"}
    /\ frames \in Seq({"key", "save", "read"})
    /\ reading \in Processes
    /\ victim \in Processes
    /\ front_end \in {"waits", "shown", "killed"}
    /\ front_end_count \in Seq(Nat \cup {Garbage}) /\ Len(front_end_count) <= 1

\* The handlers are installed and the first share is planned.
Init ==
    /\ dpc = "top"
    /\ start = 0
    /\ segment_size = FileSize \div InitialWorkers
    /\ end = segment_size
    /\ loaded = 0
    /\ strays = {}
    /\ current_worker = 0
    /\ slots = [w \in Workers |-> "empty"]
    /\ saved = <<>>
    /\ terminated_children = 0
    /\ count = 0
    /\ total_current_workers = [p \in Processes |-> InitialWorkers]
    /\ remaining_workers = [p \in Processes |-> InitialWorkers]
    /\ shares = [w \in Workers |-> <<0, 0>>]
    /\ redo = {}
    /\ mates = [w \in Workers |-> {}]
    /\ workers = [w \in Workers |-> "none"]
    /\ numbers = {}
    /\ heard = {}
    /\ key = "none"
    /\ keys = 0
    /\ facing = {}
    /\ frames = <<>>
    /\ reading = Dispatcher
    /\ victim = Dispatcher
    /\ front_end = "waits"
    /\ front_end_count = <<>>

Over == {"exited", "dead", "overrun"}

Running == {w \in Workers : workers[w] = "runs"}

\* main runs while no handler does.
At(point) == dpc = point /\ frames = <<>>

\* The innermost handler of the dispatcher.
Inside(frame) == frames # <<>> /\ Head(frames) = frame

-----------------------------------------------------------------------------
(* main of the dispatcher.                                                  *)

\* The next share: clamped to the file, or all the rest if main takes this
\* worker for the last.  The share of a dead child is taken out of save_start
\* before anybody has read it.
Plan ==
    /\ At("top")
    /\ IF start < FileSize
       THEN /\ dpc' = "fork"
            /\ saved' = IF saved = <<>> THEN <<>> ELSE Tail(saved)
            /\ redo' = IF saved = <<>> THEN redo ELSE redo \cup {current_worker + 1}
            /\ end' = IF \/ end > FileSize
                         \/ current_worker = total_current_workers[Dispatcher] - 1
                      THEN FileSize ELSE end
       ELSE dpc' = "drain" /\ UNCHANGED <<saved, redo, end>>
    /\ UNCHANGED <<start, segment_size, loaded, strays, current_worker, slots, tallyVars,
                   crewVars, shares, mates, workers, numbers, keyVars, facing,
                   frameVars, endVars>>

\* The worker has copies of all variables, and the pid in its own entry of
\* WORKERS is the 0 that fork has returned to it.
Fork ==
    /\ At("fork")
    /\ current_worker < most_workers
    /\ LET w == current_worker + 1 IN
        /\ workers' = [workers EXCEPT ![w] = "runs"]
        /\ shares' = [shares EXCEPT ![w] = <<start, end>>]
        /\ total_current_workers' =
               [total_current_workers EXCEPT ![w] = total_current_workers[Dispatcher]]
        /\ remaining_workers' =
               [remaining_workers EXCEPT ![w] = remaining_workers[Dispatcher]]
        /\ mates' = [mates EXCEPT ![w] = {v \in Workers : slots[v] = "active"} \cup {w}]
    /\ dpc' = "pid"
    /\ UNCHANGED <<shareVars, loaded, strays, current_worker, slots, saved, tallyVars,
                   redo, numbers, keyVars, facing, frameVars, endVars>>

\* WORKERS and pipefd2 have no such slot: what is written lies beyond them, and
\* anything may happen.
Overrun ==
    /\ At("fork")
    /\ current_worker = most_workers
    /\ dpc' = "overrun"
    /\ UNCHANGED <<shareVars, loaded, strays, current_worker, slots, saved, tallyVars,
                   crewVars, forkVars, mates, workers, numbers, keyVars, facing,
                   frameVars, endVars>>

\* The worker's pid is stored.  Until then it is found in no slot.
StorePid ==
    /\ At("pid")
    /\ slots' = [slots EXCEPT ![current_worker + 1] = "named"]
    /\ dpc' = "task"
    /\ UNCHANGED <<shareVars, loaded, strays, current_worker, saved, tallyVars, crewVars,
                   forkVars, mates, workers, numbers, keyVars, facing, frameVars, endVars>>

\* The rest of its entry, active = 1 in any case.
StoreTask ==
    /\ At("task")
    /\ slots' = [slots EXCEPT ![current_worker + 1] = "active"]
    /\ dpc' = "pause"
    /\ UNCHANGED <<shareVars, loaded, strays, current_worker, saved, tallyVars, crewVars,
                   forkVars, mates, workers, numbers, keyVars, facing, frameVars, endVars>>

\* Mutant: start is the end of the next share.
Advance_EndFirst ==
    /\ At("pause")
    /\ loaded' = end + segment_size
    /\ start' = loaded'
    /\ dpc' = "advance"
    /\ UNCHANGED <<end, segment_size, strays, current_worker, slots, saved, tallyVars,
                   crewVars, forkVars, mates, workers, numbers, keyVars, facing,
                   frameVars, endVars>>

\* After the first sleep: start = end, and the sum of end += segment_size.
Advance ==
    /\ At("pause")
    /\ start' = end
    /\ loaded' = end + segment_size
    /\ dpc' = "advance"
    /\ UNCHANGED <<end, segment_size, strays, current_worker, slots, saved, tallyVars,
                   crewVars, forkVars, mates, workers, numbers, keyVars, facing,
                   frameVars, endVars>>

StoreEnd ==
    /\ At("advance")
    /\ end' = loaded
    /\ dpc' = "load"
    /\ UNCHANGED <<start, segment_size, loaded, strays, current_worker, slots, saved,
                   tallyVars, crewVars, forkVars, mates, workers, numbers, keyVars,
                   facing, frameVars, endVars>>

\* remaining_workers-- and current_worker++.
LoadRemaining ==
    /\ At("load")
    /\ loaded' = remaining_workers[Dispatcher]
    /\ dpc' = "store"
    /\ UNCHANGED <<shareVars, strays, current_worker, slots, saved, tallyVars, crewVars,
                   forkVars, mates, workers, numbers, keyVars, facing, frameVars, endVars>>

\* Mutant: current_worker is incremented twice.
StoreRemaining_Twice ==
    /\ At("store")
    /\ remaining_workers' = [remaining_workers EXCEPT ![Dispatcher] = loaded - 1]
    /\ current_worker' = current_worker + 2
    /\ dpc' = "top"
    /\ UNCHANGED <<shareVars, loaded, strays, slots, saved, tallyVars,
                   total_current_workers, forkVars, mates, workers, numbers, keyVars,
                   facing, frameVars, endVars>>

StoreRemaining ==
    /\ At("store")
    /\ remaining_workers' = [remaining_workers EXCEPT ![Dispatcher] = loaded - 1]
    /\ current_worker' = current_worker + 1
    /\ dpc' = "top"
    /\ UNCHANGED <<shareVars, loaded, strays, slots, saved, tallyVars,
                   total_current_workers, forkVars, mates, workers, numbers, keyVars,
                   facing, frameVars, endVars>>

\* Mutant: main stops one child too early.
Drain_Early ==
    /\ At("drain")
    /\ dpc' = IF terminated_children + 1 < total_current_workers[Dispatcher]
              THEN "waitpid" ELSE "write"
    /\ UNCHANGED <<shareVars, loaded, strays, current_worker, slots, saved, tallyVars,
                   crewVars, forkVars, mates, workers, numbers, keyVars, facing,
                   frameVars, endVars>>

Drain ==
    /\ At("drain")
    /\ dpc' = IF terminated_children < total_current_workers[Dispatcher]
              THEN "waitpid" ELSE "write"
    /\ UNCHANGED <<shareVars, loaded, strays, current_worker, slots, saved, tallyVars,
                   crewVars, forkVars, mates, workers, numbers, keyVars, facing,
                   frameVars, endVars>>

\* Forked and not waited for.
Remaining == {w \in Workers : workers[w] \notin {"none", "reaped"}}

\* The children that have ended.
Zombies == {w \in Workers : workers[w] \in {"exited", "failed", "killed"}}

\* Mutant: an error of waitpid does not end the loop.
WaitAny_Retries ==
    /\ At("waitpid")
    /\ \/ /\ Remaining = {}
          /\ dpc' = "drain"
          /\ UNCHANGED <<workers, loaded>>
       \/ \E w \in Zombies :
              /\ workers' = [workers EXCEPT ![w] = "reaped"]
              /\ loaded' = terminated_children
              /\ dpc' = "count"
    /\ UNCHANGED <<shareVars, strays, current_worker, slots, saved, tallyVars, crewVars,
                   forkVars, mates, numbers, keyVars, facing, frameVars, endVars>>

\* main's waitpid takes any child, whose number stays in its pipe, and
\* terminated_children is loaded; or there is no child.
WaitAny ==
    /\ At("waitpid")
    /\ \/ /\ Remaining = {}
          /\ dpc' = "write"
          /\ UNCHANGED <<workers, loaded>>
       \/ \E w \in Zombies :
              /\ workers' = [workers EXCEPT ![w] = "reaped"]
              /\ loaded' = terminated_children
              /\ dpc' = "count"
    /\ UNCHANGED <<shareVars, strays, current_worker, slots, saved, tallyVars, crewVars,
                   forkVars, mates, numbers, keyVars, facing, frameVars, endVars>>

\* The store of terminated_children++, over what the handler has added meanwhile.
StoreTerminated ==
    /\ At("count")
    /\ terminated_children' = loaded + 1
    /\ dpc' = "drain"
    /\ UNCHANGED <<shareVars, loaded, strays, current_worker, slots, saved, count, heard,
                   crewVars, forkVars, mates, workers, numbers, keyVars, facing,
                   frameVars, endVars>>

\* WORKERS is printed, one entry for each of the crew: when the crew is larger
\* than the table, the dispatcher may be killed for reading beyond it.
PrintBeyond ==
    /\ At("write")
    /\ total_current_workers[Dispatcher] > most_workers
    /\ dpc' = "dead"
    /\ UNCHANGED <<shareVars, loaded, strays, current_worker, slots, saved, tallyVars,
                   crewVars, forkVars, mates, workers, numbers, keyVars, facing,
                   frameVars, endVars>>

\* The count is written to front_end's pipe.
WriteCount ==
    /\ At("write")
    /\ dpc' = "exited"
    /\ UNCHANGED <<shareVars, loaded, strays, current_worker, slots, saved, tallyVars,
                   crewVars, forkVars, mates, workers, numbers, keyVars, facing,
                   frameVars, endVars>>

DispatcherMain ==
    \/ Plan \/ Fork \/ Overrun \/ StorePid \/ StoreTask \/ Advance
    \/ StoreEnd \/ LoadRemaining \/ StoreRemaining \/ Drain \/ WaitAny
    \/ StoreTerminated \/ PrintBeyond \/ WriteCount

-----------------------------------------------------------------------------
(* handle_sigchild, which other handlers may interrupt and which may        *)
(* interrupt them, but not itself.                                          *)

\* waitpid returns a child.  One that has exited is looked for by its pid; one
\* that was killed, or whose pid is not stored yet, changes nothing.
Reap ==
    /\ dpc \notin Over
    /\ \A n \in DOMAIN frames : frames[n] # "read"
    /\ \E w \in Zombies :
        /\ workers' = [workers EXCEPT ![w] = "reaped"]
        /\ IF workers[w] # "killed" /\ slots[w] \in {"named", "active"}
           THEN frames' = <<"read">> \o frames /\ reading' = w
           ELSE UNCHANGED <<frames, reading>>
    /\ UNCHANGED <<dpc, shareVars, loaded, strays, current_worker, slots, saved,
                   tallyVars, crewVars, forkVars, mates, numbers, keyVars, facing, victim,
                   endVars>>

Scanned(w) == Cardinality(ScanShare(shares[w][1], shares[w][2]))

\* Workers launched after w have inherited the write end of its pipe.
HasWriter(w) == \E v \in Running : v > w

\* Mutant: the number replaces the count.
ReadNumber_Replaces ==
    /\ dpc \notin Over
    /\ Inside("read")
    /\ \/ /\ reading \in numbers
          /\ count' = Scanned(reading)
       \/ /\ reading \notin numbers /\ ~HasWriter(reading)
          /\ count' = Garbage
    /\ numbers' = numbers \ {reading}
    /\ heard' = heard \cup {reading}
    /\ slots' = [slots EXCEPT ![reading] = IF @ = "killed" THEN @ ELSE "done"]
    /\ terminated_children' = terminated_children + 1
    /\ frames' = Tail(frames)
    /\ reading' = Dispatcher
    /\ UNCHANGED <<dpc, shareVars, loaded, strays, current_worker, saved, crewVars,
                   forkVars, mates, workers, keyVars, facing, victim, endVars>>

\* The number is added; or, when there is none and nobody is left to write one,
\* whatever counter holds.  The handler no longer looks whether the slot was
\* cleared meanwhile.
ReadNumber ==
    /\ dpc \notin Over
    /\ Inside("read")
    /\ \/ /\ reading \in numbers
          /\ count' = IF count = Garbage THEN Garbage ELSE count + Scanned(reading)
       \/ /\ reading \notin numbers /\ ~HasWriter(reading)
          /\ count' = Garbage
    /\ numbers' = numbers \ {reading}
    /\ heard' = heard \cup {reading}
    /\ slots' = [slots EXCEPT ![reading] = IF @ = "killed" THEN @ ELSE "done"]
    /\ terminated_children' = terminated_children + 1
    /\ frames' = Tail(frames)
    /\ reading' = Dispatcher
    /\ UNCHANGED <<dpc, shareVars, loaded, strays, current_worker, saved, crewVars,
                   forkVars, mates, workers, keyVars, facing, victim, endVars>>

HandleSigchild == Reap \/ ReadNumber

-----------------------------------------------------------------------------
(* The keys and their handlers, in the dispatcher and in the workers.       *)

\* The user presses a key when the last one has been dealt with.
Press ==
    /\ front_end = "waits"
    /\ keys < MaxKeys /\ dpc # "overrun"
    /\ facing = {}
    /\ \A n \in DOMAIN frames : frames[n] = "read"
    /\ key' \in {"increase", "decrease", "kill"}
    /\ keys' = keys + 1
    /\ facing' = Running
    /\ frames' = IF dpc \in Over THEN frames ELSE <<"key">> \o frames
    /\ UNCHANGED <<dpc, shareVars, loaded, strays, current_worker, slots, saved,
                   tallyVars, crewVars, forkVars, mates, workers, numbers, reading,
                   victim, endVars>>

\* Process p is in the handler of the key.
Handles(p) ==
    IF p = Dispatcher THEN dpc \notin Over /\ Inside("key") ELSE p \in facing

\* p leaves the handler.
Resume(p) ==
    /\ facing' = facing \ {p}
    /\ frames' = IF p = Dispatcher THEN Tail(frames) ELSE frames
    /\ UNCHANGED <<dpc, workers>>

\* p ends in the handler.
End(p, how) ==
    /\ facing' = facing \ {p}
    /\ IF p = Dispatcher
       THEN dpc' = "dead" /\ UNCHANGED workers
       ELSE workers' = [workers EXCEPT ![p] = how] /\ UNCHANGED dpc
    /\ UNCHANGED frames

\* What goes astray when p's crew changes by d.  The dispatcher's main is about to
\* store remaining_workers--, over the change; or the user has hired a number
\* below zero that leaves fewer than nobody, and segment_size gets its sign.
Astray(p, d) ==
    {how \in {"crossed", "undercut"} :
        /\ p = Dispatcher
        /\ how = "crossed" => dpc = "store"
        /\ how = "undercut" => d < 0 /\ remaining_workers[p] + d < 0}

\* p's crew changes by d; when nobody remains, the division by zero ends p.
Resize(p, d) ==
    /\ total_current_workers' = [total_current_workers EXCEPT ![p] = @ + d]
    /\ remaining_workers' = [remaining_workers EXCEPT ![p] = @ + d]
    /\ strays' = strays \cup Astray(p, d)
    /\ IF remaining_workers[p] + d = 0
       THEN End(p, "killed") /\ UNCHANGED segment_size
       ELSE /\ Resume(p)
            /\ segment_size' =
                   IF p = Dispatcher THEN CDiv(FileSize - end, remaining_workers[p] + d)
                   ELSE segment_size

\* exit(1), and a number that is too large.
Exit(p) == End(p, "failed") /\ UNCHANGED <<crewVars, strays, segment_size>>

Refuse(p) == Resume(p) /\ UNCHANGED <<crewVars, strays, segment_size>>

handle_increase(p, n) ==
    LET jobs_available == most_workers - total_current_workers[p] IN
        \/ jobs_available <= 0 /\ Exit(p)
        \/ jobs_available > 0 /\ n > jobs_available /\ Refuse(p)
        \/ jobs_available > 0 /\ n <= jobs_available /\ Resize(p, n)

handle_decrease(p, n) ==
    \/ remaining_workers[p] <= 1 /\ Exit(p)
    \/ remaining_workers[p] > 1 /\ n > remaining_workers[p] /\ Refuse(p)
    \/ remaining_workers[p] > 1 /\ n <= remaining_workers[p] /\ Resize(p, -n)

\* The user types a number, below zero as well as above, and any of the processes
\* that wait in scanf takes it.  What is no number leaves the variable as it
\* was, uninitialised: any number, too.
TypeNumber ==
    /\ \E p \in Processes, n \in Amounts :
        /\ Handles(p)
        /\ \/ key = "increase" /\ handle_increase(p, n)
           \/ key = "decrease" /\ handle_decrease(p, n)
    /\ UNCHANGED <<start, end, loaded, current_worker, slots, saved, tallyVars, forkVars,
                   mates, numbers, keyVars, reading, victim, endVars>>

\* SIGKILL ends w unless it has ended.
Killed(w) == [workers EXCEPT ![w] = IF @ = "runs" THEN "killed" ELSE @]

Lowest(W) == CHOOSE w \in W : \A v \in W : w <= v

\* The dispatcher kills the first active worker it finds.
KillVictim ==
    /\ key = "kill" /\ Handles(Dispatcher)
    /\ LET Active == {w \in Workers : slots[w] = "active"} IN
        IF Active = {}
        THEN Resume(Dispatcher) /\ UNCHANGED victim
        ELSE /\ victim' = Lowest(Active)
             /\ workers' = Killed(Lowest(Active))
             /\ facing' = facing \ {Lowest(Active)}
             /\ frames' = <<"save">> \o Tail(frames)
             /\ UNCHANGED dpc
    /\ UNCHANGED <<shareVars, loaded, strays, current_worker, slots, saved, tallyVars,
                   crewVars, forkVars, mates, numbers, keyVars, reading, endVars>>

\* Its share is saved, unless handle_sigchild has set it to -1 meanwhile, and
\* its entry cleared.
SaveShare ==
    /\ dpc \notin Over
    /\ Inside("save")
    /\ saved' = IF slots[victim] = "active" THEN Append(saved, shares[victim]) ELSE saved
    /\ slots' = [slots EXCEPT ![victim] = "killed"]
    /\ frames' = Tail(frames)
    /\ victim' = Dispatcher
    /\ UNCHANGED <<dpc, shareVars, loaded, strays, current_worker, tallyVars, crewVars,
                   forkVars, mates, workers, numbers, keyVars, facing, reading, endVars>>

\* In worker w the handler finds a worker of its copy of WORKERS; or w itself,
\* with pid 0, and kill(0, SIGKILL) ends every process of the terminal.
KillMate(w) ==
    /\ key = "kill" /\ w \in facing
    /\ LET v == Lowest(mates[w]) IN
        IF v = w
        THEN /\ workers' = [u \in Workers |-> IF u \in Running THEN "killed" ELSE workers[u]]
             /\ facing' = {}
             /\ dpc' = IF dpc \in Over THEN dpc ELSE "dead"
             /\ front_end' = "killed"
             /\ UNCHANGED mates
        ELSE /\ workers' = Killed(v)
             /\ facing' = facing \ {v, w}
             /\ mates' = [mates EXCEPT ![w] = @ \ {v}]
             /\ UNCHANGED <<dpc, front_end>>
    /\ UNCHANGED <<shareVars, loaded, strays, current_worker, slots, saved, tallyVars,
                   crewVars, forkVars, numbers, keyVars, frameVars, front_end_count>>

HandleKill == KillVictim \/ SaveShare \/ \E w \in Workers : KillMate(w)

-----------------------------------------------------------------------------
(* The workers and front_end.                                               *)

\* The worker searches its share and writes its number.  When the share starts
\* before the file its lseek fails, and it writes nothing; nor does one that was
\* forked to redo a share, which finds -1 in save_start.  Its copies of the
\* variables end with it.
Search(w) ==
    /\ workers[w] = "runs" /\ w \notin facing
    /\ IF w \in redo \/ shares[w][1] < 0
       THEN workers' = [workers EXCEPT ![w] = "failed"] /\ UNCHANGED numbers
       ELSE workers' = [workers EXCEPT ![w] = "exited"] /\ numbers' = numbers \cup {w}
    /\ total_current_workers' = [total_current_workers EXCEPT ![w] = 0]
    /\ remaining_workers' = [remaining_workers EXCEPT ![w] = 0]
    /\ mates' = [mates EXCEPT ![w] = {}]
    /\ UNCHANGED <<dpc, shareVars, loaded, strays, current_worker, slots, saved,
                   tallyVars, forkVars, keyVars, facing, frameVars, endVars>>

\* When the dispatcher has ended, front_end reads the count and prints it.  From
\* a dispatcher that died it gets none, once no worker holds the pipe open.
ShowCount ==
    /\ front_end = "waits"
    /\ \/ dpc = "exited" /\ front_end_count' = <<count>>
       \/ dpc = "dead" /\ Running = {} /\ front_end_count' = <<Garbage>>
    /\ front_end' = "shown"
    /\ UNCHANGED <<dpc, shareVars, loaded, strays, current_worker, slots, saved,
                   tallyVars, crewVars, forkVars, mates, workers, numbers, keyVars,
                   facing, frameVars>>

Next ==
    \/ DispatcherMain
    \/ HandleSigchild
    \/ Press
    \/ TypeNumber
    \/ HandleKill
    \/ \E w \in Workers : Search(w)
    \/ ShowCount

\* Every process is scheduled and handles its signals, and the user types a
\* number for every process that asks for one.  No key needs to be pressed.
Fairness ==
    /\ WF_vars(DispatcherMain)
    /\ WF_vars(HandleSigchild)
    /\ WF_vars(TypeNumber)
    /\ WF_vars(HandleKill)
    /\ \A w \in Workers : WF_vars(Search(w))
    /\ WF_vars(ShowCount)

Spec == Init /\ [][Next]_vars /\ Fairness

-----------------------------------------------------------------------------
Launched == {w \in Workers : workers[w] # "none"}

ShareOf(w) == Share(shares[w][1], shares[w][2])

\* Where the shares launched end: main moves start only after the pause.
HandedOut == IF dpc \in {"pid", "task", "pause"} THEN end ELSE start

\* The shares launched cover the file up to there, without gap or overlap.
Tiled ==
    \A p \in Bytes :
        IF p < HandedOut
        THEN \E w \in Launched :
                /\ p \in ShareOf(w)
                /\ \A v \in Launched \ {w} : p \notin ShareOf(v)
        ELSE \A w \in Launched : p \notin ShareOf(w)

\* The shares launched tile the file from its beginning, whatever crew the user
\* hires and fires between them, a decrease by a number below zero included, and
\* although main may fork more workers than the crew has.  Two ways of going
\* astray are excepted: a resize that falls into remaining_workers-- and is lost,
\* and an increase by a number below zero that leaves fewer than nobody, after
\* which segment_size is negative (first_ex_ex_4.c 141-147, 165-173, 345-370,
\* 435-438).
SharesTile == strays = {} /\ dpc \notin {"dead", "overrun"} => Tiled

\* front_end shows the number of matches when every worker's number was heard:
\* none was reaped by the loop at the end, or before its pid was stored, none
\* was killed or sent back to a share that is lost, and none had an empty share
\* (first_ex_ex_4.c 64-98, 456-491, 509, 547-554).
ShownIsWhole ==
    /\ front_end_count \notin {<<>>, <<Garbage>>}
    /\ \A w \in Launched : w \in heard /\ ShareOf(w) # {}
    => front_end_count = <<FileSize>>

\* The loop at the end waits for every worker launched, so that none writes to a
\* pipe that is gone; unless the user has fired the crew below the number of
\* workers launched (first_ex_ex_4.c 456-491).
DrainWaits ==
    [][dpc = "drain" /\ dpc' = "write" /\ current_worker <= total_current_workers[Dispatcher]
       => Remaining = {}]_vars

\* front_end shows a count, right or not, unless Ctrl+\ has ended it with all the
\* others or the dispatcher writes beyond its tables: no handler waits for ever
\* for a number, and the loop at the end ends although the children that are
\* reaped without a word are never counted (first_ex_ex_4.c 78, 456-491, 547).
Returns == <>(front_end # "waits" \/ dpc = "overrun")
=============================================================================
