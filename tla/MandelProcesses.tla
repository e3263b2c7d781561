-------------------------- MODULE MandelProcesses --------------------------
(* The programs of 3rd_project_OS that draw the Mandelbrot set with forked  *)
(* processes.  In semaphore_mandel-fork.c a child writes its lines itself,  *)
(* in the ring of mandel_semaphores.c; in no_semaphore_mandel-fork.c it     *)
(* leaves them in shared memory and main writes them when all children have *)
(* ended.  A write to the terminal that fails ends only the process that    *)
(* makes it.  The threads of MandelSemaphores are the children here.        *)
EXTENDS MandelSemaphores, FiniteSets

CONSTANT MaxFailures    \* bound: writes that fail

ASSUME MaxFailuresAssumption == MaxFailures \in Nat

VARIABLES
    buffered,     \* which of the two programs runs
    shared_buff,  \* the lines whose colours are in shared memory
    waited,       \* the children main has waited for
    cursor,       \* <<line, piece>> that main's last loop writes next
    failures      \* writes that failed so far

sharedVars == <<semaphores, shared_buff>>
vars == <<drawVars, buffered, sharedVars, waited, cursor, failures>>

TypeOK ==
    /\ pc \in [Threads -> {"none", "compute", "wait", "output", "post", "done",
                           "failed"}]
    /\ line \in [Threads -> Nat] /\ col \in [Threads -> 0 .. pieces - 1]
    /\ last \in (-1 .. y_chars - 1) \X (0 .. pieces - 1)
    /\ mpc \in {"create", "join", "draw", "destroy", "done", "failed"}
    /\ k \in Threads
    /\ buffered \in BOOLEAN
    /\ semaphores \in [Threads -> Nat]
    /\ shared_buff \subseteq 0 .. y_chars - 1
    /\ waited \subseteq Threads
    /\ cursor \in (0 .. y_chars) \X (0 .. pieces - 1)
    /\ failures \in 0 .. MaxFailures

Init ==
    /\ RingInit
    /\ buffered \in BOOLEAN
    /\ shared_buff = {}
    /\ waited = {}
    /\ cursor = <<0, 0>>
    /\ failures = 0

\* A child of semaphore_mandel-fork.c; returning is exit(0).
SemaphoreChild(t) ==
    /\ ~buffered
    /\ Thread(t)
    /\ UNCHANGED <<buffered, shared_buff, waited, cursor, failures>>

\* Its write fails: exit(1), with the semaphore taken.
WriteFails(t) ==
    /\ pc[t] = "output"
    /\ failures < MaxFailures
    /\ failures' = failures + 1
    /\ pc' = [pc EXCEPT ![t] = "failed"]
    /\ UNCHANGED <<line, col, last, mainVars, buffered, sharedVars, waited, cursor>>

\* compute_mandel_line leaves a line in shared memory.
ComputeInPlace(t) ==
    /\ pc[t] = "compute"
    /\ line[t] < y_chars
    /\ shared_buff' = shared_buff \cup {line[t]}
    /\ NextLine(t)
    /\ UNCHANGED <<col, last, mainVars, semaphores>>

BufferChild(t) ==
    /\ buffered
    /\ ComputeInPlace(t) \/ (Return(t) /\ UNCHANGED sharedVars)
    /\ UNCHANGED <<buffered, waited, cursor, failures>>

\* Mutant: main waits for one child less.
WaitChild_OneLess ==
    /\ mpc = "join"
    /\ \E t \in Threads \ waited :
           /\ pc[t] \in {"done", "failed"}
           /\ waited' = waited \cup {t}
    /\ mpc' = IF Cardinality(waited') < thrcnt - 1 THEN mpc
              ELSE IF buffered THEN "draw" ELSE "destroy"
    /\ UNCHANGED <<threadVars, last, k, buffered, sharedVars, cursor, failures>>

\* wait() returns for any child that has ended, however it did.
WaitChild ==
    /\ mpc = "join"
    /\ \E t \in Threads \ waited :
           /\ pc[t] \in {"done", "failed"}
           /\ waited' = waited \cup {t}
    /\ mpc' = IF Cardinality(waited') < thrcnt THEN mpc
              ELSE IF buffered THEN "draw" ELSE "destroy"
    /\ UNCHANGED <<threadVars, last, k, buffered, sharedVars, cursor, failures>>

\* Mutant: one line too many is written.
DrawPiece_OneMore ==
    /\ mpc = "draw"
    /\ last' = cursor
    /\ cursor' = IF cursor[2] = pieces - 1 THEN <<cursor[1] + 1, 0>>
                 ELSE <<cursor[1], cursor[2] + 1>>
    /\ mpc' = IF cursor'[1] > y_chars THEN "destroy" ELSE mpc
    /\ UNCHANGED <<threadVars, k, buffered, sharedVars, waited, failures>>

\* main writes the lines that lie in shared memory.
DrawPiece ==
    /\ mpc = "draw"
    /\ last' = cursor
    /\ cursor' = IF cursor[2] = pieces - 1 THEN <<cursor[1] + 1, 0>>
                 ELSE <<cursor[1], cursor[2] + 1>>
    /\ mpc' = IF cursor'[1] = y_chars THEN "destroy" ELSE mpc
    /\ UNCHANGED <<threadVars, k, buffered, sharedVars, waited, failures>>

DrawFails ==
    /\ mpc = "draw"
    /\ failures < MaxFailures
    /\ failures' = failures + 1
    /\ mpc' = "failed"
    /\ UNCHANGED <<threadVars, last, k, buffered, sharedVars, waited, cursor>>

MainStep ==
    \/ /\ Create \/ Destroy
       /\ UNCHANGED <<buffered, sharedVars, waited, cursor, failures>>
    \/ WaitChild
    \/ DrawPiece

ChildStep(t) == SemaphoreChild(t) \/ BufferChild(t)

Next ==
    \/ MainStep
    \/ DrawFails
    \/ \E t \in Threads : ChildStep(t) \/ WriteFails(t)

\* Each process is scheduled.  No write needs to fail.
Fairness == WF_vars(MainStep) /\ \A t \in Threads : WF_vars(ChildStep(t))

Spec == Init /\ [][Next]_vars /\ Fairness

-----------------------------------------------------------------------------
Failed == {t \in Threads : pc[t] = "failed"}

\* The token of the ring is one, or it ended with a child whose write failed:
\* then nobody writes any more, and no semaphore is ever posted again
\* (semaphore_mandel-fork.c 140-149).
TokenKeptOrLost ==
    /\ OneToken
    /\ Failed # {} => \A t \in Threads :
                          semaphores[t] = 0 /\ pc[t] \notin {"output", "post"}

\* main reads a line from shared memory only after the child that computes it
\* has left it there, and takes the memory and the semaphores away only when
\* every child has ended, with the picture complete unless a write failed
\* (no_semaphore_mandel-fork.c 230-245, semaphore_mandel-fork.c 261-279).
LinesReady ==
    /\ mpc = "draw" => shared_buff = 0 .. y_chars - 1
    /\ mpc = "done" =>
        /\ \A t \in Threads : pc[t] \in {"done", "failed"}
        /\ failures = 0 => last = Picture!Complete

\* main returns; except when a child of the ring ended before the last line was
\* written: the others then wait for ever, and main for them.
Returns ==
    \/ <>(mpc \in {"done", "failed"})
    \/ <>(\E t \in Failed : line[t] < y_chars - 1)
=============================================================================
