-------------------------- MODULE MandelSemaphores --------------------------
(* mandel_semaphores.c: one semaphore per thread, in a ring; the thread that *)
(* has written its line posts the semaphore of the next thread.              *)
EXTENDS MandelThreads

VARIABLE semaphores     \* thread |-> value of its semaphore

ringVars == <<drawVars, semaphores>>

RingTypeOK ==
    /\ DrawTypeOK({"wait", "post"})
    /\ semaphores \in [Threads -> Nat]

\* Mutant: every semaphore starts at 1.
RingInit_AllOpen == DrawInit /\ semaphores = [t \in Threads |-> 1]

\* sem_init: 1 for the first, 0 for the rest.
RingInit ==
    /\ DrawInit
    /\ semaphores = [t \in Threads |-> IF t = 0 THEN 1 ELSE 0]

Wait(t) ==
    /\ pc[t] = "wait"
    /\ semaphores[t] > 0
    /\ semaphores' = [semaphores EXCEPT ![t] = @ - 1]
    /\ pc' = [pc EXCEPT ![t] = "output"]
    /\ UNCHANGED <<line, col, last, mainVars>>

\* Mutant: a thread posts its own semaphore.
Post_Own(t) ==
    /\ pc[t] = "post"
    /\ semaphores' = [semaphores EXCEPT ![t] = @ + 1]
    /\ NextLine(t)
    /\ UNCHANGED <<col, last, mainVars>>

Post(t) ==
    /\ pc[t] = "post"
    /\ semaphores' = [semaphores EXCEPT ![Succ(t)] = @ + 1]
    /\ NextLine(t)
    /\ UNCHANGED <<col, last, mainVars>>

Thread(t) ==
    \/ /\ Compute(t, "wait") \/ Return(t) \/ Output(t, "post")
       /\ UNCHANGED semaphores
    \/ Wait(t)
    \/ Post(t)

Terminated == mpc = "done" /\ UNCHANGED ringVars

RingNext ==
    \/ Main /\ UNCHANGED semaphores
    \/ \E t \in Threads : Thread(t)
    \/ Terminated

\* Each thread of the process is scheduled.
RingFairness ==
    /\ WF_ringVars(Main /\ UNCHANGED semaphores)
    /\ \A t \in Threads : WF_ringVars(Thread(t))

RingSpec == RingInit /\ [][RingNext]_ringVars /\ RingFairness

-----------------------------------------------------------------------------
\* There is one token: no two threads write at the same time, and a semaphore
\* is posted only while no thread writes (mandel_semaphores.c 146-155).
OneToken ==
    \A t, u \in Threads :
        /\ semaphores[t] <= 1
        /\ semaphores[t] = 1 => pc[u] \notin {"output", "post"}
        /\ t # u /\ semaphores[t] = 1 => semaphores[u] = 0
        /\ t # u /\ pc[t] \in {"output", "post"} => pc[u] \notin {"output", "post"}

\* main destroys the semaphores when no thread can touch one any more, and the
\* picture is complete (mandel_semaphores.c 207-220).
DestroyedUnused ==
    mpc = "done" => /\ \A t \in Threads : pc[t] = "done"
                    /\ last = Picture!Complete

\* The writes appear in the order of a single thread, whatever the threads'
\* speeds (mandel_semaphores.c 138-156, semaphore_mandel-fork.c 129-154).
DrawsPicture == Picture!Spec

\* All threads are joined: nobody waits for a semaphore that is never posted.
RingReturns == <>(mpc = "done")
=============================================================================
