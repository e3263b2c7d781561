-------------------------- MODULE MandelConditions --------------------------
(* mandel_condition_variables_efficient.c, where each thread has a condition  *)
(* variable of its own and the next thread's is signalled, and                *)
(* mandel_condition_variables_inefficient.c, where all wait on one that is    *)
(* broadcast.  The mutex is held from the look at next_line until after the   *)
(* wake-up call.                                                              *)
EXTENDS MandelThreads

CONSTANT MaxSpurious    \* bound: wake-ups that nobody caused

ASSUME MaxSpuriousAssumption == MaxSpurious \in Nat

VARIABLES
    efficient,  \* which of the two programs runs
    mutex,      \* the thread that holds it, or -1
    next_line,  \* the line whose turn it is
    spurious    \* spurious wake-ups so far

syncVars == <<mutex, next_line, spurious>>
vars == <<drawVars, efficient, syncVars>>

TypeOK ==
    /\ DrawTypeOK({"lock", "check", "waiting", "wake", "unlock"})
    /\ efficient \in BOOLEAN
    /\ mutex \in Threads \cup {-1}
    /\ next_line \in 0 .. y_chars
    /\ spurious \in 0 .. MaxSpurious

Init ==
    /\ DrawInit
    /\ efficient \in BOOLEAN
    /\ mutex = -1
    /\ next_line = 0
    /\ spurious = 0

\* pthread_mutex_lock, by a thread with a new line or by one woken up inside
\* pthread_cond_wait: both go on to the head of the while loop.
Lock(t) ==
    /\ pc[t] = "lock"
    /\ mutex = -1
    /\ mutex' = t
    /\ pc' = [pc EXCEPT ![t] = "check"]
    /\ UNCHANGED <<line, col, last, mainVars, next_line, spurious>>

\* Mutant: the turn is not waited for.
CheckTurn_NoWait(t) ==
    /\ pc[t] = "check"
    /\ pc' = [pc EXCEPT ![t] = "output"]
    /\ UNCHANGED <<line, col, last, mainVars, mutex, next_line, spurious>>

\* while (i != next_line) pthread_cond_wait(...): the wait gives the mutex back
\* and starts waiting in one step.
CheckTurn(t) ==
    /\ pc[t] = "check"
    /\ IF line[t] = next_line
       THEN pc' = [pc EXCEPT ![t] = "output"] /\ UNCHANGED mutex
       ELSE pc' = [pc EXCEPT ![t] = "waiting"] /\ mutex' = -1
    /\ UNCHANGED <<line, col, last, mainVars, next_line, spurious>>

Advance(t) ==
    /\ Output(t, "wake")
    /\ next_line' = IF col[t] = pieces - 1 THEN next_line + 1 ELSE next_line
    /\ UNCHANGED <<mutex, spurious>>

\* Mutant: the shared condition variable is signalled, not broadcast, and the
\* signal wakes one of those that wait.
Reached_SignalOne(t) ==
    LET sleeping == {u \in IF efficient THEN {Succ(t)} ELSE Threads : pc[u] = "waiting"}
    IN  {u \in sleeping : \A v \in sleeping : u <= v}

\* Who the wake-up call of t reaches, if they wait: with a condition variable
\* per thread, only the next one.
Reached(t) == {u \in IF efficient THEN {Succ(t)} ELSE Threads : pc[u] = "waiting"}

\* Mutant: no wake-up call after the line.
Wake_Nobody(t) ==
    /\ pc[t] = "wake"
    /\ pc' = [pc EXCEPT ![t] = "unlock"]
    /\ UNCHANGED <<line, col, last, mainVars, syncVars>>

Wake(t) ==
    /\ pc[t] = "wake"
    /\ pc' = [u \in Threads |-> IF u = t THEN "unlock"
                                ELSE IF u \in Reached(t) THEN "lock" ELSE pc[u]]
    /\ UNCHANGED <<line, col, last, mainVars, syncVars>>

Unlock(t) ==
    /\ pc[t] = "unlock"
    /\ mutex' = -1
    /\ NextLine(t)
    /\ UNCHANGED <<col, last, mainVars, next_line, spurious>>

\* pthread_cond_wait may return without a wake-up call.
SpuriousWakeup(t) ==
    /\ pc[t] = "waiting"
    /\ spurious < MaxSpurious
    /\ spurious' = spurious + 1
    /\ pc' = [pc EXCEPT ![t] = "lock"]
    /\ UNCHANGED <<line, col, last, mainVars, mutex, next_line>>

Thread(t) ==
    /\ \/ (Compute(t, "lock") \/ Return(t)) /\ UNCHANGED syncVars
       \/ Lock(t) \/ CheckTurn(t) \/ Advance(t) \/ Wake(t) \/ Unlock(t)
    /\ UNCHANGED efficient

MainStep == Main /\ UNCHANGED <<efficient, syncVars>>

Terminated == mpc = "done" /\ UNCHANGED vars

Next ==
    \/ MainStep
    \/ \E t \in Threads : Thread(t) \/ (SpuriousWakeup(t) /\ UNCHANGED efficient)
    \/ Terminated

\* Each thread of the process is scheduled.  Nobody asks for a spurious wake-up.
Fairness == WF_vars(MainStep) /\ \A t \in Threads : WF_vars(Thread(t))

Spec == Init /\ [][Next]_vars /\ Fairness

-----------------------------------------------------------------------------
\* Whoever looks at next_line, writes or wakes another holds the mutex; and a
\* thread that still waits for its turn does not miss it: the thread whose
\* line is next is not asleep, unless the wake-up call for it is yet to come
\* (..._efficient.c 134-146, ..._inefficient.c 133-145).
TurnNotMissed ==
    \A t \in Threads :
        /\ pc[t] \in {"check", "output", "wake", "unlock"} => mutex = t
        /\ pc[t] = "waiting" /\ line[t] = next_line =>
               \E u \in Threads : pc[u] = "wake" /\ t \in Reached(u)

\* main destroys mutex and condition variables when no thread can touch one any
\* more, and the picture is complete.
DestroyedUnused ==
    mpc = "done" => /\ \A t \in Threads : pc[t] = "done"
                    /\ last = Picture!Complete

\* The writes appear in the order of a single thread, whatever the threads'
\* speeds and the spurious wake-ups.
DrawsPicture == Picture!Spec

\* All threads are joined: nobody waits for a wake-up call that never comes.
Returns == <>(mpc = "done")
=============================================================================
