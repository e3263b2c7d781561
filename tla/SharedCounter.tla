--------------------------- MODULE SharedCounter ---------------------------
(* The counting of ask3final.c: the children increment a variable in shared *)
(* memory, each under its own copy of the semaphore.                        *)
EXTENDS ForkedSearch

VARIABLES
    shared_variable,  \* the count, in shared memory
    semaphore,        \* child |-> value of its own copy of the semaphore
    register          \* child |-> shared_variable as loaded by its ++

countVars == <<shared_variable, semaphore, register>>

SharedTypeOK ==
    /\ shared_variable \in 0 .. Cardinality(matches)
    /\ semaphore \in [Children -> {0, 1}]
    /\ register \in [Children -> Nat]

\* fork copies a semaphore that is no part of shared memory.
SharedInit ==
    /\ shared_variable = 0
    /\ semaphore = [c \in Children |-> 1]
    /\ register = [c \in Children |-> 0]

-----------------------------------------------------------------------------
\* The head of char_counter's loop: the share or the file is at its end, or a
\* byte is read.
AtEnd(c) == offset[c] >= end_pos(c) \/ offset[c] >= FileSize

ReadNext(c) ==
    /\ ~AtEnd(c)
    /\ Goes(c, "read", IF offset[c] \in matches THEN "wait" ELSE "read")
    /\ offset' = [offset EXCEPT ![c] = @ + 1]
    /\ UNCHANGED countVars

EndShare(c) ==
    /\ AtEnd(c)
    /\ Goes(c, "read", "signal")
    /\ UNCHANGED <<offset, countVars>>

\* sem_wait on the child's own copy.
SemWait(c) ==
    /\ semaphore[c] > 0
    /\ Goes(c, "wait", "load")
    /\ semaphore' = [semaphore EXCEPT ![c] = @ - 1]
    /\ UNCHANGED <<offset, shared_variable, register>>

\* The load and the store of shared_variable's ++.
LoadCount(c) ==
    /\ Goes(c, "load", "store")
    /\ register' = [register EXCEPT ![c] = shared_variable]
    /\ UNCHANGED <<offset, shared_variable, semaphore>>

StoreCount(c) ==
    /\ Goes(c, "store", "post")
    /\ shared_variable' = register[c] + 1
    /\ UNCHANGED <<offset, semaphore, register>>

SemPost(c) ==
    /\ Goes(c, "post", "read")
    /\ semaphore' = [semaphore EXCEPT ![c] = @ + 1]
    /\ UNCHANGED <<offset, shared_variable, register>>

\* The steps of char_counter after the seek.
CountInMemory(c) ==
    /\ program = "ask3final"
    /\ \/ ReadNext(c) \/ EndShare(c)
       \/ SemWait(c) \/ LoadCount(c) \/ StoreCount(c) \/ SemPost(c)
    /\ UNCHANGED <<inputVars, mainVars, numberVars>>

\* The total is printed, and semaphore and shared memory are taken away.
PrintCount ==
    /\ program = "ask3final"
    /\ mpc = "print"
    /\ told' = <<shared_variable>>
    /\ mpc' = "done"
    /\ UNCHANGED <<inputVars, childVars, i, waited, numberVars, countVars>>
=============================================================================
