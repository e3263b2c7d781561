---------------------------- MODULE MmapLockstep ----------------------------
(* mmap.c: parent and child take turns.  The child stops itself before each   *)
(* of its steps 7 to 11; the parent waits for that, does its own part of the  *)
(* step and sends SIGCONT.  Both look at a private page, which fork copies,   *)
(* and at a shared one.                                                       *)
EXTENDS Integers

Processes == {"parent", "child"}
Buffers == {"private", "shared", "file"}

VARIABLES
    ppc,      \* the parent: in "main", in parent() to "wait" or to "act", "done", "died"
    pstep,    \* the step it does, or waits for
    child,    \* "none", "runs" to its next stop, "stopped", "seen" (stopped, and
              \* waited for), "acts" after SIGCONT, "ended", "reaped" (waited for)
    cstep,    \* the step the child does next
    private,  \* process |-> what its private page holds
    shared,   \* what the shared page holds
    mapped,   \* process |-> the buffers it has mapped
    readonly  \* processes that may only read the shared page

memory == <<private, shared, mapped, readonly>>
vars == <<ppc, pstep, child, cstep, memory>>

Init ==
    /\ ppc = "main" /\ pstep = 2
    /\ child = "none" /\ cstep = 7
    /\ private = [p \in Processes |-> 0]
    /\ shared = 0
    /\ mapped = [p \in Processes |-> {}]
    /\ readonly = {}

\* main's steps 2 to 6, after the first that only looks.  The pages come with
\* zeros in them; the private one is filled with 0, the shared one with 2.
Prepare ==
    /\ ppc = "main" /\ pstep <= 6
    /\ pstep' = pstep + 1
    /\ mapped' = [mapped EXCEPT !["parent"] =
                      @ \cup {b \in Buffers : \/ b = "private" /\ pstep = 2
                                              \/ b = "file" /\ pstep = 5
                                              \/ b = "shared" /\ pstep = 6}]
    /\ shared' = IF pstep = 6 THEN 2 ELSE shared
    /\ UNCHANGED <<ppc, child, cstep, private, readonly>>

\* mmap, open or fork fails.
PrepareFails ==
    /\ ppc = "main"
    /\ ppc' = "died"
    /\ UNCHANGED <<pstep, child, cstep, memory>>

Fork ==
    /\ ppc = "main" /\ pstep = 7
    /\ ppc' = "wait"
    /\ child' = "runs"
    /\ private' = [private EXCEPT !["child"] = private["parent"]]
    /\ mapped' = [mapped EXCEPT !["child"] = mapped["parent"]]
    /\ UNCHANGED <<pstep, cstep, shared, readonly>>

\* waitpid.  With WUNTRACED, up to step 11, it returns for a child that has
\* stopped as well.  Nobody looks at status.
Wait ==
    /\ ppc = "wait"
    /\ \/ child = "stopped" /\ pstep <= 11 /\ child' = "seen"
       \/ child = "ended" /\ child' = "reaped"
    /\ ppc' = "act"
    /\ UNCHANGED <<pstep, cstep, memory>>

\* The parent's part of a step only looks.  Then SIGCONT; a child that is gone
\* makes kill fail, and the parent dies.
Continue ==
    /\ ppc = "act" /\ pstep <= 11
    /\ IF child = "seen"
       THEN child' = "acts" /\ ppc' = "wait" /\ pstep' = pstep + 1
       ELSE ppc' = "died" /\ UNCHANGED <<child, pstep>>
    /\ UNCHANGED <<cstep, memory>>

\* The parent's step 12: three times munmap, any of which may fail.
Unmap ==
    /\ ppc = "act" /\ pstep = 12
    /\ \E B \in {{}, {"private"}, {"private", "shared"}, Buffers} :
        /\ mapped' = [mapped EXCEPT !["parent"] = @ \ B]
        /\ ppc' = IF B = Buffers THEN "done" ELSE "died"
    /\ UNCHANGED <<pstep, child, cstep, private, shared, readonly>>

Parent == Prepare \/ PrepareFails \/ Fork \/ Wait \/ Continue \/ Unmap

\* raise(SIGSTOP).
Stop ==
    /\ child = "runs"
    /\ child' = "stopped"
    /\ UNCHANGED <<ppc, pstep, cstep, memory>>

\* The child's part of a step: 7 and 8 look, 9 writes to the private page, 10
\* to the shared one, 11 gives up writing to that.  No stop comes after 11.
Act ==
    /\ child = "acts" /\ cstep <= 11
    /\ private' = IF cstep = 9 THEN [private EXCEPT !["child"] = 42] ELSE private
    /\ shared' = IF cstep = 10 THEN 1 ELSE shared
    /\ readonly' = IF cstep = 11 THEN {"child"} ELSE readonly
    /\ child' = IF cstep = 11 THEN "acts" ELSE "runs"
    /\ cstep' = cstep + 1
    /\ UNCHANGED <<ppc, pstep, mapped>>

\* raise or mprotect fails.
ActFails ==
    /\ child = "runs" \/ (child = "acts" /\ cstep = 11)
    /\ child' = "ended"
    /\ UNCHANGED <<ppc, pstep, cstep, memory>>

\* The child's step 12.
UnmapAndReturn ==
    /\ child = "acts" /\ cstep = 12
    /\ \E B \in {{}, {"private"}, {"private", "shared"}, Buffers} :
           mapped' = [mapped EXCEPT !["child"] = @ \ B]
    /\ child' = "ended"
    /\ UNCHANGED <<ppc, pstep, cstep, private, shared, readonly>>

Child == Stop \/ Act \/ ActFails \/ UnmapAndReturn

Next == Parent \/ Child

Spec == Init /\ [][Next]_vars

-----------------------------------------------------------------------------
\* The parent acts only while the child is stopped or gone, and what it waits
\* for can come: a child that runs, has stopped while a stop is waited for, or
\* has ended.
TakeTurns ==
    /\ ppc = "act" => child \in {"seen", "reaped"}
    /\ ppc = "wait" => \/ child \in {"runs", "acts", "ended"}
                       \/ child = "stopped" /\ pstep <= 11

\* Whatever fails, the parent leaves no child behind, stopped or running.
NobodyLeftBehind == ppc \in {"done", "died"} => child \in {"none", "reaped"}

\* What the parent shows of steps 9 to 11 is what was before the child's part of
\* them: the address "after writing" before anybody has written to the private
\* page, and the mapping "after changing the privilages" before the change.  Its
\* own private page never changes.
ShowsTheStateBefore ==
    ppc = "act" /\ child = "seen" =>
        /\ private["parent"] = 0
        /\ pstep = 9 => private["child"] = 0
        /\ shared = IF pstep = 11 THEN 1 ELSE 2
        /\ readonly = {}

TypeOK ==
    /\ ppc \in {"main", "wait", "act", "done", "died"}
    /\ pstep \in 2 .. 12
    /\ child \in {"none", "runs", "stopped", "seen", "acts", "ended", "reaped"}
    /\ cstep \in 7 .. 12
    /\ private \in [Processes -> {0, 42}]
    /\ shared \in 0 .. 2
    /\ mapped \in [Processes -> SUBSET Buffers]
    /\ readonly \subseteq Processes
=============================================================================
