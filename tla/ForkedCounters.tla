-------------------------- MODULE ForkedCounters --------------------------
(* first_ex_ex_3.c, ask3.c and ask3final.c: the children of ForkedSearch    *)
(* with the ways of counting of SharedCounter and PipeCounter.              *)
EXTENDS SharedCounter, PipeCounter, Functions

vars == <<searchVars, countVars, pipeVars>>

TypeOK ==
    /\ SearchTypeOK /\ SharedTypeOK /\ PipeTypeOK
    /\ told \in {<<>>} \cup {<<n>> : n \in 0 .. P * P * FileSize}

Init == SearchInit /\ SharedInit /\ PipeInit

-----------------------------------------------------------------------------
Main ==
    \/ (Fork \/ LoadNumber \/ StoreNumber \/ WaitChild) /\ UNCHANGED <<countVars, pipeVars>>
    \/ PrintCount /\ UNCHANGED pipeVars
    \/ (Collect \/ PrintSum) /\ UNCHANGED countVars

\* The signal handler of ask3.c and ask3final.c.
EndOfChild == end_of_child /\ UNCHANGED <<countVars, pipeVars>>

Interrupt == sigint_handler /\ UNCHANGED countVars

Child(c) ==
    \/ (OpenFile(c) \/ Signal(c) \/ ExitChild(c)) /\ UNCHANGED <<countVars, pipeVars>>
    \/ CountInMemory(c) /\ UNCHANGED pipeVars
    \/ (CountBytes(c) \/ WriteNumber(c)) /\ UNCHANGED countVars

ChildFails(c) == Fail(c) /\ UNCHANGED countVars

Next ==
    \/ Main
    \/ EndOfChild
    \/ Interrupt
    \/ \E c \in Children : Child(c) \/ ChildFails(c)

\* Each process is scheduled, and a pending signal is handled.  Nothing needs
\* to fail, nor Ctrl+C be typed.
Fairness ==
    /\ WF_vars(Main)
    /\ WF_vars(EndOfChild)
    /\ \A c \in Children : WF_vars(Child(c))

Spec == Init /\ [][Next]_vars /\ Fairness

-----------------------------------------------------------------------------
\* The matches in the part of its share that child c has read.
Seen(c) == {p \in matches : start_pos(c) <= p /\ p < offset[c] /\ pc[c] # "none"}

\* The children whose last match is not stored yet.
Unstored == {c \in Children : pc[c] \in {"wait", "load", "store"}}

\* In shared memory no match is counted twice, and none that was not read yet:
\* however the increments of the children fall on each other, they can only
\* lose (ask3final.c 64-84, 124-146).
NeverOvercounts ==
    program = "ask3final" =>
        /\ \A c, d \in Children : c # d => Seen(c) \cap Seen(d) = {}
        /\ shared_variable + Cardinality(Unstored)
               <= Cardinality(UNION {Seen(c) : c \in Children})

\* Every child has read its share to the end when main prints the total, and
\* the shares leave no byte of the file out (ask3final.c 125-146, 167-172).
AllRead ==
    program = "ask3final" /\ told # <<>> => UNION {Seen(c) : c \in Children} = matches

Searching == {c \in Children : pc[c] \notin {"none", "exit", "ended"}}

\* Ctrl+C never shows fewer processes than are still searching, whichever way
\* num_processes++ and the handler's num_processes-- interleave and however
\* many signals merge into one; except, in ask3.c, for the child that is forked
\* and not yet numbered (ask3final.c 44, 49, 133, 154; ask3.c 17, 102-104).
NumberNotUnderstated ==
    program # "first_ex_ex_3" =>
        Cardinality(Searching)
            <= num_processes
               + (IF program = "ask3" /\ mpc \in {"load", "store"} THEN 1 ELSE 0)

\* The total printed is the sum of what the children counted, each number taken
\* once.  With a descriptor per child that is the number of matches, although
\* the shares of the last children may reach beyond the end of the file or lie
\* there, and char_counter reads a byte before it looks for the end
\* (first_ex_ex_3.c 39-46, 89-104, 137-149; ask3.c 41-43, 148-158).
TotalIsExact ==
    program # "ask3final" /\ told # <<>> /\ failures = 0 =>
        /\ told = <<FoldFunction(+, 0, counted)>>
        /\ program = "first_ex_ex_3" => told = <<Cardinality(matches)>>

\* What a child of first_ex_ex_3.c has counted lies in its own share, whatever
\* fails: two children never count the same byte.
OwnShare ==
    program = "first_ex_ex_3" =>
        \A c \in Children :
            counted[c] <= Cardinality(matches \cap Share(start_pos(c), end_pos(c)))

\* main prints a total or is interrupted: nobody waits for ever for its own
\* semaphore, for the number of a child that wrote none (first_ex_ex_3.c
\* 138-139) or for a child that the others' seeks send back again and again
\* (ask3.c 33-43).
Returns == <>(told # <<>> \/ mpc = "interrupted")

\* "global semaphore visible to all processes" (ask3final.c:16), which guards
\* the count: the total printed is the number of matches.
TotalIsRight == told # <<>> => told = <<Cardinality(matches)>>
=============================================================================
