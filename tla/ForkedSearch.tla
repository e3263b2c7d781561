--------------------------- MODULE ForkedSearch ---------------------------
(* What the programs have in common in which main forks P children, each to *)
(* search a share of a file, and waits for them: first_ex_ex_3.c, ask3.c    *)
(* and ask3final.c.  A byte is a match or not.                              *)
EXTENDS FileShares, FiniteSets

CONSTANTS
    P,        \* child processes, 5 in the code
    Programs  \* the programs looked at

ASSUME ForkedAssumption ==
    /\ P \in Nat \ {0}
    /\ Programs \subseteq {"first_ex_ex_3", "ask3", "ask3final"}

VARIABLES
    program,        \* which of them runs
    matches,        \* the offsets of the character that is searched for
    pc,             \* child |-> where it is
    offset,         \* child |-> offset of the file description it reads
    mpc,            \* where main is
    i,              \* main's loop variable
    waited,         \* children main has waited for
    num_processes,  \* what Ctrl+C prints in ask3.c and ask3final.c
    pending,        \* SIGUSR1 is pending for main
    loaded,         \* num_processes as loaded by its ++ in main
    told            \* <<>>, then <<n>> once the total n is printed

inputVars == <<program, matches>>
childVars == <<pc, offset>>
mainVars == <<mpc, i, waited, told>>
numberVars == <<num_processes, pending, loaded>>
searchVars == <<inputVars, childVars, mainVars, numberVars>>

Children == 0 .. P - 1

\* file_size / P, rounded up.
segment_size == FileSize \div P + (IF FileSize % P # 0 THEN 1 ELSE 0)

\* The shares of the last children may be empty or lie beyond the end of the
\* file.
start_pos(c) == c * segment_size

\* Mutant: a share ends on the first byte of the next one.
end_pos_OneMore(c) == start_pos(c) + segment_size + 1

\* first_ex_ex_3.c lets the last share end where its segment does, too.
end_pos(c) ==
    IF c = P - 1 /\ program # "first_ex_ex_3" THEN FileSize
    ELSE start_pos(c) + segment_size

\* The children of ask3.c inherit main's descriptor and so its one offset, the
\* others open the file for themselves.
Description(c) == IF program = "ask3" THEN 0 ELSE c

SearchTypeOK ==
    /\ program \in Programs
    /\ matches \subseteq Bytes
    /\ pc \in [Children -> {"none", "open", "read", "check", "wait", "load", "store",
                            "post", "write", "signal", "exit", "ended"}]
    /\ offset \in [Children -> Nat]
    /\ mpc \in {"load", "store", "fork", "wait", "collect", "print", "interrupted",
                "done"}
    /\ i \in 0 .. P
    /\ waited \subseteq Children
    /\ num_processes \in -1 .. P
    /\ pending \in BOOLEAN
    /\ loaded \in -1 .. P

\* In ask3.c all bytes are matches: a count tells how many bytes were read.
SearchInit ==
    /\ program \in Programs
    /\ matches \in IF program = "ask3" THEN {Bytes} ELSE SUBSET Bytes
    /\ pc = [c \in Children |-> "none"]
    /\ offset = [c \in Children |-> 0]
    /\ mpc = IF program = "ask3final" THEN "load" ELSE "fork"
    /\ i = 0
    /\ waited = {}
    /\ num_processes = 0
    /\ pending = FALSE
    /\ loaded = 0
    /\ told = <<>>

-----------------------------------------------------------------------------
\* Where main's loop goes when n children are forked and numbered.
NextTurn(n) ==
    IF n = P THEN "wait" ELSE IF program = "ask3final" THEN "load" ELSE "fork"

Fork ==
    /\ mpc = "fork"
    /\ pc' = [pc EXCEPT ![i] = "open"]
    /\ i' = i + 1
    /\ mpc' = IF program = "ask3" THEN "load" ELSE NextTurn(i + 1)
    /\ UNCHANGED <<inputVars, offset, waited, told, numberVars>>

\* num_processes++ in main, before the fork in ask3final.c and after it in
\* ask3.c; the SIGUSR1 handler may interrupt it.
LoadNumber ==
    /\ mpc = "load"
    /\ loaded' = num_processes
    /\ mpc' = "store"
    /\ UNCHANGED <<inputVars, childVars, i, waited, told, num_processes, pending>>

StoreNumber ==
    /\ mpc = "store"
    /\ num_processes' = loaded + 1
    /\ mpc' = IF program = "ask3final" THEN "fork" ELSE NextTurn(i)
    /\ UNCHANGED <<inputVars, childVars, i, waited, told, pending, loaded>>

\* Mutant: main waits for one child too few.
WaitChild_OneLess ==
    /\ mpc = "wait"
    /\ \E c \in Children \ waited : pc[c] = "ended" /\ waited' = waited \cup {c}
    /\ mpc' = IF Cardinality(waited') < P - 1 THEN "wait"
              ELSE IF program = "ask3final" THEN "print" ELSE "collect"
    /\ i' = 0
    /\ UNCHANGED <<inputVars, childVars, told, numberVars>>

\* wait() for any child, until all have ended.
WaitChild ==
    /\ mpc = "wait"
    /\ \E c \in Children \ waited : pc[c] = "ended" /\ waited' = waited \cup {c}
    /\ mpc' = IF Cardinality(waited') < P THEN "wait"
              ELSE IF program = "ask3final" THEN "print" ELSE "collect"
    /\ i' = 0
    /\ UNCHANGED <<inputVars, childVars, told, numberVars>>

\* Mutant: the handler also counts the process that main is.
end_of_child_Twice ==
    /\ pending
    /\ mpc # "done"
    /\ pending' = FALSE
    /\ num_processes' = num_processes - 2
    /\ UNCHANGED <<inputVars, childVars, mainVars, loaded>>

\* end_of_child handles SIGUSR1, which does not queue.
end_of_child ==
    /\ pending
    /\ mpc # "done"
    /\ pending' = FALSE
    /\ num_processes' = num_processes - 1
    /\ UNCHANGED <<inputVars, childVars, mainVars, loaded>>

\* A step of child c's own, on to `next`.
Goes(c, from, next) == pc[c] = from /\ pc' = [pc EXCEPT ![c] = next]

\* The child seeks to its share, in a description of its own or in the one it
\* has inherited.
OpenFile(c) ==
    /\ Goes(c, "open", "read")
    /\ offset' = [offset EXCEPT ![Description(c)] = start_pos(c)]
    /\ UNCHANGED <<inputVars, mainVars, numberVars>>

\* Mutant: the child reports its end when it has opened the file.
Signal_Early(c) ==
    /\ program # "first_ex_ex_3"
    /\ Goes(c, "signal", "exit") \/ Goes(c, "open", "open")
    /\ pending' = TRUE
    /\ UNCHANGED <<inputVars, offset, mainVars, num_processes, loaded>>

\* SIGUSR1 to main.
Signal(c) ==
    /\ Goes(c, "signal", "exit")
    /\ pending' = TRUE
    /\ UNCHANGED <<inputVars, offset, mainVars, num_processes, loaded>>

ExitChild(c) ==
    /\ Goes(c, "exit", "ended")
    /\ UNCHANGED <<inputVars, offset, mainVars, numberVars>>
=============================================================================
