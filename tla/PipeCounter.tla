---------------------------- MODULE PipeCounter ----------------------------
(* The counting of first_ex_ex_3.c and ask3.c: each child counts for itself *)
(* and writes its number to a pipe of its own; main reads the numbers when  *)
(* all children have ended.                                                 *)
EXTENDS ForkedSearch, Sequences

CONSTANT MaxFailures    \* bound: opens and reads of children that fail

ASSUME MaxFailuresAssumption == MaxFailures \in Nat

VARIABLES
    counted,   \* child |-> its own count
    pipes,     \* child |-> what is in its pipe
    received,  \* main's received_char_count, uninitialised at first
    total,     \* total_count
    failures   \* opens and reads that failed so far

collectVars == <<received, total>>
pipeVars == <<counted, pipes, collectVars, failures>>

\* What a child may count: its segment, and in ask3.c what the seeks of the
\* others make it read again.
MostCounted == IF program = "ask3" THEN P * FileSize ELSE segment_size

PipeTypeOK ==
    /\ counted \in [Children -> 0 .. MostCounted]
    /\ \A c \in Children : pipes[c] \in {<<>>} \cup {<<n>> : n \in 0 .. MostCounted}
    /\ received \in 0 .. P * FileSize
    /\ total \in 0 .. P * P * FileSize
    /\ failures \in 0 .. MaxFailures

PipeInit ==
    /\ counted = [c \in Children |-> 0]
    /\ pipes = [c \in Children |-> <<>>]
    /\ received \in IF program = "first_ex_ex_3" THEN {0, FileSize} ELSE {0}
    /\ total = 0
    /\ failures = 0

-----------------------------------------------------------------------------
\* One byte is read; the end of the share is looked at after it.
ReadByte(c) ==
    /\ offset[Description(c)] < FileSize
    /\ Goes(c, "read", "check")
    /\ counted' = [counted EXCEPT
                       ![c] = IF offset[Description(c)] \in matches THEN @ + 1 ELSE @]
    /\ offset' = [offset EXCEPT ![Description(c)] = @ + 1]

ReadEof(c) ==
    /\ offset[Description(c)] >= FileSize
    /\ Goes(c, "read", "write")
    /\ UNCHANGED <<offset, counted>>

\* Mutant: the byte at the end of the share is read as well.
CheckEnd_OneMore(c) ==
    /\ Goes(c, "check", IF offset[Description(c)] > end_pos(c) THEN "write" ELSE "read")
    /\ UNCHANGED <<offset, counted>>

CheckEnd(c) ==
    /\ Goes(c, "check", IF offset[Description(c)] >= end_pos(c) THEN "write" ELSE "read")
    /\ UNCHANGED <<offset, counted>>

CountBytes(c) ==
    /\ program # "ask3final"
    /\ ReadByte(c) \/ ReadEof(c) \/ CheckEnd(c)
    /\ UNCHANGED <<inputVars, mainVars, numberVars, pipes, collectVars, failures>>

\* The file cannot be opened: exit(1), and nothing is written.
OpenFails(c) == program = "first_ex_ex_3" /\ Goes(c, "open", "ended")

\* read fails.  rcnt holds the outcome of the comparison, never -1, so that the
\* loop ends as at the end of the file.
ReadFails(c) == program # "ask3final" /\ Goes(c, "read", "write")

Fail(c) ==
    /\ failures < MaxFailures
    /\ OpenFails(c) \/ ReadFails(c)
    /\ failures' = failures + 1
    /\ UNCHANGED <<inputVars, offset, mainVars, numberVars, counted, pipes, collectVars>>

\* Mutant: the number goes to the pipe of the first child.
WriteNumber_First(c) ==
    /\ Goes(c, "write", IF program = "ask3" THEN "signal" ELSE "exit")
    /\ pipes' = [pipes EXCEPT ![0] = <<counted[c]>>]
    /\ UNCHANGED <<inputVars, offset, mainVars, numberVars, counted, collectVars,
                   failures>>

\* The children of ask3.c signal main after they have written.
WriteNumber(c) ==
    /\ Goes(c, "write", IF program = "ask3" THEN "signal" ELSE "exit")
    /\ pipes' = [pipes EXCEPT ![c] = <<counted[c]>>]
    /\ UNCHANGED <<inputVars, offset, mainVars, numberVars, counted, collectVars,
                   failures>>

-----------------------------------------------------------------------------
\* Mutant: main keeps its own write end open while it reads.
HasWriter_Main == TRUE

\* When main has closed its write end of a pipe, the children that run hold the
\* others: fork has given each child all the pipes.
HasWriter == \E d \in Children : pc[d] \notin {"none", "ended"}

\* main reads the next number and adds it.  From a pipe that is empty and has
\* no writer, read returns 0 and leaves received as it was.
Collect ==
    /\ mpc = "collect"
    /\ pipes[i] # <<>> \/ ~HasWriter
    /\ received' = IF pipes[i] # <<>> THEN Head(pipes[i]) ELSE received
    /\ pipes' = [pipes EXCEPT ![i] = <<>>]
    /\ total' = total + received'
    /\ i' = i + 1
    /\ mpc' = IF i + 1 < P THEN mpc ELSE "print"
    /\ UNCHANGED <<inputVars, childVars, waited, told, numberVars, counted, failures>>

PrintSum ==
    /\ program # "ask3final"
    /\ mpc = "print"
    /\ told' = <<total>>
    /\ mpc' = "done"
    /\ UNCHANGED <<inputVars, childVars, i, waited, numberVars, pipeVars>>

\* Ctrl+C reaches main of first_ex_ex_3.c and its children, which have inherited
\* the handler, and each exits.
sigint_handler ==
    /\ program = "first_ex_ex_3"
    /\ mpc \notin {"done", "interrupted"}
    /\ mpc' = "interrupted"
    /\ pc' = [c \in Children |-> IF pc[c] = "none" THEN "none" ELSE "ended"]
    /\ UNCHANGED <<inputVars, offset, i, waited, told, numberVars, pipeVars>>
=============================================================================
