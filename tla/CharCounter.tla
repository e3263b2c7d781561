---------------------------- MODULE CharCounter ----------------------------
(* One worker process (worker.c): it scans its share byte by byte, then, if *)
(* it was given the share of a killed worker too, that one, writes one      *)
(* number to its pipe and exits.  A byte is a match or not; keeping, for    *)
(* each offset, how often it was read stands for the number of matches in a *)
(* file of any contents.                                                    *)
EXTENDS FileShares, Sequences

VARIABLES
    shares,   \* <<argv[3], argv[4]>> and, if present, <<argv[5], argv[6]>>
    turn,     \* which of the two shares is being scanned
    offset,   \* file offset of the descriptor char_counter opened
    counter,  \* offset |-> times it was read; main's counter + counter2
    pc        \* "open", "read", "check", "write", "exit"

vars == <<shares, turn, offset, counter, pc>>

\* Shares the dispatcher can hand out: offsets of the file, end included.
Offsets == 0 .. FileSize
Shares == Offsets \X Offsets

Orders == {<<s>> : s \in Shares} \cup (Shares \X Shares)

TypeOK ==
    /\ shares \in Orders
    /\ turn \in {1, 2}
    /\ offset \in Offsets
    /\ counter \in [Bytes -> 0 .. 2]
    /\ pc \in {"open", "read", "check", "write", "exit"}

Init ==
    /\ shares \in Orders
    /\ turn = 1
    /\ offset = 0
    /\ counter = [p \in Bytes |-> 0]
    /\ pc = "open"

\* open and lseek to the start of the share.
Open ==
    /\ pc = "open"
    /\ offset' = shares[turn][1]
    /\ pc' = "read"
    /\ UNCHANGED <<shares, turn, counter>>

\* main goes on: the second share if there is one and it is still to do.
NextShare ==
    IF turn < Len(shares)
    THEN turn' = turn + 1 /\ pc' = "open"
    ELSE turn' = turn /\ pc' = "write"

\* Mutant: the 0 that read returns at the end of the file is not looked at.
ReadByte_IgnoresEof ==
    /\ pc = "read"
    /\ counter' = [p \in Bytes |-> IF p = offset THEN counter[p] + 1 ELSE counter[p]]
    /\ offset' = offset + 1
    /\ pc' = "check"
    /\ UNCHANGED <<shares, turn>>

\* read() one byte; at the end of the file it returns 0 and the loop ends.
ReadByte ==
    /\ pc = "read"
    /\ offset < FileSize
    /\ counter' = [counter EXCEPT ![offset] = @ + 1]
    /\ offset' = offset + 1
    /\ pc' = "check"
    /\ UNCHANGED <<shares, turn>>

\* Mutant: read is tried again when it returns 0.
ReadEof_Retries ==
    /\ pc = "read"
    /\ offset >= FileSize
    /\ UNCHANGED vars

ReadEof ==
    /\ pc = "read"
    /\ offset >= FileSize
    /\ NextShare
    /\ UNCHANGED <<shares, offset, counter>>

\* Mutant: the offset is compared with > instead of >=.
CheckEnd_OffByOne ==
    /\ pc = "check"
    /\ IF offset > shares[turn][2]
       THEN NextShare
       ELSE turn' = turn /\ pc' = "read"
    /\ UNCHANGED <<shares, offset, counter>>

\* The end of the share is looked at after the byte was read and counted.
CheckEnd ==
    /\ pc = "check"
    /\ IF offset >= shares[turn][2]
       THEN NextShare
       ELSE turn' = turn /\ pc' = "read"
    /\ UNCHANGED <<shares, offset, counter>>

\* The number goes to the pipe, and the process ends.
WriteCount ==
    /\ pc = "write"
    /\ pc' = "exit"
    /\ UNCHANGED <<shares, turn, offset, counter>>

Exited == pc = "exit" /\ UNCHANGED vars

Next == Open \/ ReadByte \/ ReadEof \/ CheckEnd \/ WriteCount \/ Exited

Spec == Init /\ [][Next]_vars /\ WF_vars(Next)

-----------------------------------------------------------------------------
\* What the dispatcher's model takes a worker to have read: 1 if offset p is
\* read for share n, 0 if not or if there is no such share.
Reads(n, p) ==
    IF n <= Len(shares) /\ p \in ScanShare(shares[n][1], shares[n][2]) THEN 1 ELSE 0

\* The number a worker writes counts each offset as often as it belongs to one
\* of the shares the worker was given (worker.c 32-38, 57-64).
ReadsItsShares ==
    pc \in {"write", "exit"} =>
        \A p \in Bytes : counter[p] = Reads(1, p) + Reads(2, p)

\* The scan ends: the offset cannot step over the end of the share.
Exits == <>(pc = "exit")
=============================================================================
