-------------------------- MODULE CharCountResize --------------------------
(* The program with a user who changes the size of the crew and asks for    *)
(* progress or info, but terminates no worker and types no nonsense.  Here  *)
(* the shares and the crew stay consistent, and the count is exact.         *)
EXTENDS CharCount

ASSUME ResizeAssumption ==
    /\ Verbs \subseteq {"increase", "decrease", "progress", "info"}
    /\ Amounts \subseteq Nat \ {0}

Launched == {i \in Slots : i < current_worker}

ShareOf(i) == Share(workers[i].workerstart, workers[i].workerend)

\* The shares handed out cover the file from its beginning up to start,
\* without gap or overlap, however the crew was resized in between
\* (dispatcher.c 54-104, 366-381, 430-433).
SharesTile ==
    \A p \in Bytes :
        IF p < start
        THEN \E i \in Launched :
                /\ p \in ShareOf(i)
                /\ \A j \in Launched \ {i} : p \notin ShareOf(j)
        ELSE \A i \in Launched : p \notin ShareOf(i)

\* The two counters that every resize changes stay in step with the launches,
\* the table is never overrun, and while there is work to hand out there is a
\* worker to hand it to: neither division by remaining_workers is by zero.
CrewAccounted ==
    /\ remaining_workers = total_current_workers - current_worker
    /\ 0 <= remaining_workers
    /\ total_current_workers < MostWorkers
    /\ start < FileSize => remaining_workers >= 1
    /\ dpc \notin {"crashed", "overrun", "killedAll"}

\* When none of the workers launched is still searching, progress says that
\* all they were given was examined, and each byte of it has been counted once;
\* while some are, it may say more than was counted (dispatcher.c 128-138).
ProgressSettles ==
    (\A i \in Launched : workers[i].active = 0) =>
        /\ Examined = start
        /\ \A p \in Bytes : count[p] = IF p < start THEN 1 ELSE 0

\* A user who asks to leave before the count is written is shown the total
\* (front_end.c 22-33, 140-143); unless the crew was made larger than the number
\* of shares there were left to hand out, and the dispatcher waits for workers it
\* never starts (dispatcher.c 444).
QuitGetsTotal ==
    (fpc = "exiting" /\ reported = <<>>) ~>
        \/ printed = "total"
        \/ dpc = "drain" /\ total_current_workers > current_worker

\* Every byte is counted once and the count reported is the whole file's
\* (dispatcher.c 285-290, 444-447), as long as no share is empty.
Exact == INSTANCE ExactCount
           WITH Offsets <- Bytes, tally <- count, result <- reported
CountIsExact == Exact!Spec
=============================================================================
