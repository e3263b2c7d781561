------------------------- MODULE CharCounterProofs -------------------------
(* Proofs that a worker reads exactly what the dispatcher's model takes it  *)
(* to read, for files and shares of any size.                               *)
EXTENDS CharCounter, TLAPS

From == shares[turn][1]
To == shares[turn][2]

\* What was counted for earlier shares, and for the one being scanned.
Before(p) == IF turn = 2 THEN Reads(1, p) ELSE 0
Sofar(p) ==
    IF pc = "open" THEN 0
    ELSE IF pc \in {"read", "check"}
    THEN (IF p \in ScanShare(From, To) /\ p < offset THEN 1 ELSE 0)
    ELSE Reads(turn, p)

\* The offset stays within the share, one past its end at most; an empty share
\* lets it advance by one byte all the same.
OffsetInShare ==
    /\ pc = "read" => From <= offset /\ (offset = From \/ offset < To)
    /\ pc = "check" => From < offset /\ (offset = From + 1 \/ offset <= To)

TurnOK == /\ turn <= Len(shares)
          /\ pc \in {"write", "exit"} => turn = Len(shares)

ScanInv ==
    /\ TypeOK
    /\ TurnOK
    /\ OffsetInShare
    /\ \A p \in Bytes : counter[p] = Before(p) + Sofar(p)

\* The shares of a worker are one or two pairs of offsets.
LEMMA OrdersShape ==
    ASSUME shares \in Orders
    PROVE  /\ Len(shares) \in {1, 2} /\ Len(shares) \in Int
           /\ \A n \in 1 .. Len(shares) : /\ shares[n] \in Shares
                                          /\ shares[n][1] \in Offsets
                                          /\ shares[n][2] \in Offsets
  BY DEF Orders, Shares

\* A share that is not empty is read as it is meant; this is where what the
\* dispatcher hands out and what a worker reads agree.
THEOREM ScanIsShare ==
    ASSUME NEW from \in Int, NEW to \in Int, from < to
    PROVE  ScanShare(from, to) = Share(from, to)
  BY FileSizeAssumption DEF ScanShare, Share, Bytes

LEMMA ScanInit == Init => ScanInv
  <1> SUFFICES ASSUME Init PROVE ScanInv
    OBVIOUS
  <1>1. TypeOK
    BY FileSizeAssumption DEF Init, TypeOK, Offsets
  <1>2. TurnOK /\ OffsetInShare
    BY OrdersShape DEF Init, TurnOK, OffsetInShare
  <1>3. \A p \in Bytes : counter[p] = Before(p) + Sofar(p)
    BY DEF Init, Before, Sofar
  <1>4. QED
    BY <1>1, <1>2, <1>3 DEF ScanInv

\* One step per action of the worker.
LEMMA ScanStep == ScanInv /\ [Next]_vars => ScanInv'
  <1> SUFFICES ASSUME ScanInv, [Next]_vars PROVE ScanInv'
    OBVIOUS
  <1> USE FileSizeAssumption
  <1>0. /\ Len(shares) \in Int /\ 1 <= Len(shares) /\ Len(shares) <= 2
        /\ turn \in {1, 2} /\ turn <= Len(shares)
        /\ From \in Offsets /\ To \in Offsets
    BY OrdersShape DEF ScanInv, TypeOK, TurnOK, From, To
  <1>1. CASE Open
    <2>1. TypeOK' /\ TurnOK' /\ OffsetInShare'
      BY <1>0, <1>1 DEF Open, ScanInv, TypeOK, TurnOK, OffsetInShare, From, To,
                        Offsets
    <2>2. ASSUME NEW p \in Bytes
          PROVE  Sofar(p)' = 0 /\ Before(p)' = Before(p) /\ Sofar(p) = 0
      BY <1>0, <1>1 DEF Open, Sofar, Before, Reads, ScanShare, From, To, Offsets,
                        Bytes
    <2>3. QED
      BY <1>1, <2>1, <2>2 DEF ScanInv, Open
  <1>2. CASE ReadByte
    <2>1. offset \in Bytes /\ Sofar(offset) = 0
      BY <1>0, <1>2 DEF ReadByte, ScanInv, TypeOK, Offsets, Bytes, Sofar
    <2>2. counter[offset] \in 0 .. 1
      BY <2>1 DEF ScanInv, Before, Reads
    <2>3. TypeOK' /\ TurnOK' /\ OffsetInShare'
      BY <1>0, <1>2, <2>1, <2>2
         DEF ReadByte, ScanInv, TypeOK, TurnOK, OffsetInShare, From, To, Offsets,
             Bytes
    <2>4. ASSUME NEW p \in Bytes
          PROVE  counter'[p] = Before(p)' + Sofar(p)'
      <3>1. Before(p)' = Before(p)
        BY <1>2 DEF ReadByte, Before, Reads
      <3>2. counter'[p] = counter[p] + (IF p = offset THEN 1 ELSE 0)
        BY <1>2, <2>1 DEF ReadByte, ScanInv, TypeOK, Bytes
      <3>3. Sofar(p)' = Sofar(p) + (IF p = offset THEN 1 ELSE 0)
        BY <1>0, <1>2 DEF ReadByte, ScanInv, TypeOK, OffsetInShare, Sofar, From,
                          To, ScanShare, Bytes, Offsets
      <3>4. counter[p] = Before(p) + Sofar(p) /\ Before(p) \in Int /\ Sofar(p) \in Int
        BY DEF ScanInv, Before, Sofar, Reads
      <3>5. QED
        BY <3>1, <3>2, <3>3, <3>4
    <2>5. QED
      BY <2>3, <2>4 DEF ScanInv
  <1>3. CASE ReadEof \/ (CheckEnd /\ offset >= To)
    <2>1. ASSUME NEW p \in Bytes PROVE Sofar(p) = Reads(turn, p)
      BY <1>0, <1>3 DEF ReadEof, CheckEnd, ScanInv, TypeOK, OffsetInShare, Sofar,
                        From, To, ScanShare, Bytes, Offsets, Reads
    <2>2. NextShare /\ UNCHANGED <<shares, offset, counter>>
      BY <1>3 DEF ReadEof, CheckEnd, To
    <2>3. CASE turn < Len(shares)
      <3>1. TypeOK' /\ TurnOK' /\ OffsetInShare'
        BY <1>0, <2>2, <2>3 DEF NextShare, ScanInv, TypeOK, TurnOK, OffsetInShare
      <3>2. ASSUME NEW p \in Bytes
            PROVE  Before(p)' = Reads(1, p) /\ Sofar(p)' = 0 /\ Before(p) = 0
        BY <1>0, <2>2, <2>3 DEF NextShare, Before, Sofar, Reads
      <3>3. turn = 1
        BY <1>0, <2>3
      <3>4. QED
        BY <2>1, <2>2, <3>1, <3>2, <3>3 DEF ScanInv, Reads
    <2>4. CASE ~ (turn < Len(shares))
      <3>1. TypeOK' /\ TurnOK' /\ OffsetInShare'
        BY <1>0, <2>2, <2>4 DEF NextShare, ScanInv, TypeOK, TurnOK, OffsetInShare
      <3>2. ASSUME NEW p \in Bytes
            PROVE  Before(p)' = Before(p) /\ Sofar(p)' = Reads(turn, p)
        BY <1>0, <2>2, <2>4 DEF NextShare, Before, Sofar, Reads
      <3>3. QED
        BY <2>1, <2>2, <3>1, <3>2 DEF ScanInv
    <2>5. QED
      BY <2>3, <2>4
  <1>4. CASE CheckEnd /\ ~ (offset >= To)
    <2>1. TypeOK' /\ TurnOK' /\ OffsetInShare'
      BY <1>0, <1>4 DEF CheckEnd, ScanInv, TypeOK, TurnOK, OffsetInShare, From, To,
                        Offsets
    <2>2. ASSUME NEW p \in Bytes
          PROVE  Before(p)' = Before(p) /\ Sofar(p)' = Sofar(p)
      BY <1>4 DEF CheckEnd, Before, Sofar, Reads, From, To
    <2>3. QED
      BY <1>4, <2>1, <2>2 DEF ScanInv, CheckEnd
  <1>5. CASE WriteCount
    <2>1. TypeOK' /\ TurnOK' /\ OffsetInShare'
      BY <1>5 DEF WriteCount, ScanInv, TypeOK, TurnOK, OffsetInShare
    <2>2. ASSUME NEW p \in Bytes
          PROVE  Before(p)' = Before(p) /\ Sofar(p)' = Sofar(p)
      BY <1>5 DEF WriteCount, Before, Sofar, Reads
    <2>3. QED
      BY <1>5, <2>1, <2>2 DEF ScanInv, WriteCount
  <1>6. CASE Exited \/ UNCHANGED vars
    <2>1. TypeOK' /\ TurnOK' /\ OffsetInShare'
      BY <1>6 DEF Exited, vars, ScanInv, TypeOK, TurnOK, OffsetInShare, From, To
    <2>2. ASSUME NEW p \in Bytes
          PROVE  Before(p)' = Before(p) /\ Sofar(p)' = Sofar(p)
      BY <1>6 DEF Exited, vars, Before, Sofar, Reads, From, To
    <2>3. QED
      BY <1>6, <2>1, <2>2 DEF ScanInv, Exited, vars
  <1>7. QED
    BY <1>1, <1>2, <1>3, <1>4, <1>5, <1>6, Zenon DEF Next

\* Type correctness: in particular the offset never leaves the file and no byte
\* is read more than twice (worker.c 32-38).
THEOREM TypeCorrect == Spec => []TypeOK
  <1>1. ScanInv => TypeOK
    BY DEF ScanInv
  <1>2. QED
    BY <1>1, ScanInit, ScanStep, PTL DEF Spec

\* A worker that has finished its scans has read what ScanShare says, for one
\* share or two (worker.c 57-64).
THEOREM WorkerReadsItsShares == Spec => []ReadsItsShares
  <1>1. ScanInv => ReadsItsShares
    BY OrdersShape DEF ScanInv, TypeOK, TurnOK, ReadsItsShares, Before, Sofar, Reads
  <1>2. QED
    BY <1>1, ScanInit, ScanStep, PTL DEF Spec
=============================================================================
