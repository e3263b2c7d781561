---------------------------- MODULE FileShares ----------------------------
(* A file and the shares of it that workers are given: the offsets a share  *)
(* is meant to cover, and the ones worker.c:char_counter really reads.      *)
EXTENDS Integers

CONSTANT FileSize       \* bytes in the file being searched

ASSUME FileSizeAssumption == FileSize \in Nat

\* The offsets of the file.
Bytes == 0 .. FileSize - 1

\* The share [from, to), as dispatcher.c means it.
Share(from, to) == {p \in Bytes : from <= p /\ p < to}

\* The offsets char_counter reads when told to search [from, to): it looks
\* for the end of the share only after it has read a byte, so the first byte
\* is read whatever the end is.
ScanShare(from, to) == {p \in Bytes : p = from \/ (from < p /\ p < to)}

\* C's division truncates; \div rounds down.
CDiv(a, b) == IF (a >= 0 /\ b > 0) \/ (a <= 0 /\ b < 0)
              THEN (IF a < 0 THEN -a ELSE a) \div (IF b < 0 THEN -b ELSE b)
              ELSE -((IF a < 0 THEN -a ELSE a) \div (IF b < 0 THEN -b ELSE b))
=============================================================================
