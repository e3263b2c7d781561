---------------------------- MODULE ExactCount ----------------------------
(* What a parallel character count promises: whoever counts, each offset of *)
(* the file is counted at most once, and the count is reported when each    *)
(* has been counted exactly once.                                           *)
EXTENDS Integers

CONSTANT Offsets    \* the offsets of the file

VARIABLES
    tally,   \* offset |-> how often it was counted
    result   \* <<>>, then the sequence of the one tally reported

vars == <<tally, result>>

Init ==
    /\ tally = [p \in Offsets |-> 0]
    /\ result = <<>>

\* The number of some worker is added: nothing it counts was counted before.
Add(S) ==
    /\ result = <<>>
    /\ \A p \in S : tally[p] = 0
    /\ tally' = [p \in Offsets |-> IF p \in S THEN 1 ELSE tally[p]]
    /\ UNCHANGED result

Report ==
    /\ result = <<>>
    /\ \A p \in Offsets : tally[p] = 1
    /\ result' = <<tally>>
    /\ UNCHANGED tally

Next == Report \/ \E S \in SUBSET Offsets : Add(S)

Spec == Init /\ [][Next]_vars
=============================================================================
