------------------------ MODULE ForkedCountersProofs ------------------------
(* Proofs about the programs whose main forks children to search shares of   *)
(* a file, for a file of any size and any number of children: first the      *)
(* shares, then who runs and what Ctrl+C would print, then the counts in     *)
(* shared memory and the counts in pipes.                                    *)
EXTENDS ForkedCounters, FiniteSetTheorems, WellFoundedInduction, TLAPS

-----------------------------------------------------------------------------
(* The shares.                                                               *)

\* Quotient and remainder.
LEMMA DivMod ==
    ASSUME NEW a \in Nat, NEW n \in Nat \ {0}
    PROVE  \E q \in Nat, r \in 0 .. n - 1 : q = a \div n /\ r = a % n /\ a = n * q + r
  <1>1. a % n \in 0 .. n - 1 /\ a \div n \in Nat
    OBVIOUS
  <1>2. a = (a % n) + (a \div n) * n
    OBVIOUS
  <1>3. PICK q \in Nat, r \in 0 .. n - 1 : q = a \div n /\ r = a % n
    BY <1>1
  <1>4. a = r + q * n
    BY <1>2, <1>3
  <1>5. q * n = n * q /\ n * q \in Nat
    OBVIOUS
  <1>6. a = n * q + r
    BY <1>4, <1>5
  <1>7. QED
    BY <1>3, <1>6

\* The segments, all of one size, reach to the end of the file.
LEMMA SegmentSize ==
    /\ segment_size \in Nat /\ P * segment_size >= FileSize
    /\ FileSize = 0 => segment_size = 0
    /\ FileSize > 0 => 0 < segment_size /\ segment_size <= FileSize
  <1>1. PICK n \in Nat \ {0} : n = P
    BY ForkedAssumption
  <1>2. PICK f \in Nat : f = FileSize
    BY FileSizeAssumption
  <1>3. PICK q \in Nat, r \in 0 .. n - 1 : q = f \div n /\ r = f % n /\ f = n * q + r
    BY DivMod
  <1>5. segment_size = q + (IF r # 0 THEN 1 ELSE 0)
    BY <1>1, <1>2, <1>3 DEF segment_size
  <1>6. n * q \in Nat /\ n * (q + 1) = n * q + n /\ q <= n * q
    <2>1. n * q \in Nat /\ n * (q + 1) = n * q + n
      OBVIOUS
    <2>2. PICK m \in Nat : n = m + 1
      <3>1. n - 1 \in Nat /\ n = (n - 1) + 1
        OBVIOUS
      <3>2. QED
        BY <3>1
    <2>3. n * q = m * q + q /\ m * q \in Nat
      BY <2>2
    <2>4. QED
      BY <2>1, <2>3
  <1>7. CASE r = 0
    <2>1. segment_size = q /\ f = n * q
      BY <1>3, <1>5, <1>6, <1>7
    <2>2. q = 0 => n * q = 0
      OBVIOUS
    <2>3. QED
      BY <1>1, <1>2, <1>6, <2>1, <2>2
  <1>8. CASE r # 0
    <2>1. segment_size = q + 1 /\ f = n * q + r /\ r > 0
      BY <1>3, <1>5, <1>8
    <2>2. P * segment_size = n * q + n
      BY <1>1, <1>6, <2>1
    <2>3. QED
      BY <1>1, <1>2, <1>6, <2>1, <2>2
  <1>9. QED
    BY <1>7, <1>8

\* A segment begins where the one before it ends.
LEMMA StartPos ==
    ASSUME NEW c \in 0 .. P
    PROVE  /\ start_pos(c) \in Nat
           /\ start_pos(c + 1) = start_pos(c) + segment_size
           /\ start_pos(0) = 0 /\ start_pos(P) >= FileSize
  <1>1. PICK s \in Nat : s = segment_size
    BY SegmentSize
  <1>2. c \in Nat /\ c * s \in Nat /\ (c + 1) * s = c * s + s /\ 0 * s = 0
    BY ForkedAssumption
  <1>3. QED
    BY <1>1, <1>2, SegmentSize DEF start_pos

LEMMA SegmentsApart ==
    ASSUME NEW c \in Children, NEW d \in Children, c < d
    PROVE  start_pos(c) + segment_size <= start_pos(d)
  <1>1. PICK s \in Nat : s = segment_size
    BY SegmentSize
  <1>2. PICK m \in Nat : d = c + 1 + m
    <2>1. c \in Nat /\ d \in Nat /\ d - c - 1 \in Nat /\ d = c + 1 + (d - c - 1)
      BY DEF Children
    <2>2. QED
      BY <2>1
  <1>3. c \in Nat /\ c * s \in Nat /\ m * s \in Nat
    BY DEF Children
  <1>4. d * s = c * s + s + m * s
    BY <1>2, <1>3
  <1>5. QED
    BY <1>1, <1>3, <1>4 DEF start_pos

\* No share reaches beyond its segment.
LEMMA EndPos ==
    ASSUME NEW c \in Children
    PROVE  /\ start_pos(c) \in Nat /\ end_pos(c) \in Nat
           /\ end_pos(c) <= start_pos(c) + segment_size
           /\ end_pos(c) = start_pos(c) + segment_size \/ end_pos(c) = FileSize
  <1>1. /\ c \in 0 .. P /\ P \in Nat /\ start_pos(c) \in Nat
        /\ segment_size \in Nat /\ FileSize \in Nat
    BY ForkedAssumption, FileSizeAssumption, StartPos, SegmentSize DEF Children
  <1>2. CASE c = P - 1
    <2>1. c + 1 = P
      BY <1>1, <1>2
    <2>2. start_pos(c) + segment_size >= FileSize
      BY <1>1, <2>1, StartPos
    <2>3. QED
      BY <1>1, <2>2 DEF end_pos
  <1>3. CASE c # P - 1
    BY <1>1, <1>3 DEF end_pos
  <1>4. QED
    BY <1>2, <1>3

\* Every byte of the file lies in some segment.
LEMMA SegmentsCover ==
    ASSUME NEW p \in Bytes
    PROVE  \E c \in Children : start_pos(c) <= p /\ p < start_pos(c) + segment_size
  <1>1. PICK s \in Nat \ {0} : s = segment_size
    BY SegmentSize, FileSizeAssumption DEF Bytes
  <1>2. p \in Nat /\ p < P * s
    BY <1>1, SegmentSize, FileSizeAssumption, ForkedAssumption DEF Bytes
  <1>3. PICK q \in Nat, r \in 0 .. s - 1 : p = s * q + r
    BY <1>2, DivMod
  <1>4. q < P
    <2>1. SUFFICES ASSUME q >= P PROVE FALSE
      BY ForkedAssumption
    <2>2. PICK m \in Nat : q = P + m
      <3>1. q - P \in Nat /\ q = P + (q - P)
        BY <2>1, ForkedAssumption
      <3>2. QED
        BY <3>1
    <2>3. s * q = P * s + s * m /\ s * m \in Nat /\ P * s \in Nat
      BY <2>2, ForkedAssumption
    <2>4. QED
      BY <1>2, <1>3, <2>3
  <1>5. q \in Children /\ start_pos(q) = s * q
    BY <1>1, <1>4, ForkedAssumption DEF Children, start_pos
  <1>6. start_pos(q) <= p /\ p < start_pos(q) + segment_size
    BY <1>1, <1>3, <1>5
  <1>7. QED
    BY <1>5, <1>6

-----------------------------------------------------------------------------
(* Who runs, and where main is.                                              *)

ControlPoints ==
    {"none", "open", "read", "check", "wait", "load", "store", "post", "write",
     "signal", "exit", "ended"}

\* Which control points each of the programs has.
PointsOK ==
    /\ program = "ask3final" => /\ mpc \notin {"collect", "interrupted"}
                                /\ \A c \in Children : pc[c] \notin {"check", "write"}
    /\ program # "ask3final" =>
           \A c \in Children : pc[c] \notin {"wait", "load", "store", "post"}
    /\ program = "ask3" => mpc # "interrupted"
    /\ program = "first_ex_ex_3" => /\ mpc \notin {"load", "store"}
                                    /\ \A c \in Children : pc[c] # "signal"

\* The children from i on are still to be forked while main forks; those it has
\* waited for have ended, and it goes on when it has waited for all.
ParentOK ==
    /\ mpc = "fork" => i < P
    /\ mpc \in {"load", "store"} => IF program = "ask3final" THEN i < P ELSE i > 0
    /\ mpc \in {"fork", "load", "store"} => \A c \in Children : c >= i => pc[c] = "none"
    /\ \A c \in waited : pc[c] = "ended"
    /\ mpc \in {"collect", "print", "done"} => waited = Children
    /\ mpc = "collect" => i < P
    /\ told # <<>> => mpc = "done"

ControlOK ==
    /\ program \in Programs /\ matches \subseteq Bytes
    /\ pc \in [Children -> ControlPoints]
    /\ mpc \in {"load", "store", "fork", "wait", "collect", "print", "interrupted",
                "done"}
    /\ i \in 0 .. P /\ waited \subseteq Children
    /\ pending \in BOOLEAN
    /\ PointsOK /\ ParentOK

LEMMA ProgramCases ==
    ASSUME program \in Programs
    PROVE  program \in {"first_ex_ex_3", "ask3", "ask3final"}
  BY ForkedAssumption

LEMMA ControlInit == Init => ControlOK
  <1> SUFFICES ASSUME Init PROVE ControlOK
    OBVIOUS
  <1>1. /\ program \in Programs /\ i = 0 /\ waited = {} /\ pending = FALSE
        /\ told = <<>> /\ \A c \in Children : pc[c] = "none"
        /\ mpc = IF program = "ask3final" THEN "load" ELSE "fork"
        /\ P \in Nat \ {0}
    BY ForkedAssumption DEF Init, SearchInit
  <1>2. matches \subseteq Bytes
    BY DEF Init, SearchInit
  <1>3. pc \in [Children -> ControlPoints]
    BY DEF Init, SearchInit, ControlPoints
  <1>4. PointsOK
    BY <1>1 DEF PointsOK
  <1>5. ParentOK
    BY <1>1 DEF ParentOK
  <1>6. mpc \in {"load", "store", "fork", "wait", "collect", "print", "interrupted",
                "done"}
    BY <1>1
  <1>7. i \in 0 .. P /\ waited \subseteq Children
    BY <1>1
  <1>8. pending \in BOOLEAN
    BY <1>1
  <1>9. QED
    BY <1>1, <1>2, <1>3, <1>4, <1>5, <1>6, <1>7, <1>8 DEF ControlOK

\* A step of child c, from one control point to the next, as main's side and
\* Ctrl+C see it.
Moves(c, next) ==
    /\ pc' = [pc EXCEPT ![c] = next]
    /\ pc[c] \notin {"none", "ended"} /\ next \in ControlPoints \ {"none"}
    /\ program = "ask3final" => next \notin {"check", "write"}
    /\ program # "ask3final" => next \notin {"wait", "load", "store", "post"}
    /\ program = "first_ex_ex_3" => next # "signal"
    /\ IF pc[c] = "signal" THEN next = "exit" /\ pending' = TRUE ELSE pending' = pending
    /\ pc[c] = "exit" => next = "ended"
    /\ next \in {"exit", "ended"} =>
           pc[c] \in {"signal", "exit"} \/ program = "first_ex_ex_3"
    /\ UNCHANGED <<inputVars, mainVars, num_processes, loaded>>

LEMMA ChildMoves ==
    ASSUME ControlOK, NEW c \in Children, Child(c) \/ ChildFails(c)
    PROVE  \E next \in ControlPoints : Moves(c, next)
  <1>0. /\ program \in {"first_ex_ex_3", "ask3", "ask3final"}
        /\ pc[c] \in ControlPoints
        /\ program = "ask3final" => pc[c] \notin {"check", "write"}
        /\ program # "ask3final" => pc[c] \notin {"wait", "load", "store", "post"}
        /\ program = "first_ex_ex_3" => pc[c] # "signal"
    BY ProgramCases DEF ControlOK, PointsOK
  <1>1. ASSUME NEW from, NEW next \in ControlPoints, Goes(c, from, next),
               UNCHANGED <<inputVars, mainVars, num_processes, loaded>>,
               <<from, next>> \in {<<"open", "read">>, <<"exit", "ended">>},
               UNCHANGED pending
        PROVE  Moves(c, next)
    BY <1>0, <1>1 DEF Goes, Moves, ControlPoints
  <1>2. CASE OpenFile(c) \/ ExitChild(c)
    BY <1>1, <1>2 DEF OpenFile, ExitChild, ControlPoints, numberVars
  <1>3. CASE Signal(c)
    <2>1. Moves(c, "exit")
      BY <1>0, <1>3 DEF Signal, Goes, Moves, ControlPoints
    <2>2. QED
      BY <2>1 DEF ControlPoints
  <1>4. CASE CountInMemory(c)
    <2>1. /\ program = "ask3final"
          /\ UNCHANGED <<inputVars, mainVars, num_processes, loaded, pending>>
      BY <1>4 DEF CountInMemory, numberVars
    <2>2. ASSUME NEW from, NEW next, Goes(c, from, next),
                 <<from, next>> \in {<<"read", "wait">>, <<"read", "read">>,
                                     <<"read", "signal">>, <<"wait", "load">>,
                                     <<"load", "store">>, <<"store", "post">>,
                                     <<"post", "read">>}
          PROVE  \E n \in ControlPoints : Moves(c, n)
      <3>1. next \in ControlPoints
        BY <2>2 DEF ControlPoints
      <3>2. Moves(c, next)
        BY <1>0, <2>1, <2>2 DEF Goes, Moves, ControlPoints
      <3>3. QED
        BY <3>1, <3>2
    <2>3. QED
      BY <1>4, <2>2 DEF CountInMemory, ReadNext, EndShare, SemWait, LoadCount,
                        StoreCount, SemPost
  <1>5. CASE CountBytes(c) \/ WriteNumber(c) \/ ChildFails(c)
    <2>1. UNCHANGED <<inputVars, mainVars, num_processes, loaded, pending>>
      BY <1>5 DEF CountBytes, WriteNumber, ChildFails, Fail, numberVars
    <2>2. ASSUME NEW from, NEW next, Goes(c, from, next),
                 \/ /\ <<from, next>> \in {<<"read", "check">>, <<"read", "write">>,
                                           <<"check", "write">>, <<"check", "read">>}
                    /\ program # "ask3final"
                 \/ <<from, next>> = <<"write", "signal">> /\ program = "ask3"
                 \/ <<from, next>> = <<"write", "exit">> /\ program # "ask3"
                 \/ <<from, next>> = <<"open", "ended">> /\ program = "first_ex_ex_3"
          PROVE  \E n \in ControlPoints : Moves(c, n)
      <3>1. next \in ControlPoints
        BY <2>2 DEF ControlPoints
      <3>2. Moves(c, next)
        BY <1>0, <2>1, <2>2 DEF Goes, Moves, ControlPoints
      <3>3. QED
        BY <3>1, <3>2
    <2>3. CASE CountBytes(c)
      BY <2>2, <2>3 DEF CountBytes, ReadByte, ReadEof, CheckEnd
    <2>4. CASE WriteNumber(c)
      BY <2>2, <2>4 DEF WriteNumber
    <2>5. CASE ChildFails(c)
      BY <2>2, <2>5 DEF ChildFails, Fail, OpenFails, ReadFails
    <2>6. QED
      BY <1>5, <2>3, <2>4, <2>5
  <1>6. QED
    BY <1>2, <1>3, <1>4, <1>5 DEF Child

\* As many children as there are have been waited for: all have.
LEMMA AllAreWaitedFor ==
    ASSUME NEW W \in SUBSET Children, ~(Cardinality(W) < P)
    PROVE  W = Children
  <1>1. IsFiniteSet(Children) /\ Cardinality(Children) = P
    BY FS_Interval, ForkedAssumption DEF Children
  <1>2. IsFiniteSet(W) /\ Cardinality(W) <= Cardinality(Children)
    BY <1>1, FS_Subset
  <1>3. Cardinality(W) \in Nat /\ Cardinality(Children) \in Nat
    BY <1>1, <1>2, FS_CardinalityType
  <1>4. Cardinality(Children) = Cardinality(W)
    BY <1>1, <1>2, <1>3
  <1>5. QED
    BY <1>1, <1>4, FS_Subset

LEMMA ControlStep == ControlOK /\ [Next]_vars => ControlOK'
  <1> SUFFICES ASSUME ControlOK, [Next]_vars PROVE ControlOK'
    OBVIOUS
  <1> USE DEF inputVars, childVars, mainVars, numberVars
  <1>0. /\ program \in {"first_ex_ex_3", "ask3", "ask3final"} /\ P \in Nat \ {0}
        /\ program \in Programs /\ matches \subseteq Bytes
        /\ pc \in [Children -> ControlPoints]
        /\ i \in 0 .. P /\ waited \subseteq Children /\ pending \in BOOLEAN
        /\ PointsOK /\ ParentOK
    BY ProgramCases, ForkedAssumption DEF ControlOK
  <1>1. CASE Fork
    <2>1. /\ mpc = "fork" /\ i < P /\ i \in Children /\ i' = i + 1 /\ i' \in 0 .. P
          /\ \A c \in Children : c >= i => pc[c] = "none"
          /\ pc' = [pc EXCEPT ![i] = "open"]
          /\ UNCHANGED <<program, matches, waited, told, pending>>
      BY <1>0, <1>1 DEF Fork, ParentOK, Children
    <2>2. \A c \in Children : pc'[c] = IF c = i THEN "open" ELSE pc[c]
      BY <1>0, <2>1
    <2>3. mpc' = IF program = "ask3" THEN "load"
                 ELSE IF i + 1 = P THEN "wait"
                 ELSE IF program = "ask3final" THEN "load" ELSE "fork"
      BY <1>1 DEF Fork, NextTurn
    <2>4. PointsOK'
      BY <1>0, <2>1, <2>2, <2>3 DEF PointsOK
    <2>5. ParentOK'
      BY <1>0, <2>1, <2>2, <2>3 DEF ParentOK, Children
    <2>6. pc' \in [Children -> ControlPoints]
      BY <1>0, <2>1 DEF ControlPoints
    <2>7. QED
      BY <1>0, <2>1, <2>3, <2>4, <2>5, <2>6 DEF ControlOK
  <1>2. CASE LoadNumber \/ StoreNumber
    <2>1. /\ UNCHANGED <<program, matches, pc, i, waited, told, pending>>
          /\ program # "first_ex_ex_3" /\ mpc \in {"load", "store"}
          /\ mpc' \in {"store", "fork", "wait", "load"}
          /\ mpc' = "load" => mpc = "store"
      BY <1>0, <1>2 DEF LoadNumber, StoreNumber, PointsOK, NextTurn
    <2>2. ParentOK'
      BY <1>0, <1>2, <2>1 DEF LoadNumber, StoreNumber, NextTurn, ParentOK
    <2>3. PointsOK'
      BY <1>0, <2>1 DEF PointsOK
    <2>4. QED
      BY <1>0, <2>1, <2>2, <2>3 DEF ControlOK
  <1>3. CASE WaitChild
    <2>1. /\ UNCHANGED <<program, matches, pc, told, pending>> /\ mpc = "wait" /\ i' = 0
          /\ waited' \subseteq Children /\ \A c \in waited' : pc[c] = "ended"
          /\ \/ mpc' = "wait"
             \/ waited' = Children /\ mpc' = IF program = "ask3final" THEN "print"
                                             ELSE "collect"
      <3>1. /\ mpc = "wait" /\ waited' \in SUBSET Children
            /\ \A c \in waited' : pc[c] = "ended"
        BY <1>0, <1>3 DEF WaitChild, ParentOK
      <3>2. QED
        BY <1>3, <3>1, AllAreWaitedFor DEF WaitChild
    <2>2. QED
      BY <1>0, <2>1 DEF ControlOK, PointsOK, ParentOK
  <1>4. CASE PrintCount \/ PrintSum
    BY <1>0, <1>4 DEF PrintCount, PrintSum, ControlOK, PointsOK, ParentOK
  <1>5. CASE Collect
    <2>1. /\ UNCHANGED <<program, matches, pc, waited, told, pending>>
          /\ mpc = "collect" /\ i < P /\ i' = i + 1
          /\ mpc' = IF i + 1 < P THEN "collect" ELSE "print"
      BY <1>0, <1>5 DEF Collect, ParentOK
    <2>2. QED
      BY <1>0, <2>1 DEF ControlOK, PointsOK, ParentOK
  <1>6. CASE EndOfChild
    BY <1>0, <1>6 DEF EndOfChild, end_of_child, ControlOK, PointsOK, ParentOK
  <1>7. CASE Interrupt
    <2>1. /\ UNCHANGED <<program, matches, i, waited, told, pending>>
          /\ program = "first_ex_ex_3" /\ mpc' = "interrupted" /\ mpc # "done"
          /\ pc' \in [Children -> ControlPoints]
          /\ \A c \in Children : pc'[c] = IF pc[c] = "none" THEN "none" ELSE "ended"
      BY <1>7 DEF Interrupt, sigint_handler, ControlPoints
    <2>2. QED
      BY <1>0, <2>1 DEF ControlOK, PointsOK, ParentOK
  <1>8. ASSUME NEW c \in Children, Child(c) \/ ChildFails(c)
        PROVE  ControlOK'
    <2>1. PICK next \in ControlPoints : Moves(c, next)
      BY <1>8, ChildMoves
    <2>2. /\ UNCHANGED <<program, matches, mpc, i, waited, told>>
          /\ pc' \in [Children -> ControlPoints] /\ pending' \in BOOLEAN
          /\ \A d \in Children : pc'[d] = IF d = c THEN next ELSE pc[d]
          /\ pc[c] \notin {"none", "ended"} /\ next # "none"
      BY <1>0, <2>1 DEF Moves
    <2>3. PointsOK'
      BY <1>0, <2>1, <2>2 DEF PointsOK, Moves
    <2>4. ParentOK'
      BY <1>0, <2>2 DEF ParentOK
    <2>5. QED
      BY <1>0, <2>2, <2>3, <2>4 DEF ControlOK
  <1>9. CASE UNCHANGED vars
    BY <1>0, <1>9 DEF vars, searchVars, ControlOK, PointsOK, ParentOK
  <1>10. QED
    BY <1>1, <1>2, <1>3, <1>4, <1>5, <1>6, <1>7, <1>8, <1>9 DEF Next, Main
-----------------------------------------------------------------------------
(* What Ctrl+C would print.                                                  *)

\* A SIGUSR1 that waits for main stands for one child at least.
Signals == IF pending THEN 1 ELSE 0

\* How many children num_processes may count at most.
Numbered ==
    CASE mpc = "fork" -> IF program = "ask3final" THEN i + 1 ELSE i
      [] mpc \in {"load", "store"} -> IF program = "ask3final" THEN i ELSE i - 1
      [] OTHER -> P

\* Whoever searches is counted or has a signal on the way; between the load and
\* the store of num_processes++ the handler can only have lowered it.
NumberOK ==
    /\ num_processes \in -1 .. P /\ loaded \in -1 .. P
    /\ program = "first_ex_ex_3" => num_processes = 0 /\ ~pending
    /\ program = "ask3final" =>
           Cardinality(Searching) + Signals + (IF mpc = "fork" THEN 1 ELSE 0)
               <= num_processes
    /\ program = "ask3" =>
           Cardinality(Searching) + Signals
               <= num_processes + (IF mpc \in {"load", "store"} THEN 1 ELSE 0)
    /\ num_processes <= Numbered
    /\ mpc = "store" => num_processes <= loaded /\ loaded <= Numbered

LEMMA SearchingFinite ==
    /\ IsFiniteSet(Children) /\ IsFiniteSet(Searching) /\ Cardinality(Searching) \in Nat
  <1>1. IsFiniteSet(Children)
    BY FS_Interval, ForkedAssumption DEF Children
  <1>2. QED
    BY <1>1, FS_Subset, FS_CardinalityType DEF Searching

LEMMA NumberInit == Init => NumberOK
  <1> SUFFICES ASSUME Init PROVE NumberOK
    OBVIOUS
  <1>1. /\ program \in {"first_ex_ex_3", "ask3", "ask3final"} /\ i = 0
        /\ num_processes = 0 /\ loaded = 0 /\ pending = FALSE
        /\ mpc = IF program = "ask3final" THEN "load" ELSE "fork"
        /\ P \in Nat \ {0}
    BY ForkedAssumption, ProgramCases DEF Init, SearchInit
  <1>2. Searching = {}
    BY DEF Init, SearchInit, Searching
  <1>3. Cardinality(Searching) = 0
    BY <1>2, FS_EmptySet
  <1>4. Signals = 0
    BY <1>1 DEF Signals
  <1>5. num_processes <= Numbered
    BY <1>1 DEF Numbered
  <1>6. QED
    BY <1>1, <1>3, <1>4, <1>5 DEF NumberOK

LEMMA NumberStep == ControlOK /\ NumberOK /\ [Next]_vars => NumberOK'
  <1> SUFFICES ASSUME ControlOK, NumberOK, [Next]_vars PROVE NumberOK'
    OBVIOUS
  <1> USE DEF inputVars, childVars, mainVars, numberVars
  <1>0. /\ program \in {"first_ex_ex_3", "ask3", "ask3final"} /\ P \in Nat \ {0}
        /\ pc \in [Children -> ControlPoints] /\ i \in 0 .. P
        /\ num_processes \in -1 .. P /\ loaded \in -1 .. P
        /\ Cardinality(Searching) \in Nat
        /\ Cardinality(Searching)' \in Nat
        /\ Signals \in {0, 1} /\ Signals' \in {0, 1}
    <2>1. Cardinality(Searching)' \in Nat
      <3>1. Searching' \subseteq Children
        BY DEF Searching
      <3>2. QED
        BY <3>1, SearchingFinite, FS_Subset, FS_CardinalityType
    <2>2. Signals \in {0, 1} /\ Signals' \in {0, 1}
      BY DEF Signals
    <2>3. QED
      BY <2>1, <2>2, ProgramCases, ForkedAssumption, SearchingFinite
         DEF ControlOK, NumberOK
  <1>1. CASE Fork
    <2>1. /\ mpc = "fork" /\ i < P /\ i \in Children /\ i' = i + 1 /\ pc[i] = "none"
          /\ pc' = [pc EXCEPT ![i] = "open"]
          /\ UNCHANGED <<program, num_processes, pending, loaded>>
      BY <1>0, <1>1 DEF Fork, ControlOK, ParentOK, Children
    <2>2. mpc' = IF program = "ask3" THEN "load"
                 ELSE IF i + 1 = P THEN "wait"
                 ELSE IF program = "ask3final" THEN "load" ELSE "fork"
      BY <1>1 DEF Fork, NextTurn
    <2>3. Cardinality(Searching)' = Cardinality(Searching) + 1
      <3>1. \A c \in Children : pc'[c] = IF c = i THEN "open" ELSE pc[c]
        BY <1>0, <2>1
      <3>2. Searching' = Searching \cup {i} /\ i \notin Searching
        BY <2>1, <3>1 DEF Searching
      <3>3. QED
        BY <3>2, SearchingFinite, FS_AddElement
    <2>4. Signals' = Signals
      BY <2>1 DEF Signals
    <2>5. num_processes' <= Numbered'
      BY <1>0, <2>1, <2>2 DEF NumberOK, Numbered
    <2>6. QED
      BY <1>0, <2>1, <2>2, <2>3, <2>4, <2>5 DEF NumberOK
  <1>2. CASE LoadNumber
    <2>1. /\ UNCHANGED <<program, pc, i, num_processes, pending>>
          /\ mpc = "load" /\ mpc' = "store" /\ loaded' = num_processes
      BY <1>2 DEF LoadNumber
    <2>2. Searching' = Searching /\ Signals' = Signals /\ Numbered' = Numbered
      BY <2>1 DEF Searching, Signals, Numbered
    <2>3. QED
      BY <1>0, <2>1, <2>2 DEF NumberOK
  <1>3. CASE StoreNumber
    <2>1. /\ UNCHANGED <<program, pc, i, loaded, pending>>
          /\ mpc = "store" /\ num_processes' = loaded + 1
          /\ mpc' = IF program = "ask3final" THEN "fork"
                    ELSE IF i = P THEN "wait" ELSE "fork"
          /\ program # "first_ex_ex_3" /\ (program = "ask3final" => i < P)
      BY <1>3 DEF StoreNumber, NextTurn, ControlOK, PointsOK, ParentOK
    <2>2. Searching' = Searching /\ Signals' = Signals
      BY <2>1 DEF Searching, Signals
    <2>3. num_processes <= loaded /\ loaded <= Numbered
      BY <2>1 DEF NumberOK
    <2>4. Numbered = IF program = "ask3final" THEN i ELSE i - 1
      BY <2>1 DEF Numbered
    <2>5. num_processes' <= Numbered' /\ num_processes' \in -1 .. P
      BY <1>0, <2>1, <2>3, <2>4 DEF Numbered
    <2>6. QED
      BY <1>0, <2>1, <2>2, <2>3, <2>5 DEF NumberOK
  <1>4. CASE WaitChild
    <2>1. /\ UNCHANGED <<program, pc, num_processes, pending, loaded>>
          /\ mpc = "wait" /\ mpc' \in {"wait", "print", "collect"}
      BY <1>4 DEF WaitChild
    <2>2. Searching' = Searching /\ Signals' = Signals /\ Numbered' = P
      BY <1>0, <2>1 DEF Searching, Signals, Numbered
    <2>3. QED
      BY <1>0, <2>1, <2>2 DEF NumberOK
  <1>5. CASE PrintCount \/ PrintSum \/ Collect
    <2>1. /\ UNCHANGED <<program, pc, num_processes, pending, loaded>>
          /\ mpc \in {"print", "collect"} /\ mpc' \in {"done", "print", "collect"}
      BY <1>5 DEF PrintCount, PrintSum, Collect
    <2>2. Searching' = Searching /\ Signals' = Signals /\ Numbered' = P
      BY <1>0, <2>1 DEF Searching, Signals, Numbered
    <2>3. QED
      BY <1>0, <2>1, <2>2 DEF NumberOK
  <1>6. CASE EndOfChild
    <2>1. /\ UNCHANGED <<program, pc, mpc, i, loaded>>
          /\ pending /\ pending' = FALSE /\ num_processes' = num_processes - 1
      BY <1>6 DEF EndOfChild, end_of_child
    <2>2. Searching' = Searching /\ Signals = 1 /\ Signals' = 0 /\ Numbered' = Numbered
      BY <2>1 DEF Searching, Signals, Numbered
    <2>3. program # "first_ex_ex_3"
      BY <2>1 DEF NumberOK
    <2>4. Numbered \in Int
      BY <1>0 DEF Numbered
    <2>5. QED
      BY <1>0, <2>1, <2>2, <2>3, <2>4 DEF NumberOK
  <1>7. CASE Interrupt
    <2>1. /\ UNCHANGED <<program, num_processes, pending, loaded>>
          /\ program = "first_ex_ex_3" /\ mpc' = "interrupted"
      BY <1>7 DEF Interrupt, sigint_handler
    <2>2. Numbered' = P
      BY <1>0, <2>1 DEF Numbered
    <2>3. QED
      BY <1>0, <2>1, <2>2 DEF NumberOK
  <1>8. ASSUME NEW c \in Children, Child(c) \/ ChildFails(c)
        PROVE  NumberOK'
    <2>1. PICK next \in ControlPoints : Moves(c, next)
      BY <1>8, ChildMoves
    <2>2. /\ UNCHANGED <<program, mpc, i, num_processes, loaded>>
          /\ \A d \in Children : pc'[d] = IF d = c THEN next ELSE pc[d]
      BY <1>0, <2>1 DEF Moves
    <2>3. Numbered' = Numbered
      BY <2>2 DEF Numbered
    <2>4. CASE program = "first_ex_ex_3"
      <3>1. pending' = pending
        BY <2>1, <2>4 DEF Moves, ControlOK, PointsOK
      <3>2. QED
        BY <1>0, <2>2, <2>3, <2>4, <3>1 DEF NumberOK
    <2>5. CASE program # "first_ex_ex_3"
      <3>1. Cardinality(Searching)' + Signals' <= Cardinality(Searching) + Signals
        <4>1. CASE pc[c] = "signal"
          <5>1. next = "exit" /\ pending'
            BY <2>1, <4>1 DEF Moves
          <5>2. Searching' = Searching \ {c} /\ c \in Searching
            BY <2>2, <4>1, <5>1 DEF Searching
          <5>3. Cardinality(Searching)' = Cardinality(Searching) - 1
            BY <5>2, SearchingFinite, FS_RemoveElement
          <5>4. QED
            BY <1>0, <5>3
        <4>2. CASE pc[c] # "signal"
          <5>1. pending' = pending
            BY <2>1, <4>2 DEF Moves
          <5>2. Searching' = Searching
            BY <2>1, <2>2, <2>5, <4>2 DEF Searching, Moves
          <5>3. Signals' = Signals
            BY <5>1 DEF Signals
          <5>4. QED
            BY <1>0, <5>2, <5>3
        <4>3. QED
          BY <4>1, <4>2
      <3>2. QED
        BY <1>0, <2>2, <2>3, <2>5, <3>1 DEF NumberOK
    <2>6. QED
      BY <2>4, <2>5
  <1>9. CASE UNCHANGED vars
    <2>1. UNCHANGED <<program, pc, mpc, i, num_processes, pending, loaded>>
      BY <1>9 DEF vars, searchVars
    <2>2. Searching' = Searching /\ Signals' = Signals /\ Numbered' = Numbered
      BY <2>1 DEF Searching, Signals, Numbered
    <2>3. QED
      BY <2>1, <2>2 DEF NumberOK
  <1>10. QED
    BY <1>1, <1>2, <1>3, <1>4, <1>5, <1>6, <1>7, <1>8, <1>9 DEF Next, Main

\* Ctrl+C never shows fewer processes than are still searching, however the
\* ++ of main, the -- of its handler and the merging of signals interleave
\* (ask3final.c 44, 49, 133, 154; ask3.c 17, 102-104).
THEOREM NumberIsNotUnderstated == Spec => []NumberNotUnderstated
  <1>1. Init => ControlOK /\ NumberOK
    BY ControlInit, NumberInit
  <1>2. ControlOK /\ NumberOK /\ [Next]_vars => (ControlOK /\ NumberOK)'
    BY ControlStep, NumberStep
  <1>3. ControlOK /\ NumberOK => NumberNotUnderstated
    <2> SUFFICES ASSUME ControlOK, NumberOK PROVE NumberNotUnderstated
      OBVIOUS
    <2>1. /\ program \in {"first_ex_ex_3", "ask3", "ask3final"}
          /\ Cardinality(Searching) \in Nat /\ Signals \in {0, 1}
          /\ num_processes \in Int
      BY ProgramCases, SearchingFinite DEF ControlOK, NumberOK, Signals
    <2>2. QED
      BY <2>1 DEF NumberOK, NumberNotUnderstated
  <1>4. QED
    BY <1>1, <1>2, <1>3, PTL DEF Spec

-----------------------------------------------------------------------------
(* The count in shared memory.                                               *)

\* What the children have read.
AllSeen == UNION {Seen(c) : c \in Children}

\* A child is inside its own segment, and holds its semaphore or not.
ReaderOK(c) ==
    /\ pc[c] \in {"none", "open"} => offset[c] = 0
    /\ pc[c] \notin {"none", "open"} =>
           start_pos(c) <= offset[c] /\ offset[c] <= start_pos(c) + segment_size
    /\ pc[c] \in {"signal", "exit", "ended"} => AtEnd(c)
    /\ semaphore[c] = IF pc[c] \in {"load", "store", "post"} THEN 0 ELSE 1
    /\ pc[c] = "store" => register[c] + Cardinality(Unstored) <= Cardinality(AllSeen)

SharedOK ==
    /\ semaphore \in [Children -> {0, 1}] /\ register \in [Children -> Nat]
    /\ shared_variable \in Nat
    /\ program # "ask3final" => shared_variable = 0
    /\ program = "ask3final" =>
           /\ \A c \in Children : ReaderOK(c)
           /\ shared_variable + Cardinality(Unstored) <= Cardinality(AllSeen)

OffsetOK == offset \in [Children -> Nat]

LEMMA OffsetInit == Init => OffsetOK
  BY DEF Init, SearchInit, OffsetOK

LEMMA OffsetStep == ControlOK /\ OffsetOK /\ [Next]_vars => OffsetOK'
  <1> SUFFICES ASSUME ControlOK, OffsetOK, [Next]_vars PROVE OffsetOK'
    OBVIOUS
  <1> USE DEF inputVars, childVars, mainVars, numberVars
  <1>1. CASE Main \/ EndOfChild \/ Interrupt \/ UNCHANGED vars
    <2>1. offset' = offset
      BY <1>1 DEF Main, Fork, LoadNumber, StoreNumber, WaitChild, PrintCount, Collect,
                  PrintSum, EndOfChild, end_of_child, Interrupt, sigint_handler, vars,
                  searchVars
    <2>2. QED
      BY <2>1 DEF OffsetOK
  <1>2. ASSUME NEW c \in Children, Child(c) \/ ChildFails(c)
        PROVE  OffsetOK'
    <2>1. c \in 0 .. P /\ Description(c) \in Children
      BY ForkedAssumption DEF Description, Children
    <2>2. start_pos(c) \in Nat
      BY <2>1, StartPos
    <2>3. \/ offset' = offset
          \/ offset' = [offset EXCEPT ![Description(c)] = start_pos(c)]
          \/ offset' = [offset EXCEPT ![Description(c)] = @ + 1]
          \/ offset' = [offset EXCEPT ![c] = @ + 1]
      BY <1>2 DEF Child, ChildFails, OpenFile, Signal, ExitChild, CountInMemory, ReadNext,
                  EndShare, SemWait, LoadCount, StoreCount, SemPost, CountBytes, ReadByte,
                  ReadEof, CheckEnd, WriteNumber, Fail
    <2>4. QED
      BY <2>1, <2>2, <2>3 DEF OffsetOK
  <1>3. QED
    BY <1>1, <1>2 DEF Next

LEMMA MatchesFinite ==
    ASSUME NEW M \in SUBSET Bytes
    PROVE  IsFiniteSet(M) /\ Cardinality(M) \in Nat /\ Cardinality(M) <= FileSize
  <1>1. IsFiniteSet(Bytes) /\ Cardinality(Bytes) = FileSize
    BY FS_Interval, FileSizeAssumption DEF Bytes
  <1>2. QED
    BY <1>1, FS_Subset, FS_CardinalityType

\* What is read are bytes of the file.
LEMMA SeenFinite ==
    ASSUME ControlOK
    PROVE  /\ IsFiniteSet(AllSeen) /\ Cardinality(AllSeen) \in Nat
           /\ AllSeen \subseteq matches /\ Cardinality(AllSeen) <= Cardinality(matches)
           /\ IsFiniteSet(Unstored) /\ Cardinality(Unstored) \in Nat
  <1>1. AllSeen \subseteq matches /\ matches \subseteq Bytes
    BY DEF AllSeen, Seen, ControlOK
  <1>2. IsFiniteSet(matches) /\ IsFiniteSet(AllSeen) /\ Cardinality(AllSeen) \in Nat
    BY <1>1, MatchesFinite
  <1>3. Cardinality(AllSeen) <= Cardinality(matches)
    BY <1>1, <1>2, FS_Subset
  <1>4. IsFiniteSet(Unstored) /\ Cardinality(Unstored) \in Nat
    BY SearchingFinite, FS_Subset, FS_CardinalityType DEF Unstored
  <1>5. QED
    BY <1>1, <1>2, <1>3, <1>4

\* A child has read in its own segment only.
LEMMA SeenInSegment ==
    ASSUME OffsetOK, ControlOK, NEW c \in Children, ReaderOK(c), NEW x \in Seen(c)
    PROVE  start_pos(c) <= x /\ x < start_pos(c) + segment_size
  <1>1. /\ x \in Nat /\ start_pos(c) <= x /\ x < offset[c] /\ pc[c] # "none"
        /\ offset[c] \in Nat
    BY FileSizeAssumption DEF Seen, ControlOK, OffsetOK, Bytes
  <1>2. start_pos(c) \in Nat /\ segment_size \in Nat
    BY EndPos, SegmentSize
  <1>3. pc[c] # "open"
    BY <1>1 DEF ReaderOK
  <1>4. QED
    BY <1>1, <1>2, <1>3 DEF ReaderOK

LEMMA SeenApart ==
    ASSUME OffsetOK, ControlOK, NEW c \in Children, NEW d \in Children, c # d,
           ReaderOK(c), ReaderOK(d)
    PROVE  Seen(c) \cap Seen(d) = {}
  <1>1. SUFFICES ASSUME NEW x \in Seen(c), x \in Seen(d) PROVE FALSE
    OBVIOUS
  <1>2. /\ start_pos(c) <= x /\ x < start_pos(c) + segment_size
        /\ start_pos(d) <= x /\ x < start_pos(d) + segment_size
    BY <1>1, SeenInSegment
  <1>3. x \in Int /\ start_pos(c) \in Nat /\ start_pos(d) \in Nat /\ segment_size \in Nat
    BY <1>1, EndPos, SegmentSize, FileSizeAssumption DEF Seen, ControlOK, Bytes
  <1>4. c < d \/ d < c
    BY ForkedAssumption DEF Children
  <1>5. \/ start_pos(c) + segment_size <= start_pos(d)
        \/ start_pos(d) + segment_size <= start_pos(c)
    BY <1>4, SegmentsApart
  <1>6. QED
    BY <1>2, <1>3, <1>5

LEMMA SharedInit_OK == Init => SharedOK
  <1> SUFFICES ASSUME Init PROVE SharedOK
    OBVIOUS
  <1>1. /\ shared_variable = 0 /\ semaphore = [c \in Children |-> 1]
        /\ register = [c \in Children |-> 0]
        /\ \A c \in Children : pc[c] = "none" /\ offset[c] = 0
    BY DEF Init, SearchInit, SharedInit
  <1>2. Cardinality(Unstored) = 0
    <2>1. Unstored = {}
      BY <1>1 DEF Unstored
    <2>2. QED
      BY <2>1, FS_EmptySet
  <1>3. Cardinality(AllSeen) \in Nat
    BY ControlInit, SeenFinite
  <1>4. \A c \in Children : ReaderOK(c)
    BY <1>1 DEF ReaderOK
  <1>5. QED
    BY <1>1, <1>2, <1>3, <1>4 DEF SharedOK

\* A child's step moves its own part only, and reads one more match or none.
LEMMA SharedChild ==
    ASSUME ControlOK, OffsetOK, SharedOK, program = "ask3final", NEW c \in Children,
           Child(c)
    PROVE  SharedOK'
  <1> DEFINE U == Cardinality(Unstored)
             A == Cardinality(AllSeen)
  <1>0. PICK next \in ControlPoints : Moves(c, next)
    BY ChildMoves
  <1>1. /\ program' = program /\ matches' = matches
        /\ pc' = [pc EXCEPT ![c] = next]
        /\ \A d \in Children : pc'[d] = IF d = c THEN next ELSE pc[d]
        /\ pc[c] \notin {"none", "ended"} /\ next # "none"
        /\ Description(c) = c
    BY <1>0 DEF Moves, ControlOK, inputVars, Description
  <1>2. /\ \A d \in Children : ReaderOK(d)
        /\ shared_variable + U <= A
        /\ shared_variable \in Nat /\ register \in [Children -> Nat]
        /\ semaphore \in [Children -> {0, 1}] /\ offset \in [Children -> Nat]
        /\ U \in Nat /\ A \in Nat
    BY SeenFinite DEF SharedOK, OffsetOK
  <1>3. /\ start_pos(c) \in Nat /\ end_pos(c) \in Nat /\ segment_size \in Nat
        /\ end_pos(c) <= start_pos(c) + segment_size /\ FileSize \in Nat
    BY EndPos, SegmentSize, FileSizeAssumption
  <1>4. \A d \in Children : Seen(d)' = {p \in matches : /\ start_pos(d) <= p
                                                        /\ p < offset'[d]
                                                        /\ pc'[d] # "none"}
    BY <1>1 DEF Seen
  <1>5. ASSUME offset' = offset
        PROVE  AllSeen' = AllSeen /\ A' = A
    <2>1. \A d \in Children : Seen(d)' = Seen(d)
      BY <1>1, <1>4, <1>5 DEF Seen
    <2>2. QED
      BY <2>1 DEF AllSeen
  <1>6. ASSUME pc[c] \notin {"wait", "load", "store"},
               next \notin {"wait", "load", "store"}
        PROVE  U' = U
    <2>1. Unstored' = Unstored
      BY <1>1, <1>6 DEF Unstored
    <2>2. QED
      BY <2>1
  <1>7. ASSUME pc[c] \in {"wait", "load", "store"}, next \in {"wait", "load", "store"}
        PROVE  U' = U
    <2>1. Unstored' = Unstored
      BY <1>1, <1>7 DEF Unstored
    <2>2. QED
      BY <2>1
  \* It is enough that what is not stored grows no faster than what is read.
  <1>8. ASSUME U' \in Nat, A' \in Nat, U' + A <= U + A',
               shared_variable' \in Nat, shared_variable' + U' <= A',
               semaphore' \in [Children -> {0, 1}], register' \in [Children -> Nat],
               \A d \in Children \ {c} : /\ offset'[d] = offset[d]
                                         /\ semaphore'[d] = semaphore[d]
                                         /\ register'[d] = register[d],
               ReaderOK(c)'
        PROVE  SharedOK'
    <2>1. ASSUME NEW d \in Children \ {c}
          PROVE  ReaderOK(d)'
      <3>1. /\ pc'[d] = pc[d] /\ offset'[d] = offset[d] /\ semaphore'[d] = semaphore[d]
            /\ register'[d] = register[d] /\ ReaderOK(d) /\ register[d] \in Nat
        BY <1>1, <1>2, <1>8, <2>1
      <3>2. pc[d] = "store" => register[d] + U <= A
        BY <3>1 DEF ReaderOK
      <3>3. pc'[d] = "store" => register'[d] + U' <= A'
        BY <1>2, <1>8, <3>1, <3>2
      <3>4. AtEnd(d)' <=> AtEnd(d)
        BY <1>1, <3>1 DEF AtEnd, end_pos
      <3>5. QED
        BY <3>1, <3>3, <3>4 DEF ReaderOK
    <2>2. \A d \in Children : ReaderOK(d)'
      BY <1>8, <2>1
    <2>3. QED
      BY <1>1, <1>8, <2>2 DEF SharedOK
  <1>9. CASE OpenFile(c)
    <2>1. /\ pc[c] = "open" /\ next = "read" /\ offset[c] = 0
          /\ offset' = [offset EXCEPT ![c] = start_pos(c)]
          /\ UNCHANGED <<shared_variable, semaphore, register>>
      <3>1. /\ pc[c] = "open" /\ pc' = [pc EXCEPT ![c] = "read"]
            /\ offset' = [offset EXCEPT ![c] = start_pos(c)]
        BY <1>1, <1>9 DEF OpenFile, Goes
      <3>2. next = "read"
        BY <1>1, <3>1 DEF ControlOK
      <3>3. UNCHANGED <<shared_variable, semaphore, register>>
        BY <1>1, <1>9, <3>1 DEF Child, countVars, CountInMemory, ReadNext, EndShare,
             SemWait, LoadCount, StoreCount, SemPost, Goes
      <3>4. QED
        BY <1>2, <3>1, <3>2, <3>3 DEF ReaderOK
    <2>2. \A d \in Children : offset'[d] = IF d = c THEN start_pos(c) ELSE offset[d]
      BY <1>2, <2>1
    <2>3. AllSeen' = AllSeen
      <3>1. matches \subseteq Nat
        BY FileSizeAssumption DEF ControlOK, Bytes
      <3>2. \A d \in Children \ {c} : Seen(d)' = Seen(d)
        BY <1>1, <1>4, <2>2 DEF Seen
      <3>3. Seen(c)' = {} /\ Seen(c) = {}
        <4>1. offset'[c] = start_pos(c)
          BY <2>2
        <4>2. \A p \in Nat : ~(start_pos(c) <= p /\ p < start_pos(c)) /\ ~(p < 0)
          BY <1>3
        <4>3. Seen(c)' = {}
          BY <1>4, <3>1, <4>1, <4>2
        <4>4. Seen(c) = {}
          BY <2>1, <3>1, <4>2 DEF Seen
        <4>5. QED
          BY <4>3, <4>4
      <3>4. QED
        BY <3>2, <3>3 DEF AllSeen
    <2>4. U' = U
      BY <1>6, <2>1
    <2>5. ReaderOK(c)'
      BY <1>1, <1>2, <1>3, <2>1, <2>2 DEF ReaderOK
    <2>6. QED
      BY <1>2, <1>8, <2>1, <2>2, <2>3, <2>4, <2>5
  <1>10. CASE Signal(c) \/ ExitChild(c)
    <2>1. /\ pc[c] \in {"signal", "exit"} /\ next \in {"exit", "ended"} /\ offset' = offset
      <3>1. /\ pc[c] \in {"signal", "exit"} /\ offset' = offset
            /\ pc'[c] \in {"exit", "ended"}
        BY <1>10 DEF Signal, ExitChild, Goes, ControlOK
      <3>2. QED
        BY <1>1, <3>1
    <2>2. UNCHANGED <<shared_variable, semaphore, register>>
      BY <1>10, <2>1 DEF Child, countVars, CountInMemory, ReadNext, EndShare,
             SemWait, LoadCount, StoreCount, SemPost, Goes
    <2>3. AtEnd(c)' <=> AtEnd(c)
      BY <1>1, <2>1 DEF AtEnd, end_pos
    <2>4. ReaderOK(c)'
      BY <1>1, <1>2, <2>1, <2>2, <2>3 DEF ReaderOK
    <2>5. A' = A /\ U' = U
      BY <1>5, <1>6, <2>1
    <2>6. QED
      BY <1>2, <1>8, <2>1, <2>2, <2>4, <2>5
  <1>11. CASE ReadNext(c)
    <2>1. /\ pc[c] = "read" /\ next = IF offset[c] \in matches THEN "wait" ELSE "read"
          /\ offset' = [offset EXCEPT ![c] = @ + 1]
          /\ offset[c] < end_pos(c) /\ offset[c] < FileSize /\ offset[c] \in Nat
          /\ start_pos(c) <= offset[c]
          /\ UNCHANGED <<shared_variable, semaphore, register>>
      <3>1. /\ pc[c] = "read" /\ offset[c] \in Nat /\ ~AtEnd(c)
            /\ pc' = [pc EXCEPT ![c] = IF offset[c] \in matches THEN "wait" ELSE "read"]
            /\ offset' = [offset EXCEPT ![c] = @ + 1]
            /\ UNCHANGED <<shared_variable, semaphore, register>>
        BY <1>2, <1>11 DEF ReadNext, Goes, countVars
      <3>2. next = IF offset[c] \in matches THEN "wait" ELSE "read"
        BY <1>1, <3>1 DEF ControlOK
      <3>3. start_pos(c) <= offset[c]
        BY <1>2, <3>1 DEF ReaderOK
      <3>4. QED
        BY <1>3, <3>1, <3>2, <3>3 DEF AtEnd
    <2>2. \A d \in Children : offset'[d] = IF d = c THEN offset[c] + 1 ELSE offset[d]
      BY <1>2, <2>1
    <2>3. ReaderOK(c)'
      BY <1>1, <1>2, <1>3, <2>1, <2>2 DEF ReaderOK
    <2>4. matches \subseteq Nat
      BY FileSizeAssumption DEF ControlOK, Bytes
    <2>5. CASE offset[c] \in matches
      <3>1. AllSeen' = AllSeen \cup {offset[c]}
        <4>1. Seen(c)' = Seen(c) \cup {offset[c]}
          <5>1. Seen(c)' = {p \in matches : start_pos(c) <= p /\ p < offset[c] + 1}
            BY <1>1, <1>4, <2>2
          <5>2. Seen(c) = {p \in matches : start_pos(c) <= p /\ p < offset[c]}
            BY <1>1 DEF Seen
          <5>3. \A p \in Nat : p < offset[c] + 1 <=> p < offset[c] \/ p = offset[c]
            BY <2>1
          <5>4. QED
            BY <2>1, <2>4, <2>5, <5>1, <5>2, <5>3
        <4>2. \A d \in Children \ {c} : Seen(d)' = Seen(d)
          BY <1>1, <1>4, <2>2 DEF Seen
        <4>3. QED
          BY <4>1, <4>2 DEF AllSeen
      <3>2. offset[c] \notin AllSeen
        <4>1. ASSUME NEW d \in Children, offset[c] \in Seen(d)
              PROVE  FALSE
          <5>1. CASE d = c
            BY <2>1, <4>1, <5>1 DEF Seen
          <5>2. CASE d # c
            <6>1. /\ start_pos(d) <= offset[c]
                  /\ offset[c] < start_pos(d) + segment_size
              BY <1>2, <4>1, SeenInSegment
            <6>2. /\ start_pos(c) <= offset[c]
                  /\ offset[c] < start_pos(c) + segment_size
              BY <1>3, <2>1
            <6>3. c < d \/ d < c
              BY <5>2, ForkedAssumption DEF Children
            <6>4. \/ start_pos(c) + segment_size <= start_pos(d)
                  \/ start_pos(d) + segment_size <= start_pos(c)
              BY <6>3, SegmentsApart
            <6>5. start_pos(d) \in Nat
              BY EndPos
            <6>6. QED
              BY <1>3, <2>1, <6>1, <6>2, <6>4, <6>5
          <5>3. QED
            BY <5>1, <5>2
        <4>2. QED
          BY <4>1 DEF AllSeen
      <3>3. A' = A + 1
        BY <3>1, <3>2, SeenFinite, FS_AddElement
      <3>4. U' = U + 1
        <4>1. Unstored' = Unstored \cup {c} /\ c \notin Unstored
          BY <1>1, <2>1, <2>5 DEF Unstored
        <4>2. QED
          BY <4>1, SeenFinite, FS_AddElement
      <3>5. QED
        BY <1>2, <1>8, <2>1, <2>2, <2>3, <3>3, <3>4
    <2>6. CASE offset[c] \notin matches
      <3>1. \A d \in Children : Seen(d)' = Seen(d)
        <4>1. \A d \in Children \ {c} : Seen(d)' = Seen(d)
          BY <1>1, <1>4, <2>2 DEF Seen
        <4>2. Seen(c)' = {p \in matches : start_pos(c) <= p /\ p < offset[c] + 1}
          BY <1>1, <1>4, <2>2
        <4>3. Seen(c) = {p \in matches : start_pos(c) <= p /\ p < offset[c]}
          BY <1>1 DEF Seen
        <4>4. \A p \in Nat : p < offset[c] + 1 <=> p < offset[c] \/ p = offset[c]
          BY <2>1
        <4>5. Seen(c)' = Seen(c)
          BY <2>4, <2>6, <4>2, <4>3, <4>4
        <4>6. QED
          BY <4>1, <4>5
      <3>2. AllSeen' = AllSeen
        BY <3>1 DEF AllSeen
      <3>3. U' = U
        BY <1>6, <2>1, <2>6
      <3>4. QED
        BY <1>2, <1>8, <2>1, <2>2, <2>3, <3>2, <3>3
    <2>7. QED
      BY <2>5, <2>6
  <1>12. CASE EndShare(c)
    <2>1. /\ pc[c] = "read" /\ pc'[c] = "signal" /\ AtEnd(c)
          /\ UNCHANGED <<offset, shared_variable, semaphore, register>>
      BY <1>12 DEF EndShare, Goes, countVars, ControlOK
    <2>2. next = "signal"
      BY <1>1, <2>1
    <2>3. AtEnd(c)'
      BY <1>1, <2>1 DEF AtEnd, end_pos
    <2>4. ReaderOK(c)'
      BY <1>1, <1>2, <2>1, <2>2, <2>3 DEF ReaderOK
    <2>5. A' = A /\ U' = U
      BY <1>5, <1>6, <2>1, <2>2
    <2>6. QED
      BY <1>2, <1>8, <2>1, <2>4, <2>5
  <1>13. CASE SemWait(c)
    <2>1. /\ pc[c] = "wait" /\ pc'[c] = "load"
          /\ semaphore' = [semaphore EXCEPT ![c] = @ - 1]
          /\ UNCHANGED <<offset, shared_variable, register>>
      BY <1>13 DEF SemWait, Goes, ControlOK
    <2>2. next = "load" /\ semaphore[c] = 1
      BY <1>1, <1>2, <2>1 DEF ReaderOK
    <2>3. semaphore[c] - 1 = 0
      BY <2>2
    <2>4. semaphore' = [semaphore EXCEPT ![c] = 0]
      BY <2>1, <2>3
    <2>5. ReaderOK(c)'
      BY <1>1, <1>2, <2>1, <2>2, <2>4 DEF ReaderOK
    <2>6. A' = A /\ U' = U
      BY <1>5, <1>7, <2>1, <2>2
    <2>7. QED
      BY <1>2, <1>8, <2>1, <2>4, <2>5, <2>6
  <1>14. CASE LoadCount(c)
    <2>1. /\ pc[c] = "load" /\ pc'[c] = "store"
          /\ register' = [register EXCEPT ![c] = shared_variable]
          /\ UNCHANGED <<offset, shared_variable, semaphore>>
      BY <1>14 DEF LoadCount, Goes, ControlOK
    <2>2. next = "store"
      BY <1>1, <2>1
    <2>3. A' = A /\ U' = U
      BY <1>5, <1>7, <2>1, <2>2
    <2>4. register'[c] = shared_variable
      BY <1>2, <2>1
    <2>5. register'[c] + U' <= A'
      BY <1>2, <2>3, <2>4
    <2>6. ReaderOK(c)'
      BY <1>1, <1>2, <2>1, <2>2, <2>5 DEF ReaderOK
    <2>7. QED
      BY <1>2, <1>8, <2>1, <2>3, <2>6
  <1>15. CASE StoreCount(c)
    <2>1. /\ pc[c] = "store" /\ pc'[c] = "post"
          /\ shared_variable' = register[c] + 1
          /\ UNCHANGED <<offset, semaphore, register>>
      BY <1>15 DEF StoreCount, Goes, ControlOK
    <2>2. next = "post"
      BY <1>1, <2>1
    <2>3. A' = A
      BY <1>5, <2>1
    <2>4. U' = U - 1 /\ U' \in Nat
      <3>1. Unstored' = Unstored \ {c} /\ c \in Unstored
        BY <1>1, <2>1, <2>2 DEF Unstored
      <3>2. U' = U - 1
        BY <3>1, SeenFinite, FS_RemoveElement
      <3>3. IsFiniteSet(Unstored \ {c})
        BY SeenFinite, FS_RemoveElement
      <3>4. QED
        BY <3>1, <3>2, <3>3, FS_CardinalityType
    <2>5. register[c] + U <= A
      BY <1>2, <2>1 DEF ReaderOK
    <2>6. register[c] \in Nat
      BY <1>2
    <2>7. ReaderOK(c)'
      BY <1>1, <1>2, <2>1, <2>2 DEF ReaderOK
    <2>8. QED
      BY <1>2, <1>8, <2>1, <2>3, <2>4, <2>5, <2>6, <2>7
  <1>16. CASE SemPost(c)
    <2>1. /\ pc[c] = "post" /\ pc'[c] = "read"
          /\ semaphore' = [semaphore EXCEPT ![c] = @ + 1]
          /\ UNCHANGED <<offset, shared_variable, register>>
      BY <1>16 DEF SemPost, Goes, ControlOK
    <2>2. next = "read" /\ semaphore[c] = 0
      BY <1>1, <1>2, <2>1 DEF ReaderOK
    <2>3. semaphore[c] + 1 = 1
      BY <2>2
    <2>4. semaphore' = [semaphore EXCEPT ![c] = 1]
      BY <2>1, <2>3
    <2>5. ReaderOK(c)'
      BY <1>1, <1>2, <2>1, <2>2, <2>4 DEF ReaderOK
    <2>6. A' = A /\ U' = U
      BY <1>5, <1>6, <2>1, <2>2
    <2>7. QED
      BY <1>2, <1>8, <2>1, <2>4, <2>5, <2>6
  <1>17. ~CountBytes(c) /\ ~WriteNumber(c)
    BY DEF CountBytes, WriteNumber, Goes, ControlOK, PointsOK
  <1>18. QED
    BY <1>9, <1>10, <1>11, <1>12, <1>13, <1>14, <1>15, <1>16, <1>17
       DEF Child, CountInMemory

LEMMA SharedStep == ControlOK /\ OffsetOK /\ SharedOK /\ [Next]_vars => SharedOK'
  <1> SUFFICES ASSUME ControlOK, OffsetOK, SharedOK, [Next]_vars PROVE SharedOK'
    OBVIOUS
  <1> USE DEF inputVars, childVars, mainVars, numberVars, countVars
  <1>0. /\ \A c \in Children : pc[c] \in ControlPoints
        /\ pc \in [Children -> ControlPoints] /\ P \in Nat \ {0}
    BY ForkedAssumption DEF ControlOK
  <1>1. ASSUME UNCHANGED <<shared_variable, semaphore, register>>, program' = program,
               program # "ask3final"
        PROVE  SharedOK'
    BY <1>1 DEF SharedOK
  <1>2. ASSUME UNCHANGED <<shared_variable, semaphore, register>>,
               UNCHANGED <<program, matches, pc, offset>>
        PROVE  SharedOK'
    <2>1. \A c \in Children : Seen(c)' = Seen(c)
      BY <1>2 DEF Seen
    <2>2. AllSeen' = AllSeen /\ Unstored' = Unstored
      BY <1>2, <2>1 DEF AllSeen, Unstored
    <2>3. \A c \in Children : AtEnd(c)' <=> AtEnd(c)
      BY <1>2 DEF AtEnd, end_pos
    <2>4. program = "ask3final" => \A c \in Children : ReaderOK(c)'
      <3>1. SUFFICES ASSUME program = "ask3final", NEW c \in Children
                     PROVE  ReaderOK(c)'
        OBVIOUS
      <3>2. ReaderOK(c)
        BY <3>1 DEF SharedOK
      <3>3. QED
        BY <1>2, <2>2, <2>3, <3>2 DEF ReaderOK
    <2>5. QED
      BY <1>2, <2>2, <2>4 DEF SharedOK
  <1>3. CASE Fork /\ UNCHANGED countVars
    <2>0. PICK n \in Children : n = i
      BY <1>0, <1>3 DEF Fork, ControlOK, ParentOK, Children
    <2>1. /\ pc[n] = "none" /\ pc' = [pc EXCEPT ![n] = "open"]
          /\ UNCHANGED <<program, matches, offset, shared_variable, semaphore, register>>
      BY <1>0, <1>3, <2>0 DEF Fork, ControlOK, ParentOK, Children
    <2>2. \A c \in Children : pc'[c] = IF c = n THEN "open" ELSE pc[c]
      BY <1>0, <2>1
    <2>3. CASE program = "ask3final"
      <3>1. offset[n] = 0
        BY <2>1, <2>3 DEF SharedOK, ReaderOK
      <3>2. matches \subseteq Nat /\ start_pos(n) \in Nat
        BY <2>1, EndPos, FileSizeAssumption DEF ControlOK, Bytes
      <3>3. Seen(n)' = Seen(n)
        <4>1. \A p \in Nat : ~(p < 0)
          OBVIOUS
        <4>2. Seen(n) = {}
          BY <2>1 DEF Seen
        <4>3. Seen(n)' = {}
          BY <2>1, <3>1, <3>2, <4>1 DEF Seen
        <4>4. QED
          BY <4>2, <4>3
      <3>4. \A c \in Children \ {n} : Seen(c)' = Seen(c)
        BY <2>1, <2>2 DEF Seen
      <3>5. AllSeen' = AllSeen
        BY <3>3, <3>4 DEF AllSeen
      <3>6. Unstored' = Unstored
        BY <2>1, <2>2 DEF Unstored
      <3>7. \A c \in Children : AtEnd(c)' <=> AtEnd(c)
        BY <2>1 DEF AtEnd, end_pos
      <3>8. ASSUME NEW c \in Children
            PROVE  ReaderOK(c)'
        <4>1. ReaderOK(c)
          BY <2>3 DEF SharedOK
        <4>2. QED
          BY <2>1, <2>2, <3>1, <3>5, <3>6, <3>7, <4>1 DEF ReaderOK
      <3>9. QED
        BY <2>1, <2>3, <3>5, <3>6, <3>8 DEF SharedOK
    <2>4. QED
      BY <1>1, <2>1, <2>3
  <1>4. CASE \/ (LoadNumber \/ StoreNumber \/ WaitChild) /\ UNCHANGED countVars
             \/ PrintCount
             \/ (Collect \/ PrintSum) /\ UNCHANGED countVars
             \/ EndOfChild
             \/ UNCHANGED vars
    BY <1>2, <1>4 DEF LoadNumber, StoreNumber, WaitChild, PrintCount, Collect, PrintSum,
                      EndOfChild, end_of_child, vars, searchVars
  <1>5. CASE Interrupt
    BY <1>1, <1>5 DEF Interrupt, sigint_handler
  <1>6. ASSUME NEW c \in Children, Child(c) \/ ChildFails(c)
        PROVE  SharedOK'
    <2>1. CASE program = "ask3final" /\ Child(c)
      BY <2>1, SharedChild
    <2>2. CASE program = "ask3final" /\ ChildFails(c)
      BY <2>2 DEF ChildFails, Fail, OpenFails, ReadFails
    <2>3. CASE program # "ask3final"
      <3>1. UNCHANGED <<shared_variable, semaphore, register>>
        BY <1>6, <2>3 DEF Child, ChildFails, CountInMemory
      <3>2. program' = program
        BY <1>6, ChildMoves DEF Moves
      <3>3. QED
        BY <1>1, <2>3, <3>1, <3>2
    <2>4. QED
      BY <1>6, <2>1, <2>2, <2>3
  <1>7. QED
    BY <1>3, <1>4, <1>5, <1>6 DEF Next, Main

SharedInv == ControlOK /\ OffsetOK /\ SharedOK

LEMMA SharedInvariant == Spec => []SharedInv
  <1>1. Init => SharedInv
    BY ControlInit, OffsetInit, SharedInit_OK DEF SharedInv
  <1>2. SharedInv /\ [Next]_vars => SharedInv'
    BY ControlStep, OffsetStep, SharedStep DEF SharedInv
  <1>3. QED
    BY <1>1, <1>2, PTL DEF Spec

\* In shared memory no match is counted twice and none that was not read, with
\* any number of children and however their increments fall on each other: each
\* guards them by a copy of the semaphore of its own (ask3final.c 64-84,
\* 124-146).
THEOREM CountIsNeverTooHigh == Spec => []NeverOvercounts
  <1>1. SharedInv => NeverOvercounts
    <2> SUFFICES ASSUME SharedInv, program = "ask3final" PROVE NeverOvercounts
      BY DEF NeverOvercounts
    <2>1. \A c \in Children : ReaderOK(c)
      BY DEF SharedInv, SharedOK
    <2>2. \A c, d \in Children : c # d => Seen(c) \cap Seen(d) = {}
      BY <2>1, SeenApart DEF SharedInv
    <2>3. shared_variable + Cardinality(Unstored) <= Cardinality(AllSeen)
      BY DEF SharedInv, SharedOK
    <2>4. QED
      BY <2>2, <2>3 DEF NeverOvercounts, AllSeen
  <1>2. QED
    BY <1>1, SharedInvariant, PTL

\* When main prints the total every child has read its share to the end, and
\* the shares leave no byte out, for a file of any size (ask3final.c 125-146,
\* 167-172).
THEOREM NoByteIsLeftOut == Spec => []AllRead
  <1>1. SharedInv => AllRead
    <2> SUFFICES ASSUME SharedInv, program = "ask3final", told # <<>>
                 PROVE  AllSeen = matches
      BY DEF AllRead, AllSeen
    <2>1. ASSUME NEW c \in Children
          PROVE  pc[c] = "ended" /\ AtEnd(c)
      BY DEF SharedInv, ControlOK, ParentOK, SharedOK, ReaderOK
    <2>2. AllSeen \subseteq matches
      BY SeenFinite DEF SharedInv
    <2>3. ASSUME NEW p \in matches
          PROVE  p \in AllSeen
      <3>1. p \in Bytes /\ p \in Nat /\ p < FileSize /\ FileSize \in Nat
        BY FileSizeAssumption DEF SharedInv, ControlOK, Bytes
      <3>2. PICK c \in Children :
                start_pos(c) <= p /\ p < start_pos(c) + segment_size
        BY <3>1, SegmentsCover
      <3>3. /\ end_pos(c) = start_pos(c) + segment_size \/ end_pos(c) = FileSize
            /\ start_pos(c) \in Nat /\ end_pos(c) \in Nat /\ segment_size \in Nat
            /\ offset[c] \in Nat
        BY EndPos, SegmentSize DEF SharedInv, OffsetOK
      <3>4. offset[c] >= end_pos(c) \/ offset[c] >= FileSize
        BY <2>1 DEF AtEnd
      <3>5. p < offset[c]
        BY <3>1, <3>2, <3>3, <3>4
      <3>6. p \in Seen(c)
        BY <2>1, <3>2, <3>5 DEF Seen
      <3>7. QED
        BY <3>6 DEF AllSeen
    <2>4. QED
      BY <2>2, <2>3
  <1>2. QED
    BY <1>1, SharedInvariant, PTL

-----------------------------------------------------------------------------
(* The numbers in the pipes.                                                 *)

\* The children whose file is open and whose offset is set.
Opened == {c \in Children : pc[c] \notin {"none", "open"}}

\* What has been read of the file since the last seek, in the one description
\* of ask3.c.
Progress == IF offset[0] < FileSize THEN offset[0] ELSE FileSize

\* A child of ask3.c reads each byte at most once after each of the seeks.
CountedOK(c) ==
    /\ program = "ask3final" => counted[c] = 0
    /\ program = "ask3" =>
           \/ counted[c] = 0
           \/ counted[c] + FileSize <= Cardinality(Opened) * FileSize + Progress

BoundOK ==
    /\ counted \in [Children -> Nat] /\ failures \in 0 .. MaxFailures
    /\ \A c \in Children : CountedOK(c)

\* The end of its share has come for a child of first_ex_ex_3.c.
SegmentRead(c) == offset[c] >= start_pos(c) + segment_size \/ offset[c] >= FileSize

\* A child of first_ex_ex_3.c has counted the matches from the beginning of its
\* segment to where it is; it stops before the end only when a call failed.
SegmentOK(c) ==
    /\ pc[c] \in {"none", "open"} => offset[c] = 0
    /\ pc[c] \in {"read", "check"} => start_pos(c) <= offset[c]
    /\ pc[c] = "read" => offset[c] < start_pos(c) + segment_size \/ offset[c] >= FileSize
    /\ offset[c] <= start_pos(c) + segment_size
    /\ counted[c] = Cardinality(matches \cap (start_pos(c) .. offset[c] - 1))
    /\ failures = 0 /\ mpc # "interrupted" /\ pc[c] \in {"write", "exit", "ended"} =>
           SegmentRead(c)

SegmentsOK == program = "first_ex_ex_3" => \A c \in Children : SegmentOK(c)

Collected(c) == (mpc = "collect" /\ c < i) \/ mpc \in {"print", "done"}

\* A pipe holds nothing or its child's count, which no longer changes; it holds
\* it when the child has ended and main has not come to it.
PipeFull(c) ==
    /\ pipes[c] \in {<<>>, <<counted[c]>>}
    /\ pipes[c] # <<>> => pc[c] \in {"signal", "exit", "ended"}
    /\ program # "ask3final" /\ failures = 0 /\ mpc # "interrupted" =>
           (pc[c] \in {"signal", "exit", "ended"} /\ ~Collected(c) =>
                pipes[c] = <<counted[c]>>)

PipesOK == pipes \in [Children -> Seq(Nat)] /\ \A c \in Children : PipeFull(c)

\* main has added the numbers of the segments before the one it is at.
SumOK ==
    /\ received \in 0 .. P * FileSize
    /\ total \in Nat /\ total <= P * (P * FileSize)
    /\ mpc = "collect" => total <= i * (P * FileSize)
    /\ mpc \notin {"collect", "print", "done", "interrupted"} => total = 0
    /\ told \in {<<>>} \cup {<<n>> : n \in 0 .. P * P * FileSize}
    /\ program = "first_ex_ex_3" /\ failures = 0 =>
           /\ mpc = "collect" => total = Cardinality(matches \cap (0 .. start_pos(i) - 1))
           /\ mpc \in {"print", "done"} => total = Cardinality(matches)
           /\ told # <<>> => told = <<Cardinality(matches)>>

-----------------------------------------------------------------------------
(* What a child may have counted at most.                                    *)

LEMMA OpenedFinite ==
    IsFiniteSet(Opened) /\ Cardinality(Opened) \in Nat /\ Cardinality(Opened) <= P
  <1>1. IsFiniteSet(Children) /\ Cardinality(Children) = P
    BY FS_Interval, ForkedAssumption DEF Children
  <1>2. QED
    BY <1>1, FS_Subset, FS_CardinalityType DEF Opened

LEMMA BoundInit == Init => BoundOK
  BY MaxFailuresAssumption DEF Init, SearchInit, PipeInit, BoundOK, CountedOK

\* A step of child c and what it does to its count and to the one offset that
\* is shared.
Counts(c) ==
    \/ counted' = counted /\ (program = "ask3" => offset' = offset)
    \/ counted' = counted /\ pc[c] = "open" /\ pc'[c] = "read"
    \/ /\ pc[c] = "read" /\ pc'[c] = "check" /\ program # "ask3final"
       /\ offset[Description(c)] < FileSize
       /\ counted' = [counted EXCEPT
                          ![c] = IF offset[Description(c)] \in matches THEN @ + 1 ELSE @]
       /\ offset' = [offset EXCEPT ![Description(c)] = @ + 1]

LEMMA ChildCounts ==
    ASSUME ControlOK, NEW c \in Children, Child(c) \/ ChildFails(c)
    PROVE  /\ Counts(c)
           /\ \/ failures' = failures
              \/ Fail(c) /\ failures < MaxFailures /\ failures' = failures + 1
  <1>1. pc \in [Children -> ControlPoints]
    BY DEF ControlOK
  <1>2. CASE OpenFile(c) /\ UNCHANGED pipeVars
    <2>1. /\ counted' = counted /\ failures' = failures
          /\ pc[c] = "open" /\ pc'[c] = "read"
      BY <1>1, <1>2 DEF OpenFile, Goes, pipeVars
    <2>2. QED
      BY <2>1 DEF Counts
  <1>3. CASE (Signal(c) \/ ExitChild(c)) /\ UNCHANGED pipeVars
    <2>1. counted' = counted /\ failures' = failures /\ offset' = offset
      BY <1>3 DEF Signal, ExitChild, pipeVars
    <2>2. QED
      BY <2>1 DEF Counts
  <1>4. CASE CountInMemory(c) /\ UNCHANGED pipeVars
    <2>1. counted' = counted /\ failures' = failures /\ program = "ask3final"
      BY <1>4 DEF CountInMemory, pipeVars
    <2>2. QED
      BY <2>1 DEF Counts
  <1>5. CASE CountBytes(c)
    <2>1. failures' = failures /\ program # "ask3final"
      BY <1>5 DEF CountBytes
    <2>2. CASE ReadByte(c)
      <3>1. pc[c] = "read" /\ pc'[c] = "check"
        BY <1>1, <2>2 DEF ReadByte, Goes
      <3>2. QED
        BY <2>1, <2>2, <3>1 DEF ReadByte, Counts
    <2>3. CASE ReadEof(c) \/ CheckEnd(c)
      BY <2>1, <2>3 DEF ReadEof, CheckEnd, Counts
    <2>4. QED
      BY <1>5, <2>2, <2>3 DEF CountBytes
  <1>6. CASE WriteNumber(c)
    <2>1. counted' = counted /\ failures' = failures /\ offset' = offset
      BY <1>6 DEF WriteNumber
    <2>2. QED
      BY <2>1 DEF Counts
  <1>7. CASE Fail(c)
    <2>1. counted' = counted /\ offset' = offset
          /\ failures < MaxFailures /\ failures' = failures + 1
      BY <1>7 DEF Fail
    <2>2. QED
      BY <1>7, <2>1 DEF Counts
  <1>8. QED
    BY <1>2, <1>3, <1>4, <1>5, <1>6, <1>7 DEF Child, ChildFails

LEMMA BoundStep == ControlOK /\ OffsetOK /\ BoundOK /\ [Next]_vars => BoundOK'
  <1> SUFFICES ASSUME ControlOK, OffsetOK, BoundOK, [Next]_vars PROVE BoundOK'
    OBVIOUS
  <1> USE DEF inputVars, childVars, mainVars, numberVars
  <1>0. /\ pc \in [Children -> ControlPoints] /\ P \in Nat \ {0} /\ FileSize \in Nat
        /\ counted \in [Children -> Nat] /\ failures \in 0 .. MaxFailures
        /\ MaxFailures \in Nat /\ 0 \in Children
        /\ offset \in [Children -> Nat]
        /\ \A c \in Children : CountedOK(c)
    BY ForkedAssumption, FileSizeAssumption, MaxFailuresAssumption
       DEF ControlOK, OffsetOK, BoundOK, Children
  <1>1. ASSUME UNCHANGED <<program, offset, counted, failures>>, Opened' = Opened
        PROVE  BoundOK'
    BY <1>0, <1>1 DEF BoundOK, CountedOK, Progress
  <1>2. CASE Fork /\ UNCHANGED pipeVars
    <2>1. PICK n \in Children : n = i
      BY <1>0, <1>2 DEF Fork, ControlOK, ParentOK, Children
    <2>2. /\ pc[n] = "none" /\ pc' = [pc EXCEPT ![n] = "open"]
          /\ UNCHANGED <<program, offset, counted, failures>>
      BY <1>0, <1>2, <2>1 DEF Fork, ControlOK, ParentOK, pipeVars
    <2>3. Opened' = Opened
      BY <1>0, <2>2 DEF Opened
    <2>4. QED
      BY <1>1, <2>2, <2>3
  <1>3. CASE \/ (LoadNumber \/ StoreNumber \/ WaitChild \/ PrintCount) /\ UNCHANGED pipeVars
             \/ Collect \/ PrintSum \/ EndOfChild \/ UNCHANGED vars
    <2>1. UNCHANGED <<program, pc, offset, counted, failures>>
      BY <1>3 DEF LoadNumber, StoreNumber, WaitChild, PrintCount, Collect, PrintSum,
                  EndOfChild, end_of_child, vars, searchVars, pipeVars
    <2>2. Opened' = Opened
      BY <2>1 DEF Opened
    <2>3. QED
      BY <1>1, <2>1, <2>2
  <1>4. CASE Interrupt
    BY <1>0, <1>4 DEF Interrupt, sigint_handler, pipeVars, BoundOK, CountedOK
  <1>5. ASSUME NEW c \in Children, Child(c) \/ ChildFails(c)
        PROVE  BoundOK'
    <2>1. PICK next \in ControlPoints : Moves(c, next)
      BY <1>5, ChildMoves
    <2>2. /\ program' = program /\ matches' = matches
          /\ \A d \in Children : pc'[d] = IF d = c THEN next ELSE pc[d]
          /\ pc[c] \notin {"none", "ended"} /\ next # "none"
      BY <1>0, <2>1 DEF Moves
    <2>3. Counts(c) /\ failures' \in 0 .. MaxFailures
      BY <1>0, <1>5, ChildCounts
    <2>4. Description(c) \in Children
      BY <1>0 DEF Description
    <2>5. counted' \in [Children -> Nat]
      BY <1>0, <2>3, <2>4 DEF Counts
    <2>6. CASE program = "first_ex_ex_3"
      BY <2>2, <2>3, <2>5, <2>6 DEF BoundOK, CountedOK
    <2>7. CASE program = "ask3final"
      BY <1>0, <2>2, <2>3, <2>5, <2>7 DEF BoundOK, CountedOK, Counts
    <2>8. CASE program = "ask3"
      <3>1. PICK k \in Nat, f \in Nat : k = Cardinality(Opened) /\ f = FileSize
        BY <1>0, OpenedFinite
      <3>2. k * f \in Nat /\ (k + 1) * f = k * f + f
        BY <3>1
      <3>3. Description(c) = 0
        BY <2>8 DEF Description
      <3>4. Progress \in Nat /\ Progress <= f
        BY <1>0, <3>1 DEF Progress
      <3>5. ASSUME counted' = counted, offset' = offset, Opened' = Opened
            PROVE  \A d \in Children : CountedOK(d)'
        BY <1>0, <2>2, <3>5 DEF CountedOK, Progress
      <3>6. CASE pc[c] = "open"
        <4>1. counted' = counted /\ next \notin {"none", "open"}
          BY <1>0, <1>5, <2>1, <2>2, <2>3, <2>8, <3>6 DEF Counts, Child, ChildFails,
             OpenFile, Signal, ExitChild, CountInMemory, CountBytes, ReadByte, ReadEof,
             CheckEnd, WriteNumber, Fail, OpenFails, ReadFails, Goes
        <4>2. Opened' = Opened \cup {c} /\ c \notin Opened
          BY <2>2, <3>6, <4>1 DEF Opened
        <4>3. Cardinality(Opened)' = k + 1
          BY <3>1, <4>2, OpenedFinite, FS_AddElement
        <4>4. Progress' \in Nat
          <5>1. offset'[0] \in Nat
            BY <1>0, OffsetStep DEF OffsetOK
          <5>2. QED
            BY <1>0, <5>1 DEF Progress
        <4>5. ASSUME NEW d \in Children
              PROVE  counted[d] = 0 \/ counted[d] + f <= (k + 1) * f + Progress'
          <5>1. counted[d] = 0 \/ counted[d] + f <= k * f + Progress
            BY <1>0, <2>8, <3>1 DEF CountedOK
          <5>2. counted[d] \in Nat
            BY <1>0
          <5>3. QED
            BY <3>2, <3>4, <4>4, <5>1, <5>2
        <4>6. \A d \in Children : CountedOK(d)'
          BY <2>2, <2>8, <3>1, <4>1, <4>3, <4>5 DEF CountedOK
        <4>7. QED
          BY <2>3, <2>5, <4>6 DEF BoundOK
      <3>7. CASE pc[c] # "open"
        <4>0. next # "open"
          BY <1>0, <1>5, <2>2, <3>7 DEF Child, ChildFails,
             OpenFile, Signal, ExitChild, CountInMemory, ReadNext, EndShare, SemWait,
             LoadCount, StoreCount, SemPost, CountBytes, ReadByte, ReadEof,
             CheckEnd, WriteNumber, Fail, OpenFails, ReadFails, Goes
        <4>1. Opened' = Opened
          BY <2>2, <3>7, <4>0 DEF Opened
        <4>2. CASE counted' = counted /\ offset' = offset
          BY <2>3, <2>5, <3>5, <4>1, <4>2 DEF BoundOK
        <4>3. CASE /\ pc[c] = "read" /\ offset[0] < FileSize
                   /\ counted' = [counted EXCEPT
                                      ![c] = IF offset[0] \in matches THEN @ + 1 ELSE @]
                   /\ offset' = [offset EXCEPT ![0] = @ + 1]
          <5>1. Progress = offset[0] /\ Progress' = offset[0] + 1 /\ offset[0] \in Nat
            BY <1>0, <4>3 DEF Progress
          <5>2. k \in Nat \ {0}
            <6>1. c \in Opened
              BY <4>3 DEF Opened
            <6>2. QED
              BY <3>1, <6>1, OpenedFinite, FS_EmptySet
          <5>3. k * f >= f
            <6>1. PICK m \in Nat : k = m + 1
              <7>1. k - 1 \in Nat /\ k = (k - 1) + 1
                BY <5>2
              <7>2. QED
                BY <7>1
            <6>2. k * f = m * f + f /\ m * f \in Nat
              BY <6>1, <3>1
            <6>3. QED
              BY <6>2, <3>1
          <5>4. ASSUME NEW d \in Children
                PROVE  counted'[d] = 0 \/ counted'[d] + f <= k * f + Progress'
            <6>1. counted[d] = 0 \/ counted[d] + f <= k * f + Progress
              BY <1>0, <2>8, <3>1 DEF CountedOK
            <6>2. counted[d] \in Nat /\ counted'[d] \in {counted[d], counted[d] + 1}
              BY <1>0, <4>3
            <6>3. QED
              BY <3>1, <3>2, <5>1, <5>3, <6>1, <6>2
          <5>5. \A d \in Children : CountedOK(d)'
            BY <2>2, <2>8, <3>1, <4>1, <5>4 DEF CountedOK
          <5>6. QED
            BY <2>3, <2>5, <5>5 DEF BoundOK
        <4>4. QED
          BY <2>3, <2>8, <3>3, <3>7, <4>2, <4>3 DEF Counts
      <3>8. QED
        BY <3>6, <3>7
    <2>9. QED
      BY <2>6, <2>7, <2>8, ProgramCases DEF ControlOK
  <1>6. QED
    BY <1>2, <1>3, <1>4, <1>5 DEF Next, Main

\* Each of the P seeks lets a child of ask3.c count the file once more.
LEMMA CountedAtMost ==
    ASSUME ControlOK, OffsetOK, BoundOK, program = "ask3", NEW c \in Children
    PROVE  counted[c] <= P * FileSize
  <1>1. PICK k \in Nat, n \in Nat, f \in Nat :
            k = Cardinality(Opened) /\ f = FileSize /\ n = P /\ k <= n
    BY ForkedAssumption, FileSizeAssumption, OpenedFinite
  <1>2. counted[c] \in Nat /\ 0 \in Children /\ offset[0] \in Nat
    BY ForkedAssumption DEF BoundOK, OffsetOK, Children
  <1>3. Progress \in Nat /\ Progress <= f
    BY <1>1, <1>2 DEF Progress
  <1>4. counted[c] = 0 \/ counted[c] + f <= k * f + Progress
    BY <1>1 DEF BoundOK, CountedOK
  <1>5. k * f <= n * f /\ k * f \in Nat /\ n * f \in Nat
    <2>1. PICK m \in Nat : n = k + m
      <3>1. n - k \in Nat /\ n = k + (n - k)
        BY <1>1
      <3>2. QED
        BY <3>1
    <2>2. n * f = k * f + m * f /\ m * f \in Nat /\ k * f \in Nat
      BY <2>1
    <2>3. QED
      BY <2>2
  <1>6. QED
    BY <1>1, <1>2, <1>3, <1>4, <1>5

-----------------------------------------------------------------------------
(* The counts of first_ex_ex_3.c.                                            *)

LEMMA SegmentInit == Init => SegmentsOK
  <1> SUFFICES ASSUME Init, NEW c \in Children PROVE SegmentOK(c)
    BY DEF SegmentsOK
  <1>1. pc[c] = "none" /\ offset[c] = 0 /\ counted[c] = 0
    BY DEF Init, SearchInit, PipeInit
  <1>2. start_pos(c) \in Nat /\ segment_size \in Nat
    BY EndPos, SegmentSize
  <1>3. start_pos(c) .. 0 - 1 = {}
    BY <1>2
  <1>4. Cardinality(matches \cap (start_pos(c) .. offset[c] - 1)) = 0
    BY <1>1, <1>3, FS_EmptySet
  <1>5. QED
    BY <1>1, <1>2, <1>4 DEF SegmentOK

\* One byte more has been read.
LEMMA OneByteMore ==
    ASSUME NEW M \in SUBSET Bytes, NEW s \in Nat, NEW o \in Nat, s <= o
    PROVE  /\ Cardinality(M \cap (s .. o - 1)) \in Nat
           /\ Cardinality(M \cap (s .. (o + 1) - 1))
                  = Cardinality(M \cap (s .. o - 1)) + (IF o \in M THEN 1 ELSE 0)
  <1>1. s .. (o + 1) - 1 = (s .. o - 1) \cup {o} /\ o \notin s .. o - 1
    OBVIOUS
  <1>2. IsFiniteSet(M \cap (s .. o - 1)) /\ Cardinality(M \cap (s .. o - 1)) \in Nat
    BY MatchesFinite
  <1>3. CASE o \in M
    <2>1. M \cap (s .. (o + 1) - 1) = (M \cap (s .. o - 1)) \cup {o}
      BY <1>1, <1>3
    <2>2. QED
      BY <1>1, <1>2, <1>3, <2>1, FS_AddElement
  <1>4. CASE o \notin M
    <2>1. M \cap (s .. (o + 1) - 1) = M \cap (s .. o - 1)
      BY <1>1, <1>4
    <2>2. QED
      BY <1>2, <1>4, <2>1
  <1>5. QED
    BY <1>3, <1>4

LEMMA SegmentChild ==
    ASSUME ControlOK, OffsetOK, BoundOK, SegmentsOK, program = "first_ex_ex_3",
           NEW c \in Children, Child(c) \/ ChildFails(c)
    PROVE  SegmentOK(c)' /\ \A d \in Children \ {c} : offset'[d] = offset[d]
                                                      /\ counted'[d] = counted[d]
  <1>0. PICK next \in ControlPoints : Moves(c, next)
    BY ChildMoves
  <1>1. /\ program' = program /\ matches' = matches /\ mpc' = mpc
        /\ pc \in [Children -> ControlPoints] /\ offset \in [Children -> Nat]
        /\ counted \in [Children -> Nat] /\ matches \in SUBSET Bytes
        /\ Description(c) = c /\ SegmentOK(c) /\ failures \in Nat
    BY <1>0, MaxFailuresAssumption
       DEF Moves, ControlOK, OffsetOK, BoundOK, SegmentsOK, inputVars, mainVars, Description
  <1>2. /\ start_pos(c) \in Nat /\ segment_size \in Nat /\ FileSize \in Nat
        /\ offset[c] \in Nat /\ end_pos(c) = start_pos(c) + segment_size
    BY <1>1, EndPos, SegmentSize, FileSizeAssumption DEF end_pos
  <1>3. ASSUME UNCHANGED <<offset, counted>>
        PROVE  /\ \A d \in Children \ {c} : offset'[d] = offset[d]
                                            /\ counted'[d] = counted[d]
               /\ counted'[c] = Cardinality(matches' \cap (start_pos(c) .. offset'[c] - 1))
               /\ offset'[c] <= start_pos(c) + segment_size
               /\ SegmentRead(c)' <=> SegmentRead(c)
    BY <1>1, <1>3 DEF SegmentOK, SegmentRead
  <1>4. CASE OpenFile(c) /\ UNCHANGED pipeVars
    <2>1. /\ pc[c] = "open" /\ pc'[c] = "read" /\ offset[c] = 0
          /\ offset' = [offset EXCEPT ![c] = start_pos(c)] /\ counted' = counted
      BY <1>1, <1>4 DEF OpenFile, Goes, pipeVars, SegmentOK
    <2>2. \A d \in Children : offset'[d] = IF d = c THEN start_pos(c) ELSE offset[d]
      BY <1>1, <2>1
    <2>3. start_pos(c) .. offset[c] - 1 = {} /\ start_pos(c) .. offset'[c] - 1 = {}
      BY <1>2, <2>1, <2>2
    <2>4. counted'[c] = Cardinality(matches' \cap (start_pos(c) .. offset'[c] - 1))
      BY <1>1, <2>1, <2>3 DEF SegmentOK
    <2>5. start_pos(c) < start_pos(c) + segment_size \/ start_pos(c) >= FileSize
      BY <1>2, SegmentSize
    <2>6. SegmentOK(c)'
      BY <1>2, <2>1, <2>2, <2>4, <2>5 DEF SegmentOK
    <2>7. QED
      BY <2>1, <2>2, <2>6
  <1>5. CASE ReadByte(c) /\ failures' = failures
    <2>1. /\ pc[c] = "read" /\ pc'[c] = "check" /\ offset[c] < FileSize
          /\ offset' = [offset EXCEPT ![c] = @ + 1]
          /\ counted' = [counted EXCEPT ![c] = IF offset[c] \in matches THEN @ + 1 ELSE @]
      BY <1>1, <1>5 DEF ReadByte, Goes
    <2>2. /\ \A d \in Children : offset'[d] = IF d = c THEN offset[c] + 1 ELSE offset[d]
          /\ \A d \in Children \ {c} : counted'[d] = counted[d]
          /\ counted'[c] = counted[c] + (IF offset[c] \in matches THEN 1 ELSE 0)
      BY <1>1, <2>1
    <2>3. start_pos(c) <= offset[c] /\ offset[c] < start_pos(c) + segment_size
      BY <1>1, <1>2, <2>1 DEF SegmentOK
    <2>4. counted'[c] = Cardinality(matches' \cap (start_pos(c) .. offset'[c] - 1))
      BY <1>1, <1>2, <2>2, <2>3, OneByteMore DEF SegmentOK
    <2>5. SegmentOK(c)'
      BY <1>2, <2>1, <2>2, <2>3, <2>4 DEF SegmentOK
    <2>6. QED
      BY <2>2, <2>5
  <1>6. CASE (ReadEof(c) \/ CheckEnd(c)) /\ failures' = failures
    <2>1. /\ UNCHANGED <<offset, counted>>
          /\ \/ pc[c] = "read" /\ pc'[c] = "write" /\ offset[c] >= FileSize
             \/ /\ pc[c] = "check"
                /\ pc'[c] = IF offset[c] >= end_pos(c) THEN "write" ELSE "read"
      BY <1>1, <1>6 DEF ReadEof, CheckEnd, Goes
    <2>2. pc'[c] = "write" => SegmentRead(c)
      BY <1>2, <2>1 DEF SegmentRead
    <2>3. pc'[c] = "read" => /\ start_pos(c) <= offset[c]
                             /\ offset[c] < start_pos(c) + segment_size
      BY <1>1, <1>2, <2>1 DEF SegmentOK
    <2>4. pc'[c] \in {"read", "write"}
      BY <2>1
    <2>5. SegmentOK(c)'
      BY <1>2, <1>3, <2>1, <2>2, <2>3, <2>4 DEF SegmentOK
    <2>6. QED
      BY <1>3, <2>1, <2>5
  <1>7. CASE (ExitChild(c) /\ UNCHANGED pipeVars) \/ WriteNumber(c)
    <2>1. /\ UNCHANGED <<offset, counted, failures>>
          /\ pc[c] \in {"exit", "write"} /\ pc'[c] \in {"exit", "ended"}
      BY <1>1, <1>7 DEF ExitChild, WriteNumber, Goes, pipeVars
    <2>2. failures' = 0 /\ mpc' # "interrupted" => SegmentRead(c)
      BY <1>1, <2>1 DEF SegmentOK
    <2>3. SegmentOK(c)'
      BY <1>3, <2>1, <2>2 DEF SegmentOK
    <2>4. QED
      BY <1>3, <2>1, <2>3
  <1>8. CASE Fail(c)
    <2>1. /\ UNCHANGED <<offset, counted>> /\ failures' # 0
          /\ pc'[c] \in {"ended", "write"}
      BY <1>1, <1>8 DEF Fail, OpenFails, ReadFails, Goes
    <2>2. SegmentOK(c)'
      BY <1>3, <2>1 DEF SegmentOK
    <2>3. QED
      BY <1>3, <2>1, <2>2
  <1>9. ~Signal(c) /\ ~CountInMemory(c)
    BY DEF Signal, CountInMemory, Goes, ControlOK, PointsOK
  <1>10. QED
    BY <1>4, <1>5, <1>6, <1>7, <1>8, <1>9 DEF Child, ChildFails, CountBytes

LEMMA SegmentStep ==
    ControlOK /\ OffsetOK /\ BoundOK /\ SegmentsOK /\ [Next]_vars => SegmentsOK'
  <1> SUFFICES ASSUME ControlOK, OffsetOK, BoundOK, SegmentsOK, [Next]_vars
               PROVE  SegmentsOK'
    OBVIOUS
  <1> USE DEF inputVars, childVars, mainVars, numberVars
  <1>0. /\ pc \in [Children -> ControlPoints] /\ failures \in Nat /\ P \in Nat \ {0}
    BY ForkedAssumption, MaxFailuresAssumption DEF ControlOK, BoundOK
  <1>1. ASSUME UNCHANGED <<program, matches, offset, counted, failures>>,
               NEW c \in Children, program = "first_ex_ex_3",
               mpc' # "interrupted" => mpc # "interrupted",
               pc'[c] = pc[c] \/ (pc[c] = "none" /\ pc'[c] = "open")
        PROVE  SegmentOK(c)'
    <2>1. SegmentOK(c)
      BY <1>1 DEF SegmentsOK
    <2>2. SegmentRead(c)' <=> SegmentRead(c)
      BY <1>1 DEF SegmentRead
    <2>3. QED
      BY <1>1, <2>1, <2>2 DEF SegmentOK
  <1>2. CASE Fork /\ UNCHANGED pipeVars
    <2>1. /\ i \in Children /\ pc[i] = "none" /\ pc' = [pc EXCEPT ![i] = "open"]
          /\ UNCHANGED <<program, matches, offset, counted, failures>>
          /\ mpc # "interrupted"
      BY <1>0, <1>2 DEF Fork, ControlOK, ParentOK, pipeVars, Children
    <2>2. \A c \in Children : pc'[c] = pc[c] \/ (pc[c] = "none" /\ pc'[c] = "open")
      BY <1>0, <2>1
    <2>3. ASSUME program = "first_ex_ex_3", NEW c \in Children PROVE SegmentOK(c)'
      BY <1>1, <2>1, <2>2, <2>3
    <2>4. QED
      BY <2>1, <2>3 DEF SegmentsOK
  <1>3. CASE \/ (LoadNumber \/ StoreNumber \/ WaitChild \/ PrintCount) /\ UNCHANGED pipeVars
             \/ Collect \/ PrintSum \/ EndOfChild \/ UNCHANGED vars
    <2>1. /\ UNCHANGED <<program, matches, pc, offset, counted, failures>>
          /\ mpc' # "interrupted" => mpc # "interrupted"
      BY <1>3 DEF LoadNumber, StoreNumber, WaitChild, PrintCount, Collect, PrintSum,
                  EndOfChild, end_of_child, vars, searchVars, pipeVars
    <2>2. ASSUME program = "first_ex_ex_3", NEW c \in Children PROVE SegmentOK(c)'
      BY <1>1, <2>1, <2>2
    <2>3. QED
      BY <2>1, <2>2 DEF SegmentsOK
  <1>4. CASE Interrupt
    <2>1. /\ UNCHANGED <<program, matches, offset, counted, failures>>
          /\ mpc' = "interrupted"
          /\ \A c \in Children : pc'[c] = IF pc[c] = "none" THEN "none" ELSE "ended"
      BY <1>4 DEF Interrupt, sigint_handler, pipeVars
    <2>2. ASSUME program = "first_ex_ex_3", NEW c \in Children PROVE SegmentOK(c)'
      BY <2>1, <2>2 DEF SegmentOK, SegmentsOK
    <2>3. QED
      BY <2>1, <2>2 DEF SegmentsOK
  <1>5. ASSUME NEW c \in Children, Child(c) \/ ChildFails(c)
        PROVE  SegmentsOK'
    <2>1. PICK next \in ControlPoints : Moves(c, next)
      BY <1>5, ChildMoves
    <2>2. /\ UNCHANGED <<program, matches, mpc>>
          /\ \A d \in Children : pc'[d] = IF d = c THEN next ELSE pc[d]
      BY <1>0, <2>1 DEF Moves
    <2>3. failures' = 0 => failures = 0
      BY <1>0, <1>5, ChildCounts
    <2>4. SUFFICES ASSUME program = "first_ex_ex_3", NEW d \in Children PROVE SegmentOK(d)'
      BY <2>2 DEF SegmentsOK
    <2>5. CASE d = c
      BY <1>5, <2>4, <2>5, SegmentChild
    <2>6. CASE d # c
      <3>1. /\ offset'[d] = offset[d] /\ counted'[d] = counted[d] /\ pc'[d] = pc[d]
            /\ SegmentOK(d)
        BY <1>5, <2>2, <2>4, <2>6, SegmentChild DEF SegmentsOK
      <3>2. SegmentRead(d)' <=> SegmentRead(d)
        BY <3>1 DEF SegmentRead
      <3>3. QED
        BY <2>2, <2>3, <3>1, <3>2 DEF SegmentOK
    <2>7. QED
      BY <2>5, <2>6
  <1>6. QED
    BY <1>2, <1>3, <1>4, <1>5 DEF Next, Main

\* What a child has counted of its segment is no more than there is in it.
LEMMA CountedInSegment ==
    ASSUME ControlOK, OffsetOK, SegmentsOK, program = "first_ex_ex_3", NEW c \in Children
    PROVE  counted[c] <= Cardinality(matches \cap Share(start_pos(c), end_pos(c)))
  <1>1. /\ start_pos(c) \in Nat /\ segment_size \in Nat /\ offset[c] \in Nat
        /\ end_pos(c) = start_pos(c) + segment_size /\ matches \in SUBSET Bytes
        /\ Bytes \subseteq Nat /\ SegmentOK(c)
    BY EndPos, SegmentSize, FileSizeAssumption
       DEF end_pos, OffsetOK, ControlOK, Bytes, SegmentsOK
  <1>2. offset[c] <= end_pos(c)
    BY <1>1 DEF SegmentOK
  <1>3. matches \cap (start_pos(c) .. offset[c] - 1)
            \subseteq matches \cap Share(start_pos(c), end_pos(c))
    BY <1>1, <1>2 DEF Share
  <1>4. IsFiniteSet(matches \cap Share(start_pos(c), end_pos(c)))
    BY <1>1, MatchesFinite
  <1>5. QED
    BY <1>1, <1>3, <1>4, FS_Subset DEF SegmentOK

CountInv == ControlOK /\ OffsetOK /\ BoundOK /\ SegmentsOK

LEMMA CountInvariant == Spec => []CountInv
  <1>1. Init => CountInv
    BY ControlInit, OffsetInit, BoundInit, SegmentInit DEF CountInv
  <1>2. CountInv /\ [Next]_vars => CountInv'
    BY ControlStep, OffsetStep, BoundStep, SegmentStep DEF CountInv
  <1>3. QED
    BY <1>1, <1>2, PTL DEF Spec

\* No child of first_ex_ex_3.c counts a byte of another one's share, whatever
\* fails, for a file of any size and any number of children, although it looks
\* for the end only after a byte (first_ex_ex_3.c 39-46, 89-104).
THEOREM EachCountsItsOwn == Spec => []OwnShare
  <1>1. CountInv => OwnShare
    BY CountedInSegment DEF CountInv, OwnShare
  <1>2. QED
    BY <1>1, CountInvariant, PTL

-----------------------------------------------------------------------------
(* The pipes.                                                                *)

LEMMA PipesInit == Init => PipesOK
  <1> SUFFICES ASSUME Init PROVE PipesOK
    OBVIOUS
  <1>1. pipes = [c \in Children |-> <<>>] /\ \A c \in Children : pc[c] = "none"
    BY DEF Init, SearchInit, PipeInit
  <1>2. <<>> \in Seq(Nat)
    OBVIOUS
  <1>3. pipes \in [Children -> Seq(Nat)]
    BY <1>1, <1>2
  <1>4. \A c \in Children : PipeFull(c)
    BY <1>1 DEF PipeFull
  <1>5. QED
    BY <1>3, <1>4 DEF PipesOK

\* A child writes its number once, before it exits.
LEMMA ChildWrites ==
    ASSUME ControlOK, NEW c \in Children, Child(c) \/ ChildFails(c)
    PROVE  \/ WriteNumber(c)
           \/ /\ pipes' = pipes
              /\ program # "ask3final" /\ pc'[c] \in {"signal", "exit", "ended"} =>
                     pc[c] \in {"signal", "exit"} \/ Fail(c)
  <1>1. pc \in [Children -> ControlPoints]
    BY DEF ControlOK
  <1>2. CASE (OpenFile(c) \/ ExitChild(c)) /\ UNCHANGED pipeVars
    BY <1>1, <1>2 DEF OpenFile, ExitChild, Goes, pipeVars
  <1>3. CASE (Signal(c) \/ CountInMemory(c)) /\ UNCHANGED pipeVars
    BY <1>1, <1>3 DEF Signal, CountInMemory, Goes, pipeVars
  <1>4. CASE CountBytes(c)
    BY <1>1, <1>4 DEF CountBytes, ReadByte, ReadEof, CheckEnd, Goes
  <1>5. CASE Fail(c)
    BY <1>5 DEF Fail
  <1>6. QED
    BY <1>2, <1>3, <1>4, <1>5 DEF Child, ChildFails

LEMMA PipesStep == ControlOK /\ BoundOK /\ PipesOK /\ [Next]_vars => PipesOK'
  <1> SUFFICES ASSUME ControlOK, BoundOK, PipesOK, [Next]_vars PROVE PipesOK'
    OBVIOUS
  <1> USE DEF inputVars, childVars, mainVars, numberVars, collectVars, pipeVars
  <1>0. /\ pc \in [Children -> ControlPoints] /\ failures \in Nat /\ P \in Nat \ {0}
        /\ pipes \in [Children -> Seq(Nat)] /\ counted \in [Children -> Nat]
        /\ i \in 0 .. P /\ Children \subseteq Nat
        /\ \A c \in Children : PipeFull(c)
    BY ForkedAssumption, MaxFailuresAssumption
       DEF ControlOK, BoundOK, PipesOK, Children
  <1>1. ASSUME NEW c \in Children, UNCHANGED <<program, counted>>, failures' = failures,
               pipes'[c] = pipes[c], Collected(c) => Collected(c)',
               mpc' # "interrupted" => mpc # "interrupted",
               pc'[c] = pc[c] \/ (pc[c] = "none" /\ pc'[c] = "open")
        PROVE  PipeFull(c)'
    BY <1>0, <1>1 DEF PipeFull
  <1>2. CASE Fork /\ UNCHANGED pipeVars
    <2>1. /\ i \in Children /\ pc[i] = "none" /\ pc' = [pc EXCEPT ![i] = "open"]
          /\ UNCHANGED <<program, counted, pipes, failures>>
          /\ mpc = "fork"
      BY <1>0, <1>2 DEF Fork, ControlOK, ParentOK, Children
    <2>2. \A c \in Children : pc'[c] = pc[c] \/ (pc[c] = "none" /\ pc'[c] = "open")
      BY <1>0, <2>1
    <2>3. \A c \in Children : ~Collected(c)
      BY <2>1 DEF Collected
    <2>4. \A c \in Children : PipeFull(c)'
      BY <1>1, <2>1, <2>2, <2>3
    <2>5. QED
      BY <1>0, <2>1, <2>4 DEF PipesOK
  <1>3. CASE \/ (LoadNumber \/ StoreNumber \/ WaitChild \/ PrintCount) /\ UNCHANGED pipeVars
             \/ PrintSum \/ EndOfChild \/ UNCHANGED vars
    <2>1. /\ UNCHANGED <<program, pc, counted, pipes, failures>>
          /\ mpc' # "interrupted" => mpc # "interrupted"
      BY <1>3 DEF LoadNumber, StoreNumber, WaitChild, PrintCount, PrintSum,
                  EndOfChild, end_of_child, vars, searchVars
    <2>2. \A c \in Children : Collected(c) => Collected(c)'
      BY <1>3 DEF LoadNumber, StoreNumber, WaitChild, PrintCount, PrintSum,
                  EndOfChild, end_of_child, vars, searchVars, Collected
    <2>3. \A c \in Children : PipeFull(c)'
      BY <1>1, <2>1, <2>2
    <2>4. QED
      BY <1>0, <2>1, <2>3 DEF PipesOK
  <1>4. CASE Collect
    <2>1. PICK n \in Children : n = i
      BY <1>0, <1>4 DEF Collect, ControlOK, ParentOK, Children
    <2>2. /\ UNCHANGED <<program, pc, counted, failures>>
          /\ mpc = "collect" /\ i' = n + 1 /\ mpc' = IF n + 1 < P THEN mpc ELSE "print"
          /\ pipes' = [pipes EXCEPT ![n] = <<>>]
      BY <1>4, <2>1 DEF Collect
    <2>3. \A c \in Children : Collected(c) => Collected(c)'
      BY <1>0, <2>1, <2>2 DEF Collected
    <2>4. Collected(n)'
      BY <1>0, <2>1, <2>2 DEF Collected
    <2>5. /\ \A c \in Children : pipes'[c] = IF c = n THEN <<>> ELSE pipes[c]
          /\ pipes' \in [Children -> Seq(Nat)]
      BY <1>0, <2>2
    <2>6. PipeFull(n)'
      BY <2>4, <2>5 DEF PipeFull
    <2>7. \A c \in Children \ {n} : PipeFull(c)'
      BY <1>1, <2>2, <2>3, <2>5
    <2>8. QED
      BY <2>5, <2>6, <2>7 DEF PipesOK
  <1>5. CASE Interrupt
    <2>1. /\ UNCHANGED <<program, counted, pipes>> /\ mpc' = "interrupted"
          /\ \A c \in Children : pc'[c] = IF pc[c] = "none" THEN "none" ELSE "ended"
      BY <1>5 DEF Interrupt, sigint_handler
    <2>2. \A c \in Children : PipeFull(c)'
      BY <1>0, <2>1 DEF PipeFull
    <2>3. QED
      BY <1>0, <2>1, <2>2 DEF PipesOK
  <1>6. ASSUME NEW c \in Children, Child(c) \/ ChildFails(c)
        PROVE  PipesOK'
    <2>1. PICK next \in ControlPoints : Moves(c, next)
      BY <1>6, ChildMoves
    <2>2. /\ UNCHANGED <<program, mpc, i>>
          /\ \A d \in Children : pc'[d] = IF d = c THEN next ELSE pc[d]
          /\ pc[c] = "signal" => next = "exit"
          /\ pc[c] = "exit" => next = "ended"
          /\ pc[c] # "ended"
      BY <1>0, <2>1 DEF Moves
    <2>3. failures' = 0 => failures = 0 /\ ~Fail(c)
      BY <1>0, <1>6, ChildCounts DEF Fail
    <2>4. Collected(c)' <=> Collected(c)
      BY <2>2 DEF Collected
    <2>5. /\ \A d \in Children \ {c} : counted'[d] = counted[d]
          /\ pc[c] # "read" => counted'[c] = counted[c]
      BY <1>0, <1>6, ChildCounts DEF Counts
    <2>6. PipeFull(c)' /\ pipes' \in [Children -> Seq(Nat)]
          /\ \A d \in Children \ {c} : pipes'[d] = pipes[d]
      <3>1. CASE WriteNumber(c)
        <4>1. /\ pc[c] = "write" /\ next \in {"signal", "exit"}
              /\ pipes' = [pipes EXCEPT ![c] = <<counted[c]>>] /\ counted' = counted
          <5>1. pc[c] = "write" /\ pc'[c] \in {"signal", "exit"}
            BY <1>0, <3>1 DEF WriteNumber, Goes
          <5>2. QED
            BY <2>2, <3>1, <5>1 DEF WriteNumber
        <4>2. <<counted[c]>> \in Seq(Nat)
          BY <1>0
        <4>3. /\ pipes' \in [Children -> Seq(Nat)] /\ pipes'[c] = <<counted'[c]>>
              /\ \A d \in Children \ {c} : pipes'[d] = pipes[d]
          BY <1>0, <4>1, <4>2
        <4>4. PipeFull(c)'
          BY <2>2, <4>1, <4>3 DEF PipeFull
        <4>5. QED
          BY <4>3, <4>4
      <3>2. CASE pipes' = pipes /\ ~WriteNumber(c)
        <4>1. program # "ask3final" /\ failures' = 0 /\ next \in {"signal", "exit", "ended"} =>
                  pc[c] \in {"signal", "exit"}
          BY <1>6, <2>2, <2>3, <3>2, ChildWrites
        <4>2. CASE pipes[c] = <<>>
          <5>1. pipes'[c] = <<>>
            BY <3>2, <4>2
          <5>2. ~(program' # "ask3final" /\ failures' = 0 /\ mpc' # "interrupted"
                    /\ pc'[c] \in {"signal", "exit", "ended"} /\ ~Collected(c)')
            <6>1. <<counted[c]>> # <<>>
              OBVIOUS
            <6>2. SUFFICES ASSUME program' # "ask3final", failures' = 0,
                                  mpc' # "interrupted",
                                  pc'[c] \in {"signal", "exit", "ended"}, ~Collected(c)'
                           PROVE  FALSE
              OBVIOUS
            <6>3. /\ pc[c] \in {"signal", "exit"} /\ failures = 0 /\ ~Collected(c)
                  /\ mpc # "interrupted" /\ program # "ask3final"
              BY <2>2, <2>3, <2>4, <4>1, <6>2
            <6>4. QED
              BY <1>0, <4>2, <6>1, <6>3 DEF PipeFull
          <5>3. QED
            BY <1>0, <3>2, <5>1, <5>2 DEF PipeFull
        <4>3. CASE pipes[c] # <<>>
          <5>1. pc[c] \in {"signal", "exit"} /\ pipes[c] = <<counted[c]>>
            BY <1>0, <2>2, <4>3 DEF PipeFull
          <5>2. pc'[c] \in {"exit", "ended"} /\ pipes'[c] = <<counted'[c]>>
            BY <2>2, <2>5, <3>2, <5>1
          <5>3. QED
            BY <1>0, <3>2, <5>2 DEF PipeFull
        <4>4. QED
          BY <4>2, <4>3
      <3>3. QED
        BY <1>6, <3>1, <3>2, ChildWrites
    <2>7. ASSUME NEW d \in Children \ {c}
          PROVE  PipeFull(d)'
      <3>1. /\ pipes'[d] = pipes[d] /\ counted'[d] = counted[d] /\ pc'[d] = pc[d]
            /\ PipeFull(d)
        BY <1>0, <2>2, <2>5, <2>6
      <3>2. Collected(d)' <=> Collected(d)
        BY <2>2 DEF Collected
      <3>3. QED
        BY <2>2, <2>3, <3>1, <3>2 DEF PipeFull
    <2>8. QED
      BY <2>6, <2>7 DEF PipesOK
  <1>7. QED
    BY <1>2, <1>3, <1>4, <1>5, <1>6 DEF Next, Main

-----------------------------------------------------------------------------
(* Sums.                                                                     *)

Pick(s) == CHOOSE x \in s : TRUE

\* f sums c over the subsets of s, element by element in whatever order.
Sums(c, s, f) ==
    f = [t \in SUBSET s |-> IF t = {} THEN 0 ELSE c[Pick(t)] + f[t \ {Pick(t)}]]

LEMMA PickIn == ASSUME NEW s, s # {} PROVE Pick(s) \in s
  BY DEF Pick

\* A set of subsets of a finite set has a smallest member.
LEMMA Smallest ==
    ASSUME NEW D, IsFiniteSet(D), NEW B \in SUBSET (SUBSET D), B # {}
    PROVE  \E s \in B : \A t \in B : t \subseteq s => t = s
  <1> DEFINE R == StrictSubsetOrdering(D)
  <1>1. IsWellFoundedOn(R, FiniteSubsetsOf(D))
    BY FS_StrictSubsetOrderingWellFounded
  <1>2. B \subseteq FiniteSubsetsOf(D)
    BY FS_Subset DEF FiniteSubsetsOf
  <1>3. PICK s \in B : \A t \in B : ~(<<t, s>> \in R)
    <2> HIDE DEF R
    <2>1. QED
      BY <1>1, <1>2, WFMin
  <1>4. QED
    BY <1>3 DEF StrictSubsetOrdering

LEMMA SumsAgree ==
    ASSUME NEW D, IsFiniteSet(D), NEW c, NEW s \in SUBSET D, NEW t \in SUBSET D,
           NEW f, NEW g, Sums(c, s, f), Sums(c, t, g), NEW u \in SUBSET (s \cap t)
    PROVE  f[u] = g[u]
  <1> DEFINE B == {w \in SUBSET (s \cap t) : f[w] # g[w]}
  <1>1. SUFFICES ASSUME B # {} PROVE FALSE
    OBVIOUS
  <1>2. B \in SUBSET (SUBSET D)
    OBVIOUS
  <1>3. PICK w \in B : \A v \in B : v \subseteq w => v = w
    <2> HIDE DEF B
    <2>1. QED
      BY <1>1, <1>2, Smallest
  <1>4. \A v \in SUBSET (s \cap t) :
            /\ f[v] = IF v = {} THEN 0 ELSE c[Pick(v)] + f[v \ {Pick(v)}]
            /\ g[v] = IF v = {} THEN 0 ELSE c[Pick(v)] + g[v \ {Pick(v)}]
    BY DEF Sums
  <1>5. w # {}
    BY <1>3, <1>4
  <1>6. w \ {Pick(w)} \in SUBSET (s \cap t) /\ w \ {Pick(w)} # w
    BY <1>3, <1>5, PickIn
  <1>7. f[w \ {Pick(w)}] = g[w \ {Pick(w)}]
    BY <1>3, <1>6
  <1>8. QED
    BY <1>3, <1>4, <1>7

LEMMA SumsExist ==
    ASSUME NEW D, IsFiniteSet(D), NEW c
    PROVE  \E f : Sums(c, D, f)
  <1> DEFINE B == {s \in SUBSET D : ~\E f : Sums(c, s, f)}
  <1>1. SUFFICES ASSUME B # {} PROVE FALSE
    OBVIOUS
  <1>2. B \in SUBSET (SUBSET D)
    OBVIOUS
  <1>3. PICK s \in B : \A v \in B : v \subseteq s => v = s
    <2> HIDE DEF B
    <2>1. QED
      BY <1>1, <1>2, Smallest
  <1> DEFINE G(v) == CHOOSE f : Sums(c, v, f)
             V(v) == IF v = {} THEN 0
                     ELSE c[Pick(v)] + G(v \ {Pick(v)})[v \ {Pick(v)}]
             F == [v \in SUBSET s |-> V(v)]
  <1>4. ASSUME NEW v \in SUBSET s, v # s
        PROVE  Sums(c, v, G(v))
    <2>1. v \notin B
      BY <1>3, <1>4
    <2>2. \E f : Sums(c, v, f)
      BY <1>3, <1>4, <2>1
    <2>3. QED
      BY <2>2
  <1>5. ASSUME NEW v \in SUBSET s, v # {}
        PROVE  V(v) = c[Pick(v)] + F[v \ {Pick(v)}]
    <2> DEFINE u == v \ {Pick(v)}
    <2>1. u \in SUBSET s /\ u # s
      BY <1>5, PickIn
    <2>2. Sums(c, u, G(u))
      BY <1>4, <2>1
    <2>3. G(u)[u] = IF u = {} THEN 0 ELSE c[Pick(u)] + G(u)[u \ {Pick(u)}]
      BY <2>2 DEF Sums
    <2>4. ASSUME u # {}
          PROVE  G(u)[u \ {Pick(u)}] = G(u \ {Pick(u)})[u \ {Pick(u)}]
      <3>1. u \ {Pick(u)} \in SUBSET s /\ u \ {Pick(u)} # s
        BY <2>1, <2>4, PickIn
      <3>2. Sums(c, u \ {Pick(u)}, G(u \ {Pick(u)}))
        BY <1>4, <3>1
      <3>3. /\ u \in SUBSET D /\ u \ {Pick(u)} \in SUBSET D
            /\ u \ {Pick(u)} \in SUBSET (u \cap (u \ {Pick(u)}))
        BY <1>3, <2>1
      <3> HIDE DEF G, u
      <3>4. QED
        BY <2>2, <3>2, <3>3, SumsAgree
    <2>5. V(u) = G(u)[u]
      BY <2>3, <2>4
    <2>6. F[u] = V(u)
      BY <2>1
    <2>7. QED
      BY <1>5, <2>5, <2>6
  <1>6. F = [v \in SUBSET s |-> IF v = {} THEN 0 ELSE c[Pick(v)] + F[v \ {Pick(v)}]]
    <2>1. ASSUME NEW v \in SUBSET s, v = {} PROVE V(v) = 0
      BY <2>1
    <2>2. F = [v \in SUBSET s |-> V(v)]
      OBVIOUS
    <2> HIDE DEF V, F
    <2>3. \A v \in SUBSET s : V(v) = IF v = {} THEN 0 ELSE c[Pick(v)] + F[v \ {Pick(v)}]
      BY <1>5, <2>1
    <2>4. [v \in SUBSET s |-> V(v)]
              = [v \in SUBSET s |-> IF v = {} THEN 0 ELSE c[Pick(v)] + F[v \ {Pick(v)}]]
      BY <2>3
    <2>5. QED
      BY <2>2, <2>4
  <1>7. Sums(c, s, F)
    <2> HIDE DEF F
    <2>1. QED
      BY <1>6 DEF Sums
  <1>8. QED
    <2> HIDE DEF F
    <2>1. QED
      BY <1>3, <1>7

\* The sums of counts over sets of children.
SumOf(c) == CHOOSE f : Sums(c, Children, f)

LEMMA SumOfSums ==
    ASSUME NEW c \in [Children -> Nat]
    PROVE  /\ IsFiniteSet(Children)
           /\ Sums(c, Children, SumOf(c))
           /\ SumOf(c)[{}] = 0
           /\ \A s \in SUBSET Children :
                  s # {} => SumOf(c)[s] = c[Pick(s)] + SumOf(c)[s \ {Pick(s)}]
  <1>1. IsFiniteSet(Children)
    BY FS_Interval, ForkedAssumption DEF Children
  <1>2. \E f : Sums(c, Children, f)
    BY <1>1, SumsExist
  <1>3. Sums(c, Children, SumOf(c))
    BY <1>2 DEF SumOf
  <1> HIDE DEF SumOf
  <1>4. QED
    BY <1>1, <1>3 DEF Sums

LEMMA SumOfNat ==
    ASSUME NEW c \in [Children -> Nat], NEW s \in SUBSET Children
    PROVE  SumOf(c)[s] \in Nat
  <1> DEFINE f == SumOf(c)
             B == {w \in SUBSET Children : f[w] \notin Nat}
  <1>1. SUFFICES ASSUME B # {} PROVE FALSE
    OBVIOUS
  <1>2. B \in SUBSET (SUBSET Children)
    OBVIOUS
  <1>3. PICK w \in B : \A v \in B : v \subseteq w => v = w
    <2> HIDE DEF B
    <2>1. QED
      BY <1>1, <1>2, Smallest, SumOfSums
  <1> HIDE DEF f
  <1>4. f[{}] = 0 /\ \A v \in SUBSET Children :
                         v # {} => f[v] = c[Pick(v)] + f[v \ {Pick(v)}]
    BY SumOfSums DEF f
  <1>5. w \in SUBSET Children /\ f[w] \notin Nat /\ w # {}
    <2>1. w \in SUBSET Children /\ f[w] \notin Nat
      BY <1>3
    <2>2. 0 \in Nat /\ f[{}] = 0
      BY <1>4
    <2>3. QED
      BY <2>1, <2>2
  <1>6. Pick(w) \in w /\ w \ {Pick(w)} \in SUBSET Children /\ w \ {Pick(w)} # w
    BY <1>5, PickIn
  <1>7. f[w \ {Pick(w)}] \in Nat /\ c[Pick(w)] \in Nat
    BY <1>3, <1>5, <1>6
  <1>8. f[w] = c[Pick(w)] + f[w \ {Pick(w)}]
    BY <1>4, <1>5
  <1>9. QED
    BY <1>5, <1>7, <1>8

\* It does not matter which element is added last.
LEMMA SumOfOneMore ==
    ASSUME NEW c \in [Children -> Nat], NEW s \in SUBSET Children, NEW x \in s
    PROVE  SumOf(c)[s] = c[x] + SumOf(c)[s \ {x}]
  <1> DEFINE f == SumOf(c)
             B == {w \in SUBSET Children : \E y \in w : f[w] # c[y] + f[w \ {y}]}
  <1>1. SUFFICES ASSUME B # {} PROVE FALSE
    OBVIOUS
  <1>2. B \in SUBSET (SUBSET Children)
    OBVIOUS
  <1>3. PICK w \in B : \A v \in B : v \subseteq w => v = w
    <2> HIDE DEF B
    <2>1. QED
      BY <1>1, <1>2, Smallest, SumOfSums
  <1> HIDE DEF f
  <1>4. \A v \in SUBSET Children : /\ v # {} => f[v] = c[Pick(v)] + f[v \ {Pick(v)}]
                                   /\ f[v] \in Nat
    BY SumOfSums, SumOfNat DEF f
  <1>5. PICK y \in w : f[w] # c[y] + f[w \ {y}]
    BY <1>3
  <1>6. PICK z \in w : z = Pick(w)
    BY <1>5, PickIn
  <1>7. f[w] = c[z] + f[w \ {z}] /\ w \in SUBSET Children
    BY <1>3, <1>4, <1>5, <1>6
  <1>8. y # z
    BY <1>5, <1>7
  <1>9. f[w \ {z}] = c[y] + f[(w \ {z}) \ {y}]
    <2>1. w \ {z} \in SUBSET Children /\ w \ {z} # w /\ y \in w \ {z}
      BY <1>6, <1>7, <1>8
    <2>2. w \ {z} \notin B
      BY <1>3, <2>1
    <2>3. QED
      BY <2>1, <2>2
  <1>10. f[w \ {y}] = c[z] + f[(w \ {y}) \ {z}]
    <2>1. w \ {y} \in SUBSET Children /\ w \ {y} # w /\ z \in w \ {y}
      BY <1>6, <1>7, <1>8
    <2>2. w \ {y} \notin B
      BY <1>3, <2>1
    <2>3. QED
      BY <2>1, <2>2
  <1>11. (w \ {z}) \ {y} = (w \ {y}) \ {z}
    OBVIOUS
  <1>12. PICK r \in Nat : r = f[(w \ {y}) \ {z}]
    <2>1. (w \ {y}) \ {z} \in SUBSET Children
      BY <1>7
    <2>2. QED
      BY <1>4, <2>1
  <1>13. c[y] \in Nat /\ c[z] \in Nat
    BY <1>7
  <1>14. f[w] = c[z] + (c[y] + r) /\ f[w \ {y}] = c[z] + r
    BY <1>7, <1>9, <1>10, <1>11, <1>12
  <1>15. QED
    BY <1>5, <1>12, <1>13, <1>14

\* The sum as the model states it.
LEMMA FoldIsSum ==
    ASSUME NEW c \in [Children -> Nat]
    PROVE  FoldFunction(+, 0, c) = SumOf(c)[Children]
  <1>1. DOMAIN c = Children
    OBVIOUS
  <1>2. QED
    BY <1>1 DEF FoldFunction, FoldFunctionOnSet, MapThenFoldSet, SumOf, Sums, Pick

-----------------------------------------------------------------------------
(* The sum.                                                                  *)

\* The bounds of the numbers and of their sum.
LEMMA Bounds ==
    /\ P * FileSize \in Nat /\ FileSize <= P * FileSize
    /\ P * (P * FileSize) \in Nat /\ P * (P * FileSize) = P * P * FileSize
    /\ FileSize <= P * (P * FileSize)
  <1>1. ASSUME NEW b \in Nat
        PROVE  P * b \in Nat /\ b <= P * b
    <2>1. PICK m \in Nat : P = m + 1
      <3>1. P - 1 \in Nat /\ P = (P - 1) + 1
        BY ForkedAssumption
      <3>2. QED
        BY <3>1
    <2>2. P * b = m * b + b /\ m * b \in Nat
      BY <2>1
    <2>3. QED
      BY <2>2
  <1>2. P * FileSize \in Nat /\ FileSize <= P * FileSize
    BY <1>1, FileSizeAssumption
  <1>3. P * (P * FileSize) \in Nat /\ P * FileSize <= P * (P * FileSize)
    BY <1>1, <1>2
  <1>4. \A p, f \in Nat : p * (p * f) = p * p * f
    OBVIOUS
  <1>5. P * (P * FileSize) = P * P * FileSize
    BY <1>4, ForkedAssumption, FileSizeAssumption
  <1>6. QED
    BY <1>2, <1>3, <1>5, FileSizeAssumption

LEMMA SumInit == Init => SumOK
  <1> SUFFICES ASSUME Init PROVE SumOK
    OBVIOUS
  <1>1. /\ received \in {0, FileSize} /\ total = 0 /\ told = <<>>
        /\ mpc \in {"load", "fork"}
    BY DEF Init, SearchInit, PipeInit
  <1>2. received \in 0 .. P * FileSize /\ total <= P * (P * FileSize)
    BY <1>1, Bounds, FileSizeAssumption
  <1>3. QED
    BY <1>1, <1>2 DEF SumOK

\* What main takes from a pipe.
LEMMA NumberTaken ==
    ASSUME ControlOK, OffsetOK, BoundOK, SegmentsOK, PipesOK, NEW c \in Children,
           pipes[c] # <<>>
    PROVE  Head(pipes[c]) = counted[c] /\ counted[c] \in 0 .. P * FileSize
  <1>1. Head(pipes[c]) = counted[c] /\ counted[c] \in Nat
    BY DEF PipesOK, PipeFull, BoundOK
  <1>2. matches \subseteq Bytes
    BY DEF ControlOK
  <1>3. CASE program = "first_ex_ex_3"
    <2>1. counted[c] <= Cardinality(matches \cap Share(start_pos(c), end_pos(c)))
      BY <1>3, CountedInSegment
    <2>2. /\ Cardinality(matches \cap Share(start_pos(c), end_pos(c))) \in Nat
          /\ Cardinality(matches \cap Share(start_pos(c), end_pos(c))) <= FileSize
      BY <1>2, MatchesFinite
    <2>3. QED
      BY <1>1, <2>1, <2>2, Bounds, FileSizeAssumption
  <1>4. CASE program = "ask3"
    BY <1>1, <1>4, CountedAtMost, Bounds
  <1>5. CASE program = "ask3final"
    BY <1>1, <1>5, Bounds DEF BoundOK, CountedOK
  <1>6. QED
    BY <1>3, <1>4, <1>5, ProgramCases DEF ControlOK

\* When nothing failed, the number of a child is that of its whole segment, and
\* what main has added reaches to the end of it.
LEMMA SegmentAdded ==
    ASSUME ControlOK, OffsetOK, SegmentsOK, PipesOK, NEW c \in Children, c = i,
           program = "first_ex_ex_3", failures = 0, mpc = "collect"
    PROVE  /\ pipes[c] = <<counted[c]>>
           /\ Cardinality(matches \cap (0 .. start_pos(c + 1) - 1))
                  = Cardinality(matches \cap (0 .. start_pos(c) - 1)) + counted[c]
           /\ c + 1 = P => matches \cap (0 .. start_pos(c + 1) - 1) = matches
  <1>1. /\ c \in 0 .. P /\ P \in Nat /\ c \in Nat
    BY ForkedAssumption DEF Children
  <1>2. pc[c] = "ended" /\ ~Collected(c)
    BY <1>1 DEF ControlOK, ParentOK, Collected
  <1>3. pipes[c] = <<counted[c]>>
    BY <1>2 DEF PipesOK, PipeFull
  <1>4. PICK s \in Nat, e \in Nat, o \in Nat :
            /\ s = start_pos(c) /\ e = start_pos(c + 1) /\ o = offset[c]
            /\ e = s + segment_size
    BY <1>1, StartPos, SegmentSize DEF OffsetOK
  <1>5. /\ o <= e /\ (o >= e \/ o >= FileSize) /\ s <= e
        /\ counted[c] = Cardinality(matches \cap (s .. o - 1))
    BY <1>2, <1>4, SegmentSize DEF SegmentsOK, SegmentOK, SegmentRead
  <1>6. /\ matches \in SUBSET Bytes /\ FileSize \in Nat
        /\ \A p \in matches : p \in Nat /\ p < FileSize
    BY FileSizeAssumption DEF ControlOK, Bytes
  <1>7. matches \cap (s .. o - 1) = matches \cap (s .. e - 1)
    BY <1>5, <1>6
  <1>8. /\ (matches \cap (0 .. s - 1)) \cup (matches \cap (s .. e - 1))
               = matches \cap (0 .. e - 1)
        /\ (matches \cap (0 .. s - 1)) \cap (matches \cap (s .. e - 1)) = {}
    BY <1>5
  <1>9. Cardinality(matches \cap (0 .. e - 1))
            = Cardinality(matches \cap (0 .. s - 1)) + Cardinality(matches \cap (s .. e - 1))
    <2>1. /\ IsFiniteSet(matches \cap (0 .. s - 1)) /\ IsFiniteSet(matches \cap (s .. e - 1))
          /\ Cardinality(matches \cap (0 .. s - 1)) \in Nat
          /\ Cardinality(matches \cap (s .. e - 1)) \in Nat
      BY <1>6, MatchesFinite
    <2>2. QED
      BY <1>8, <2>1, FS_Union, FS_EmptySet
  <1>10. ASSUME c + 1 = P PROVE matches \cap (0 .. e - 1) = matches
    <2>1. e >= FileSize
      BY <1>1, <1>4, <1>10, StartPos
    <2>2. QED
      BY <1>6, <2>1
  <1>11. QED
    BY <1>3, <1>4, <1>5, <1>7, <1>9, <1>10

LEMMA SumStep ==
    /\ ControlOK /\ OffsetOK /\ SharedOK /\ BoundOK /\ SegmentsOK /\ PipesOK /\ SumOK
    /\ [Next]_vars
    => SumOK'
  <1> SUFFICES ASSUME ControlOK, OffsetOK, SharedOK, BoundOK, SegmentsOK, PipesOK, SumOK,
                      [Next]_vars
               PROVE  SumOK'
    OBVIOUS
  <1> USE DEF inputVars, childVars, mainVars, numberVars, collectVars, pipeVars
  <1>0. /\ failures \in Nat /\ P \in Nat \ {0} /\ total \in Nat
        /\ received \in 0 .. P * FileSize /\ total <= P * (P * FileSize)
        /\ i \in 0 .. P
        /\ told \in {<<>>} \cup {<<n>> : n \in 0 .. P * P * FileSize}
    BY ForkedAssumption, MaxFailuresAssumption DEF ControlOK, BoundOK, SumOK
  <1>1. ASSUME UNCHANGED <<program, matches, mpc, i, told, received, total>>,
               failures' = 0 => failures = 0
        PROVE  SumOK'
    BY <1>1 DEF SumOK
  <1>2. CASE (Fork \/ LoadNumber \/ StoreNumber) /\ UNCHANGED pipeVars
    <2>1. /\ UNCHANGED <<program, matches, told, received, total, failures>>
          /\ mpc \in {"fork", "load", "store"}
          /\ mpc' \in {"fork", "load", "store", "wait"}
      BY <1>2 DEF Fork, LoadNumber, StoreNumber, NextTurn
    <2>2. QED
      BY <2>1 DEF SumOK
  <1>3. CASE WaitChild /\ UNCHANGED pipeVars
    <2>1. /\ UNCHANGED <<program, matches, told, received, total, failures>>
          /\ mpc = "wait" /\ i' = 0 /\ total = 0
          /\ mpc' = "wait" \/ mpc' = IF program = "ask3final" THEN "print" ELSE "collect"
      BY <1>3 DEF WaitChild, SumOK
    <2>2. 0 * (P * FileSize) = 0
      BY Bounds
    <2>3. matches \cap (0 .. start_pos(0) - 1) = {}
      BY StartPos, <1>0
    <2>4. Cardinality(matches \cap (0 .. start_pos(0) - 1)) = 0
      BY <2>3, FS_EmptySet
    <2>5. start_pos(i)' = start_pos(0)
      BY <2>1 DEF start_pos
    <2>6. QED
      BY <2>1, <2>2, <2>4, <2>5 DEF SumOK
  <1>4. CASE PrintCount /\ UNCHANGED pipeVars
    <2>1. /\ UNCHANGED <<program, matches, received, total, failures>>
          /\ mpc = "print" /\ mpc' = "done" /\ program = "ask3final"
          /\ told' = <<shared_variable>>
      BY <1>4 DEF PrintCount
    <2>2. shared_variable \in 0 .. P * P * FileSize
      <3>1. shared_variable \in Nat /\ shared_variable <= Cardinality(matches)
        <4>1. /\ Cardinality(Unstored) \in Nat /\ Cardinality(AllSeen) \in Nat
              /\ Cardinality(AllSeen) <= Cardinality(matches)
              /\ Cardinality(matches) \in Nat
          BY SeenFinite, MatchesFinite DEF ControlOK
        <4>2. QED
          BY <2>1, <4>1 DEF SharedOK
      <3>2. Cardinality(matches) \in Nat /\ Cardinality(matches) <= FileSize
        BY MatchesFinite DEF ControlOK
      <3>3. QED
        BY <3>1, <3>2, Bounds, FileSizeAssumption
    <2>3. told' \in {<<>>} \cup {<<n>> : n \in 0 .. P * P * FileSize}
      BY <2>1, <2>2
    <2>4. QED
      BY <2>1, <2>3 DEF SumOK
  <1>5. CASE PrintSum
    <2>1. /\ UNCHANGED <<program, matches, received, total, failures>>
          /\ mpc = "print" /\ mpc' = "done" /\ told' = <<total>>
      BY <1>5 DEF PrintSum
    <2>2. told' \in {<<>>} \cup {<<n>> : n \in 0 .. P * P * FileSize}
      BY <1>0, <2>1, Bounds
    <2>3. QED
      BY <2>1, <2>2 DEF SumOK
  <1>6. CASE Collect
    <2>1. PICK n \in Children : n = i
      BY <1>0, <1>6 DEF Collect, ControlOK, ParentOK, Children
    <2>2. /\ UNCHANGED <<program, matches, told, failures>>
          /\ mpc = "collect" /\ i' = n + 1
          /\ mpc' = IF n + 1 < P THEN "collect" ELSE "print"
          /\ received' = IF pipes[n] # <<>> THEN Head(pipes[n]) ELSE received
          /\ total' = total + received'
      BY <1>6, <2>1 DEF Collect
    <2>3. received' \in 0 .. P * FileSize
      BY <1>0, <2>2, NumberTaken
    <2>4. PICK b \in Nat : b = P * FileSize
      BY Bounds
    <2>5. PICK m \in Nat : P = (n + 1) + m
      <3>1. P - (n + 1) \in Nat /\ P = (n + 1) + (P - (n + 1))
        BY <1>0 DEF Children
      <3>2. QED
        BY <3>1
    <2>6. /\ (n + 1) * b = n * b + b /\ P * b = (n + 1) * b + m * b
          /\ n \in Nat /\ n * b \in Nat /\ m * b \in Nat
      BY <2>5 DEF Children
    <2>7. total' \in Nat /\ total' <= (n + 1) * b /\ total' <= P * b
      <3>1. total <= n * b
        BY <2>1, <2>2, <2>4 DEF SumOK
      <3>2. total' = total + received' /\ received' \in 0 .. b
        BY <2>2, <2>3, <2>4
      <3>3. PICK x \in Nat, y \in Nat : x = n * b /\ y = m * b
        BY <2>6
      <3>4. total' \in Nat /\ total' <= x + b
        <4>1. \A t, s, q \in Nat : \A r \in 0 .. q :
                  t <= s => t + r \in Nat /\ t + r <= s + q
          OBVIOUS
        <4>2. total \in Nat /\ total <= x
          BY <1>0, <3>1, <3>3
        <4>3. QED
          BY <3>2, <4>1, <4>2
      <3>5. (n + 1) * b = x + b /\ P * b = x + b + y
        BY <2>6, <3>3
      <3>6. total' <= x + b + y
        BY <2>4, <3>3, <3>4
      <3>7. QED
        BY <3>4, <3>5, <3>6
    <2>8. told = <<>>
      BY <2>2 DEF ControlOK, ParentOK
    <2>9. ASSUME program = "first_ex_ex_3", failures = 0
          PROVE  /\ total' = Cardinality(matches \cap (0 .. start_pos(n + 1) - 1))
                 /\ n + 1 = P => matches \cap (0 .. start_pos(n + 1) - 1) = matches
      <3>1. /\ pipes[n] = <<counted[n]>>
            /\ Cardinality(matches \cap (0 .. start_pos(n + 1) - 1))
                   = Cardinality(matches \cap (0 .. start_pos(n) - 1)) + counted[n]
            /\ n + 1 = P => matches \cap (0 .. start_pos(n + 1) - 1) = matches
        BY <2>1, <2>2, <2>9, SegmentAdded
      <3>2. received' = counted[n]
        BY <2>2, <3>1
      <3>3. total = Cardinality(matches \cap (0 .. start_pos(n) - 1))
        BY <2>1, <2>2, <2>9 DEF SumOK
      <3>4. QED
        BY <2>2, <3>1, <3>2, <3>3
    <2>10. n + 1 < P \/ n + 1 = P
      BY <1>0 DEF Children
    <2>11. start_pos(i)' = start_pos(n + 1)
      BY <2>2 DEF start_pos
    <2>12. QED
      BY <2>2, <2>3, <2>4, <2>7, <2>8, <2>9, <2>10, <2>11 DEF SumOK
  <1>7. CASE Interrupt
    <2>1. /\ UNCHANGED <<program, matches, told, received, total, failures>>
          /\ mpc' = "interrupted" /\ told = <<>>
      BY <1>7 DEF Interrupt, sigint_handler, ControlOK, ParentOK
    <2>2. QED
      BY <2>1 DEF SumOK
  <1>8. CASE EndOfChild \/ UNCHANGED vars
    BY <1>1, <1>8 DEF EndOfChild, end_of_child, vars, searchVars
  <1>9. ASSUME NEW c \in Children, Child(c) \/ ChildFails(c)
        PROVE  SumOK'
    <2>1. UNCHANGED <<program, matches, mpc, i, told>>
      BY <1>9, ChildMoves DEF Moves
    <2>2. UNCHANGED <<received, total>>
      BY <1>9 DEF Child, ChildFails, CountBytes, WriteNumber, Fail
    <2>3. failures' = 0 => failures = 0
      BY <1>0, <1>9, ChildCounts
    <2>4. QED
      BY <1>1, <2>1, <2>2, <2>3
  <1>10. QED
    BY <1>2, <1>3, <1>4, <1>5, <1>6, <1>7, <1>8, <1>9 DEF Next, Main

\* When nothing fails, main has added the counts of the children before the one
\* it is at.
AddedOK ==
    program # "ask3final" /\ failures = 0 =>
        /\ mpc = "collect" => total = SumOf(counted)[0 .. i - 1]
        /\ mpc \in {"print", "done"} => total = SumOf(counted)[Children]
        /\ told # <<>> => told = <<SumOf(counted)[Children]>>

LEMMA AddedInit == Init => AddedOK
  BY DEF Init, SearchInit, AddedOK

LEMMA AddedStep ==
    ControlOK /\ BoundOK /\ PipesOK /\ SumOK /\ AddedOK /\ [Next]_vars => AddedOK'
  <1> SUFFICES ASSUME ControlOK, BoundOK, PipesOK, SumOK, AddedOK, [Next]_vars
               PROVE  AddedOK'
    OBVIOUS
  <1> USE DEF inputVars, childVars, mainVars, numberVars, collectVars, pipeVars
  <1>0. /\ counted \in [Children -> Nat] /\ P \in Nat \ {0}
        /\ told # <<>> => mpc = "done"
        /\ mpc \in {"collect", "print", "done"} => \A c \in Children : pc[c] = "ended"
    BY ForkedAssumption DEF ControlOK, ParentOK, BoundOK
  <1>1. ASSUME mpc' \notin {"collect", "print", "done"}, told' = <<>>
        PROVE  AddedOK'
    BY <1>1 DEF AddedOK
  <1>2. CASE (Fork \/ LoadNumber \/ StoreNumber) /\ UNCHANGED pipeVars
    <2>1. /\ told' = told /\ mpc \in {"fork", "load", "store"}
          /\ mpc' \in {"fork", "load", "store", "wait"}
      BY <1>2 DEF Fork, LoadNumber, StoreNumber, NextTurn
    <2>2. QED
      BY <1>0, <1>1, <2>1
  <1>3. CASE WaitChild /\ UNCHANGED pipeVars
    <2>1. /\ UNCHANGED <<program, told, counted, total, failures>>
          /\ mpc = "wait" /\ i' = 0 /\ total = 0
          /\ mpc' = "wait" \/ mpc' = IF program = "ask3final" THEN "print" ELSE "collect"
      BY <1>3 DEF WaitChild, SumOK
    <2>2. SumOf(counted)[0 .. i' - 1] = 0
      <3>1. 0 .. i' - 1 = {}
        BY <2>1
      <3>2. QED
        BY <1>0, <3>1, SumOfSums
    <2>3. SumOf(counted)' = SumOf(counted)
      BY <2>1 DEF SumOf
    <2>4. QED
      BY <1>0, <2>1, <2>2, <2>3 DEF AddedOK
  <1>4. CASE PrintCount /\ UNCHANGED pipeVars
    BY <1>4 DEF PrintCount, AddedOK
  <1>5. CASE PrintSum
    <2>1. /\ UNCHANGED <<program, counted, total, failures>>
          /\ mpc = "print" /\ mpc' = "done" /\ told' = <<total>>
      BY <1>5 DEF PrintSum
    <2>2. SumOf(counted)' = SumOf(counted)
      BY <2>1 DEF SumOf
    <2>3. QED
      BY <2>1, <2>2 DEF AddedOK
  <1>6. CASE Collect
    <2>1. PICK n \in Children : n = i
      BY <1>0, <1>6 DEF Collect, ControlOK, ParentOK, Children
    <2>2. /\ UNCHANGED <<program, told, counted, failures>>
          /\ mpc = "collect" /\ i' = n + 1
          /\ mpc' = IF n + 1 < P THEN "collect" ELSE "print"
          /\ received' = IF pipes[n] # <<>> THEN Head(pipes[n]) ELSE received
          /\ total' = total + received'
      BY <1>6, <2>1 DEF Collect
    <2>3. SUFFICES ASSUME program # "ask3final", failures = 0
                   PROVE  AddedOK'
      BY <2>2 DEF AddedOK
    <2>4. pipes[n] = <<counted[n]>>
      <3>1. n \in Nat /\ ~Collected(n) /\ pc[n] = "ended"
        BY <1>0, <2>1, <2>2 DEF Collected, Children
      <3>2. QED
        BY <2>2, <2>3, <3>1 DEF PipesOK, PipeFull
    <2>5. total' = counted[n] + SumOf(counted)[0 .. n - 1]
      <3>1. received' = counted[n] /\ counted[n] \in Nat
        BY <1>0, <2>2, <2>4
      <3>2. total = SumOf(counted)[0 .. n - 1] /\ total \in Nat
        BY <2>1, <2>2, <2>3 DEF AddedOK, SumOK
      <3>3. QED
        BY <2>2, <3>1, <3>2
    <2>6. total' = SumOf(counted)[0 .. n]
      <3>1. /\ 0 .. n \in SUBSET Children /\ n \in 0 .. n
            /\ (0 .. n) \ {n} = 0 .. n - 1
        BY <1>0 DEF Children
      <3>2. SumOf(counted)[0 .. n] = counted[n] + SumOf(counted)[(0 .. n) \ {n}]
        BY <1>0, <3>1, SumOfOneMore
      <3>3. QED
        BY <2>5, <3>1, <3>2
    <2>7. /\ mpc' = "collect" => 0 .. i' - 1 = 0 .. n
          /\ mpc' = "print" => 0 .. n = Children
      BY <1>0, <2>2 DEF Children
    <2>8. SumOf(counted)' = SumOf(counted)
      BY <2>2 DEF SumOf
    <2>9. told' = <<>> /\ mpc' \in {"collect", "print"}
      BY <1>0, <2>2
    <2>10. QED
      BY <2>6, <2>7, <2>8, <2>9 DEF AddedOK
  <1>7. CASE Interrupt
    BY <1>0, <1>1, <1>7 DEF Interrupt, sigint_handler
  <1>8. CASE EndOfChild \/ UNCHANGED vars
    <2>1. UNCHANGED <<program, mpc, i, told, counted, total, failures>>
      BY <1>8 DEF EndOfChild, end_of_child, vars, searchVars
    <2>2. SumOf(counted)' = SumOf(counted)
      BY <2>1 DEF SumOf
    <2>3. QED
      BY <2>1, <2>2 DEF AddedOK
  <1>9. ASSUME NEW c \in Children, Child(c) \/ ChildFails(c)
        PROVE  AddedOK'
    <2>1. UNCHANGED <<mpc, told>> /\ pc[c] # "ended"
      BY <1>9, ChildMoves DEF Moves
    <2>2. mpc \notin {"collect", "print", "done"} /\ told = <<>>
      BY <1>0, <2>1
    <2>3. QED
      BY <1>1, <2>1, <2>2
  <1>10. QED
    BY <1>2, <1>3, <1>4, <1>5, <1>6, <1>7, <1>8, <1>9 DEF Next, Main

-----------------------------------------------------------------------------
Inv ==
    /\ ControlOK /\ OffsetOK /\ NumberOK /\ SharedOK
    /\ BoundOK /\ SegmentsOK /\ PipesOK /\ SumOK /\ AddedOK

LEMMA Invariant == Spec => []Inv
  <1>1. Init => Inv
    BY ControlInit, OffsetInit, NumberInit, SharedInit_OK, BoundInit, SegmentInit,
       PipesInit, SumInit, AddedInit DEF Inv
  <1>2. Inv /\ [Next]_vars => Inv'
    BY ControlStep, OffsetStep, NumberStep, SharedStep, BoundStep, SegmentStep,
       PipesStep, SumStep, AddedStep DEF Inv
  <1>3. QED
    BY <1>1, <1>2, PTL DEF Spec

\* The variables stay in their types: no count exceeds the bytes that there are
\* to count, in ask3.c as often as there are seeks, and num_processes never
\* leaves -1 .. P.
THEOREM TypeCorrect == Spec => []TypeOK
  <1>1. Inv => TypeOK
    <2> SUFFICES ASSUME Inv PROVE TypeOK
      OBVIOUS
    <2>1. SearchTypeOK
      BY DEF Inv, ControlOK, OffsetOK, NumberOK, SearchTypeOK, ControlPoints
    <2>2. SharedTypeOK
      <3>1. shared_variable \in 0 .. Cardinality(matches)
        <4>1. Cardinality(matches) \in Nat /\ Cardinality(AllSeen) \in Nat
              /\ Cardinality(AllSeen) <= Cardinality(matches)
              /\ Cardinality(Unstored) \in Nat
          BY SeenFinite, MatchesFinite DEF Inv, ControlOK
        <4>2. QED
          BY <4>1 DEF Inv, SharedOK
      <3>2. QED
        BY <3>1 DEF Inv, SharedOK, SharedTypeOK
    <2>3. ASSUME NEW c \in Children
          PROVE  counted[c] \in 0 .. MostCounted
      <3>1. counted[c] \in Nat
        BY DEF Inv, BoundOK
      <3>2. CASE program = "ask3"
        BY <3>1, <3>2, CountedAtMost, Bounds DEF Inv, MostCounted
      <3>3. CASE program = "ask3final"
        BY <3>1, <3>3, SegmentSize DEF Inv, BoundOK, CountedOK, MostCounted
      <3>4. CASE program = "first_ex_ex_3"
        <4>1. PICK s \in Nat, o \in Nat, g \in Nat :
                  s = start_pos(c) /\ o = offset[c] /\ g = segment_size
          BY EndPos, SegmentSize DEF Inv, OffsetOK
        <4>2. o <= s + g /\ counted[c] = Cardinality(matches \cap (s .. o - 1))
          BY <3>4, <4>1 DEF Inv, SegmentsOK, SegmentOK
        <4>3. matches \cap (s .. o - 1) \subseteq s .. (s + g) - 1
          BY <4>2
        <4>4. IsFiniteSet(s .. (s + g) - 1) /\ Cardinality(s .. (s + g) - 1) = g
          BY FS_Interval
        <4>5. counted[c] <= g
          BY <4>2, <4>3, <4>4, FS_Subset
        <4>6. QED
          BY <3>1, <3>4, <4>1, <4>5 DEF MostCounted
      <3>5. QED
        BY <3>2, <3>3, <3>4, ProgramCases DEF Inv, ControlOK
    <2>4. counted \in [Children -> 0 .. MostCounted]
      BY <2>3 DEF Inv, BoundOK
    <2>5. \A c \in Children :
              pipes[c] \in {<<>>} \cup {<<n>> : n \in 0 .. MostCounted}
      BY <2>3 DEF Inv, PipesOK, PipeFull
    <2>6. total \in 0 .. P * P * FileSize
      BY Bounds DEF Inv, SumOK
    <2>7. PipeTypeOK
      BY <2>4, <2>5, <2>6 DEF Inv, BoundOK, SumOK, PipeTypeOK
    <2>8. QED
      BY <2>1, <2>2, <2>7 DEF Inv, SumOK, TypeOK
  <1>2. QED
    BY <1>1, Invariant, PTL

\* The total printed is the sum of what the children counted, each number taken
\* once, and in first_ex_ex_3.c the number of matches, when nothing fails: for a
\* file of any size and any number of children, also when the shares of the last
\* children reach beyond its end or lie there, and whatever the local that
\* receives the numbers was before (first_ex_ex_3.c 39-46, 89-104, 137-149;
\* ask3.c 41-43, 148-158).
THEOREM TotalIsTheSum == Spec => []TotalIsExact
  <1>1. Inv => TotalIsExact
    <2> SUFFICES ASSUME Inv, program # "ask3final", told # <<>>, failures = 0
                 PROVE  /\ told = <<FoldFunction(+, 0, counted)>>
                        /\ program = "first_ex_ex_3" => told = <<Cardinality(matches)>>
      BY DEF TotalIsExact
    <2>1. told = <<SumOf(counted)[Children]>>
      BY DEF Inv, AddedOK
    <2>2. FoldFunction(+, 0, counted) = SumOf(counted)[Children]
      BY FoldIsSum DEF Inv, BoundOK
    <2>3. program = "first_ex_ex_3" => told = <<Cardinality(matches)>>
      BY DEF Inv, SumOK
    <2>4. QED
      BY <2>1, <2>2, <2>3
  <1>2. QED
    BY <1>1, Invariant, PTL
=============================================================================
