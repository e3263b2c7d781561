----------------------- MODULE MandelConditionsProofs -----------------------
(* Proofs about the mutex and the condition variables, signalled or          *)
(* broadcast, for any number of threads, lines, pieces and spurious wake-ups. *)
EXTENDS MandelConditions, TLAPS

\* How many turns after thread s thread t has its turn.
Distance(s, t) == IF s <= t THEN t - s ELSE t - s + thrcnt

\* The write that comes just before piece c of line l.
Preceding(l, c) == IF c = 0 THEN <<l - 1, pieces - 1>> ELSE <<l, c - 1>>

Finished == {"wake", "unlock"}
Holding == {"check", "output"} \cup Finished

\* The threads with the turn at s: each is at the line of its next turn; s alone
\* may write; and next_line is the line of s, until s has written it.
TurnAt(s) ==
    /\ \A t \in Threads : line[t] = line[s] + Distance(s, t)
    /\ \A t \in Threads : t # s => pc[t] \notin {"output"} \cup Finished
    /\ \/ /\ pc[s] \notin Finished
          /\ next_line = line[s]
          /\ last = Preceding(line[s], col[s])
       \/ /\ pc[s] \in Finished
          /\ next_line = line[s] + 1
          /\ last = <<line[s], pieces - 1>>

\* The mutex is held by the one thread that is between its lock and its unlock.
MutexOK == \A t \in Threads : pc[t] \in Holding <=> mutex = t

\* Whoever sleeps in its turn is about to be woken up.
SleepOK ==
    \A t \in Threads :
        pc[t] = "waiting" /\ line[t] = next_line =>
            \E u \in Threads : pc[u] = "wake" /\ t \in Reached(u)

ThreadOK(t) ==
    /\ pc[t] \in {"lock", "waiting"} \cup Holding => line[t] < y_chars
    /\ pc[t] = "done" => line[t] >= y_chars
    /\ pc[t] # "output" => col[t] = 0

MainOK ==
    /\ mpc = "create" => \A t \in Threads : t >= k => pc[t] = "none"
    /\ mpc = "join" => \A t \in Threads : t < k => pc[t] = "done"
    /\ mpc \in {"destroy", "done"} => \A t \in Threads : pc[t] = "done"

TurnInv ==
    /\ TypeOK
    /\ \E s \in Threads : TurnAt(s)
    /\ MutexOK
    /\ SleepOK
    /\ \A t \in Threads : ThreadOK(t)
    /\ MainOK

Points == {"none", "compute", "output", "done", "lock", "check", "waiting", "wake", "unlock"}

LEMMA SuccValue ==
    ASSUME NEW t \in Threads
    PROVE  /\ Succ(t) \in Threads
           /\ Succ(t) = IF t = thrcnt - 1 THEN 0 ELSE t + 1
  BY MandelAssumption DEF Threads, Succ

\* main's loop index stays a thread's, and either advances or starts anew.
LEMMA NextTurnCases ==
    ASSUME k \in Threads, NEW part, NextTurn(part)
    PROVE  \/ k = thrcnt - 1 /\ mpc' = part /\ k' = 0
           \/ k < thrcnt - 1 /\ mpc' = mpc /\ k' = k + 1
  BY MandelAssumption DEF NextTurn, Threads

\* The one whose turn comes next is the successor.
LEMMA NextIsSucc ==
    ASSUME NEW s \in Threads, NEW t \in Threads, Distance(s, t) = 1
    PROVE  t = Succ(s)
  <1>1. Succ(s) = IF s = thrcnt - 1 THEN 0 ELSE s + 1
    BY SuccValue
  <1>2. s \in Int /\ t \in Int /\ 0 <= s /\ 0 <= t /\ s < thrcnt /\ t < thrcnt
        /\ thrcnt \in Int
    BY MandelAssumption DEF Threads
  <1>3. CASE s <= t
    BY <1>1, <1>2, <1>3 DEF Distance
  <1>4. CASE ~(s <= t)
    BY <1>1, <1>2, <1>4 DEF Distance
  <1>5. QED
    BY <1>3, <1>4

LEMMA TurnInit == Init => TurnInv
  <1> SUFFICES ASSUME Init PROVE TurnInv
    OBVIOUS
  <1> USE MandelAssumption, MaxSpuriousAssumption
  <1>1. TypeOK
    <2>1. pc \in [Threads -> {"none"}] /\ mpc = "create" /\ k \in Threads
      BY DEF Init, DrawInit, Threads
    <2>2. line \in [Threads -> Nat] /\ col \in [Threads -> 0 .. pieces - 1]
      BY DEF Init, DrawInit, Threads
    <2>3. last \in (-1 .. y_chars - 1) \X (0 .. pieces - 1)
      BY DEF Init, DrawInit
    <2>4. /\ efficient \in BOOLEAN
      BY DEF Init
    <2>5. mutex \in Threads \cup {-1} /\ next_line \in 0 .. y_chars
          /\ spurious \in 0 .. MaxSpurious
      BY DEF Init
    <2>6. pc \in [Threads -> {"none", "compute", "output", "done"}
                             \cup {"lock", "check", "waiting", "wake", "unlock"}]
      BY <2>1
    <2>7. QED
      BY <2>1, <2>2, <2>3, <2>4, <2>5, <2>6 DEF TypeOK, DrawTypeOK
  <1>2. /\ 0 \in Threads
        /\ \A t \in Threads : line[t] = t /\ pc[t] = "none" /\ col[t] = 0
        /\ last = <<0 - 1, pieces - 1>> /\ next_line = 0 /\ mutex = -1
    BY DEF Init, DrawInit, Threads
  <1>3. TurnAt(0)
    <2>1. \A t \in Threads : line[t] = line[0] + Distance(0, t)
      BY <1>2 DEF Distance, Threads
    <2>2. last = Preceding(line[0], col[0])
      BY <1>2 DEF Preceding
    <2>3. QED
      BY <1>2, <2>1, <2>2 DEF TurnAt, Finished
  <1>4. MutexOK /\ SleepOK
    BY <1>2 DEF MutexOK, SleepOK, Holding, Finished, Threads
  <1>5. (\A t \in Threads : ThreadOK(t)) /\ MainOK
    BY <1>2 DEF Init, DrawInit, ThreadOK, MainOK, Holding, Finished
  <1>6. QED
    BY <1>1, <1>2, <1>3, <1>4, <1>5 DEF TurnInv

\* A thread that neither writes nor is about to wake another moves on.
LEMMA QuietStep ==
    ASSUME TurnInv, NEW t \in Threads, NEW p,
           pc[t] \notin {"output"} \cup Finished, p \notin {"output"} \cup Finished,
           pc' = [pc EXCEPT ![t] = p],
           UNCHANGED <<line, col, last, next_line, efficient>>,
           p = "waiting" => line[t] # next_line
    PROVE  (\E s \in Threads : TurnAt(s)') /\ SleepOK'
  <1>1. pc \in [Threads -> Points]
    BY DEF TurnInv, TypeOK, DrawTypeOK, Points
  <1>2. \A u \in Threads : pc'[u] = IF u = t THEN p ELSE pc[u]
    BY <1>1
  <1>3. PICK s \in Threads : TurnAt(s)
    BY DEF TurnInv
  <1>4. TurnAt(s)'
    BY <1>2, <1>3 DEF TurnAt, Distance, Preceding, Finished
  <1>5. ASSUME NEW v \in Threads, pc'[v] = "waiting", line'[v] = next_line'
        PROVE  \E u \in Threads : pc'[u] = "wake" /\ v \in Reached(u)'
    <2>1. v # t /\ pc[v] = "waiting" /\ line[v] = next_line
      BY <1>2, <1>5
    <2>2. PICK u \in Threads : pc[u] = "wake" /\ v \in Reached(u)
      BY <2>1 DEF TurnInv, SleepOK
    <2>3. u # t /\ pc'[u] = "wake"
      BY <1>2, <2>2 DEF Finished
    <2>4. v \in Reached(u)'
      BY <1>5, <2>2 DEF Reached
    <2>5. QED
      BY <2>3, <2>4
  <1>6. QED
    BY <1>4, <1>5 DEF SleepOK

\* One step per action of main and of a thread.
LEMMA TurnStep == TurnInv /\ [Next]_vars => TurnInv'
  <1> SUFFICES ASSUME TurnInv, [Next]_vars PROVE TurnInv'
    OBVIOUS
  <1> USE MandelAssumption DEF syncVars, mainVars, threadVars, drawVars
  <1>0. TypeOK /\ MutexOK /\ SleepOK /\ MainOK /\ \A t \in Threads : ThreadOK(t)
    BY DEF TurnInv
  <1>p. pc \in [Threads -> Points] /\ k \in Threads
    BY <1>0 DEF TypeOK, DrawTypeOK, Points
  <1>1. CASE Create /\ UNCHANGED <<efficient, syncVars>>
    <2>1. k \in Threads /\ pc[k] = "none"
      BY <1>0, <1>1, <1>p DEF Create, MainOK, Threads
    <2>2. \/ k = thrcnt - 1 /\ mpc' = "join" /\ k' = 0
          \/ k < thrcnt - 1 /\ mpc' = mpc /\ k' = k + 1
      BY <1>1, <2>1, NextTurnCases DEF Create
    <2>3. \A t \in Threads : pc'[t] = IF t = k THEN "compute" ELSE pc[t]
      BY <1>p, <1>1 DEF Create
    <2>4. TypeOK'
      <3>1. k' \in Threads
        BY <2>1, <2>2 DEF Threads
      <3>2. mpc' \in {"create", "join"}
        BY <1>1, <2>2 DEF Create
      <3>3. QED
        BY <1>0, <1>1, <3>1, <3>2 DEF Create, TypeOK, DrawTypeOK
    <2>5. (\E s \in Threads : TurnAt(s)') /\ SleepOK'
      BY <1>1, <2>1, QuietStep DEF Create, Finished
    <2>6. (\A t \in Threads : ThreadOK(t)') /\ MutexOK'
      BY <1>0, <1>1, <2>1, <2>3 DEF Create, ThreadOK, MutexOK, Holding, Finished
    <2>7. MainOK'
      <3>1. mpc = "create" /\ \A t \in Threads : t >= k => pc[t] = "none"
        BY <1>0, <1>1 DEF Create, MainOK
      <3>2. CASE k = thrcnt - 1 /\ mpc' = "join" /\ k' = 0
        BY <3>2 DEF MainOK, Threads
      <3>3. CASE k < thrcnt - 1 /\ mpc' = mpc /\ k' = k + 1
        BY <2>1, <2>3, <3>1, <3>3 DEF MainOK, Threads
      <3>4. QED
        BY <2>2, <3>2, <3>3
    <2>8. QED
      BY <2>4, <2>5, <2>6, <2>7 DEF TurnInv
  <1>2. CASE (Join \/ Destroy) /\ UNCHANGED <<efficient, syncVars>>
    <2>1. UNCHANGED <<pc, line, col, last, efficient, mutex, next_line, spurious>>
      BY <1>2 DEF Join, Destroy
    <2>2. ASSUME Join
          PROVE  \/ k = thrcnt - 1 /\ mpc' = "destroy" /\ k' = 0
                 \/ k < thrcnt - 1 /\ mpc' = mpc /\ k' = k + 1
      BY <1>p, <2>2, NextTurnCases DEF Join
    <2>3. k' \in Threads /\ mpc' \in {"join", "destroy", "done"}
      <3>1. CASE Join
        BY <1>p, <2>2, <3>1 DEF Join, Threads
      <3>2. CASE Destroy
        BY <1>p, <3>2 DEF Destroy
      <3>3. QED
        BY <1>2, <3>1, <3>2
    <2>4. TypeOK'
      BY <1>0, <2>1, <2>3 DEF TypeOK, DrawTypeOK
    <2>5. MainOK'
      <3>1. CASE Join
        <4>1. /\ mpc = "join" /\ pc[k] = "done"
              /\ \A t \in Threads : t < k => pc[t] = "done"
          BY <1>0, <3>1 DEF Join, MainOK
        <4>2. CASE k = thrcnt - 1 /\ mpc' = "destroy" /\ k' = 0
          BY <1>p, <2>1, <4>1, <4>2 DEF MainOK, Threads
        <4>3. CASE k < thrcnt - 1 /\ mpc' = mpc /\ k' = k + 1
          BY <1>p, <2>1, <4>1, <4>3 DEF MainOK, Threads
        <4>4. QED
          BY <2>2, <3>1, <4>2, <4>3
      <3>2. CASE Destroy
        BY <1>0, <2>1, <3>2 DEF Destroy, MainOK
      <3>3. QED
        BY <1>2, <3>1, <3>2
    <2>6. QED
      BY <2>1, <2>4, <2>5 DEF TurnInv, TurnAt, ThreadOK, MutexOK, SleepOK, Reached,
                              Distance, Preceding
  <1>3. ASSUME NEW t \in Threads, Compute(t, "lock") \/ Return(t),
               UNCHANGED <<efficient, syncVars>>
        PROVE  TurnInv'
    <2>1. TypeOK'
      BY <1>0, <1>3 DEF Compute, Return, TypeOK, DrawTypeOK
    <2>2. (\E s \in Threads : TurnAt(s)') /\ SleepOK'
      BY <1>3, QuietStep DEF Compute, Return, Finished
    <2>3. (\A u \in Threads : ThreadOK(u)') /\ MainOK' /\ MutexOK'
      BY <1>0, <1>p, <1>3 DEF Compute, Return, ThreadOK, MainOK, MutexOK, Holding,
                              Finished, TypeOK, DrawTypeOK
    <2>4. QED
      BY <2>1, <2>2, <2>3 DEF TurnInv
  <1>4. ASSUME NEW t \in Threads, Lock(t), UNCHANGED efficient
        PROVE  TurnInv'
    <2>1. TypeOK'
      BY <1>0, <1>4 DEF Lock, TypeOK, DrawTypeOK
    <2>2. (\E s \in Threads : TurnAt(s)') /\ SleepOK'
      BY <1>4, QuietStep DEF Lock, Finished
    <2>3. \A u \in Threads : pc'[u] = IF u = t THEN "check" ELSE pc[u]
      BY <1>p, <1>4 DEF Lock
    <2>4. MutexOK'
      BY <1>0, <1>4, <2>3 DEF Lock, MutexOK, Holding, Threads
    <2>5. (\A u \in Threads : ThreadOK(u)') /\ MainOK'
      BY <1>0, <1>4, <2>3 DEF Lock, ThreadOK, MainOK, Holding, Finished
    <2>6. QED
      BY <2>1, <2>2, <2>4, <2>5 DEF TurnInv
  <1>5. ASSUME NEW t \in Threads, CheckTurn(t), UNCHANGED efficient
        PROVE  TurnInv'
    <2>1. TypeOK'
      BY <1>0, <1>5 DEF CheckTurn, TypeOK, DrawTypeOK
    <2>2. pc[t] = "check" /\ mutex = t /\ UNCHANGED <<line, col, last, next_line, mpc, k>>
      BY <1>0, <1>5 DEF CheckTurn, MutexOK, Holding
    <2>3. CASE line[t] = next_line
      <3>1. pc' = [pc EXCEPT ![t] = "output"] /\ mutex' = mutex
        BY <1>5, <2>3 DEF CheckTurn
      <3>2. \A u \in Threads : pc'[u] = IF u = t THEN "output" ELSE pc[u]
        BY <1>p, <3>1
      <3>3. PICK s \in Threads : TurnAt(s)
        BY DEF TurnInv
      <3>4. pc[s] \notin Finished
        BY <1>0, <2>2 DEF MutexOK, Holding, Finished
      <3>5. s = t
        <4>1. line[t] = line[s] + Distance(s, t) /\ next_line = line[s]
          BY <3>3, <3>4 DEF TurnAt
        <4>2. line[s] \in Int
          BY <1>0 DEF TypeOK, DrawTypeOK
        <4>3. s \in Int /\ t \in Int /\ s < thrcnt /\ 0 <= t /\ thrcnt \in Int
          BY DEF Threads
        <4>4. Distance(s, t) \in Int
          BY <4>3 DEF Distance
        <4>5. PICK d \in Int : d = Distance(s, t)
          BY <4>4
        <4>6. line[s] = line[s] + d
          BY <2>3, <4>1, <4>5
        <4>7. d = 0
          BY <4>2, <4>6
        <4>8. QED
          BY <4>3, <4>5, <4>7 DEF Distance
      <3>6. TurnAt(t)'
        BY <2>2, <3>2, <3>3, <3>4, <3>5 DEF TurnAt, Distance, Preceding, Finished
      <3>7. SleepOK'
        <4>1. SUFFICES ASSUME NEW v \in Threads, pc'[v] = "waiting", line'[v] = next_line'
                       PROVE  FALSE
          BY DEF SleepOK
        <4>2. pc[v] = "waiting" /\ line[v] = next_line
          BY <2>2, <3>2, <4>1
        <4>3. PICK u \in Threads : pc[u] = "wake"
          BY <1>0, <4>2 DEF SleepOK
        <4>4. QED
          BY <1>0, <2>2, <4>3 DEF MutexOK, Holding, Finished
      <3>8. (\A u \in Threads : ThreadOK(u)') /\ MainOK' /\ MutexOK'
        BY <1>0, <2>2, <3>1, <3>2 DEF ThreadOK, MainOK, MutexOK, Holding, Finished
      <3>9. QED
        BY <2>1, <3>6, <3>7, <3>8 DEF TurnInv
    <2>4. CASE line[t] # next_line
      <3>1. pc' = [pc EXCEPT ![t] = "waiting"] /\ mutex' = -1
        BY <1>5, <2>4 DEF CheckTurn
      <3>2. \A u \in Threads : pc'[u] = IF u = t THEN "waiting" ELSE pc[u]
        BY <1>p, <3>1
      <3>3. (\E s \in Threads : TurnAt(s)') /\ SleepOK'
        BY <1>5, <2>2, <2>4, <3>1, QuietStep DEF Finished
      <3>4. (\A u \in Threads : ThreadOK(u)') /\ MainOK'
        BY <1>0, <2>2, <3>2 DEF ThreadOK, MainOK, Holding, Finished
      <3>5. MutexOK'
        BY <1>0, <2>2, <3>1, <3>2 DEF MutexOK, Holding, Finished, Threads
      <3>6. QED
        BY <2>1, <3>3, <3>4, <3>5 DEF TurnInv
    <2>5. QED
      BY <2>3, <2>4
  <1>6. ASSUME NEW t \in Threads, Advance(t), UNCHANGED efficient
        PROVE  TurnInv'
    <2>1. /\ pc[t] = "output" /\ last' = <<line[t], col[t]>>
          /\ UNCHANGED <<line, mpc, k, mutex, spurious>>
      BY <1>6 DEF Advance, Output
    <2>2. /\ line[t] \in Nat /\ line[t] < y_chars /\ col[t] \in 0 .. pieces - 1
          /\ mutex = t /\ next_line \in Nat
      BY <1>0, <2>1 DEF ThreadOK, Holding, MutexOK, TypeOK, DrawTypeOK
    <2>3. TurnAt(t)
      BY <1>0, <2>1 DEF TurnInv, TurnAt
    <2>4. next_line = line[t] /\ last = Preceding(line[t], col[t])
      BY <2>1, <2>3 DEF TurnAt, Finished
    <2>5. CASE col[t] = pieces - 1
      <3>1. /\ pc' = [pc EXCEPT ![t] = "wake"] /\ col' = [col EXCEPT ![t] = 0]
            /\ next_line' = next_line + 1
        BY <1>6, <2>5 DEF Advance, Output
      <3>2. /\ \A u \in Threads : pc'[u] = IF u = t THEN "wake" ELSE pc[u]
            /\ \A u \in Threads : col'[u] = IF u = t THEN 0 ELSE col[u]
        BY <1>0, <1>p, <3>1 DEF TypeOK, DrawTypeOK
      <3>3. TypeOK'
        BY <1>0, <1>6, <2>1, <2>2, <2>4, <3>1 DEF TypeOK, DrawTypeOK
      <3>4. TurnAt(t)'
        BY <2>1, <2>2, <2>3, <2>4, <2>5, <3>1, <3>2 DEF TurnAt, Distance, Finished
      <3>5. SleepOK'
        <4>1. SUFFICES ASSUME NEW v \in Threads, pc'[v] = "waiting", line'[v] = next_line'
                       PROVE  pc'[t] = "wake" /\ v \in Reached(t)'
          BY DEF SleepOK
        <4>2. v # t /\ line[v] = line[t] + 1
          BY <2>1, <2>4, <3>1, <3>2, <4>1
        <4>3. line[v] = line[t] + Distance(t, v) /\ Distance(t, v) \in Int
          BY <2>3 DEF TurnAt, Distance, Threads
        <4>4. Distance(t, v) = 1
          BY <2>2, <4>2, <4>3
        <4>5. v = Succ(t)
          BY <4>4, NextIsSucc
        <4>6. v \in {u \in IF efficient' THEN {Succ(t)} ELSE Threads : pc'[u] = "waiting"}
          BY <4>1, <4>5
        <4>7. QED
          BY <3>2, <4>6 DEF Reached, Succ
      <3>6. (\A u \in Threads : ThreadOK(u)') /\ MainOK' /\ MutexOK'
        BY <1>0, <2>1, <2>2, <3>2 DEF ThreadOK, MainOK, MutexOK, Holding, Finished
      <3>7. QED
        BY <3>3, <3>4, <3>5, <3>6 DEF TurnInv
    <2>6. CASE col[t] # pieces - 1
      <3>1. /\ pc' = pc /\ col' = [col EXCEPT ![t] = col[t] + 1]
            /\ next_line' = next_line
        BY <1>6, <2>6 DEF Advance, Output
      <3>2. \A u \in Threads : col'[u] = IF u = t THEN col[t] + 1 ELSE col[u]
        BY <1>0, <3>1 DEF TypeOK, DrawTypeOK
      <3>3. TypeOK'
        BY <1>0, <1>6, <2>1, <2>2, <2>6, <3>1 DEF TypeOK, DrawTypeOK
      <3>4. last' = Preceding(line'[t], col'[t])
        BY <2>1, <2>2, <3>2 DEF Preceding
      <3>5. TurnAt(t)'
        BY <2>1, <2>3, <2>4, <3>1, <3>4 DEF TurnAt, Distance, Finished, Preceding
      <3>6. (\A u \in Threads : ThreadOK(u)') /\ MainOK' /\ MutexOK' /\ SleepOK'
        BY <1>0, <1>6, <2>1, <3>1, <3>2
           DEF ThreadOK, MainOK, MutexOK, SleepOK, Reached, Holding, Finished
      <3>7. QED
        BY <3>3, <3>5, <3>6 DEF TurnInv
    <2>7. QED
      BY <2>5, <2>6
  <1>7. ASSUME NEW t \in Threads, Wake(t), UNCHANGED efficient
        PROVE  TurnInv'
    <2>1. /\ pc[t] = "wake" /\ mutex = t
          /\ UNCHANGED <<line, col, last, mpc, k, mutex, next_line, spurious, efficient>>
      BY <1>0, <1>7 DEF Wake, MutexOK, Holding, Finished
    <2>2. /\ pc'[t] = "unlock"
          /\ \A u \in Threads : u # t =>
                pc'[u] = IF u \in Reached(t) THEN "lock" ELSE pc[u]
          /\ \A u \in Threads : u \in Reached(t) => pc[u] = "waiting"
      BY <1>7 DEF Wake, Reached
    <2>3. \A u \in Threads : u # t => pc'[u] = pc[u] \/ (pc[u] = "waiting" /\ pc'[u] = "lock")
      BY <2>2
    <2>4. TypeOK'
      <3>1. pc' \in [Threads -> {"none", "compute", "output", "done"}
                                \cup {"lock", "check", "waiting", "wake", "unlock"}]
        BY <1>0, <1>7 DEF Wake, TypeOK, DrawTypeOK
      <3>2. QED
        BY <1>0, <2>1, <3>1 DEF TypeOK, DrawTypeOK
    <2>5. TurnAt(t)
      BY <1>0, <2>1 DEF TurnInv, TurnAt, Finished
    <2>6. TurnAt(t)'
      BY <2>1, <2>2, <2>3, <2>5 DEF TurnAt, Distance, Finished
    <2>7. SleepOK'
      <3>1. SUFFICES ASSUME NEW v \in Threads, pc'[v] = "waiting", line'[v] = next_line'
                     PROVE  FALSE
        BY DEF SleepOK
      <3>2. v # t /\ pc[v] = "waiting" /\ line[v] = next_line /\ v \notin Reached(t)
        BY <2>1, <2>2, <3>1
      <3>3. PICK u \in Threads : pc[u] = "wake" /\ v \in Reached(u)
        BY <1>0, <3>2 DEF SleepOK
      <3>4. u = t
        BY <1>0, <2>1, <3>3 DEF MutexOK, Holding, Finished
      <3>5. QED
        BY <3>2, <3>3, <3>4
    <2>8. MutexOK'
      BY <1>0, <2>1, <2>2, <2>3 DEF MutexOK, Holding, Finished
    <2>9. (\A u \in Threads : ThreadOK(u)') /\ MainOK'
      BY <1>0, <2>1, <2>2, <2>3 DEF ThreadOK, MainOK, Holding, Finished
    <2>10. QED
      BY <2>4, <2>6, <2>7, <2>8, <2>9 DEF TurnInv
  <1>8. ASSUME NEW t \in Threads, Unlock(t), UNCHANGED efficient
        PROVE  TurnInv'
    <2> DEFINE n == Succ(t)
    <2>1. n \in Threads /\ n = IF t = thrcnt - 1 THEN 0 ELSE t + 1
      BY SuccValue
    <2> HIDE DEF n
    <2>2. /\ pc[t] = "unlock" /\ mutex = t /\ mutex' = -1
          /\ UNCHANGED <<col, last, mpc, k, next_line, spurious>>
      BY <1>0, <1>8 DEF Unlock, MutexOK, Holding, Finished
    <2>3. TurnAt(t) /\ next_line = line[t] + 1 /\ last = <<line[t], pieces - 1>>
      BY <1>0, <2>2 DEF TurnInv, TurnAt, Finished
    <2>4. \A u \in Threads : line[u] \in Nat
      BY <1>0 DEF TypeOK, DrawTypeOK
    <2>5. \A u \in Threads :
             /\ line'[u] = IF u = t THEN line[t] + thrcnt ELSE line[u]
             /\ pc'[u] = IF u = t THEN "compute" ELSE pc[u]
      BY <1>0, <1>8 DEF Unlock, NextLine, TypeOK, DrawTypeOK
    <2>6. TypeOK'
      BY <1>0, <1>8 DEF Unlock, NextLine, TypeOK, DrawTypeOK
    <2>7. \A u \in Threads : line[u] = line[t] + Distance(t, u)
      BY <2>3 DEF TurnAt
    <2>8. ASSUME NEW u \in Threads
          PROVE  line'[u] = line[t] + 1 + Distance(n, u)
      <3>1. line[t] \in Nat /\ line[u] = line[t] + Distance(t, u)
        BY <2>4, <2>7
      <3>2. CASE u = t
        BY <2>1, <2>5, <3>1, <3>2 DEF Distance, Threads
      <3>3. CASE u # t
        <4>1. line'[u] = line[t] + Distance(t, u)
          BY <2>5, <3>1, <3>3
        <4>2. Distance(t, u) = 1 + Distance(n, u)
          BY <2>1, <3>3 DEF Distance, Threads
        <4>3. Distance(n, u) \in Int
          BY <2>1 DEF Distance, Threads
        <4>4. QED
          BY <3>1, <4>1, <4>2, <4>3
      <3>4. QED
        BY <3>2, <3>3
    <2>9. TurnAt(n)'
      <3>1. line'[n] = line[t] + 1
        BY <2>1, <2>4, <2>8 DEF Distance, Threads
      <3>2. \A u \in Threads : line'[u] = line'[n] + Distance(n, u)
        BY <2>8, <3>1
      <3>3. \A u \in Threads : pc'[u] \notin {"output"} \cup Finished
        BY <2>3, <2>5 DEF TurnAt, Finished
      <3>4. next_line' = line'[n]
        BY <2>2, <2>3, <3>1
      <3>5. col'[n] = 0
        <4>1. pc[n] # "output"
          BY <2>1, <2>2, <2>3 DEF TurnAt
        <4>2. QED
          BY <1>0, <2>1, <2>2, <4>1 DEF ThreadOK
      <3>6. last' = Preceding(line'[n], col'[n])
        BY <2>2, <2>3, <2>4, <3>1, <3>5 DEF Preceding
      <3>7. QED
        BY <2>1, <3>2, <3>3, <3>4, <3>6 DEF TurnAt, Distance, Preceding
    <2>10. SleepOK'
      <3>1. SUFFICES ASSUME NEW v \in Threads, pc'[v] = "waiting", line'[v] = next_line'
                     PROVE  FALSE
        BY DEF SleepOK
      <3>2. pc[v] = "waiting" /\ line[v] = next_line
        BY <2>2, <2>5, <3>1
      <3>3. PICK u \in Threads : pc[u] = "wake"
        BY <1>0, <3>2 DEF SleepOK
      <3>4. QED
        BY <1>0, <2>2, <3>3 DEF MutexOK, Holding, Finished
    <2>11. MutexOK'
      BY <1>0, <2>2, <2>5 DEF MutexOK, Holding, Finished, Threads
    <2>12. (\A u \in Threads : ThreadOK(u)') /\ MainOK'
      BY <1>0, <2>2, <2>5 DEF ThreadOK, MainOK, Holding, Finished
    <2>13. QED
      BY <2>1, <2>6, <2>9, <2>10, <2>11, <2>12 DEF TurnInv
  <1>9. ASSUME NEW t \in Threads, SpuriousWakeup(t), UNCHANGED efficient
        PROVE  TurnInv'
    <2>1. TypeOK'
      BY <1>0, <1>9, MaxSpuriousAssumption DEF SpuriousWakeup, TypeOK, DrawTypeOK
    <2>2. (\E s \in Threads : TurnAt(s)') /\ SleepOK'
      BY <1>9, QuietStep DEF SpuriousWakeup, Finished
    <2>3. \A u \in Threads : pc'[u] = IF u = t THEN "lock" ELSE pc[u]
      BY <1>p, <1>9 DEF SpuriousWakeup
    <2>4. (\A u \in Threads : ThreadOK(u)') /\ MainOK' /\ MutexOK'
      BY <1>0, <1>9, <2>3 DEF SpuriousWakeup, ThreadOK, MainOK, MutexOK, Holding, Finished
    <2>5. QED
      BY <2>1, <2>2, <2>4 DEF TurnInv
  <1>10. CASE UNCHANGED vars
    BY <1>10 DEF vars, TurnInv, TypeOK, DrawTypeOK, TurnAt, ThreadOK, MainOK, MutexOK,
                 SleepOK, Reached, Distance, Preceding
  <1>11. QED
    BY <1>1, <1>2, <1>3, <1>4, <1>5, <1>6, <1>7, <1>8, <1>9, <1>10
       DEF Next, MainStep, Main, Thread, Terminated

LEMMA TurnInvariant == Spec => []TurnInv
  BY TurnInit, TurnStep, PTL DEF Spec

\* Type correctness of both programs.
THEOREM TypeCorrect == Spec => []TypeOK
  <1>1. TurnInv => TypeOK
    BY DEF TurnInv
  <1>2. QED
    BY <1>1, TurnInvariant, PTL

\* Nobody misses its turn: whether one condition variable is broadcast or the
\* next thread's signalled, and however many wake-ups are spurious, the thread
\* whose line is next sleeps only while its wake-up call is still to come
\* (..._efficient.c 134-146, ..._inefficient.c 133-145).
THEOREM TurnsAreNotMissed == Spec => []TurnNotMissed
  <1>1. TurnInv => TurnNotMissed
    BY DEF TurnInv, TurnNotMissed, MutexOK, SleepOK, Holding, Finished
  <1>2. QED
    BY <1>1, TurnInvariant, PTL

\* Mutex and condition variables are destroyed after their last use, when the
\* picture is complete.
THEOREM DestructionIsSafe == Spec => []DestroyedUnused
  <1>1. TurnInv => DestroyedUnused
    <2> SUFFICES ASSUME TurnInv, mpc = "done"
                 PROVE  (\A t \in Threads : pc[t] = "done") /\ last = Picture!Complete
      BY DEF DestroyedUnused
    <2>1. \A t \in Threads : pc[t] = "done" /\ line[t] >= y_chars /\ col[t] = 0
      BY DEF TurnInv, MainOK, ThreadOK
    <2>2. PICK s \in Threads : last = <<line[s] - 1, pieces - 1>> /\ next_line = line[s]
      BY <2>1 DEF TurnInv, TurnAt, Finished, Preceding
    <2>3. line[s] - 1 = y_chars - 1
      BY <2>1, <2>2, MandelAssumption DEF TurnInv, TypeOK, DrawTypeOK
    <2>4. QED
      BY <2>1, <2>2, <2>3 DEF Picture!Complete
  <1>2. QED
    BY <1>1, TurnInvariant, PTL

\* Both programs implement the ordered output: every write continues the picture.
THEOREM TurnsDrawPicture == Spec => DrawsPicture
  <1>1. Init => Picture!Init
    BY DEF Init, DrawInit, Picture!Init, Picture!Blank
  <1>2. TurnInv /\ [Next]_vars => [Picture!Draw]_(Picture!vars)
    <2> SUFFICES ASSUME TurnInv, [Next]_vars, last' # last
                 PROVE  Picture!Draw
      BY DEF Picture!vars
    <2>1. PICK t \in Threads : Output(t, "wake")
      BY DEF Next, MainStep, Main, Create, Join, Destroy, Thread, Compute, Return, Lock,
             CheckTurn, Advance, Wake, Unlock, SpuriousWakeup, Terminated, vars, drawVars,
             threadVars
    <2>2. /\ last = Preceding(line[t], col[t])
          /\ line[t] \in Int /\ line[t] < y_chars
          /\ col[t] \in 0 .. pieces - 1
      BY <2>1 DEF TurnInv, TurnAt, ThreadOK, Output, Finished, Holding, TypeOK, DrawTypeOK
    <2>3. last' = <<line[t], col[t]>>
      BY <2>1 DEF Output
    <2>4. last # Picture!Complete
      BY <2>2, MandelAssumption DEF Preceding, Picture!Complete
    <2>5. last' = Picture!Successor(last)
      BY <2>2, <2>3, MandelAssumption DEF Preceding, Picture!Successor
    <2>6. QED
      BY <2>4, <2>5 DEF Picture!Draw
  <1>3. QED
    BY <1>1, <1>2, TurnInvariant, PTL DEF Spec, DrawsPicture, Picture!Spec
=============================================================================
