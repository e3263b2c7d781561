---------------------------- MODULE MandelProofs ----------------------------
(* Proofs about the semaphore ring for any number of threads, of lines and  *)
(* of pieces: first in the threads of mandel_semaphores.c, then in the      *)
(* forked processes, with the program that leaves its lines in shared       *)
(* memory.                                                                  *)
EXTENDS MandelProcesses, FiniteSetTheorems, TLAPS

\* How many turns after thread s thread t has its turn.
Distance(s, t) == IF s <= t THEN t - s ELSE t - s + thrcnt

Drawing == {"output", "post"}

\* The write that comes just before piece c of line l.
Preceding(l, c) == IF c = 0 THEN <<l - 1, pieces - 1>> ELSE <<l, c - 1>>

\* The ring with the turn at thread s: s holds the token, in its semaphore or
\* while it writes and posts; the others hold none; each thread is at the line
\* of its next turn; and the terminal shows all lines before the one of s.
TurnAt(s) ==
    /\ \A t \in Threads : t # s => semaphores[t] = 0 /\ pc[t] \notin Drawing
    /\ \A t \in Threads : line[t] = line[s] + Distance(s, t)
    /\ \/ semaphores[s] = 1 /\ pc[s] \notin Drawing /\ last = Preceding(line[s], 0)
       \/ semaphores[s] = 0 /\ pc[s] = "output" /\ last = Preceding(line[s], col[s])
       \/ semaphores[s] = 0 /\ pc[s] = "post" /\ last = <<line[s], pieces - 1>>

TokenKept == \E s \in Threads : TurnAt(s)

\* The token has ended with its holder.
TokenLost == \A t \in Threads : semaphores[t] = 0 /\ pc[t] \notin Drawing

ThreadOK(t) ==
    /\ pc[t] \in {"wait", "output", "post"} => line[t] < y_chars
    /\ pc[t] = "done" => line[t] >= y_chars
    /\ pc[t] \notin {"output", "failed"} => col[t] = 0

\* The types that the threads and the forked processes share.
Shape ==
    /\ pc \in [Threads -> {"none", "compute", "wait", "output", "post", "done",
                           "failed"}]
    /\ line \in [Threads -> Nat]
    /\ col \in [Threads -> 0 .. pieces - 1]
    /\ last \in (-1 .. y_chars - 1) \X (0 .. pieces - 1)
    /\ k \in Threads
    /\ semaphores \in [Threads -> Nat]

LEMMA SuccValue ==
    ASSUME NEW t \in Threads
    PROVE  /\ Succ(t) \in Threads
           /\ Succ(t) = IF t = thrcnt - 1 THEN 0 ELSE t + 1
  BY MandelAssumption DEF Threads, Succ

\* main's loop index stays a thread's, and either advances or starts anew.
LEMMA NextTurnCases ==
    ASSUME k \in Threads, NEW part, NextTurn(part)
    PROVE  /\ k' \in Threads
           /\ \/ k = thrcnt - 1 /\ mpc' = part /\ k' = 0
              \/ k < thrcnt - 1 /\ mpc' = mpc /\ k' = k + 1
  BY MandelAssumption DEF NextTurn, Threads

\* At the beginning the token is in the semaphore of the first thread.
LEMMA RingBegins ==
    ASSUME RingInit
    PROVE  /\ Shape /\ TokenKept
           /\ \A t \in Threads : ThreadOK(t) /\ pc[t] = "none"
           /\ mpc = "create" /\ k = 0
  <1> USE MandelAssumption
  <1>1. /\ pc \in [Threads -> {"none"}] /\ mpc = "create" /\ k = 0
        /\ 0 \in Threads
    BY DEF RingInit, DrawInit, Threads
  <1>2. Shape
    <2>1. line \in [Threads -> Nat] /\ col \in [Threads -> 0 .. pieces - 1]
      BY DEF RingInit, DrawInit, Threads
    <2>2. last \in (-1 .. y_chars - 1) \X (0 .. pieces - 1)
      BY DEF RingInit, DrawInit
    <2>3. semaphores \in [Threads -> Nat]
      BY DEF RingInit
    <2>4. pc \in [Threads -> {"none", "compute", "wait", "output", "post", "done",
                              "failed"}]
      BY <1>1
    <2>5. QED
      BY <1>1, <2>1, <2>2, <2>3, <2>4 DEF Shape
  <1>3. /\ \A t \in Threads : /\ line[t] = t /\ pc[t] = "none" /\ col[t] = 0
                               /\ semaphores[t] = IF t = 0 THEN 1 ELSE 0
        /\ last = <<0 - 1, pieces - 1>>
    BY DEF RingInit, DrawInit, Threads
  <1>4. TurnAt(0)
    <2>1. \A t \in Threads : line[t] = line[0] + Distance(0, t)
      BY <1>1, <1>3 DEF Distance, Threads
    <2>2. last = Preceding(line[0], 0)
      BY <1>1, <1>3 DEF Preceding
    <2>3. QED
      BY <1>1, <1>3, <2>1, <2>2 DEF TurnAt, Drawing
  <1>5. \A t \in Threads : ThreadOK(t)
    BY <1>3 DEF ThreadOK
  <1>6. QED
    BY <1>1, <1>2, <1>3, <1>4, <1>5 DEF TokenKept

\* What a process does with its own control point, while it does not draw,
\* leaves the token where it is.
LEMMA QuietKeeps ==
    ASSUME Shape, NEW t \in Threads, NEW p,
           pc[t] \notin Drawing, p \notin Drawing,
           pc' = [pc EXCEPT ![t] = p],
           UNCHANGED <<line, col, last, semaphores>>
    PROVE  (TokenKept => TokenKept') /\ (TokenLost => TokenLost')
  <1>1. \A u \in Threads : (pc'[u] \in Drawing <=> pc[u] \in Drawing)
                           /\ (pc[u] \in Drawing => pc'[u] = pc[u])
    BY DEF Shape
  <1>2. ASSUME NEW s \in Threads, TurnAt(s) PROVE TurnAt(s)'
    BY <1>1, <1>2 DEF TurnAt, Distance, Preceding, Drawing
  <1>3. QED
    BY <1>1, <1>2 DEF TokenKept, TokenLost

\* The thread that finds its semaphore open has the turn, and keeps it.
LEMMA WaitKeeps ==
    ASSUME Shape, TokenKept, NEW t \in Threads, ThreadOK(t), Wait(t)
    PROVE  TokenKept'
  <1>1. TurnAt(t)
    BY DEF TokenKept, TurnAt, Wait, Shape
  <1>2. TurnAt(t)'
    BY <1>1 DEF Wait, TurnAt, Shape, ThreadOK, Drawing, Preceding, Distance
  <1>3. QED
    BY <1>2 DEF TokenKept

\* The thread that writes has the turn, keeps it, and continues the picture.
LEMMA OutputKeeps ==
    ASSUME Shape, TokenKept, NEW t \in Threads, ThreadOK(t),
           Output(t, "post"), UNCHANGED semaphores
    PROVE  TokenKept' /\ Picture!Draw
  <1> USE MandelAssumption
  <1>1. TurnAt(t)
    BY DEF TokenKept, Output, TurnAt, Drawing
  <1>2. TurnAt(t)'
    BY <1>1 DEF Output, TurnAt, Shape, Drawing, Preceding, Distance
  <1>3. /\ last = Preceding(line[t], col[t])
        /\ line[t] \in Int /\ line[t] < y_chars
        /\ col[t] \in 0 .. pieces - 1
        /\ last' = <<line[t], col[t]>>
    BY <1>1 DEF TurnAt, ThreadOK, Output, Drawing, Shape
  <1>4. last # Picture!Complete
    BY <1>3 DEF Preceding, Picture!Complete
  <1>5. last' = Picture!Successor(last)
    BY <1>3 DEF Preceding, Picture!Successor
  <1>6. QED
    BY <1>2, <1>4, <1>5 DEF TokenKept, Picture!Draw

\* The thread that posts hands the turn to its successor, whose line is next.
LEMMA PostHandsOn ==
    ASSUME Shape, TokenKept, NEW t \in Threads, ThreadOK(t), Post(t)
    PROVE  TokenKept' /\ semaphores' \in [Threads -> Nat]
  <1> USE MandelAssumption
  <1>1. PICK n \in Threads : n = Succ(t) /\ n = IF t = thrcnt - 1 THEN 0 ELSE t + 1
    BY SuccValue
  <1>2. /\ pc[t] = "post" /\ TurnAt(t)
        /\ semaphores[t] = 0 /\ last = <<line[t], pieces - 1>>
    BY DEF TokenKept, Post, TurnAt, Drawing
  <1>3. \A u \in Threads : semaphores[u] = 0 /\ line[u] \in Nat
    BY <1>2 DEF TurnAt, Shape
  <1>4. /\ semaphores' = [semaphores EXCEPT ![n] = 1]
        /\ semaphores' \in [Threads -> Nat]
    <2>1. semaphores' = [semaphores EXCEPT ![n] = semaphores[n] + 1]
      BY <1>1 DEF Post
    <2>2. semaphores[n] + 1 = 1
      BY <1>3
    <2>3. semaphores' = [semaphores EXCEPT ![n] = 1]
      BY <2>1, <2>2
    <2>4. QED
      BY <2>3 DEF Shape
  <1>5. \A u \in Threads : semaphores'[u] = IF u = n THEN 1 ELSE 0
    BY <1>3, <1>4 DEF Shape
  <1>6. \A u \in Threads :
           /\ line'[u] = IF u = t THEN line[t] + thrcnt ELSE line[u]
           /\ pc'[u] = IF u = t THEN "compute" ELSE pc[u]
    BY DEF Post, NextLine, Shape
  <1>7. \A u \in Threads : line[u] = line[t] + Distance(t, u)
    BY <1>2 DEF TurnAt
  <1>8. ASSUME NEW u \in Threads
        PROVE  line'[u] = line[t] + 1 + Distance(n, u)
    <2>1. line[t] \in Nat /\ line[u] = line[t] + Distance(t, u)
      BY <1>3, <1>7
    <2>2. CASE u = t
      BY <1>1, <1>6, <2>1, <2>2 DEF Distance, Threads
    <2>3. CASE u # t
      <3>1. line'[u] = line[t] + Distance(t, u)
        BY <1>6, <2>1, <2>3
      <3>2. Distance(t, u) = 1 + Distance(n, u)
        BY <1>1, <2>3 DEF Distance, Threads
      <3>3. Distance(n, u) \in Int
        BY <1>1 DEF Distance, Threads
      <3>4. QED
        BY <2>1, <3>1, <3>2, <3>3
    <2>4. QED
      BY <2>2, <2>3
  <1>9. TurnAt(n)'
    <2>1. line'[n] = line[t] + 1
      BY <1>1, <1>3, <1>8 DEF Distance, Threads
    <2>2. \A u \in Threads : line'[u] = line'[n] + Distance(n, u)
      BY <1>8, <2>1
    <2>3. \A u \in Threads : pc'[u] \notin Drawing
      BY <1>2, <1>6 DEF TurnAt, Drawing
    <2>4. last' = Preceding(line'[n], 0)
      BY <1>2, <1>3, <2>1 DEF Post, Preceding
    <2>5. QED
      BY <1>5, <2>2, <2>3, <2>4 DEF TurnAt, Distance, Preceding
  <1>10. QED
    BY <1>4, <1>9 DEF TokenKept

\* A step of a thread, wherever the token is.
LEMMA ThreadKeeps ==
    ASSUME Shape, TokenKept \/ TokenLost, \A u \in Threads : ThreadOK(u),
           NEW t \in Threads, Thread(t)
    PROVE  /\ Shape' /\ \A u \in Threads : ThreadOK(u)'
           /\ (TokenKept => TokenKept') /\ (TokenLost => TokenLost')
           /\ pc[t] \notin {"none", "done", "failed"} /\ pc'[t] \notin {"none", "failed"}
           /\ \A u \in Threads : u # t => pc'[u] = pc[u]
           /\ UNCHANGED mainVars /\ [Picture!Draw]_last
  <1> USE MandelAssumption
  <1>1. CASE (Compute(t, "wait") \/ Return(t)) /\ UNCHANGED semaphores
    <2>1. /\ UNCHANGED <<line, col, last, mainVars, semaphores>>
          /\ \/ pc' = [pc EXCEPT ![t] = "wait"] /\ line[t] < y_chars
             \/ pc' = [pc EXCEPT ![t] = "done"] /\ line[t] >= y_chars
          /\ pc[t] = "compute"
      BY <1>1 DEF Compute, Return
    <2>2. Shape' /\ \A u \in Threads : ThreadOK(u)'
      BY <2>1 DEF Shape, ThreadOK, mainVars
    <2>3. ASSUME NEW p \in {"wait", "done"}, pc' = [pc EXCEPT ![t] = p]
          PROVE  (TokenKept => TokenKept') /\ (TokenLost => TokenLost')
      <3>1. p \notin Drawing /\ pc[t] \notin Drawing
        BY <2>1 DEF Drawing
      <3>2. QED
        BY <2>1, <2>3, <3>1, QuietKeeps
    <2>4. (TokenKept => TokenKept') /\ (TokenLost => TokenLost')
      BY <2>1, <2>3
    <2>5. QED
      BY <2>1, <2>2, <2>4 DEF Shape
  <1>2. CASE Wait(t)
    <2>1. ~TokenLost
      BY <1>2 DEF TokenLost, Wait
    <2>2. TokenKept'
      BY <1>2, <2>1, WaitKeeps
    <2>3. Shape' /\ \A u \in Threads : ThreadOK(u)'
      BY <1>2 DEF Wait, Shape, ThreadOK, mainVars
    <2>4. QED
      BY <1>2, <2>1, <2>2, <2>3 DEF Wait, Shape
  <1>3. CASE Output(t, "post") /\ UNCHANGED semaphores
    <2>1. ~TokenLost
      BY <1>3 DEF TokenLost, Output, Drawing
    <2>2. TokenKept' /\ Picture!Draw
      BY <1>3, <2>1, OutputKeeps
    <2>3. Shape' /\ \A u \in Threads : ThreadOK(u)'
      BY <1>3 DEF Output, Shape, ThreadOK, mainVars
    <2>4. QED
      BY <1>3, <2>1, <2>2, <2>3 DEF Output, Shape
  <1>4. CASE Post(t)
    <2>1. ~TokenLost
      BY <1>4 DEF TokenLost, Post, Drawing
    <2>2. TokenKept' /\ semaphores' \in [Threads -> Nat]
      BY <1>4, <2>1, PostHandsOn
    <2>3. Shape' /\ \A u \in Threads : ThreadOK(u)'
      BY <1>4, <2>2 DEF Post, NextLine, Shape, ThreadOK, mainVars
    <2>4. QED
      BY <1>4, <2>1, <2>2, <2>3 DEF Post, NextLine, Shape
  <1>5. QED
    BY <1>1, <1>2, <1>3, <1>4 DEF Thread

\* With the token kept and everybody done the picture is complete.
LEMMA DoneIsComplete ==
    ASSUME Shape, TokenKept,
           \A t \in Threads : ThreadOK(t) /\ pc[t] = "done"
    PROVE  last = Picture!Complete
  <1> USE MandelAssumption
  <1>1. \A t \in Threads : pc[t] = "done" /\ line[t] >= y_chars
    BY DEF ThreadOK
  <1>2. PICK s \in Threads : last = <<line[s] - 1, pieces - 1>>
    BY <1>1 DEF TokenKept, TurnAt, Drawing, Preceding
  <1>3. line[s] - 1 = y_chars - 1
    BY <1>1, <1>2 DEF Shape
  <1>4. QED
    BY <1>2, <1>3 DEF Picture!Complete

\* There is one token at most.
LEMMA TokenIsOne ==
    ASSUME Shape, TokenKept \/ TokenLost
    PROVE  OneToken
  <1>1. CASE TokenKept
    BY <1>1 DEF TokenKept, TurnAt, OneToken, Drawing
  <1>2. CASE TokenLost
    BY <1>2 DEF TokenLost, OneToken, Drawing
  <1>3. QED
    BY <1>1, <1>2

-----------------------------------------------------------------------------
(* The threads of mandel_semaphores.c.                                      *)

MainOK ==
    /\ mpc = "create" => \A t \in Threads : t >= k => pc[t] = "none"
    /\ mpc = "join" => \A t \in Threads : t < k => pc[t] = "done"
    /\ mpc \in {"destroy", "done"} => \A t \in Threads : pc[t] = "done"

RingInv ==
    /\ Shape /\ TokenKept
    /\ \A t \in Threads : ThreadOK(t) /\ pc[t] # "failed"
    /\ mpc \in {"create", "join", "destroy", "done"}
    /\ MainOK

LEMMA RingInvInit == RingInit => RingInv
  BY RingBegins DEF RingInv, MainOK

\* main creates a thread or a process.
LEMMA CreateKeeps ==
    ASSUME Shape, \A u \in Threads : ThreadOK(u),
           mpc = "create" => \A t \in Threads : t >= k => pc[t] = "none",
           Create, UNCHANGED semaphores
    PROVE  /\ Shape' /\ \A u \in Threads : ThreadOK(u)'
           /\ (TokenKept => TokenKept') /\ (TokenLost => TokenLost')
           /\ pc[k] = "none"
           /\ \A u \in Threads : pc'[u] = IF u = k THEN "compute" ELSE pc[u]
           /\ mpc = "create" /\ mpc' \in {"create", "join"}
           /\ mpc' = "create" => \A t \in Threads : t >= k' => pc'[t] = "none"
           /\ mpc' = "join" => k' = 0
           /\ last' = last
  <1> USE MandelAssumption
  <1>1. /\ k \in Threads /\ k' \in Threads /\ pc[k] = "none" /\ mpc = "create"
        /\ \A t \in Threads : t >= k => pc[t] = "none"
        /\ \/ k = thrcnt - 1 /\ mpc' = "join" /\ k' = 0
           \/ k < thrcnt - 1 /\ mpc' = mpc /\ k' = k + 1
    BY NextTurnCases DEF Create, Shape, Threads
  <1>2. /\ pc' = [pc EXCEPT ![k] = "compute"]
        /\ \A u \in Threads : pc'[u] = IF u = k THEN "compute" ELSE pc[u]
        /\ UNCHANGED <<line, col, last, semaphores>>
    BY <1>1 DEF Create, Shape
  <1>3. Shape' /\ \A u \in Threads : ThreadOK(u)'
    BY <1>1, <1>2 DEF Shape, ThreadOK
  <1>4. (TokenKept => TokenKept') /\ (TokenLost => TokenLost')
    BY <1>1, <1>2, QuietKeeps DEF Drawing
  <1>5. mpc' = "create" => \A t \in Threads : t >= k' => pc'[t] = "none"
    BY <1>1, <1>2 DEF Threads
  <1>6. QED
    BY <1>1, <1>2, <1>3, <1>4, <1>5

\* One step per action of main and of a thread.
LEMMA RingInvStep == RingInv /\ [RingNext]_ringVars => RingInv' /\ [Picture!Draw]_last
  <1> SUFFICES ASSUME RingInv, [RingNext]_ringVars
               PROVE  RingInv' /\ [Picture!Draw]_last
    OBVIOUS
  <1> USE MandelAssumption
  <1>0. /\ Shape /\ TokenKept /\ MainOK /\ k \in Threads
        /\ \A t \in Threads : ThreadOK(t) /\ pc[t] # "failed"
    BY DEF RingInv, Shape
  <1>1. CASE Create /\ UNCHANGED semaphores
    <2>1. mpc = "create" => \A t \in Threads : t >= k => pc[t] = "none"
      BY <1>0 DEF MainOK
    <2>2. /\ Shape' /\ TokenKept' /\ last' = last /\ mpc' \in {"create", "join"}
          /\ \A u \in Threads : ThreadOK(u)' /\ pc'[u] # "failed"
      BY <1>0, <1>1, <2>1, CreateKeeps
    <2>3. MainOK'
      BY <1>0, <1>1, <2>1, CreateKeeps DEF MainOK, Threads
    <2>4. QED
      BY <2>2, <2>3 DEF RingInv
  <1>2. CASE (Join \/ Destroy) /\ UNCHANGED semaphores
    <2>1. UNCHANGED <<pc, line, col, last, semaphores>>
      BY <1>2 DEF Join, Destroy, threadVars
    <2>2. /\ k' \in Threads /\ mpc' \in {"join", "destroy", "done"}
          /\ Join => \/ k = thrcnt - 1 /\ mpc' = "destroy" /\ k' = 0
                     \/ k < thrcnt - 1 /\ mpc' = mpc /\ k' = k + 1
      BY <1>0, <1>2, NextTurnCases DEF Join, Destroy
    <2>3. MainOK'
      <3>1. CASE Join
        <4>1. /\ mpc = "join" /\ pc[k] = "done"
              /\ \A t \in Threads : t < k => pc[t] = "done"
          BY <1>0, <3>1 DEF Join, MainOK
        <4>2. CASE k = thrcnt - 1 /\ mpc' = "destroy" /\ k' = 0
          BY <1>0, <2>1, <4>1, <4>2 DEF MainOK, Threads
        <4>3. CASE k < thrcnt - 1 /\ mpc' = mpc /\ k' = k + 1
          BY <1>0, <2>1, <4>1, <4>3 DEF MainOK, Threads
        <4>4. QED
          BY <2>2, <3>1, <4>2, <4>3
      <3>2. CASE Destroy
        BY <1>0, <2>1, <3>2 DEF Destroy, MainOK
      <3>3. QED
        BY <1>2, <3>1, <3>2
    <2>4. QED
      BY <1>0, <2>1, <2>2, <2>3
         DEF RingInv, Shape, TokenKept, TurnAt, ThreadOK, Distance, Preceding
  <1>3. ASSUME NEW t \in Threads, Thread(t)
        PROVE  RingInv' /\ [Picture!Draw]_last
    <2>1. /\ Shape' /\ TokenKept' /\ [Picture!Draw]_last /\ UNCHANGED mainVars
          /\ \A u \in Threads : ThreadOK(u)'
          /\ pc[t] \notin {"none", "done", "failed"} /\ pc'[t] \notin {"none", "failed"}
          /\ \A u \in Threads : u # t => pc'[u] = pc[u]
      BY <1>0, <1>3, ThreadKeeps
    <2>2. MainOK'
      BY <1>0, <2>1 DEF MainOK, mainVars
    <2>3. QED
      BY <1>0, <2>1, <2>2 DEF RingInv, mainVars
  <1>4. CASE UNCHANGED ringVars
    BY <1>0, <1>4 DEF ringVars, drawVars, threadVars, mainVars, RingInv, Shape, MainOK,
                      TokenKept, TurnAt, ThreadOK, Distance, Preceding
  <1>5. QED
    BY <1>1, <1>2, <1>3, <1>4 DEF RingNext, Main, Terminated

LEMMA RingInvariant == RingSpec => []RingInv
  <1>1. RingInv /\ [RingNext]_ringVars => RingInv'
    BY RingInvStep
  <1>2. QED
    BY <1>1, RingInvInit, PTL DEF RingSpec

\* Type correctness of the ring.
THEOREM RingTypeCorrect == RingSpec => []RingTypeOK
  <1>1. RingInv => RingTypeOK
    BY DEF RingInv, Shape, RingTypeOK, DrawTypeOK
  <1>2. QED
    BY <1>1, RingInvariant, PTL

\* Mutual exclusion on the terminal, by one token that is never doubled or lost
\* (mandel_semaphores.c 146-155).
THEOREM TokenIsUnique == RingSpec => []OneToken
  <1>1. RingInv => OneToken
    BY TokenIsOne DEF RingInv
  <1>2. QED
    BY <1>1, RingInvariant, PTL

\* When the semaphores are destroyed all threads have returned and the picture
\* is complete (mandel_semaphores.c 207-220).
THEOREM DestructionIsSafe == RingSpec => []DestroyedUnused
  <1>1. RingInv => DestroyedUnused
    BY DoneIsComplete DEF RingInv, MainOK, DestroyedUnused
  <1>2. QED
    BY <1>1, RingInvariant, PTL

\* The ring implements the ordered output: every write continues the picture
\* (mandel_semaphores.c 138-156).
THEOREM RingDrawsPicture == RingSpec => DrawsPicture
  <1>1. RingInit => Picture!Init
    BY DEF RingInit, DrawInit, Picture!Init, Picture!Blank
  <1>2. RingInv /\ [RingNext]_ringVars => [Picture!Draw]_(Picture!vars)
    BY RingInvStep DEF Picture!vars, Picture!Draw
  <1>3. QED
    BY <1>1, <1>2, RingInvariant, PTL DEF RingSpec, DrawsPicture, Picture!Spec

-----------------------------------------------------------------------------
(* The forked processes of semaphore_mandel-fork.c and                      *)
(* no_semaphore_mandel-fork.c.                                              *)

\* What main has waited for, by where it is.
ParentOK ==
    /\ mpc = "create" => waited = {} /\ \A t \in Threads : t >= k => pc[t] = "none"
    /\ \A t \in waited : pc[t] \in {"done", "failed"}
    /\ mpc \in {"draw", "destroy", "done", "failed"} => waited = Threads
    /\ mpc \in {"draw", "failed"} => buffered

\* The ring goes on as with threads until a write fails; then the token is gone.
InRing ==
    ~buffered =>
        \/ TokenKept /\ failures = 0 /\ \A t \in Threads : pc[t] # "failed"
        \/ TokenLost /\ failures > 0

\* The lines that child t has still to compute.
ToCome(t) == {l \in Nat : \E m \in Nat : l = line[t] + m * thrcnt}

\* In the other program every line is in shared memory or still to come from
\* some child, and main's cursor follows what the terminal shows.
InMemory ==
    buffered =>
        /\ \A t \in Threads : /\ pc[t] \in {"none", "compute", "done"}
                              /\ semaphores[t] = IF t = 0 THEN 1 ELSE 0
        /\ \A l \in 0 .. y_chars - 1 :
               l \in shared_buff \/ \E t \in Threads : l \in ToCome(t)
        /\ last = Preceding(cursor[1], cursor[2])
        /\ IF mpc \in {"destroy", "done"} THEN cursor = <<y_chars, 0>>
                                          ELSE cursor[1] < y_chars

ProcessesInv ==
    /\ TypeOK /\ \A t \in Threads : ThreadOK(t)
    /\ ParentOK /\ InRing /\ InMemory

LEMMA TypeShape == TypeOK => Shape
  BY DEF TypeOK, Shape

\* Some child's share has each line.
LEMMA EveryLineIsToCome ==
    ASSUME NEW l \in Nat, \A t \in Threads : line[t] = t
    PROVE  \E t \in Threads : l \in ToCome(t)
  <1> USE MandelAssumption
  <1>1. PICK n \in Nat \ {0} : n = thrcnt
    BY MandelAssumption
  <1>2. /\ l % n \in 0 .. n - 1 /\ l \div n \in Nat
        /\ l = (l % n) + (l \div n) * n
    OBVIOUS
  <1>3. l % n \in Threads /\ line[l % n] = l % n
    BY <1>1, <1>2 DEF Threads
  <1>4. l \in ToCome(l % n)
    BY <1>1, <1>2, <1>3 DEF ToCome
  <1>5. QED
    BY <1>3, <1>4

LEMMA ProcessesInit == Init => ProcessesInv
  <1> SUFFICES ASSUME Init PROVE ProcessesInv
    OBVIOUS
  <1> USE MandelAssumption
  <1>1. /\ Shape /\ TokenKept /\ mpc = "create"
        /\ \A t \in Threads : ThreadOK(t) /\ pc[t] = "none"
    BY RingBegins DEF Init
  <1>2. /\ buffered \in BOOLEAN /\ shared_buff = {} /\ waited = {}
        /\ cursor = <<0, 0>> /\ failures = 0
    BY DEF Init
  <1>3. TypeOK
    BY <1>1, <1>2, MaxFailuresAssumption DEF Shape, TypeOK
  <1>4. ParentOK /\ InRing
    BY <1>1, <1>2 DEF ParentOK, InRing
  <1>5. /\ last = <<-1, pieces - 1>>
        /\ \A t \in Threads : line[t] = t /\ semaphores[t] = IF t = 0 THEN 1 ELSE 0
    BY DEF Init, RingInit, DrawInit
  <1>6. last = Preceding(cursor[1], cursor[2]) /\ cursor[1] < y_chars
    BY <1>2, <1>5 DEF Preceding
  <1>7. \A l \in 0 .. y_chars - 1 : \E t \in Threads : l \in ToCome(t)
    BY <1>5, EveryLineIsToCome
  <1>8. InMemory
    BY <1>1, <1>5, <1>6, <1>7 DEF InMemory
  <1>9. QED
    BY <1>1, <1>3, <1>4, <1>8 DEF ProcessesInv

\* When as many children have been waited for as there are, all have.
LEMMA AllAreWaitedFor ==
    ASSUME NEW W \in SUBSET Threads, ~(Cardinality(W) < thrcnt)
    PROVE  W = Threads
  <1> USE MandelAssumption
  <1>1. IsFiniteSet(Threads) /\ Cardinality(Threads) = thrcnt
    BY FS_Interval DEF Threads
  <1>2. IsFiniteSet(W) /\ Cardinality(W) <= Cardinality(Threads)
    BY <1>1, FS_Subset
  <1>3. Cardinality(W) \in Nat /\ Cardinality(Threads) \in Nat
    BY <1>1, <1>2, FS_CardinalityType
  <1>4. Cardinality(Threads) = Cardinality(W)
    BY <1>1, <1>2, <1>3
  <1>5. QED
    BY <1>1, <1>4, FS_Subset

\* What main does to start and to end.
LEMMA ParentStep ==
    ASSUME ProcessesInv, Create \/ Destroy,
           UNCHANGED <<buffered, sharedVars, waited, cursor, failures>>
    PROVE  ProcessesInv' /\ last' = last
  <1> USE MandelAssumption
  <1>0. /\ TypeOK /\ Shape /\ ParentOK /\ InRing /\ InMemory
        /\ \A t \in Threads : ThreadOK(t)
    BY TypeShape DEF ProcessesInv
  <1>1. CASE Create
    <2>1. mpc = "create" => \A t \in Threads : t >= k => pc[t] = "none"
      BY <1>0 DEF ParentOK
    <2>2. UNCHANGED semaphores
      BY DEF sharedVars
    <2>3. /\ Shape' /\ \A u \in Threads : ThreadOK(u)'
          /\ (TokenKept => TokenKept') /\ (TokenLost => TokenLost')
          /\ last' = last /\ mpc = "create" /\ mpc' \in {"create", "join"}
          /\ mpc' = "create" => \A t \in Threads : t >= k' => pc'[t] = "none"
          /\ \A u \in Threads : pc'[u] = IF u = k THEN "compute" ELSE pc[u]
      BY <1>0, <1>1, <2>1, <2>2, CreateKeeps
    <2>4. TypeOK'
      BY <1>0, <2>3 DEF TypeOK, Shape, sharedVars
    <2>5. ParentOK'
      BY <1>0, <2>3 DEF ParentOK
    <2>6. InRing'
      BY <1>0, <2>3 DEF InRing
    <2>7. InMemory'
      BY <1>0, <1>1, <2>3 DEF InMemory, Create, ToCome, Preceding, sharedVars
    <2>8. QED
      BY <2>3, <2>4, <2>5, <2>6, <2>7 DEF ProcessesInv
  <1>2. CASE Destroy
    <2>1. /\ UNCHANGED <<pc, line, col, last, k, semaphores, shared_buff>>
          /\ mpc = "destroy" /\ mpc' = "done"
      BY <1>2 DEF Destroy, threadVars, sharedVars
    <2>2. TypeOK' /\ ParentOK' /\ \A t \in Threads : ThreadOK(t)'
      BY <1>0, <2>1 DEF TypeOK, ParentOK, ThreadOK
    <2>3. InRing' /\ InMemory'
      BY <1>0, <2>1 DEF InRing, InMemory, ToCome, Preceding, TokenKept, TokenLost,
                        TurnAt, Distance
    <2>4. QED
      BY <2>1, <2>2, <2>3 DEF ProcessesInv
  <1>3. QED
    BY <1>1, <1>2

\* When the last child has been waited for, all lines lie in shared memory.
LEMMA WaitChildStep ==
    ASSUME ProcessesInv, WaitChild
    PROVE  ProcessesInv' /\ last' = last
  <1> USE MandelAssumption
  <1>0. /\ TypeOK /\ Shape /\ ParentOK /\ InRing /\ InMemory
        /\ \A t \in Threads : ThreadOK(t)
    BY TypeShape DEF ProcessesInv
  <1>1. /\ UNCHANGED <<pc, line, col, last, k, buffered, semaphores, shared_buff, cursor,
                       failures>>
        /\ mpc = "join"
    BY DEF WaitChild, threadVars, sharedVars
  <1>2. waited' \in SUBSET Threads /\ \A t \in waited' : pc[t] \in {"done", "failed"}
    BY <1>0 DEF WaitChild, ParentOK, TypeOK
  <1>3. \/ mpc' = "join"
        \/ mpc' = IF buffered THEN "draw" ELSE "destroy"
    BY <1>1 DEF WaitChild
  <1>4. mpc' # "join" => waited' = Threads
    BY <1>1, <1>2, AllAreWaitedFor DEF WaitChild
  <1>5. TypeOK' /\ \A t \in Threads : ThreadOK(t)'
    BY <1>0, <1>1, <1>2, <1>3 DEF TypeOK, ThreadOK
  <1>6. ParentOK'
    BY <1>0, <1>1, <1>2, <1>3, <1>4 DEF ParentOK, TypeOK
  <1>7. InRing' /\ InMemory'
    <2>1. InRing'
      BY <1>0, <1>1 DEF InRing, TokenKept, TokenLost, TurnAt, Distance, Preceding
    <2>2. InMemory'
      BY <1>0, <1>1, <1>3 DEF InMemory, ToCome, Preceding
    <2>3. QED
      BY <2>1, <2>2
  <1>8. QED
    BY <1>1, <1>5, <1>6, <1>7 DEF ProcessesInv

\* main writes the lines in shared memory one piece after the other.
LEMMA DrawStep ==
    ASSUME ProcessesInv, DrawPiece \/ DrawFails
    PROVE  ProcessesInv' /\ [Picture!Draw]_last
  <1> USE MandelAssumption
  <1>0. /\ TypeOK /\ Shape /\ ParentOK /\ InRing /\ InMemory
        /\ \A t \in Threads : ThreadOK(t)
    BY TypeShape DEF ProcessesInv
  <1>1. /\ UNCHANGED <<pc, line, col, k, buffered, semaphores, shared_buff, waited>>
        /\ mpc = "draw" /\ buffered
    BY <1>0 DEF DrawPiece, DrawFails, threadVars, sharedVars, ParentOK
  <1>2. PICK l \in 0 .. y_chars - 1, c \in 0 .. pieces - 1 :
            cursor = <<l, c>> /\ last = Preceding(l, c)
    <2>1. cursor[1] \in 0 .. y_chars - 1 /\ cursor[2] \in 0 .. pieces - 1
          /\ cursor = <<cursor[1], cursor[2]>> /\ last = Preceding(cursor[1], cursor[2])
      BY <1>0, <1>1 DEF InMemory, TypeOK
    <2>2. QED
      BY <2>1
  <1>3. /\ (\A t \in Threads : ThreadOK(t)') /\ waited = Threads
        /\ InRing'
    BY <1>0, <1>1 DEF ThreadOK, ParentOK, InRing
  <1>4. CASE DrawPiece
    <2>1. /\ last' = <<l, c>> /\ failures' = failures
          /\ \/ c = pieces - 1 /\ cursor' = <<l + 1, 0>>
                /\ mpc' = IF l + 1 = y_chars THEN "destroy" ELSE "draw"
             \/ c < pieces - 1 /\ cursor' = <<l, c + 1>> /\ mpc' = "draw"
      BY <1>1, <1>2, <1>4 DEF DrawPiece
    <2>2. TypeOK'
      <3>1. cursor' \in (0 .. y_chars) \X (0 .. pieces - 1)
        BY <2>1
      <3>2. last' \in (-1 .. y_chars - 1) \X (0 .. pieces - 1)
        BY <2>1
      <3>3. mpc' \in {"destroy", "draw"}
        BY <2>1
      <3>4. QED
        BY <1>0, <1>1, <2>1, <3>1, <3>2, <3>3 DEF TypeOK
    <2>3. ParentOK'
      BY <1>0, <1>1, <2>1 DEF ParentOK
    <2>4. last' = Preceding(cursor'[1], cursor'[2])
      BY <2>1 DEF Preceding
    <2>5. InMemory'
      BY <1>0, <1>1, <2>1, <2>4 DEF InMemory, ToCome, Preceding
    <2>6. Picture!Draw
      <3>1. last # Picture!Complete
        BY <1>2 DEF Preceding, Picture!Complete
      <3>2. last' = Picture!Successor(last)
        BY <1>2, <2>1 DEF Preceding, Picture!Successor
      <3>3. QED
        BY <3>1, <3>2 DEF Picture!Draw
    <2>7. QED
      BY <1>3, <2>2, <2>3, <2>5, <2>6 DEF ProcessesInv
  <1>5. CASE DrawFails
    <2>1. UNCHANGED <<last, cursor>> /\ mpc' = "failed" /\ failures' \in 0 .. MaxFailures
      BY <1>0, <1>5, MaxFailuresAssumption DEF DrawFails, TypeOK
    <2>2. TypeOK' /\ ParentOK'
      BY <1>0, <1>1, <1>3, <2>1 DEF TypeOK, ParentOK
    <2>3. InMemory'
      BY <1>0, <1>1, <2>1 DEF InMemory, ToCome, Preceding
    <2>4. QED
      BY <1>3, <2>1, <2>2, <2>3 DEF ProcessesInv
  <1>6. QED
    BY <1>4, <1>5

\* A child in the ring goes on, or its write fails and the token ends with it.
LEMMA RingChildStep ==
    ASSUME ProcessesInv, NEW t \in Threads, SemaphoreChild(t) \/ WriteFails(t)
    PROVE  ProcessesInv' /\ [Picture!Draw]_last
  <1> USE MandelAssumption
  <1>0. /\ TypeOK /\ Shape /\ ParentOK /\ InRing /\ InMemory
        /\ \A u \in Threads : ThreadOK(u)
    BY TypeShape DEF ProcessesInv
  <1>1. CASE SemaphoreChild(t)
    <2>1. /\ ~buffered /\ Thread(t)
          /\ UNCHANGED <<buffered, shared_buff, waited, cursor, failures>>
      BY <1>1 DEF SemaphoreChild
    <2>2. TokenKept \/ TokenLost
      BY <1>0, <2>1 DEF InRing
    <2>3. /\ Shape' /\ \A u \in Threads : ThreadOK(u)'
          /\ (TokenKept => TokenKept') /\ (TokenLost => TokenLost')
          /\ pc[t] \notin {"none", "done", "failed"} /\ pc'[t] \notin {"none", "failed"}
          /\ \A u \in Threads : u # t => pc'[u] = pc[u]
          /\ UNCHANGED mainVars /\ [Picture!Draw]_last
      BY <1>0, <2>1, <2>2, ThreadKeeps
    <2>4. TypeOK'
      BY <1>0, <2>1, <2>3 DEF TypeOK, Shape, mainVars
    <2>5. ParentOK' /\ InRing' /\ InMemory'
      BY <1>0, <2>1, <2>3 DEF ParentOK, InRing, InMemory, mainVars, TypeOK
    <2>6. QED
      BY <2>3, <2>4, <2>5 DEF ProcessesInv
  <1>2. CASE WriteFails(t)
    <2>1. /\ pc[t] = "output" /\ pc' = [pc EXCEPT ![t] = "failed"]
          /\ failures' = failures + 1 /\ failures < MaxFailures
          /\ UNCHANGED <<line, col, last, mpc, k, buffered, semaphores, shared_buff,
                         waited, cursor>>
      BY <1>2 DEF WriteFails, mainVars, sharedVars
    <2>2. ~buffered /\ TokenKept
      BY <1>0, <2>1 DEF InMemory, InRing, TokenLost, Drawing, TypeOK
    <2>3. \A u \in Threads : semaphores[u] = 0 /\ (u # t => pc[u] \notin Drawing)
      BY <2>1, <2>2 DEF TokenKept, TurnAt, Drawing
    <2>4. TokenLost' /\ failures' > 0
      BY <1>0, <2>1, <2>3, MaxFailuresAssumption DEF TokenLost, Drawing, TypeOK
    <2>5. TypeOK' /\ ParentOK' /\ \A u \in Threads : ThreadOK(u)'
      BY <1>0, <2>1, MaxFailuresAssumption DEF TypeOK, ParentOK, ThreadOK
    <2>6. InRing' /\ InMemory'
      BY <2>1, <2>2, <2>4 DEF InRing, InMemory
    <2>7. QED
      BY <2>1, <2>5, <2>6 DEF ProcessesInv
  <1>3. QED
    BY <1>1, <1>2

\* A child leaves its line in shared memory; what it has still to compute loses
\* just that line.
LEMMA BufferChildStep ==
    ASSUME ProcessesInv, NEW t \in Threads, BufferChild(t)
    PROVE  ProcessesInv' /\ last' = last
  <1> USE MandelAssumption
  <1>0. /\ TypeOK /\ Shape /\ ParentOK /\ InRing /\ InMemory
        /\ \A u \in Threads : ThreadOK(u)
    BY TypeShape DEF ProcessesInv
  <1>1. /\ buffered /\ pc[t] = "compute"
        /\ UNCHANGED <<col, last, mpc, k, buffered, semaphores, waited, cursor, failures>>
        /\ \/ /\ pc' = [pc EXCEPT ![t] = "compute"] /\ line[t] < y_chars
              /\ line' = [line EXCEPT ![t] = line[t] + thrcnt]
              /\ shared_buff' = shared_buff \cup {line[t]}
           \/ /\ pc' = [pc EXCEPT ![t] = "done"] /\ line[t] >= y_chars
              /\ UNCHANGED <<line, shared_buff>>
    BY DEF BufferChild, ComputeInPlace, NextLine, Return, mainVars, sharedVars
  <1>2. TypeOK'
    <2>1. pc' \in [Threads -> {"none", "compute", "wait", "output", "post", "done",
                               "failed"}]
      BY <1>0, <1>1 DEF TypeOK
    <2>2. line' \in [Threads -> Nat] /\ shared_buff' \subseteq 0 .. y_chars - 1
      <3>1. line \in [Threads -> Nat] /\ shared_buff \subseteq 0 .. y_chars - 1
        BY <1>0 DEF TypeOK
      <3>2. line[t] \in Nat /\ line[t] + thrcnt \in Nat
        BY <3>1
      <3>3. CASE line[t] < y_chars
        <4>1. /\ line' = [line EXCEPT ![t] = line[t] + thrcnt]
              /\ shared_buff' = shared_buff \cup {line[t]}
          BY <1>1, <3>2, <3>3
        <4>2. line' \in [Threads -> Nat]
          BY <3>1, <3>2, <4>1
        <4>3. line[t] \in 0 .. y_chars - 1
          BY <3>2, <3>3
        <4>4. shared_buff' \subseteq 0 .. y_chars - 1
          BY <3>1, <4>1, <4>3
        <4>5. QED
          BY <4>2, <4>4
      <3>4. CASE ~(line[t] < y_chars)
        BY <1>1, <3>1, <3>4
      <3>5. QED
        BY <3>3, <3>4
    <2>3. QED
      BY <1>0, <1>1, <2>1, <2>2 DEF TypeOK
  <1>3. \A u \in Threads : ThreadOK(u)'
    BY <1>0, <1>1 DEF ThreadOK, TypeOK
  <1>4. ParentOK' /\ InRing'
    BY <1>0, <1>1 DEF ParentOK, InRing, TypeOK
  <1>5. ASSUME NEW l \in 0 .. y_chars - 1
        PROVE  l \in shared_buff' \/ \E u \in Threads : (l \in ToCome(u))'
    <2>1. CASE l \in shared_buff
      BY <1>1, <2>1
    <2>2. ASSUME NEW u \in Threads, l \in ToCome(u)
          PROVE  l \in shared_buff' \/ (l \in ToCome(u))'
      <3>1. PICK m \in Nat : l = line[u] + m * thrcnt
        BY <2>2 DEF ToCome
      <3>2. CASE line'[u] = line[u]
        BY <3>1, <3>2 DEF ToCome
      <3>3. CASE line'[u] # line[u]
        <4>1. u = t /\ line'[u] = line[u] + thrcnt /\ line[u] \in Nat
              /\ shared_buff' = shared_buff \cup {line[u]}
          BY <1>0, <1>1, <3>3 DEF TypeOK
        <4>2. CASE m = 0
          <5>1. l = line[u]
            BY <3>1, <4>1, <4>2
          <5>2. QED
            BY <4>1, <5>1
        <4>3. CASE m # 0
          <5>1. m - 1 \in Nat /\ m * thrcnt = thrcnt + (m - 1) * thrcnt
            BY <4>3
          <5>2. (m - 1) * thrcnt \in Int
            BY <5>1
          <5>3. l = line'[u] + (m - 1) * thrcnt
            BY <3>1, <4>1, <5>1, <5>2
          <5>4. \E j \in Nat : l = line'[u] + j * thrcnt
            BY <5>1, <5>3
          <5>5. QED
            BY <5>4 DEF ToCome
        <4>4. QED
          BY <4>2, <4>3
      <3>4. QED
        BY <3>2, <3>3
    <2>3. QED
      BY <1>0, <1>1, <2>1, <2>2 DEF InMemory
  <1>6. InMemory'
    <2>1. \A u \in Threads : /\ pc'[u] \in {"none", "compute", "done"}
                             /\ semaphores'[u] = IF u = 0 THEN 1 ELSE 0
      BY <1>0, <1>1 DEF InMemory, TypeOK
    <2>2. /\ last' = Preceding(cursor'[1], cursor'[2])
          /\ IF mpc' \in {"destroy", "done"} THEN cursor' = <<y_chars, 0>>
                                             ELSE cursor'[1] < y_chars
      BY <1>0, <1>1 DEF InMemory, Preceding
    <2>3. QED
      BY <1>1, <1>5, <2>1, <2>2 DEF InMemory, Preceding
  <1>7. QED
    BY <1>1, <1>2, <1>3, <1>4, <1>6 DEF ProcessesInv

\* One case per action.
LEMMA ProcessesStep == ProcessesInv /\ [Next]_vars => ProcessesInv' /\ [Picture!Draw]_last
  <1> SUFFICES ASSUME ProcessesInv, [Next]_vars
               PROVE  ProcessesInv' /\ [Picture!Draw]_last
    OBVIOUS
  <1>1. CASE MainStep
    BY <1>1, ParentStep, WaitChildStep, DrawStep DEF MainStep
  <1>2. CASE DrawFails
    BY <1>2, DrawStep
  <1>3. ASSUME NEW t \in Threads, ChildStep(t) \/ WriteFails(t)
        PROVE  ProcessesInv' /\ [Picture!Draw]_last
    BY <1>3, RingChildStep, BufferChildStep DEF ChildStep
  <1>4. CASE UNCHANGED vars
    <2>1. UNCHANGED <<pc, line, col, last, mpc, k, buffered, semaphores, shared_buff,
                      waited, cursor, failures>>
      BY <1>4 DEF vars, drawVars, threadVars, mainVars, sharedVars
    <2>2. TypeOK' /\ ParentOK' /\ \A t \in Threads : ThreadOK(t)'
      BY <2>1 DEF ProcessesInv, TypeOK, ParentOK, ThreadOK
    <2>3. InRing'
      BY <2>1 DEF ProcessesInv, InRing, TokenKept, TokenLost, TurnAt, Distance, Preceding
    <2>4. InMemory'
      BY <2>1 DEF ProcessesInv, InMemory, ToCome, Preceding
    <2>5. QED
      BY <2>1, <2>2, <2>3, <2>4 DEF ProcessesInv
  <1>5. QED
    BY <1>1, <1>2, <1>3, <1>4 DEF Next

LEMMA ProcessesInvariant == Spec => []ProcessesInv
  <1>1. ProcessesInv /\ [Next]_vars => ProcessesInv'
    BY ProcessesStep
  <1>2. QED
    BY <1>1, ProcessesInit, PTL DEF Spec

\* Type correctness of both programs, for any number of writes that fail.
THEOREM TypeCorrect == Spec => []TypeOK
  <1>1. ProcessesInv => TypeOK
    BY DEF ProcessesInv
  <1>2. QED
    BY <1>1, ProcessesInvariant, PTL

\* A write that fails takes the token with it, and no failure doubles it
\* (semaphore_mandel-fork.c 140-149).
THEOREM TokenStaysOrIsLost == Spec => []TokenKeptOrLost
  <1>1. ProcessesInv => TokenKeptOrLost
    <2> SUFFICES ASSUME ProcessesInv PROVE TokenKeptOrLost
      OBVIOUS
    <2>1. Shape /\ InRing /\ InMemory /\ TypeOK
      BY TypeShape DEF ProcessesInv
    <2>2. CASE buffered
      <3>1. OneToken /\ Failed = {}
        BY <2>1, <2>2 DEF InMemory, OneToken, Failed
      <3>2. QED
        BY <3>1 DEF TokenKeptOrLost
    <2>3. CASE ~buffered
      <3>1. OneToken
        BY <2>1, <2>3, TokenIsOne DEF InRing
      <3>2. Failed # {} => TokenLost
        BY <2>1, <2>3 DEF InRing, Failed
      <3>3. QED
        BY <3>1, <3>2 DEF TokenKeptOrLost, TokenLost, Drawing
    <2>4. QED
      BY <2>2, <2>3
  <1>2. QED
    BY <1>1, ProcessesInvariant, PTL

\* main reads only lines that are there, and takes everything away only when
\* every child has ended, with the picture complete unless a write failed
\* (no_semaphore_mandel-fork.c 230-245, semaphore_mandel-fork.c 261-279).
THEOREM LinesAreReady == Spec => []LinesReady
  <1>1. ProcessesInv => LinesReady
    <2> SUFFICES ASSUME ProcessesInv PROVE LinesReady
      OBVIOUS
    <2> USE MandelAssumption
    <2>1. /\ Shape /\ ParentOK /\ InRing /\ InMemory /\ TypeOK
          /\ \A t \in Threads : ThreadOK(t)
      BY TypeShape DEF ProcessesInv
    <2>2. ASSUME mpc = "draw" PROVE shared_buff = 0 .. y_chars - 1
      <3>1. buffered /\ \A t \in Threads : pc[t] = "done" /\ line[t] >= y_chars
        BY <2>1, <2>2 DEF ParentOK, InMemory, ThreadOK
      <3>2. ASSUME NEW l \in 0 .. y_chars - 1, NEW t \in Threads PROVE l \notin ToCome(t)
        <4>1. SUFFICES ASSUME NEW m \in Nat, l = line[t] + m * thrcnt PROVE FALSE
          BY DEF ToCome
        <4>2. line[t] \in Nat /\ line[t] >= y_chars /\ m * thrcnt \in Nat
          BY <2>1, <3>1 DEF TypeOK
        <4>3. QED
          BY <4>1, <4>2
      <3>3. QED
        BY <2>1, <3>1, <3>2 DEF InMemory, TypeOK
    <2>3. ASSUME mpc = "done" PROVE \A t \in Threads : pc[t] \in {"done", "failed"}
      BY <2>1, <2>3 DEF ParentOK
    <2>4. ASSUME mpc = "done", failures = 0 PROVE last = Picture!Complete
      <3>1. CASE buffered
        <4>1. cursor = <<y_chars, 0>> /\ last = Preceding(cursor[1], cursor[2])
          BY <2>1, <2>4, <3>1 DEF InMemory
        <4>2. QED
          BY <4>1 DEF Preceding, Picture!Complete
      <3>2. CASE ~buffered
        <4>1. TokenKept /\ \A t \in Threads : pc[t] # "failed"
          BY <2>1, <2>4, <3>2 DEF InRing
        <4>2. QED
          BY <2>1, <2>3, <2>4, <4>1, DoneIsComplete
      <3>3. QED
        BY <3>1, <3>2
    <2>5. QED
      BY <2>2, <2>3, <2>4 DEF LinesReady
  <1>2. QED
    BY <1>1, ProcessesInvariant, PTL

\* Both programs implement the ordered output: whoever writes, and whatever
\* fails, every write continues the picture.
THEOREM ProcessesDrawPicture == Spec => DrawsPicture
  <1>1. Init => Picture!Init
    BY DEF Init, RingInit, DrawInit, Picture!Init, Picture!Blank
  <1>2. ProcessesInv /\ [Next]_vars => [Picture!Draw]_(Picture!vars)
    BY ProcessesStep DEF Picture!vars, Picture!Draw
  <1>3. QED
    BY <1>1, <1>2, ProcessesInvariant, PTL DEF Spec, DrawsPicture, Picture!Spec
=============================================================================
