------------------------ MODULE SmallProgramsProofs -------------------------
(* Proofs about the two programs that stand alone: the two threads of        *)
(* simplesync_atomic_mutex.c, and parent and child of mmap.c.                *)
EXTENDS SimpleSync, TLAPS

VARIABLES
    ppc, pstep, child, cstep,             \* of mmap.c
    private, shared, mapped, readonly

Mmap == INSTANCE MmapLockstep

-----------------------------------------------------------------------------
(* simplesync_atomic_mutex.c                                                 *)

Locked == {"load", "store", "unlock"}

\* The changes thread t has made.
Made(t) == IF pc[t] = "unlock" THEN i[t] + 1 ELSE i[t]

ThreadOK(t) ==
    /\ pc[t] \in Locked <=> lock = t
    /\ pc[t] \in Locked => ~use_atomic_ops /\ i[t] < N
    /\ pc[t] = "store" => loaded[t] = val
    /\ pc[t] = "done" => i[t] = N
    /\ ip[t] = IF use_atomic_ops THEN Change(t) * i[t] ELSE 0

SyncInv ==
    /\ TypeOK
    /\ \A t \in Threads : ThreadOK(t)
    /\ val = IF use_atomic_ops THEN 0 ELSE Made("t1") - Made("t2")
    /\ mpc = "create1" => pc["t1"] = "none"
    /\ mpc \in {"create1", "create2"} => pc["t2"] = "none"
    /\ mpc \in {"join2", "destroy", "done"} => pc["t1"] = "done"
    /\ mpc \in {"destroy", "done"} => pc["t2"] = "done"
    /\ mpc = "done" => ok = (val = 0)

LEMMA RoundsNat == N \in Nat
  BY SMT DEF N

LEMMA SyncInit == Init => SyncInv
  <1> SUFFICES ASSUME Init PROVE SyncInv
    OBVIOUS
  <1>1. TypeOK
    <2>1. pc \in [Threads -> {"none", "loop", "load", "store", "unlock", "done"}]
          /\ i \in [Threads -> 0 .. N] /\ loaded \in [Threads -> Int]
          /\ ip \in [Threads -> Int]
      BY RoundsNat DEF Init
    <2>2. mpc = "create1" /\ lock = "nobody" /\ val \in Int
      BY DEF Init
    <2>3. use_atomic_ops \in BOOLEAN /\ ok \in BOOLEAN
      BY DEF Init
    <2>4. QED
      BY <2>1, <2>2, <2>3 DEF TypeOK
  <1>2. \A t \in Threads : ThreadOK(t)
    BY DEF Init, Threads, ThreadOK, Locked, Change
  <1>3. val = IF use_atomic_ops THEN 0 ELSE Made("t1") - Made("t2")
    BY DEF Init, Threads, Made
  <1>4. QED
    BY <1>1, <1>2, <1>3 DEF Init, SyncInv, Threads

LEMMA SyncStep == SyncInv /\ [Next]_vars => SyncInv'
  <1> SUFFICES ASSUME SyncInv, [Next]_vars PROVE SyncInv'
    OBVIOUS
  <1> USE RoundsNat
  <1>0. TypeOK /\ \A t \in Threads : ThreadOK(t)
    BY DEF SyncInv
  <1>1. CASE Create
    <2>1. TypeOK'
      BY <1>0, <1>1 DEF Create, TypeOK, Threads
    <2>2. mpc = "create1" \/ mpc = "create2"
      BY <1>1 DEF Create
    <2>3. UNCHANGED <<use_atomic_ops, i, lock, loaded, ip, val, ok>>
      BY <1>1 DEF Create
    <2>4. mpc' \in {"create2", "join1"}
      BY <1>1 DEF Create
    <2>5. QED
      <3>1. CASE mpc = "create1"
        <4>1. pc["t1"] = "none" /\ pc' = [pc EXCEPT !["t1"] = "loop"] /\ mpc' = "create2"
          BY <1>1, <3>1 DEF Create, SyncInv
        <4>2. \A t \in Threads : ThreadOK(t)' /\ Made(t)' = Made(t)
          BY <1>0, <2>3, <4>1 DEF ThreadOK, Made, Locked, TypeOK
        <4>3. QED
          BY <1>0, <2>1, <2>3, <3>1, <4>1, <4>2 DEF SyncInv, Threads, TypeOK
      <3>2. CASE mpc = "create2"
        <4>1. pc["t2"] = "none" /\ pc' = [pc EXCEPT !["t2"] = "loop"] /\ mpc' = "join1"
          BY <1>1, <3>2 DEF Create, SyncInv
        <4>2. \A t \in Threads : ThreadOK(t)' /\ Made(t)' = Made(t)
          BY <1>0, <2>3, <4>1 DEF ThreadOK, Made, Locked, TypeOK
        <4>3. QED
          BY <1>0, <2>1, <2>3, <3>2, <4>1, <4>2 DEF SyncInv, Threads, TypeOK
      <3>3. QED
        BY <2>2, <3>1, <3>2
  <1>2. CASE Join \/ Finish \/ UNCHANGED vars
    <2>1. UNCHANGED <<use_atomic_ops, pc, i, lock, loaded, ip, val>>
      BY <1>2 DEF Join, Finish, vars
    <2>2. /\ \A t \in Threads : ThreadOK(t)'
          /\ val' = IF use_atomic_ops' THEN 0 ELSE Made("t1")' - Made("t2")'
      BY <1>0, <2>1 DEF SyncInv, ThreadOK, Made
    <2>3. ok' \in BOOLEAN /\ (mpc' = "done" => ok' = (val' = 0))
      BY <1>0, <1>2, <2>1 DEF Join, Finish, vars, SyncInv, TypeOK
    <2>4. mpc' \in {"create1", "create2", "join1", "join2", "destroy", "done"}
      BY <1>0, <1>2 DEF Join, Finish, vars, TypeOK
    <2>5. TypeOK'
      BY <1>0, <2>1, <2>3, <2>4 DEF TypeOK
    <2>6. /\ mpc' = "create1" => pc'["t1"] = "none"
          /\ mpc' \in {"create1", "create2"} => pc'["t2"] = "none"
          /\ mpc' \in {"join2", "destroy", "done"} => pc'["t1"] = "done"
          /\ mpc' \in {"destroy", "done"} => pc'["t2"] = "done"
      BY <1>2, <2>1 DEF Join, Finish, vars, SyncInv
    <2>7. QED
      BY <2>2, <2>3, <2>5, <2>6 DEF SyncInv
  <1>3. ASSUME NEW t \in Threads, ChangePointer(t) PROVE SyncInv'
    BY <1>0, <1>3 DEF ChangePointer, SyncInv, TypeOK, ThreadOK, Made, Change, Threads
  <1>4. ASSUME NEW t \in Threads, Lock(t) \/ Return(t) PROVE SyncInv'
    BY <1>0, <1>4 DEF Lock, Return, SyncInv, TypeOK, ThreadOK, Made, Locked, Threads
  <1>5. ASSUME NEW t \in Threads, Load(t) \/ Store(t) PROVE SyncInv'
    BY <1>0, <1>5 DEF Load, Store, SyncInv, TypeOK, ThreadOK, Made, Locked, Change, Threads
  <1>6. ASSUME NEW t \in Threads, Unlock(t) PROVE SyncInv'
    BY <1>0, <1>6 DEF Unlock, SyncInv, TypeOK, ThreadOK, Made, Locked, Threads
  <1>7. QED
    BY <1>1, <1>2, <1>3, <1>4, <1>5, <1>6 DEF Next, Thread

LEMMA SyncInvariant == Spec => []SyncInv
  BY SyncInit, SyncStep, PTL DEF Spec

\* main prints OK in either build (simplesync_atomic_mutex.c 130-137).
THEOREM AlwaysFindsZero == Spec => []FindsZero
  <1>1. SyncInv => FindsZero
    <2> SUFFICES ASSUME SyncInv, mpc = "done"
                 PROVE  /\ ok /\ val = 0
                        /\ lock = "nobody" /\ \A t \in Threads : pc[t] = "done"
      BY DEF FindsZero
    <2>1. pc["t1"] = "done" /\ pc["t2"] = "done" /\ TypeOK
          /\ ThreadOK("t1") /\ ThreadOK("t2")
      BY DEF SyncInv, Threads
    <2>2. i["t1"] = N /\ i["t2"] = N /\ lock = "nobody"
      BY <2>1 DEF ThreadOK, Locked, TypeOK, Threads
    <2>3. val = 0
      BY <2>1, <2>2, RoundsNat DEF SyncInv, Made
    <2>4. ok
      BY <2>3 DEF SyncInv
    <2>5. QED
      BY <2>1, <2>2, <2>3, <2>4 DEF Threads
  <1>2. QED
    BY <1>1, SyncInvariant, PTL

\* With SYNC_ATOMIC the variable keeps its initial value whatever the threads do
\* (simplesync_atomic_mutex.c 50, 76).
THEOREM AtomicNeverTouchesVal == Spec => []AtomicMissesVal
  <1>1. SyncInv => AtomicMissesVal
    BY DEF SyncInv, AtomicMissesVal, TypeOK, ThreadOK, Change, Threads
  <1>2. QED
    BY <1>1, SyncInvariant, PTL

-----------------------------------------------------------------------------
(* mmap.c                                                                    *)

\* Where the two are relative to each other.
InStep ==
    /\ ppc = "main" => child = "none" /\ pstep <= 7 /\ cstep = 7
    /\ child = "none" => ppc \in {"main", "died"}
    /\ child = "seen" => ppc = "act" /\ pstep <= 11
    /\ child \in {"runs", "stopped", "acts", "ended"} => ppc = "wait"
    /\ child = "reaped" => ppc \in {"act", "done", "died"}
    /\ child \in {"runs", "stopped", "seen"} => cstep = pstep /\ pstep <= 11
    /\ child = "acts" => cstep = pstep - 1 \/ (cstep = 12 /\ pstep = 12)

\* What has been written by the child's step.
PagesOK ==
    /\ private["parent"] = 0
    /\ private["child"] = IF cstep >= 10 THEN 42 ELSE 0
    /\ child # "none" \/ (ppc = "main" /\ pstep = 7) =>
           shared = IF cstep >= 11 THEN 1 ELSE 2
    /\ readonly = IF cstep = 12 THEN {"child"} ELSE {}

LockstepInv == Mmap!TypeOK /\ InStep /\ PagesOK

LEMMA LockstepInit == Mmap!Init => LockstepInv
  <1> SUFFICES ASSUME Mmap!Init PROVE LockstepInv
    OBVIOUS
  <1>1. Mmap!TypeOK
    BY DEF Mmap!Init, Mmap!TypeOK, Mmap!Processes
  <1>2. InStep /\ PagesOK
    BY DEF Mmap!Init, InStep, PagesOK, Mmap!Processes
  <1>3. QED
    BY <1>1, <1>2 DEF LockstepInv

LEMMA LockstepStep == LockstepInv /\ [Mmap!Next]_(Mmap!vars) => LockstepInv'
  <1> SUFFICES ASSUME LockstepInv, [Mmap!Next]_(Mmap!vars) PROVE LockstepInv'
    OBVIOUS
  <1> USE DEF Mmap!memory
  <1>0. Mmap!TypeOK /\ InStep /\ PagesOK
    BY DEF LockstepInv
  <1>1. CASE Mmap!Prepare
    <2>1. Mmap!TypeOK'
      <3>1. PICK B \in SUBSET Mmap!Buffers :
              mapped' = [mapped EXCEPT !["parent"] = mapped["parent"] \cup B]
        BY <1>1 DEF Mmap!Prepare
      <3>2. mapped' \in [Mmap!Processes -> SUBSET Mmap!Buffers]
        BY <1>0, <3>1 DEF Mmap!TypeOK
      <3>3. pstep' \in 2 .. 12 /\ shared' \in 0 .. 2
        BY <1>0, <1>1 DEF Mmap!Prepare, Mmap!TypeOK
      <3>4. QED
        BY <1>0, <1>1, <3>2, <3>3 DEF Mmap!Prepare, Mmap!TypeOK
    <2>2. InStep' /\ PagesOK'
      BY <1>0, <1>1 DEF Mmap!Prepare, InStep, PagesOK, Mmap!TypeOK
    <2>3. QED
      BY <2>1, <2>2 DEF LockstepInv
  <1>2. CASE Mmap!Fork
    <2>1. Mmap!TypeOK'
      BY <1>0, <1>2 DEF Mmap!Fork, Mmap!TypeOK, Mmap!Processes
    <2>2. InStep' /\ PagesOK'
      BY <1>0, <1>2 DEF Mmap!Fork, InStep, PagesOK, Mmap!TypeOK, Mmap!Processes
    <2>3. QED
      BY <2>1, <2>2 DEF LockstepInv
  <1>3. CASE Mmap!PrepareFails \/ Mmap!Wait \/ Mmap!Continue
    <2>1. Mmap!TypeOK'
      BY <1>0, <1>3 DEF Mmap!PrepareFails, Mmap!Wait, Mmap!Continue, Mmap!TypeOK
    <2>2. InStep' /\ PagesOK'
      BY <1>0, <1>3 DEF Mmap!PrepareFails, Mmap!Wait, Mmap!Continue, InStep, PagesOK,
                        Mmap!TypeOK
    <2>3. QED
      BY <2>1, <2>2 DEF LockstepInv
  <1>4. CASE Mmap!Unmap \/ Mmap!UnmapAndReturn
    <2>1. Mmap!TypeOK'
      BY <1>0, <1>4 DEF Mmap!Unmap, Mmap!UnmapAndReturn, Mmap!TypeOK
    <2>2. InStep' /\ PagesOK'
      BY <1>0, <1>4 DEF Mmap!Unmap, Mmap!UnmapAndReturn, InStep, PagesOK, Mmap!TypeOK
    <2>3. QED
      BY <2>1, <2>2 DEF LockstepInv
  <1>5. CASE Mmap!Stop \/ Mmap!ActFails
    <2>1. Mmap!TypeOK'
      BY <1>0, <1>5 DEF Mmap!Stop, Mmap!ActFails, Mmap!TypeOK
    <2>2. InStep' /\ PagesOK'
      BY <1>0, <1>5 DEF Mmap!Stop, Mmap!ActFails, InStep, PagesOK, Mmap!TypeOK
    <2>3. QED
      BY <2>1, <2>2 DEF LockstepInv
  <1>6. CASE Mmap!Act
    <2>1. Mmap!TypeOK'
      BY <1>0, <1>6 DEF Mmap!Act, Mmap!TypeOK, Mmap!Processes
    <2>2. InStep' /\ PagesOK'
      BY <1>0, <1>6 DEF Mmap!Act, InStep, PagesOK, Mmap!TypeOK, Mmap!Processes
    <2>3. QED
      BY <2>1, <2>2 DEF LockstepInv
  <1>7. CASE UNCHANGED Mmap!vars
    BY <1>7 DEF Mmap!vars, LockstepInv, Mmap!TypeOK, InStep, PagesOK
  <1>8. QED
    BY <1>1, <1>2, <1>3, <1>4, <1>5, <1>6, <1>7 DEF Mmap!Next, Mmap!Parent, Mmap!Child

LEMMA LockstepInvariant == Mmap!Spec => []LockstepInv
  BY LockstepInit, LockstepStep, PTL DEF Mmap!Spec

\* The hand-over by SIGSTOP, waitpid and SIGCONT (mmap.c 47-104, 150-252).
THEOREM TurnsAreTaken == Mmap!Spec => []Mmap!TakeTurns
  <1>1. LockstepInv => Mmap!TakeTurns
    BY DEF LockstepInv, Mmap!TakeTurns, InStep, Mmap!TypeOK
  <1>2. QED
    BY <1>1, LockstepInvariant, PTL

\* No stopped child survives the parent (mmap.c 150-277).
THEOREM NobodyIsLeftBehind == Mmap!Spec => []Mmap!NobodyLeftBehind
  <1>1. LockstepInv => Mmap!NobodyLeftBehind
    BY DEF LockstepInv, Mmap!NobodyLeftBehind, InStep, Mmap!TypeOK
  <1>2. QED
    BY <1>1, LockstepInvariant, PTL

\* What the parent prints about steps 9 to 11 (mmap.c 204, 223, 242).
THEOREM ParentShowsTheStateBefore == Mmap!Spec => []Mmap!ShowsTheStateBefore
  <1>1. LockstepInv => Mmap!ShowsTheStateBefore
    BY DEF LockstepInv, Mmap!ShowsTheStateBefore, InStep, PagesOK, Mmap!TypeOK
  <1>2. QED
    BY <1>1, LockstepInvariant, PTL
=============================================================================
