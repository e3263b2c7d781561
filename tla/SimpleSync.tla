----------------------------- MODULE SimpleSync -----------------------------
(* simplesync_atomic_mutex.c: one thread adds one to a variable N times, the *)
(* other takes one off N times, and main says whether it is 0 again.  Built   *)
(* with SYNC_MUTEX each ++ and -- is a load and a store under a mutex.  Built  *)
(* with SYNC_ATOMIC the operand of the atomic operation is &ip, the address   *)
(* of the thread's own pointer, and not the variable the pointer points to.   *)
EXTENDS Integers

N == 10000000

VARIABLES
    use_atomic_ops,  \* which of the two programs was built
    mpc,             \* where main is
    pc,              \* thread |-> where it is
    i,               \* thread |-> its loop variable
    lock,            \* the thread that holds the mutex, or "nobody"
    loaded,          \* thread |-> *ip as loaded by its ++ or --
    ip,              \* thread |-> how far its pointer is from &val, in bytes
    val,
    ok               \* what main prints and returns

vars == <<use_atomic_ops, mpc, pc, i, lock, loaded, ip, val, ok>>

Threads == {"t1", "t2"}

\* increase_fn and decrease_fn.
Change(t) == IF t = "t1" THEN 1 ELSE -1

Init ==
    /\ use_atomic_ops \in BOOLEAN
    /\ mpc = "create1"
    /\ pc = [t \in Threads |-> "none"]
    /\ i = [t \in Threads |-> 0]
    /\ lock = "nobody"
    /\ loaded = [t \in Threads |-> 0]
    /\ ip = [t \in Threads |-> 0]
    /\ val = 0
    /\ ok = FALSE

Create ==
    /\ \/ mpc = "create1" /\ mpc' = "create2" /\ pc' = [pc EXCEPT !["t1"] = "loop"]
       \/ mpc = "create2" /\ mpc' = "join1" /\ pc' = [pc EXCEPT !["t2"] = "loop"]
    /\ UNCHANGED <<use_atomic_ops, i, lock, loaded, ip, val, ok>>

Join ==
    /\ \/ mpc = "join1" /\ pc["t1"] = "done" /\ mpc' = "join2"
       \/ mpc = "join2" /\ pc["t2"] = "done" /\ mpc' = "destroy"
    /\ UNCHANGED <<use_atomic_ops, pc, i, lock, loaded, ip, val, ok>>

\* The mutex is destroyed, and main looks at val.
Finish ==
    /\ mpc = "destroy"
    /\ ok' = (val = 0)
    /\ mpc' = "done"
    /\ UNCHANGED <<use_atomic_ops, pc, i, lock, loaded, ip, val>>

\* __sync_add_and_fetch(&ip, 1) and __sync_sub_and_fetch(&ip, 1).
ChangePointer(t) ==
    /\ use_atomic_ops /\ pc[t] = "loop" /\ i[t] < N
    /\ ip' = [ip EXCEPT ![t] = @ + Change(t)]
    /\ i' = [i EXCEPT ![t] = @ + 1]
    /\ UNCHANGED <<use_atomic_ops, mpc, pc, lock, loaded, val, ok>>

Lock(t) ==
    /\ ~use_atomic_ops /\ pc[t] = "loop" /\ i[t] < N
    /\ lock = "nobody"
    /\ lock' = t
    /\ pc' = [pc EXCEPT ![t] = "load"]
    /\ UNCHANGED <<use_atomic_ops, mpc, i, loaded, ip, val, ok>>

Load(t) ==
    /\ pc[t] = "load"
    /\ loaded' = [loaded EXCEPT ![t] = val]
    /\ pc' = [pc EXCEPT ![t] = "store"]
    /\ UNCHANGED <<use_atomic_ops, mpc, i, lock, ip, val, ok>>

Store(t) ==
    /\ pc[t] = "store"
    /\ val' = loaded[t] + Change(t)
    /\ pc' = [pc EXCEPT ![t] = "unlock"]
    /\ UNCHANGED <<use_atomic_ops, mpc, i, lock, loaded, ip, ok>>

Unlock(t) ==
    /\ pc[t] = "unlock"
    /\ lock' = "nobody"
    /\ i' = [i EXCEPT ![t] = @ + 1]
    /\ pc' = [pc EXCEPT ![t] = "loop"]
    /\ UNCHANGED <<use_atomic_ops, mpc, loaded, ip, val, ok>>

Return(t) ==
    /\ pc[t] = "loop" /\ i[t] >= N
    /\ pc' = [pc EXCEPT ![t] = "done"]
    /\ UNCHANGED <<use_atomic_ops, mpc, i, lock, loaded, ip, val, ok>>

Thread(t) == ChangePointer(t) \/ Lock(t) \/ Load(t) \/ Store(t) \/ Unlock(t) \/ Return(t)

Next == Create \/ Join \/ Finish \/ \E t \in Threads : Thread(t)

Spec == Init /\ [][Next]_vars

-----------------------------------------------------------------------------
\* main finds 0: no increase and no decrease is lost, and the mutex is destroyed
\* when nobody holds it or will.
FindsZero ==
    mpc = "done" => /\ ok /\ val = 0
                    /\ lock = "nobody" /\ \A t \in Threads : pc[t] = "done"

\* In the atomic build that is so because nobody touches val, not because the
\* operations are atomic: what has changed are the two pointers.
AtomicMissesVal ==
    use_atomic_ops => /\ val = 0
                      /\ mpc = "done" => ip["t1"] = N /\ ip["t2"] = -N

TypeOK ==
    /\ use_atomic_ops \in BOOLEAN
    /\ mpc \in {"create1", "create2", "join1", "join2", "destroy", "done"}
    /\ pc \in [Threads -> {"none", "loop", "load", "store", "unlock", "done"}]
    /\ i \in [Threads -> 0 .. N]
    /\ lock \in Threads \cup {"nobody"}
    /\ loaded \in [Threads -> Int]
    /\ ip \in [Threads -> Int]
    /\ val \in Int
    /\ ok \in BOOLEAN
=============================================================================
