---------------------- MODULE SignalDispatcherProofs ----------------------
(* Proofs about the keyboard-driven dispatcher, for any file, crew, amounts *)
(* and number of keys.                                                      *)
EXTENDS SignalDispatcher, FiniteSetTheorems, WellFoundedInduction, TLAPS

\* Where the worker of the current turn has been forked.
Forked == {"pid", "task", "pause", "advance", "load", "store"}

AtPoint ==
    /\ dpc \in Forked => current_worker < most_workers
    /\ dpc = "count" => loaded \in Nat

\* No handler interrupts itself, a key is in one handler at a time, and the
\* handlers that wait or save know their worker.
FramesOK ==
    /\ \A m, n \in DOMAIN frames : frames[m] = frames[n] => m = n
    /\ \A m, n \in DOMAIN frames : ~(frames[m] = "key" /\ frames[n] = "save")
    /\ \A n \in DOMAIN frames : frames[n] = "read" => reading \in Workers
    /\ \A n \in DOMAIN frames : frames[n] = "save" => victim \in Workers

TypeInv == TypeOK /\ AtPoint /\ FramesOK

\* C's division of integers is an integer.
LEMMA QuotientInt ==
    ASSUME NEW a \in Int, NEW b \in Int, b # 0
    PROVE  CDiv(a, b) \in Int
  <1>1. ASSUME NEW m \in Nat, NEW n \in Nat \ {0} PROVE m \div n \in Int
    BY <1>1
  <1>2. /\ IF a < 0 THEN -a \in Nat ELSE a \in Nat
        /\ IF b < 0 THEN -b \in Nat \ {0} ELSE b \in Nat \ {0}
    OBVIOUS
  <1>3. QED
    BY <1>1, <1>2 DEF CDiv

\* A worker counts a number of bytes.
LEMMA ScannedNat == ASSUME NEW w PROVE Scanned(w) \in Nat
  <1>1. IsFiniteSet(Bytes)
    BY FS_Interval, FileSizeAssumption DEF Bytes
  <1>2. ScanShare(shares[w][1], shares[w][2]) \subseteq Bytes
    BY DEF ScanShare
  <1>3. QED
    BY <1>1, <1>2, FS_Subset, FS_CardinalityType DEF Scanned

LEMMA TypeInit == Init => TypeInv
  <1> SUFFICES ASSUME Init PROVE TypeInv
    OBVIOUS
  <1> USE FileSizeAssumption, SignalAssumption
  <1>1. segment_size \in Int /\ end \in Int
    BY DEF Init
  <1>2. frames \in Seq({"key", "save", "read"}) /\ saved \in Seq(Int \X Int)
        /\ front_end_count \in Seq(Nat \cup {Garbage}) /\ Len(front_end_count) <= 1
    BY DEF Init
  <1>3. TypeOK
    <2>1. current_worker \in 0 .. most_workers /\ keys \in 0 .. MaxKeys
      BY DEF Init
    <2>2. /\ total_current_workers \in [Processes -> Int]
          /\ remaining_workers \in [Processes -> Int]
      BY DEF Init
    <2>3. /\ slots \in [Workers -> {"empty", "named", "active", "done", "killed"}]
          /\ mates \in [Workers -> SUBSET Workers]
          /\ shares \in [Workers -> Int \X Int]
          /\ workers \in [Workers -> {"none", "runs", "exited", "failed", "killed",
                                      "reaped"}]
      BY DEF Init
    <2>4. /\ reading \in Processes /\ victim \in Processes
          /\ facing \subseteq {w \in Workers : workers[w] = "runs"}
      BY DEF Init, Processes
    <2>5. /\ dpc = "top" /\ start = 0 /\ loaded = 0 /\ strays = {}
          /\ terminated_children = 0 /\ count = 0 /\ redo = {} /\ numbers = {}
          /\ heard = {} /\ key = "none" /\ front_end = "waits"
      BY DEF Init
    <2>7. /\ start \in Int /\ loaded \in Int /\ strays \subseteq {"crossed", "undercut"}
          /\ terminated_children \in Nat /\ count \in Nat \cup {Garbage}
          /\ redo \subseteq Nat /\ numbers \subseteq Workers /\ heard \subseteq Workers
      <3>1. start \in Int /\ loaded \in Int
        BY <2>5
      <3>0. strays \subseteq {"crossed", "undercut"}
        BY <2>5
      <3>2. terminated_children \in Nat /\ count \in Nat \cup {Garbage}
        BY <2>5
      <3>3. redo \subseteq Nat /\ numbers \subseteq Workers /\ heard \subseteq Workers
        BY <2>5
      <3>4. QED
        BY <3>0, <3>1, <3>2, <3>3
    <2>6. QED
      BY <1>1, <1>2, <2>1, <2>2, <2>3, <2>4, <2>5, <2>7 DEF TypeOK
  <1>4. AtPoint /\ FramesOK
    BY DEF Init, AtPoint, FramesOK, Forked
  <1>5. QED
    BY <1>3, <1>4 DEF TypeInv

LEMMA MainType == ASSUME TypeInv, DispatcherMain PROVE TypeInv'
  <1> USE FileSizeAssumption, SignalAssumption
      DEF At, keyVars, frameVars, endVars, shareVars, crewVars, tallyVars, forkVars
  <1>0. TypeOK /\ AtPoint /\ FramesOK
    BY DEF TypeInv
  <1>1. FramesOK'
    BY <1>0 DEF DispatcherMain, Plan, Fork, Overrun, StorePid, StoreTask, Advance, StoreEnd,
          LoadRemaining, StoreRemaining, Drain, WaitAny, StoreTerminated, PrintBeyond,
          WriteCount, FramesOK
  <1>2. CASE Plan
    <2>0. saved \in Seq(Int \X Int) /\ end \in Int /\ redo \subseteq Nat
          /\ current_worker + 1 \in Nat
      BY <1>0 DEF TypeOK
    <2>1. saved' \in Seq(Int \X Int) /\ end' \in Int /\ redo' \subseteq Nat
      <3>1. saved # <<>> => Tail(saved) \in Seq(Int \X Int)
        BY <2>0
      <3>0. <<>> \in Seq(Int \X Int)
        OBVIOUS
      <3>2. CASE start < FileSize
        <4>1. /\ saved' = IF saved = <<>> THEN <<>> ELSE Tail(saved)
              /\ redo' = redo \/ redo' = redo \cup {current_worker + 1}
              /\ end' \in {FileSize, end}
          BY <1>2, <3>2 DEF Plan
        <4>2. saved' \in Seq(Int \X Int)
          BY <2>0, <3>0, <3>1, <4>1
        <4>3. end' \in Int
          BY <2>0, <4>1
        <4>5. redo' \subseteq Nat
          BY <2>0, <4>1
        <4>4. QED
          BY <4>2, <4>3, <4>5
      <3>3. CASE ~(start < FileSize)
        BY <2>0, <3>3, <1>2 DEF Plan
      <3>4. QED
        BY <3>2, <3>3
    <2>2. TypeOK' /\ AtPoint'
      BY <1>0, <1>2, <2>1 DEF Plan, TypeOK, AtPoint, Forked
    <2>3. QED
      BY <1>1, <2>2 DEF TypeInv
  <1>3. CASE Fork
    <2>1. current_worker + 1 \in Workers /\ Workers \subseteq Processes
      BY <1>0, <1>3 DEF Fork, TypeOK, Workers, Processes
    <2>2. facing' \subseteq {w \in Workers : workers'[w] = "runs"}
      BY <1>0, <1>3, <2>1 DEF Fork, TypeOK
    <2>3. TypeOK'
      BY <1>0, <1>3, <2>1, <2>2 DEF Fork, TypeOK, Dispatcher, Processes
    <2>4. AtPoint'
      BY <1>3 DEF Fork, AtPoint
    <2>5. QED
      BY <1>1, <2>3, <2>4 DEF TypeInv
  <1>4. CASE Overrun \/ Advance \/ StoreEnd \/ LoadRemaining
    <2>1. start' \in Int /\ end' \in Int /\ loaded' \in Int
      <3>1. remaining_workers[Dispatcher] \in Int /\ start \in Int /\ end \in Int
            /\ segment_size \in Int /\ loaded \in Int
        BY <1>0 DEF TypeOK, Processes
      <3>2. QED
        BY <1>4, <3>1 DEF Overrun, Advance, StoreEnd, LoadRemaining
    <2>2. TypeOK'
      BY <1>0, <1>4, <2>1 DEF Overrun, Advance, StoreEnd, LoadRemaining, TypeOK
    <2>3. AtPoint'
      BY <1>0, <1>4 DEF Overrun, Advance, StoreEnd, LoadRemaining, AtPoint, Forked
    <2>4. QED
      BY <1>1, <2>2, <2>3 DEF TypeInv
  <1>5. CASE StorePid \/ StoreTask
    <2>1. slots' \in [Workers -> {"empty", "named", "active", "done", "killed"}]
      BY <1>0, <1>5 DEF StorePid, StoreTask, TypeOK
    <2>2. TypeOK'
      BY <1>0, <1>5, <2>1 DEF StorePid, StoreTask, TypeOK
    <2>3. AtPoint'
      BY <1>0, <1>5 DEF StorePid, StoreTask, AtPoint, Forked
    <2>4. QED
      BY <1>1, <2>2, <2>3 DEF TypeInv
  <1>8. CASE StoreRemaining
    <2>1. current_worker < most_workers
      BY <1>0, <1>8 DEF StoreRemaining, AtPoint, Forked
    <2>2. /\ remaining_workers' \in [Processes -> Int]
          /\ current_worker' \in 0 .. most_workers
      <3>1. /\ remaining_workers \in [Processes -> Int] /\ loaded - 1 \in Int
            /\ current_worker \in 0 .. most_workers
        BY <1>0 DEF TypeOK
      <3>2. /\ remaining_workers' = [remaining_workers EXCEPT ![Dispatcher] = loaded - 1]
            /\ current_worker' = current_worker + 1
        BY <1>8 DEF StoreRemaining
      <3>3. current_worker + 1 \in 0 .. most_workers
        BY <2>1, <3>1
      <3>4. QED
        BY <3>1, <3>2, <3>3
    <2>3. TypeOK' /\ AtPoint'
      BY <1>0, <1>8, <2>2 DEF StoreRemaining, TypeOK, AtPoint, Forked
    <2>4. QED
      BY <1>1, <2>3 DEF TypeInv
  <1>6. CASE Drain \/ PrintBeyond \/ WriteCount
    <2>1. TypeOK'
      BY <1>0, <1>6 DEF Drain, PrintBeyond, WriteCount, TypeOK
    <2>2. AtPoint'
      BY <1>0, <1>6 DEF Drain, PrintBeyond, WriteCount, AtPoint, Forked
    <2>3. QED
      BY <1>1, <2>1, <2>2 DEF TypeInv
  <1>9. CASE WaitAny
    <2>1. facing' \subseteq {w \in Workers : workers'[w] = "runs"}
      BY <1>0, <1>9 DEF WaitAny, Zombies, TypeOK
    <2>2. /\ workers' \in [Workers -> {"none", "runs", "exited", "failed", "killed",
                                       "reaped"}]
          /\ loaded' \in Int /\ (dpc' = "count" => loaded' \in Nat)
      <3>1. CASE UNCHANGED <<workers, loaded>> /\ dpc' = "write"
        BY <1>0, <3>1 DEF TypeOK
      <3>2. CASE \E w \in Zombies : workers' = [workers EXCEPT ![w] = "reaped"]
                                    /\ loaded' = terminated_children
        <4>1. terminated_children \in Nat
          BY <1>0 DEF TypeOK
        <4>2. \A w : [workers EXCEPT ![w] = "reaped"] \in
                 [Workers -> {"none", "runs", "exited", "failed", "killed", "reaped"}]
          BY <1>0 DEF TypeOK
        <4>3. QED
          BY <3>2, <4>1, <4>2
      <3>3. QED
        BY <1>9, <3>1, <3>2 DEF WaitAny
    <2>3. TypeOK' /\ AtPoint'
      BY <1>0, <1>9, <2>1, <2>2 DEF WaitAny, TypeOK, AtPoint, Forked
    <2>4. QED
      BY <1>1, <2>3 DEF TypeInv
  <1>10. CASE StoreTerminated
    <2>1. loaded + 1 \in Nat
      BY <1>0, <1>10 DEF StoreTerminated, AtPoint
    <2>2. TypeOK' /\ AtPoint'
      BY <1>0, <1>10, <2>1 DEF StoreTerminated, TypeOK, AtPoint, Forked
    <2>3. QED
      BY <1>1, <2>2 DEF TypeInv
  <1>7. QED
    BY <1>2, <1>3, <1>4, <1>5, <1>6, <1>8, <1>9, <1>10 DEF DispatcherMain

\* A handler that starts, and one that returns.
LEMMA PushFrame ==
    ASSUME TypeOK, FramesOK, NEW f \in {"key", "read"},
           frames' = <<f>> \o frames,
           \A n \in DOMAIN frames : frames[n] # f /\ (f = "key" => frames[n] # "save"),
           f = "read" => reading' \in Workers, f = "key" => reading' = reading,
           victim' = victim
    PROVE  frames' \in Seq({"key", "save", "read"}) /\ FramesOK'
  <1>1. frames \in Seq({"key", "save", "read"})
    BY DEF TypeOK
  <1>2. /\ frames' \in Seq({"key", "save", "read"})
        /\ DOMAIN frames' = 1 .. Len(frames) + 1 /\ DOMAIN frames = 1 .. Len(frames)
        /\ Len(frames) \in Nat
        /\ frames'[1] = f
        /\ \A n \in 2 .. Len(frames) + 1 : frames'[n] = frames[n - 1]
    BY <1>1
  <1>3. \A n \in 2 .. Len(frames) + 1 : n - 1 \in DOMAIN frames
    BY <1>2
  <1>4. \A m, n \in DOMAIN frames' : frames'[m] = frames'[n] => m = n
    BY <1>2, <1>3 DEF FramesOK
  <1>5. \A m, n \in DOMAIN frames' : ~(frames'[m] = "key" /\ frames'[n] = "save")
    BY <1>2, <1>3 DEF FramesOK
  <1>6. \A n \in DOMAIN frames' :
           /\ frames'[n] = "read" => reading' \in Workers
           /\ frames'[n] = "save" => victim' \in Workers
    BY <1>2, <1>3 DEF FramesOK
  <1>7. QED
    BY <1>2, <1>4, <1>5, <1>6 DEF FramesOK

LEMMA PopFrame ==
    ASSUME TypeOK, FramesOK, frames # <<>>, frames' = Tail(frames),
           Head(frames) = "read" \/ reading' = reading,
           Head(frames) = "save" \/ victim' = victim
    PROVE  frames' \in Seq({"key", "save", "read"}) /\ FramesOK'
  <1>1. frames \in Seq({"key", "save", "read"})
    BY DEF TypeOK
  <1>2. /\ frames' \in Seq({"key", "save", "read"})
        /\ DOMAIN frames' = 1 .. Len(frames) - 1 /\ DOMAIN frames = 1 .. Len(frames)
        /\ Len(frames) \in Nat /\ Len(frames) > 0
        /\ frames[1] = Head(frames)
        /\ \A n \in 1 .. Len(frames) - 1 : frames'[n] = frames[n + 1]
    BY <1>1
  <1>3. \A n \in DOMAIN frames' : n + 1 \in DOMAIN frames /\ n + 1 # 1
    BY <1>2
  <1>4. \A m, n \in DOMAIN frames' : frames'[m] = frames'[n] => m = n
    BY <1>2, <1>3 DEF FramesOK
  <1>5. \A m, n \in DOMAIN frames' : ~(frames'[m] = "key" /\ frames'[n] = "save")
    BY <1>2, <1>3 DEF FramesOK
  <1>6. \A n \in DOMAIN frames' : frames'[n] # Head(frames)
    <2>1. 1 \in DOMAIN frames
      BY <1>2
    <2>2. QED
      BY <1>2, <1>3, <2>1 DEF FramesOK
  <1>7. \A n \in DOMAIN frames' :
           /\ frames'[n] = "read" => reading' \in Workers
           /\ frames'[n] = "save" => victim' \in Workers
    BY <1>2, <1>3, <1>6 DEF FramesOK
  <1>8. QED
    BY <1>2, <1>4, <1>5, <1>7 DEF FramesOK

LEMMA SigchildType == ASSUME TypeInv, HandleSigchild PROVE TypeInv'
  <1> USE DEF keyVars, frameVars, endVars, shareVars, crewVars, tallyVars, forkVars
  <1>0. TypeOK /\ AtPoint /\ FramesOK
    BY DEF TypeInv
  <1>1. CASE Reap
    <2>1. PICK w \in Zombies :
            /\ workers' = [workers EXCEPT ![w] = "reaped"]
            /\ \/ frames' = <<"read">> \o frames /\ reading' = w
               \/ frames' = frames /\ reading' = reading
      BY <1>1 DEF Reap
    <2>2. w \in Workers /\ workers[w] # "runs"
      BY DEF Zombies
    <2>3. /\ workers' \in [Workers -> {"none", "runs", "exited", "failed", "killed",
                                       "reaped"}]
          /\ facing' \subseteq {v \in Workers : workers'[v] = "runs"}
      BY <1>0, <1>1, <2>1, <2>2 DEF Reap, TypeOK
    <2>4. frames' \in Seq({"key", "save", "read"}) /\ FramesOK' /\ reading' \in Processes
      <3>1. CASE frames' = <<"read">> \o frames /\ reading' = w
        BY <1>0, <1>1, <2>2, <3>1, PushFrame DEF Reap, Processes
      <3>2. CASE frames' = frames /\ reading' = reading
        BY <1>0, <1>1, <3>2 DEF Reap, TypeOK, FramesOK
      <3>3. QED
        BY <2>1, <3>1, <3>2
    <2>5. TypeOK'
      BY <1>0, <1>1, <2>3, <2>4 DEF Reap, TypeOK
    <2>6. QED
      BY <1>0, <1>1, <2>4, <2>5 DEF Reap, AtPoint, TypeInv
  <1>2. CASE ReadNumber
    <2>1. reading \in Workers
      <3>1. frames \in Seq({"key", "save", "read"})
        BY <1>0 DEF TypeOK
      <3>2. 1 \in DOMAIN frames /\ frames[1] = "read"
        BY <1>2, <3>1 DEF ReadNumber, Inside
      <3>3. QED
        BY <1>0, <3>2 DEF FramesOK
    <2>2. count' \in Nat \cup {Garbage}
      BY <1>0, <1>2, ScannedNat DEF ReadNumber, TypeOK, Garbage
    <2>3. slots' \in [Workers -> {"empty", "named", "active", "done", "killed"}]
      BY <1>0, <1>2 DEF ReadNumber, TypeOK
    <2>4. frames' \in Seq({"key", "save", "read"}) /\ FramesOK'
      BY <1>0, <1>2, PopFrame DEF ReadNumber, Inside
    <2>5. TypeOK'
      BY <1>0, <1>2, <2>1, <2>2, <2>3, <2>4 DEF ReadNumber, TypeOK, Processes
    <2>6. QED
      BY <1>0, <1>2, <2>4, <2>5 DEF ReadNumber, AtPoint, TypeInv
  <1>3. QED
    BY <1>1, <1>2 DEF HandleSigchild

\* Leaving the handler of the key, and ending in it.
LEMMA HandledType ==
    ASSUME TypeInv, NEW p \in Processes, NEW how \in {"failed", "killed"}, Handles(p),
           Resume(p) \/ End(p, how), reading' = reading, victim' = victim,
           current_worker' = current_worker, loaded' = loaded
    PROVE  /\ FramesOK' /\ AtPoint'
           /\ frames' \in Seq({"key", "save", "read"})
           /\ workers' \in [Workers -> {"none", "runs", "exited", "failed", "killed",
                                        "reaped"}]
           /\ facing' \subseteq {w \in Workers : workers'[w] = "runs"}
           /\ dpc' \in {dpc, "dead"}
  <1>0. TypeOK /\ AtPoint /\ FramesOK
    BY DEF TypeInv
  <1>1. frames' = frames \/ (frames # <<>> /\ frames' = Tail(frames))
    BY DEF Resume, End, Handles, Inside
  <1>2. FramesOK' /\ frames' \in Seq({"key", "save", "read"})
    <2>1. CASE frames' = frames
      BY <1>0, <2>1 DEF FramesOK, TypeOK
    <2>2. CASE frames # <<>> /\ frames' = Tail(frames)
      BY <1>0, <2>2, PopFrame
    <2>3. QED
      BY <1>1, <2>1, <2>2
  <1>3. dpc' \in {dpc, "dead"}
    BY DEF Resume, End
  <1>4. AtPoint'
    BY <1>0, <1>3 DEF AtPoint, Forked
  <1>5. workers' \in [Workers -> {"none", "runs", "exited", "failed", "killed", "reaped"}]
    BY <1>0 DEF Resume, End, TypeOK
  <1>6. facing' \subseteq {w \in Workers : workers'[w] = "runs"}
    BY <1>0 DEF Resume, End, TypeOK
  <1>7. QED
    BY <1>2, <1>3, <1>4, <1>5, <1>6

LEMMA NumberType ==
    ASSUME TypeInv, TypeNumber
    PROVE  TypeInv'
  <1> USE SignalAssumption, FileSizeAssumption
      DEF keyVars, endVars, tallyVars, forkVars
  <1>0. TypeOK /\ AtPoint /\ FramesOK
    BY DEF TypeInv
  <1>1. PICK p \in Processes, n \in Amounts :
          /\ Handles(p)
          /\ handle_increase(p, n) \/ handle_decrease(p, n)
    BY DEF TypeNumber
  <1>2. PICK d \in Int : Exit(p) \/ Refuse(p) \/ Resize(p, d)
    <2>1. n \in Int /\ -n \in Int
      OBVIOUS
    <2>2. QED
      BY <1>1, <2>1 DEF handle_increase, handle_decrease
  <1>3. \E how \in {"failed", "killed"} : Resume(p) \/ End(p, how)
    BY <1>2 DEF Exit, Refuse, Resize
  <1>4. /\ FramesOK' /\ AtPoint'
        /\ frames' \in Seq({"key", "save", "read"})
        /\ workers' \in [Workers -> {"none", "runs", "exited", "failed", "killed",
                                     "reaped"}]
        /\ facing' \subseteq {w \in Workers : workers'[w] = "runs"}
        /\ dpc' \in {dpc, "dead"}
    BY <1>1, <1>3, HandledType DEF TypeNumber
  <1>5. /\ total_current_workers' \in [Processes -> Int]
        /\ remaining_workers' \in [Processes -> Int]
        /\ strays' \subseteq {"crossed", "undercut"}
    <2>1. /\ total_current_workers \in [Processes -> Int]
          /\ remaining_workers \in [Processes -> Int]
          /\ strays \subseteq {"crossed", "undercut"}
      BY <1>0 DEF TypeOK
    <2>2. CASE Exit(p) \/ Refuse(p)
      BY <2>1, <2>2 DEF Exit, Refuse, crewVars
    <2>3. CASE Resize(p, d)
      <3>1. /\ total_current_workers' =
                   [total_current_workers EXCEPT ![p] = total_current_workers[p] + d]
            /\ remaining_workers' =
                   [remaining_workers EXCEPT ![p] = remaining_workers[p] + d]
        BY <2>3 DEF Resize
      <3>2. /\ total_current_workers' \in [Processes -> Int]
            /\ remaining_workers' \in [Processes -> Int]
        BY <2>1, <3>1
      <3>3. strays' \subseteq {"crossed", "undercut"}
        BY <2>1, <2>3 DEF Resize, Astray
      <3>4. QED
        BY <3>2, <3>3
    <2>4. QED
      BY <1>2, <2>2, <2>3
  <1>6. segment_size' \in Int
    <2>1. CASE Exit(p) \/ Refuse(p)
      BY <1>0, <2>1 DEF Exit, Refuse, TypeOK
    <2>2. CASE Resize(p, d)
      <3>1. remaining_workers[p] \in Int /\ end \in Int /\ segment_size \in Int
        BY <1>0 DEF TypeOK
      <3>2. CASE remaining_workers[p] + d = 0
        BY <2>2, <3>1, <3>2 DEF Resize
      <3>3. CASE remaining_workers[p] + d # 0
        BY <2>2, <3>1, <3>3, QuotientInt DEF Resize
      <3>4. QED
        BY <3>2, <3>3
    <2>3. QED
      BY <1>2, <2>1, <2>2
  <1>7. TypeOK'
    BY <1>0, <1>4, <1>5, <1>6 DEF TypeNumber, TypeOK
  <1>8. QED
    BY <1>4, <1>7 DEF TypeInv

\* The lowest worker of a set.
LEMMA LowestIn ==
    ASSUME NEW W \in SUBSET Workers, W # {}
    PROVE  Lowest(W) \in W
  <1> DEFINE R == {ss \in Nat \X Nat : ss[1] < ss[2]}
  <1>1. W \subseteq Nat
    BY DEF Workers
  <1>2. IsWellFoundedOn(R, Nat)
    BY NatLessThanWellFounded DEF OpToRel
  <1>3. PICK m \in W : \A k \in W : ~(<<k, m>> \in R)
    <2> HIDE DEF R
    <2>1. QED
      BY <1>1, <1>2, WFMin
  <1>4. ASSUME NEW k \in W PROVE m <= k
    <2>1. k \in Nat /\ m \in Nat
      BY <1>1
    <2>2. k < m => <<k, m>> \in R
      BY <2>1
    <2>3. ~(<<k, m>> \in R)
      BY <1>3
    <2>4. QED
      <3> HIDE DEF R
      <3>1. QED
        BY <2>1, <2>2, <2>3
  <1>5. QED
    BY <1>4 DEF Lowest

LEMMA KillType == ASSUME TypeInv, HandleKill PROVE TypeInv'
  <1> USE DEF keyVars, endVars, shareVars, crewVars, tallyVars, forkVars, frameVars
  <1>0. TypeOK /\ AtPoint /\ FramesOK
    BY DEF TypeInv
  <1>1. ASSUME NEW v \in Workers
        PROVE  /\ Killed(v) \in [Workers -> {"none", "runs", "exited", "failed", "killed",
                                             "reaped"}]
               /\ \A w \in Workers : w # v => Killed(v)[w] = workers[w]
    BY <1>0 DEF Killed, TypeOK
  <1>2. CASE KillVictim
    <2>1. CASE Resume(Dispatcher) /\ victim' = victim
      <3>1. /\ FramesOK' /\ AtPoint'
            /\ frames' \in Seq({"key", "save", "read"})
            /\ workers' \in [Workers -> {"none", "runs", "exited", "failed", "killed",
                                         "reaped"}]
            /\ facing' \subseteq {w \in Workers : workers'[w] = "runs"}
        BY <1>2, <2>1, HandledType DEF KillVictim, Processes
      <3>2. TypeOK'
        BY <1>0, <1>2, <2>1, <3>1 DEF KillVictim, Resume, TypeOK
      <3>3. QED
        BY <3>1, <3>2 DEF TypeInv
    <2>2. CASE ~(Resume(Dispatcher) /\ victim' = victim)
      <3>1. PICK v \in Workers :
              /\ victim' = v
              /\ workers' = Killed(v)
              /\ facing' = facing \ {v}
              /\ frames' = <<"save">> \o Tail(frames)
              /\ dpc' = dpc
        BY <1>2, <2>2, LowestIn DEF KillVictim
      <3>2. /\ workers' \in [Workers -> {"none", "runs", "exited", "failed", "killed",
                                         "reaped"}]
            /\ facing' \subseteq {w \in Workers : workers'[w] = "runs"}
        BY <1>0, <1>1, <3>1 DEF TypeOK
      <3>3. /\ frames' \in Seq({"key", "save", "read"})
            /\ FramesOK'
        <4>1. frames \in Seq({"key", "save", "read"}) /\ frames # <<>>
              /\ frames[1] = "key" /\ reading' = reading
          BY <1>0, <1>2 DEF TypeOK, KillVictim, Handles, Inside
        <4>2. /\ frames' \in Seq({"key", "save", "read"})
              /\ DOMAIN frames' = DOMAIN frames /\ 1 \in DOMAIN frames
              /\ frames'[1] = "save"
              /\ \A n \in DOMAIN frames : n # 1 => frames'[n] = frames[n]
          BY <3>1, <4>1
        <4>3. \A n \in DOMAIN frames : n # 1 => frames[n] \notin {"key", "save"}
          BY <1>0, <4>1, <4>2 DEF FramesOK
        <4>4. QED
          BY <1>0, <3>1, <4>1, <4>2, <4>3 DEF FramesOK
      <3>4. TypeOK'
        BY <1>0, <1>2, <3>1, <3>2, <3>3 DEF KillVictim, TypeOK, Processes
      <3>5. QED
        BY <1>0, <1>2, <3>1, <3>3, <3>4 DEF KillVictim, TypeInv, AtPoint
    <2>3. QED
      BY <2>1, <2>2
  <1>3. CASE SaveShare
    <2>1. victim \in Workers
      <3>1. frames \in Seq({"key", "save", "read"})
        BY <1>0 DEF TypeOK
      <3>2. 1 \in DOMAIN frames /\ frames[1] = "save"
        BY <1>3, <3>1 DEF SaveShare, Inside
      <3>3. QED
        BY <1>0, <3>2 DEF FramesOK
    <2>2. saved' \in Seq(Int \X Int)
      <3>1. shares[victim] \in Int \X Int /\ saved \in Seq(Int \X Int)
        BY <1>0, <2>1 DEF TypeOK
      <3>2. Append(saved, shares[victim]) \in Seq(Int \X Int)
        BY <3>1
      <3>3. QED
        BY <1>3, <3>1, <3>2 DEF SaveShare
    <2>3. slots' \in [Workers -> {"empty", "named", "active", "done", "killed"}]
      BY <1>0, <1>3 DEF SaveShare, TypeOK
    <2>4. frames' \in Seq({"key", "save", "read"}) /\ FramesOK'
      BY <1>0, <1>3, PopFrame DEF SaveShare, Inside
    <2>5. TypeOK'
      BY <1>0, <1>3, <2>2, <2>3, <2>4 DEF SaveShare, TypeOK, Processes
    <2>6. QED
      BY <1>0, <1>3, <2>4, <2>5 DEF SaveShare, AtPoint, TypeInv
  <1>4. ASSUME NEW w \in Workers, KillMate(w) PROVE TypeInv'
    <2>1. /\ workers' \in [Workers -> {"none", "runs", "exited", "failed", "killed",
                                       "reaped"}]
          /\ facing' \subseteq {u \in Workers : workers'[u] = "runs"}
          /\ mates' \in [Workers -> SUBSET Workers]
      <3>1. CASE Lowest(mates[w]) = w
        BY <1>0, <1>4, <3>1 DEF KillMate, TypeOK
      <3>2. CASE Lowest(mates[w]) # w
        <4>1. /\ workers' = Killed(Lowest(mates[w]))
              /\ facing' = facing \ {Lowest(mates[w]), w}
              /\ mates' = [mates EXCEPT ![w] = mates[w] \ {Lowest(mates[w])}]
          BY <1>4, <3>2 DEF KillMate
        <4>2. mates' \in [Workers -> SUBSET Workers]
          BY <1>0, <4>1 DEF TypeOK
        <4>3. workers' \in [Workers -> {"none", "runs", "exited", "failed", "killed",
                                        "reaped"}]
          BY <1>0, <4>1 DEF TypeOK, Killed
        <4>4. facing' \subseteq {u \in Workers : workers'[u] = "runs"}
          BY <1>0, <4>1 DEF TypeOK, Killed
        <4>5. QED
          BY <4>2, <4>3, <4>4
      <3>3. QED
        BY <3>1, <3>2
    <2>2. dpc' \in {dpc, "dead"} /\ front_end' \in {front_end, "killed"}
      BY <1>4 DEF KillMate
    <2>3. TypeOK'
      BY <1>0, <1>4, <2>1, <2>2 DEF KillMate, TypeOK
    <2>4. FramesOK'
      BY <1>0, <1>4 DEF KillMate, FramesOK
    <2>5. AtPoint'
      BY <1>0, <1>4, <2>2 DEF KillMate, AtPoint, Forked
    <2>6. QED
      BY <2>3, <2>4, <2>5 DEF TypeInv
  <1>5. QED
    BY <1>2, <1>3, <1>4 DEF HandleKill

LEMMA TypeStep == TypeInv /\ [Next]_vars => TypeInv'
  <1> SUFFICES ASSUME TypeInv, [Next]_vars PROVE TypeInv'
    OBVIOUS
  <1> USE DEF keyVars, endVars, shareVars, crewVars, tallyVars, forkVars, frameVars
  <1>0. TypeOK /\ AtPoint /\ FramesOK
    BY DEF TypeInv
  <1>1. CASE Press
    <2>1. frames' \in Seq({"key", "save", "read"}) /\ FramesOK'
      <3>1. CASE frames' = frames
        BY <1>0, <1>1, <3>1 DEF Press, TypeOK, FramesOK
      <3>2. CASE frames' = <<"key">> \o frames
        <4>1. \A n \in DOMAIN frames : frames[n] # "key" /\ frames[n] # "save"
          BY <1>1 DEF Press
        <4>2. reading' = reading /\ victim' = victim
          BY <1>1 DEF Press
        <4>3. QED
          BY <1>0, <3>2, <4>1, <4>2, PushFrame
      <3>3. QED
        BY <1>1, <3>1, <3>2 DEF Press
    <2>2. keys' \in 0 .. MaxKeys
      BY <1>0, <1>1, SignalAssumption DEF Press, TypeOK
    <2>3. facing' \subseteq {w \in Workers : workers'[w] = "runs"}
      BY <1>1 DEF Press, Running
    <2>4. TypeOK'
      BY <1>0, <1>1, <2>1, <2>2, <2>3 DEF Press, TypeOK
    <2>5. QED
      BY <1>0, <1>1, <2>1, <2>4 DEF Press, AtPoint, TypeInv
  <1>2. ASSUME NEW w \in Workers, Search(w) PROVE TypeInv'
    <2>1. /\ workers' \in [Workers -> {"none", "runs", "exited", "failed", "killed",
                                       "reaped"}]
          /\ facing' \subseteq {v \in Workers : workers'[v] = "runs"}
          /\ numbers' \subseteq Workers
      BY <1>0, <1>2 DEF Search, TypeOK
    <2>4. /\ total_current_workers' \in [Processes -> Int]
          /\ remaining_workers' \in [Processes -> Int]
          /\ mates' \in [Workers -> SUBSET Workers]
      <3>1. /\ total_current_workers \in [Processes -> Int]
            /\ remaining_workers \in [Processes -> Int]
            /\ mates \in [Workers -> SUBSET Workers]
        BY <1>0 DEF TypeOK
      <3>2. /\ total_current_workers' = [total_current_workers EXCEPT ![w] = 0]
            /\ remaining_workers' = [remaining_workers EXCEPT ![w] = 0]
            /\ mates' = [mates EXCEPT ![w] = {}]
        BY <1>2 DEF Search
      <3>3. mates' \in [Workers -> SUBSET Workers]
        BY <3>1, <3>2
      <3>6. w \in Processes
        BY DEF Processes
      <3>4. /\ total_current_workers' \in [Processes -> Int]
            /\ remaining_workers' \in [Processes -> Int]
        BY <3>1, <3>2, <3>6
      <3>5. QED
        BY <3>3, <3>4
    <2>2. TypeOK'
      BY <1>0, <1>2, <2>1, <2>4 DEF Search, TypeOK
    <2>3. QED
      BY <1>0, <1>2, <2>2 DEF Search, AtPoint, FramesOK, TypeInv
  <1>3. CASE ShowCount
    <2>1. front_end_count' \in Seq(Nat \cup {Garbage}) /\ Len(front_end_count') <= 1
      <3>1. PICK n \in Nat \cup {Garbage} : front_end_count' = <<n>>
        BY <1>0, <1>3 DEF ShowCount, TypeOK
      <3>2. QED
        BY <3>1
    <2>2. TypeOK'
      BY <1>0, <1>3, <2>1 DEF ShowCount, TypeOK
    <2>3. QED
      BY <1>0, <1>3, <2>2 DEF ShowCount, AtPoint, FramesOK, TypeInv
  <1>4. CASE UNCHANGED vars
    BY <1>0, <1>4 DEF vars, TypeInv, TypeOK, AtPoint, FramesOK
  <1>5. QED
    BY <1>1, <1>2, <1>3, <1>4, MainType, SigchildType, NumberType, KillType DEF Next

\* The dispatcher, its handlers and the copies in the workers keep their types
\* for any crew and any number of keys (first_ex_ex_4.c 14-37, 278-557).
THEOREM TypeInvariant == Spec => []TypeInv
  BY TypeInit, TypeStep, PTL DEF Spec

THEOREM TypeCorrect == Spec => []TypeOK
  BY TypeInvariant, PTL DEF TypeInv

-----------------------------------------------------------------------------
(* The shares.                                                              *)

Beyond == {"dead", "overrun"}

\* The workers forked are the first ones.
LaunchedOK ==
    dpc \notin Beyond =>
        \A w \in Workers : workers[w] # "none" <=>
            w <= current_worker + (IF dpc \in Forked THEN 1 ELSE 0)

\* main comes to the end of the file and never goes beyond it.
EndsOK ==
    dpc \notin Beyond =>
        /\ start <= FileSize
        /\ dpc \in {"fork", "pid", "task", "pause"} => start < FileSize /\ end <= FileSize
        /\ dpc \in {"drain", "waitpid", "count", "write", "exited"} => start = FileSize

\* Where the next share is planned to end, stored or not.
Planned == IF dpc = "advance" THEN loaded ELSE end

\* Where a share may still be launched, and main is before or in its turn or
\* after it: while the next share ends before the file does, somebody remains to
\* take the rest, or the share after it reaches the end of the file.
Plannable ==
    LET remaining == remaining_workers[Dispatcher] IN
        start < FileSize /\ Planned < FileSize =>
            /\ segment_size >= 0
            /\ dpc = "top" =>
                  remaining >= 0 /\ (remaining = 0 => Planned + segment_size >= FileSize)
            /\ dpc \in {"fork", "pid", "task", "pause"} =>
                  remaining >= 0 /\ (remaining <= 1 => Planned + segment_size >= FileSize)
            /\ dpc \in {"advance", "load", "store"} =>
                  remaining >= 1 /\ (remaining = 1 => Planned + segment_size >= FileSize)

PlanOK ==
    strays = {} /\ dpc \notin Beyond =>
        /\ remaining_workers[Dispatcher] =
               total_current_workers[Dispatcher] - current_worker
        /\ dpc = "store" => loaded = remaining_workers[Dispatcher]
        /\ dpc = "advance" => end = start
        /\ start < FileSize => start <= Planned
        /\ Plannable

\* Shares that all have a byte tile the file whatever has gone astray.
FullTile ==
    dpc \notin Beyond /\ (\A w \in Launched : ShareOf(w) # {}) => Tiled

TileInv == TypeInv /\ LaunchedOK /\ EndsOK /\ PlanOK /\ SharesTile /\ FullTile

\* A quotient of numbers above zero, and by one.
LEMMA QuotientNat ==
    ASSUME NEW a \in Nat, NEW b \in Nat \ {0}
    PROVE  CDiv(a, b) \in Nat /\ (b = 1 => CDiv(a, b) = a)
  <1>1. CDiv(a, b) = a \div b
    BY DEF CDiv
  <1>2. a \div b \in Nat /\ a \div 1 = a
    OBVIOUS
  <1>3. QED
    BY <1>1, <1>2

\* A step that launches nobody and hands nothing out.
LEMMA TileSame ==
    ASSUME TileInv, dpc \in Beyond => dpc' \in Beyond, strays' = {} => strays = {},
           dpc' \in Beyond \/ HandedOut' = HandedOut,
           UNCHANGED shares,
           \A w \in Workers : workers'[w] = "none" <=> workers[w] = "none"
    PROVE  SharesTile' /\ FullTile'
  <1>1. CASE dpc' \in Beyond
    BY <1>1 DEF SharesTile, FullTile, Beyond
  <1>2. CASE dpc' \notin Beyond
    <2>1. Launched' = Launched /\ \A w \in Workers : ShareOf(w)' = ShareOf(w)
      BY DEF Launched, ShareOf, Share, Bytes
    <2>2. Launched \subseteq Workers /\ HandedOut' = HandedOut
      BY <1>2 DEF Launched
    <2>3. Tiled => Tiled'
      <3>1. Bytes' = Bytes
        BY DEF Bytes
      <3>2. \A w \in Launched : ShareOf(w)' = ShareOf(w)
        BY <2>1, <2>2
      <3>3. QED
        BY <2>1, <2>2, <3>1, <3>2 DEF Tiled
    <2>4. SharesTile /\ FullTile
      BY DEF TileInv
    <2>5. SharesTile'
      BY <1>2, <2>3, <2>4 DEF SharesTile, Beyond
    <2>6. FullTile'
      BY <1>2, <2>1, <2>2, <2>3, <2>4 DEF FullTile
    <2>7. QED
      BY <2>5, <2>6
  <1>3. QED
    BY <1>1, <1>2

\* A step that leaves the shares and the dispatcher's crew alone.
LEMMA SharesKept ==
    ASSUME TileInv, dpc' = dpc \/ dpc' = "dead",
           UNCHANGED <<start, end, segment_size, loaded, strays, current_worker, shares>>,
           total_current_workers'[Dispatcher] = total_current_workers[Dispatcher],
           remaining_workers'[Dispatcher] = remaining_workers[Dispatcher],
           \A w \in Workers : workers'[w] = "none" <=> workers[w] = "none"
    PROVE  LaunchedOK' /\ EndsOK' /\ PlanOK' /\ SharesTile' /\ FullTile'
  <1>0. LaunchedOK /\ EndsOK /\ PlanOK
    BY DEF TileInv
  <1>1. SharesTile' /\ FullTile'
    <2>1. dpc \in Beyond => dpc' \in Beyond
      BY DEF Beyond
    <2>2. dpc' \in Beyond \/ HandedOut' = HandedOut
      BY DEF HandedOut, Beyond
    <2>3. QED
      BY <2>1, <2>2, TileSame
  <1>2. CASE dpc' = "dead"
    BY <1>1, <1>2 DEF LaunchedOK, EndsOK, PlanOK, Beyond
  <1>3. CASE dpc' = dpc
    <2>1. LaunchedOK' /\ EndsOK'
      BY <1>0, <1>3 DEF LaunchedOK, EndsOK
    <2>2. PlanOK'
      BY <1>0, <1>3 DEF PlanOK, Plannable, Planned
    <2>3. QED
      BY <1>1, <2>1, <2>2
  <1>4. QED
    BY <1>2, <1>3

LEMMA TileInit == Init => TileInv
  <1> SUFFICES ASSUME Init PROVE TileInv
    OBVIOUS
  <1> USE FileSizeAssumption, SignalAssumption
  <1>1. TypeInv
    BY TypeInit
  <1>2. LaunchedOK
    BY DEF Init, LaunchedOK, Forked, Workers
  <1>3. PlanOK
    <2>1. remaining_workers[Dispatcher] = InitialWorkers
          /\ total_current_workers[Dispatcher] = InitialWorkers
      BY DEF Init, Processes
    <2>2. segment_size \in Nat
      BY DEF Init
    <2>3. dpc = "top" /\ start = 0 /\ end = segment_size /\ current_worker = 0
      BY DEF Init
    <2>4. QED
      BY <2>1, <2>2, <2>3 DEF PlanOK, Plannable, Planned
  <1>4. Tiled
    BY DEF Init, Tiled, Launched, HandedOut, Bytes
  <1>6. EndsOK
    BY DEF Init, EndsOK
  <1>5. QED
    BY <1>1, <1>2, <1>3, <1>4, <1>6 DEF TileInv, SharesTile, FullTile

\* The next share ends in the file, not before it starts.
LEMMA PlanKept ==
    ASSUME TileInv, Plan
    PROVE  LaunchedOK' /\ EndsOK' /\ PlanOK' /\ SharesTile' /\ FullTile'
  <1> USE FileSizeAssumption DEF keyVars, frameVars, endVars, tallyVars, forkVars, crewVars
  <1>0. TypeOK /\ LaunchedOK /\ EndsOK /\ PlanOK
    BY DEF TileInv, TypeInv
  <1>1. /\ start \in Int /\ end \in Int /\ segment_size \in Int
        /\ current_worker \in Int
        /\ total_current_workers[Dispatcher] \in Int
        /\ remaining_workers[Dispatcher] \in Int
    BY <1>0 DEF TypeOK, Processes
  <1>2. /\ dpc = "top" /\ dpc' \in {"fork", "drain"}
        /\ UNCHANGED <<start, segment_size, strays, shares, workers, current_worker,
                       remaining_workers, total_current_workers>>
    BY DEF Plan, At
  <1>3. LaunchedOK'
    BY <1>0, <1>2 DEF LaunchedOK, Forked, Beyond
  <1>4. EndsOK' /\ PlanOK'
    <2>1. CASE start < FileSize
      <3>1. /\ dpc' = "fork"
            /\ end' = IF \/ end > FileSize
                         \/ current_worker = total_current_workers[Dispatcher] - 1
                      THEN FileSize ELSE end
        BY <2>1 DEF Plan
      <3>2. EndsOK'
        BY <1>1, <1>2, <2>1, <3>1 DEF EndsOK
      <3>3. PlanOK'
        BY <1>0, <1>1, <1>2, <2>1, <3>1 DEF PlanOK, Plannable, Planned, Beyond
      <3>4. QED
        BY <3>2, <3>3
    <2>2. CASE ~(start < FileSize)
      <3>1. dpc' = "drain" /\ end' = end
        BY <2>2 DEF Plan
      <3>2. EndsOK'
        BY <1>0, <1>1, <1>2, <2>2, <3>1 DEF EndsOK, Beyond
      <3>3. PlanOK'
        BY <1>0, <1>1, <1>2, <2>2, <3>1 DEF PlanOK, Plannable, Planned, Beyond
      <3>4. QED
        BY <3>2, <3>3
    <2>3. QED
      BY <2>1, <2>2
  <1>5. HandedOut' = HandedOut
    BY <1>2 DEF HandedOut
  <1>6. SharesTile' /\ FullTile'
    BY <1>2, <1>5, TileSame DEF Beyond
  <1>7. QED
    BY <1>3, <1>4, <1>6

\* The share launched lies between the ones before it and its end, when it does
\* not end before it starts.
LEMMA ForkTiles ==
    ASSUME TileInv, Fork
    PROVE  LaunchedOK' /\ EndsOK' /\ PlanOK' /\ SharesTile' /\ FullTile'
  <1> USE FileSizeAssumption, SignalAssumption
      DEF keyVars, frameVars, endVars, tallyVars, shareVars, crewVars
  <1>0. TypeOK /\ LaunchedOK /\ EndsOK /\ PlanOK /\ SharesTile /\ FullTile
    BY DEF TileInv, TypeInv
  <1>a. PICK w \in Workers : w = current_worker + 1
    BY <1>0 DEF Fork, At, TypeOK, Workers
  <1>1. /\ dpc = "fork" /\ dpc' = "pid"
        /\ UNCHANGED <<start, end, segment_size, loaded, strays, current_worker>>
    BY DEF Fork, At
  <1>2. /\ workers' = [workers EXCEPT ![w] = "runs"]
        /\ shares' = [shares EXCEPT ![w] = <<start, end>>]
    BY <1>a DEF Fork
  <1>3. /\ total_current_workers'[Dispatcher] = total_current_workers[Dispatcher]
        /\ remaining_workers'[Dispatcher] = remaining_workers[Dispatcher]
    <2>1. w # Dispatcher
      BY DEF Workers, Dispatcher
    <2>2. Dispatcher \in Processes
      BY DEF Processes
    <2>3. QED
      BY <1>0, <1>a, <2>1, <2>2 DEF Fork, TypeOK
  <1>4. LaunchedOK'
    <2>1. \A v \in Workers : workers'[v] # "none" <=> workers[v] # "none" \/ v = w
      BY <1>0, <1>2 DEF TypeOK
    <2>2. \A v \in Workers : v \in Int
      BY DEF Workers
    <2>3. \A v \in Workers : workers[v] # "none" <=> v <= current_worker
      BY <1>0, <1>1, <2>2 DEF LaunchedOK, Forked, Beyond, TypeOK
    <2>4. QED
      BY <1>0, <1>a, <1>1, <2>1, <2>2, <2>3 DEF LaunchedOK, Forked, TypeOK
  <1>5. EndsOK' /\ PlanOK'
    <2>1. EndsOK'
      BY <1>0, <1>1 DEF EndsOK, Beyond
    <2>2. PlanOK'
      BY <1>0, <1>1, <1>3 DEF PlanOK, Plannable, Planned, Beyond
    <2>3. QED
      BY <2>1, <2>2
  <1>6. /\ Launched \subseteq Workers /\ w \notin Launched
        /\ Launched' = Launched \cup {w}
    <2>1. \A v \in Workers : workers'[v] # "none" <=> workers[v] # "none" \/ v = w
      BY <1>0, <1>2 DEF TypeOK
    <2>2. workers[w] = "none"
      BY <1>0, <1>a, <1>1 DEF LaunchedOK, Forked, Beyond, TypeOK
    <2>3. QED
      BY <1>1, <2>1, <2>2 DEF Launched
  <1>7. /\ \A v \in Launched : shares'[v] = shares[v]
        /\ shares'[w] = <<start, end>>
    BY <1>0, <1>2, <1>6 DEF TypeOK
  <1>8. \A v \in Launched : ShareOf(v)' = ShareOf(v)
    BY <1>7 DEF ShareOf, Share, Bytes
  <1>9. ASSUME Tiled, start <= end PROVE Tiled'
    <2>1. SUFFICES ASSUME NEW p \in Bytes
                   PROVE  IF p < HandedOut'
                          THEN \E u \in Launched' :
                                  /\ p \in ShareOf(u)'
                                  /\ \A v \in Launched' \ {u} : p \notin ShareOf(v)'
                          ELSE \A u \in Launched' : p \notin ShareOf(u)'
      BY DEF Tiled, Bytes
    <2>2. /\ start \in Int /\ end \in Int /\ p \in Int
          /\ HandedOut = start /\ HandedOut' = end
      BY <1>0, <1>1, <2>1 DEF TypeOK, HandedOut, Bytes
    <2>4. /\ \A v \in Launched : p \in ShareOf(v)' <=> p \in ShareOf(v)
          /\ p \in ShareOf(w)' <=> start <= p /\ p < end
      <3>3. p \in ShareOf(w)' <=> p \in Bytes /\ start <= p /\ p < end
        BY <1>7 DEF ShareOf, Share, Bytes
      <3>4. QED
        BY <1>8, <2>1, <3>3
    <2>5. IF p < start
          THEN \E u \in Launched :
                  p \in ShareOf(u) /\ \A v \in Launched \ {u} : p \notin ShareOf(v)
          ELSE \A u \in Launched : p \notin ShareOf(u)
      BY <1>9, <2>1, <2>2 DEF Tiled
    <2>6. CASE p < start
      <3>1. PICK u \in Launched :
                p \in ShareOf(u) /\ \A v \in Launched \ {u} : p \notin ShareOf(v)
        BY <2>5, <2>6
      <3>2. p < end /\ p \notin ShareOf(w)'
        BY <1>9, <2>2, <2>4, <2>6
      <3>3. u \in Launched' /\ p \in ShareOf(u)'
            /\ \A v \in Launched' \ {u} : p \notin ShareOf(v)'
        <4>1. u \in Launched' /\ p \in ShareOf(u)'
          BY <1>6, <2>4, <3>1
        <4>2. ASSUME NEW v \in Launched', v # u PROVE p \notin ShareOf(v)'
          <5>1. CASE v = w
            BY <3>2, <5>1
          <5>2. CASE v # w
            BY <1>6, <2>4, <3>1, <4>2, <5>2
          <5>3. QED
            BY <5>1, <5>2
        <4>3. QED
          BY <4>1, <4>2
      <3>4. QED
        BY <2>2, <3>2, <3>3
    <2>7. CASE ~(p < start) /\ p < end
      <3>1. w \in Launched' /\ p \in ShareOf(w)'
        BY <1>6, <2>2, <2>4, <2>7
      <3>2. \A v \in Launched' \ {w} : p \notin ShareOf(v)'
        BY <1>6, <2>4, <2>5, <2>7
      <3>3. \E u \in Launched' :
                p \in ShareOf(u)' /\ \A v \in Launched' \ {u} : p \notin ShareOf(v)'
        BY <3>1, <3>2
      <3>4. QED
        BY <2>2, <2>7, <3>3
    <2>8. CASE ~(p < end)
      <3>1. ~(p < start)
        BY <1>9, <2>2, <2>8
      <3>2. \A u \in Launched' : p \notin ShareOf(u)'
        <4>1. ASSUME NEW v \in Launched' PROVE p \notin ShareOf(v)'
          <5>1. CASE v = w
            BY <2>4, <2>8, <5>1
          <5>2. CASE v # w
            BY <1>6, <2>4, <2>5, <3>1, <5>2
          <5>3. QED
            BY <5>1, <5>2
        <4>2. QED
          BY <4>1
      <3>3. QED
        BY <2>2, <2>8, <3>2
    <2>9. QED
      BY <2>6, <2>7, <2>8
  <1>10. SharesTile'
    <2>1. SUFFICES ASSUME strays = {} PROVE Tiled'
      BY <1>1 DEF SharesTile
    <2>2. Tiled /\ start <= end
      BY <1>0, <1>1, <2>1 DEF SharesTile, EndsOK, PlanOK, Planned, Beyond
    <2>3. QED
      BY <1>9, <2>2
  <1>11. FullTile'
    <2>1. SUFFICES ASSUME \A v \in Launched' : ShareOf(v)' # {} PROVE Tiled'
      BY DEF FullTile
    <2>2. \A v \in Launched : ShareOf(v) # {}
      BY <1>6, <1>8, <2>1
    <2>3. Tiled
      BY <1>0, <1>1, <2>2 DEF FullTile, Beyond
    <2>4. start <= end
      <3>1. ShareOf(w)' # {}
        BY <1>6, <2>1
      <3>2. PICK p \in Bytes : start <= p /\ p < end
        BY <1>7, <3>1 DEF ShareOf, Share, Bytes
      <3>3. p \in Int /\ start \in Int /\ end \in Int
        BY <1>0, <3>2 DEF TypeOK, Bytes
      <3>4. QED
        BY <3>2, <3>3
    <2>5. QED
      BY <1>9, <2>3, <2>4
  <1>12. QED
    BY <1>4, <1>5, <1>10, <1>11

\* main's other steps.
LEMMA MainTiles ==
    ASSUME TileInv, DispatcherMain
    PROVE  LaunchedOK' /\ EndsOK' /\ PlanOK' /\ SharesTile' /\ FullTile'
  <1> USE FileSizeAssumption
      DEF keyVars, frameVars, endVars, tallyVars, forkVars, crewVars, shareVars, At
  <1>0. TypeOK /\ LaunchedOK /\ EndsOK /\ PlanOK
    BY DEF TileInv, TypeInv
  <1>1. /\ start \in Int /\ end \in Int /\ segment_size \in Int /\ loaded \in Int
        /\ current_worker \in Int
        /\ total_current_workers[Dispatcher] \in Int
        /\ remaining_workers[Dispatcher] \in Int
        /\ Dispatcher \in Processes
    BY <1>0 DEF TypeOK, Processes
  <1>2. CASE dpc' \in Beyond
    BY <1>2 DEF LaunchedOK, EndsOK, PlanOK, SharesTile, FullTile, Beyond
  <1>3. CASE StorePid \/ StoreTask
    <2>1. LaunchedOK' /\ EndsOK'
      BY <1>0, <1>3 DEF StorePid, StoreTask, LaunchedOK, EndsOK, Forked, Beyond
    <2>2. PlanOK'
      BY <1>0, <1>3 DEF StorePid, StoreTask, PlanOK, Plannable, Planned, Beyond
    <2>3. SharesTile' /\ FullTile'
      <3>1. HandedOut' = HandedOut
        BY <1>3 DEF StorePid, StoreTask, HandedOut
      <3>2. QED
        BY <1>3, <3>1, TileSame DEF StorePid, StoreTask, Beyond
    <2>4. QED
      BY <2>1, <2>2, <2>3
  <1>4. CASE Advance
    <2>1. /\ dpc = "pause" /\ dpc' = "advance" /\ start' = end
          /\ loaded' = end + segment_size
          /\ UNCHANGED <<end, segment_size, strays, current_worker, workers, shares,
                         total_current_workers, remaining_workers>>
      BY <1>4 DEF Advance
    <2>2. LaunchedOK' /\ EndsOK'
      BY <1>0, <1>1, <2>1 DEF LaunchedOK, EndsOK, Forked, Beyond
    <2>3. PlanOK'
      BY <1>0, <1>1, <2>1 DEF PlanOK, EndsOK, Plannable, Planned, Beyond
    <2>4. SharesTile' /\ FullTile'
      <3>1. HandedOut' = HandedOut
        BY <2>1 DEF HandedOut
      <3>2. QED
        BY <2>1, <3>1, TileSame DEF Beyond
    <2>5. QED
      BY <2>2, <2>3, <2>4
  <1>9. CASE StoreEnd
    <2>1. /\ dpc = "advance" /\ dpc' = "load" /\ end' = loaded
          /\ UNCHANGED <<start, segment_size, loaded, strays, current_worker, workers,
                         shares, total_current_workers, remaining_workers>>
      BY <1>9 DEF StoreEnd
    <2>2. LaunchedOK' /\ EndsOK'
      BY <1>0, <2>1 DEF LaunchedOK, EndsOK, Forked, Beyond
    <2>3. PlanOK'
      BY <1>0, <2>1 DEF PlanOK, Plannable, Planned, Beyond
    <2>4. SharesTile' /\ FullTile'
      <3>1. HandedOut' = HandedOut
        BY <2>1 DEF HandedOut
      <3>2. QED
        BY <2>1, <3>1, TileSame DEF Beyond
    <2>5. QED
      BY <2>2, <2>3, <2>4
  <1>5. CASE LoadRemaining
    <2>1. /\ dpc = "load" /\ dpc' = "store" /\ loaded' = remaining_workers[Dispatcher]
          /\ UNCHANGED <<start, end, segment_size, strays, current_worker, workers,
                         shares, total_current_workers, remaining_workers>>
      BY <1>5 DEF LoadRemaining
    <2>2. LaunchedOK' /\ EndsOK'
      BY <1>0, <2>1 DEF LaunchedOK, EndsOK, Forked, Beyond
    <2>5. PlanOK'
      BY <1>0, <2>1 DEF PlanOK, Plannable, Planned, Beyond
    <2>3. SharesTile' /\ FullTile'
      <3>1. HandedOut' = HandedOut
        BY <2>1 DEF HandedOut
      <3>2. QED
        BY <2>1, <3>1, TileSame DEF Beyond
    <2>4. QED
      BY <2>2, <2>3, <2>5
  <1>6. CASE StoreRemaining
    <2>1. /\ dpc = "store" /\ dpc' = "top" /\ current_worker' = current_worker + 1
          /\ UNCHANGED <<start, end, segment_size, loaded, strays, workers, shares,
                         total_current_workers>>
          /\ remaining_workers'[Dispatcher] = loaded - 1
      BY <1>0, <1>1, <1>6 DEF StoreRemaining, TypeOK
    <2>2. LaunchedOK' /\ EndsOK'
      BY <1>0, <1>1, <2>1 DEF LaunchedOK, EndsOK, Forked, Beyond, Workers
    <2>3. PlanOK'
      BY <1>0, <1>1, <2>1 DEF PlanOK, Plannable, Planned, Beyond
    <2>4. SharesTile' /\ FullTile'
      <3>1. HandedOut' = HandedOut
        BY <2>1 DEF HandedOut
      <3>2. QED
        BY <2>1, <3>1, TileSame DEF Beyond
    <2>5. QED
      BY <2>2, <2>3, <2>4
  <1>7. CASE Drain \/ WaitAny \/ StoreTerminated \/ WriteCount
    <2>1. /\ dpc \in {"drain", "waitpid", "count", "write"}
          /\ dpc' \in {"drain", "waitpid", "count", "write", "exited"}
          /\ UNCHANGED <<start, end, segment_size, strays, current_worker, shares,
                         total_current_workers, remaining_workers>>
      BY <1>7 DEF Drain, WaitAny, StoreTerminated, WriteCount
    <2>2. \A w \in Workers : workers'[w] = "none" <=> workers[w] = "none"
      BY <1>0, <1>7 DEF Drain, WaitAny, StoreTerminated, WriteCount, Zombies, TypeOK
    <2>3. LaunchedOK' /\ EndsOK'
      BY <1>0, <2>1, <2>2 DEF LaunchedOK, EndsOK, Forked, Beyond
    <2>4. PlanOK'
      BY <1>0, <1>1, <2>1 DEF PlanOK, EndsOK, Plannable, Planned, Beyond
    <2>5. SharesTile' /\ FullTile'
      <3>1. HandedOut' = HandedOut
        BY <2>1 DEF HandedOut
      <3>2. QED
        BY <2>1, <2>2, <3>1, TileSame DEF Beyond
    <2>7. QED
      BY <2>3, <2>4, <2>5
  <1>8. QED
    <2>1. CASE Overrun \/ PrintBeyond
      BY <1>2, <2>1 DEF Overrun, PrintBeyond, Beyond
    <2>2. QED
      BY <2>1, <1>3, <1>4, <1>5, <1>6, <1>7, <1>9, PlanKept, ForkTiles
         DEF DispatcherMain

\* A resize plans with what remains of the file and of the crew.
LEMMA ResizeTiles ==
    ASSUME TileInv, TypeNumber
    PROVE  LaunchedOK' /\ EndsOK' /\ PlanOK' /\ SharesTile' /\ FullTile'
  <1> USE FileSizeAssumption, SignalAssumption
      DEF keyVars, endVars, tallyVars, forkVars, crewVars
  <1>0. TypeOK /\ LaunchedOK /\ EndsOK /\ PlanOK
    BY DEF TileInv, TypeInv
  <1>1. PICK p \in Processes, n \in Amounts :
          /\ Handles(p)
          /\ handle_increase(p, n) \/ handle_decrease(p, n)
    BY DEF TypeNumber
  <1>2. n \in Int
    OBVIOUS
  <1>3. /\ UNCHANGED <<start, end, loaded, current_worker, shares>>
        /\ dpc' = dpc \/ dpc' = "dead"
        /\ \A w \in Workers : workers'[w] = "none" <=> workers[w] = "none"
    <2>1. \E how \in {"failed", "killed"} : Resume(p) \/ End(p, how)
      BY <1>1 DEF handle_increase, handle_decrease, Exit, Refuse, Resize
    <2>2. p # Dispatcher => p \in Workers /\ workers[p] = "runs"
      BY <1>0, <1>1 DEF Handles, TypeOK
    <2>3. QED
      BY <1>0, <2>1, <2>2 DEF TypeNumber, Resume, End, TypeOK
  <1>4. CASE Exit(p) \/ Refuse(p)
    <2>1. UNCHANGED <<segment_size, strays, total_current_workers, remaining_workers>>
      BY <1>4 DEF Exit, Refuse
    <2>2. QED
      BY <1>3, <2>1, SharesKept
  <1>5. ASSUME NEW d \in Int, Resize(p, d),
               \/ d >= 0 \/ remaining_workers[p] + d >= 0
               \/ Astray(p, d) # {} \/ p # Dispatcher
        PROVE  LaunchedOK' /\ EndsOK' /\ PlanOK' /\ SharesTile' /\ FullTile'
    <2>1. CASE p # Dispatcher
      <3>1. /\ UNCHANGED <<segment_size, strays>>
            /\ total_current_workers'[Dispatcher] = total_current_workers[Dispatcher]
            /\ remaining_workers'[Dispatcher] = remaining_workers[Dispatcher]
        BY <1>0, <1>5, <2>1 DEF Resize, Astray, TypeOK, Processes
      <3>2. QED
        BY <1>3, <3>1, SharesKept
    <2>2. CASE dpc' = "dead"
      BY <2>2 DEF LaunchedOK, EndsOK, PlanOK, SharesTile, FullTile, Beyond
    <2>3. CASE p = Dispatcher /\ dpc' = dpc
      <3> DEFINE remaining == remaining_workers[Dispatcher]
      <3>1. /\ total_current_workers[Dispatcher] \in Int /\ remaining \in Int
            /\ end \in Int /\ start \in Int /\ segment_size \in Int
            /\ current_worker \in Int /\ loaded \in Int
        BY <1>0 DEF TypeOK, Processes
      <3>2. /\ total_current_workers'[Dispatcher] = total_current_workers[Dispatcher] + d
            /\ remaining_workers'[Dispatcher] = remaining + d
        BY <1>0, <1>5, <2>3 DEF Resize, TypeOK
      <3>3. strays' = strays \cup Astray(p, d)
        BY <1>5 DEF Resize
      <3>4. LaunchedOK' /\ EndsOK'
        BY <1>0, <1>3, <2>3 DEF LaunchedOK, EndsOK
      <3>5. SharesTile' /\ FullTile'
        <4>1. HandedOut' = HandedOut
          BY <1>3, <2>3 DEF HandedOut
        <4>2. strays' = {} => strays = {}
          BY <3>3
        <4>3. QED
          BY <1>3, <2>3, <4>1, <4>2, TileSame
      <3>6. remaining + d # 0 /\ segment_size' = CDiv(FileSize - end, remaining + d)
        <4>1. CASE remaining + d = 0
          <5>1. dpc \notin Over
            BY <1>1, <2>3 DEF Handles
          <5>2. dpc' = "dead"
            BY <1>5, <2>3, <4>1 DEF Resize, End
          <5>3. QED
            BY <2>3, <5>1, <5>2 DEF Over
        <4>2. QED
          BY <1>5, <2>3, <4>1 DEF Resize
      <3>7. ASSUME Astray(p, d) = {}, end <= FileSize, remaining >= 0
            PROVE  /\ remaining + d >= 1 /\ segment_size' >= 0
                   /\ remaining + d = 1 => end + segment_size' >= FileSize
        <4>1. remaining + d >= 1
          <5>1. d >= 0 \/ remaining + d >= 0
            BY <1>5, <2>3, <3>7
          <5>2. QED
            BY <1>5, <3>1, <3>6, <3>7, <5>1
        <4>2. FileSize - end \in Nat /\ remaining + d \in Nat \ {0}
          BY <1>5, <3>1, <3>7, <4>1
        <4>3. segment_size' \in Nat /\ (remaining + d = 1 => segment_size' = FileSize - end)
          BY <3>6, <4>2, QuotientNat
        <4>4. ASSUME NEW e \in Int, NEW x \in Nat, x = FileSize - e
              PROVE  e + x >= FileSize
          BY <4>4
        <4>5. remaining + d = 1 => end + segment_size' >= FileSize
          BY <3>1, <4>3, <4>4
        <4>6. QED
          BY <4>1, <4>3, <4>5
      <3>8. PlanOK'
        <4>1. SUFFICES ASSUME strays = {}, Astray(p, d) = {}, dpc \notin Beyond
                       PROVE  PlanOK'
          BY <2>3, <3>3 DEF PlanOK
        <4>2. dpc # "store"
          BY <2>3, <4>1 DEF Astray
        <4>3. /\ remaining_workers'[Dispatcher] =
                     total_current_workers'[Dispatcher] - current_worker'
              /\ dpc' = "advance" => end' = start'
              /\ start' < FileSize => start' <= Planned'
          BY <1>0, <1>3, <1>5, <2>3, <3>1, <3>2, <4>1 DEF PlanOK, Planned
        <4>4. ASSUME start < FileSize, Planned < FileSize
              PROVE  /\ remaining + d >= 1 /\ segment_size' >= 0
                     /\ remaining + d = 1 => Planned + segment_size' >= FileSize
          <5>1. end <= FileSize /\ end <= Planned
            BY <1>0, <3>1, <4>1, <4>4 DEF PlanOK, Planned
          <5>2. remaining >= 0
            <6>1. dpc \notin {"drain", "waitpid", "count", "write", "exited"}
              BY <1>0, <3>1, <4>1, <4>4 DEF EndsOK
            <6>2. QED
              BY <1>0, <3>1, <4>1, <4>2, <4>4, <6>1 DEF PlanOK, Plannable, TypeOK, Beyond
          <5>3. QED
            <6>1. Planned \in Int /\ segment_size' \in Int
              <7>1. remaining + d \in Int /\ FileSize - end \in Int
                BY <1>5, <3>1
              <7>2. QED
                BY <3>1, <3>6, <7>1, QuotientInt DEF Planned
            <6>2. QED
              BY <3>1, <3>7, <4>1, <5>1, <5>2, <6>1
        <4>5. Plannable'
          <5>1. Planned' = Planned
            BY <1>3, <2>3 DEF Planned
          <5>2. QED
            BY <1>3, <1>5, <2>3, <3>1, <3>2, <4>4, <5>1 DEF Plannable
        <4>6. QED
          BY <2>3, <4>2, <4>3, <4>5 DEF PlanOK
      <3>9. QED
        BY <3>4, <3>5, <3>8
    <2>4. QED
      BY <1>3, <2>1, <2>2, <2>3
  <1>6. CASE handle_increase(p, n) /\ ~(Exit(p) \/ Refuse(p))
    <2>1. Resize(p, n)
      BY <1>6 DEF handle_increase
    <2>2. p = Dispatcher /\ n < 0 /\ ~(remaining_workers[p] + n >= 0)
              => "undercut" \in Astray(p, n)
      <3>1. remaining_workers[p] \in Int
        BY <1>0 DEF TypeOK
      <3>2. QED
        BY <1>2, <3>1 DEF Astray
    <2>3. QED
      BY <1>2, <1>5, <2>1, <2>2
  <1>7. CASE handle_decrease(p, n) /\ ~(Exit(p) \/ Refuse(p))
    <2>1. Resize(p, -n) /\ n <= remaining_workers[p]
      BY <1>7 DEF handle_decrease
    <2>2. -n \in Int /\ remaining_workers[p] + (-n) >= 0
      <3>1. remaining_workers[p] \in Int
        BY <1>0 DEF TypeOK
      <3>2. QED
        BY <1>2, <2>1, <3>1
    <2>3. QED
      BY <1>5, <2>1, <2>2
  <1>8. QED
    BY <1>1, <1>4, <1>6, <1>7

LEMMA TileStep == TileInv /\ [Next]_vars => TileInv'
  <1> SUFFICES ASSUME TileInv, [Next]_vars PROVE TileInv'
    OBVIOUS
  <1> USE DEF keyVars, endVars, shareVars, crewVars, tallyVars, forkVars, frameVars
  <1>0. TypeInv' /\ TypeOK
    BY TypeStep DEF TileInv, TypeInv
  <1>1. CASE HandleSigchild
    <2>1. \A w \in Workers : workers'[w] = "none" <=> workers[w] = "none"
      BY <1>0, <1>1 DEF HandleSigchild, Reap, ReadNumber, Zombies, TypeOK
    <2>2. QED
      BY <1>0, <1>1, <2>1, SharesKept DEF HandleSigchild, Reap, ReadNumber, TileInv
  <1>2. CASE Press \/ ShowCount \/ UNCHANGED vars
    BY <1>0, <1>2, SharesKept DEF Press, ShowCount, vars, TileInv
  <1>3. CASE HandleKill
    <2>1. \A w \in Workers : workers'[w] = "none" <=> workers[w] = "none"
      <3>1. ASSUME NEW v
            PROVE  \A w \in Workers : Killed(v)[w] = "none" <=> workers[w] = "none"
        BY <1>0 DEF Killed, TypeOK
      <3>2. CASE KillVictim
        BY <3>1, <3>2 DEF KillVictim, Resume
      <3>3. CASE SaveShare
        BY <3>3 DEF SaveShare
      <3>4. ASSUME NEW w \in Workers, KillMate(w)
            PROVE  \A u \in Workers : workers'[u] = "none" <=> workers[u] = "none"
        BY <1>0, <3>1, <3>4 DEF KillMate, Running, TypeOK
      <3>5. QED
        BY <1>3, <3>2, <3>3, <3>4 DEF HandleKill
    <2>2. dpc' = dpc \/ dpc' = "dead"
      BY <1>3 DEF HandleKill, KillVictim, Resume, SaveShare, KillMate
    <2>3. QED
      BY <1>0, <1>3, <2>1, <2>2, SharesKept
         DEF HandleKill, KillVictim, SaveShare, KillMate, TileInv
  <1>4. ASSUME NEW w \in Workers, Search(w) PROVE TileInv'
    <2>1. \A v \in Workers : workers'[v] = "none" <=> workers[v] = "none"
      BY <1>0, <1>4 DEF Search, TypeOK
    <2>2. /\ total_current_workers'[Dispatcher] = total_current_workers[Dispatcher]
          /\ remaining_workers'[Dispatcher] = remaining_workers[Dispatcher]
      <3>1. w # Dispatcher /\ Dispatcher \in Processes
        BY DEF Workers, Dispatcher, Processes
      <3>2. QED
        BY <1>0, <1>4, <3>1 DEF Search, TypeOK
    <2>3. QED
      BY <1>0, <1>4, <2>1, <2>2, SharesKept DEF Search, TileInv
  <1>5. QED
    BY <1>0, <1>1, <1>2, <1>3, <1>4, MainTiles, ResizeTiles DEF Next, TileInv

THEOREM TileInvariant == Spec => []TileInv
  BY TileInit, TileStep, PTL DEF Spec

\* However the crew is hired and fired by keyboard, with whatever numbers, above
\* or below zero, and in whatever step of main the handlers run, the shares
\* launched cover the file from its beginning, each byte once, until a resize
\* falls between the load and the store of remaining_workers-- or an increase by a
\* number below zero leaves fewer than nobody (first_ex_ex_4.c 141-147, 165-173,
\* 345-370, 435-438).
THEOREM SharesAlwaysTile == Spec => []SharesTile
  BY TileInvariant, PTL DEF TileInv

-----------------------------------------------------------------------------
(* The loop at the end.                                                     *)

Reaped == {w \in Workers : workers[w] = "reaped"}

\* No child is counted before it was waited for, nor twice: the handler is about
\* to count the one it reads from, and main the one its waitpid has returned.
CountedOK ==
    /\ terminated_children + (IF reading \in Workers THEN 1 ELSE 0)
           + (IF dpc = "count" THEN 1 ELSE 0) <= Cardinality(Reaped)
    /\ dpc = "count" => loaded <= terminated_children

DrainInv == TileInv /\ CountedOK

LEMMA ReapedFinite == TypeOK => IsFiniteSet(Reaped) /\ Cardinality(Reaped) \in Nat
  <1>1. IsFiniteSet(Workers)
    BY FS_Interval, SignalAssumption DEF Workers
  <1>2. Reaped \subseteq Workers
    BY DEF Reaped
  <1>3. QED
    BY <1>1, <1>2, FS_Subset, FS_CardinalityType

\* One more worker is waited for.
LEMMA ReapOne ==
    ASSUME TypeOK, NEW w \in Workers, w \in Zombies,
           workers' = [workers EXCEPT ![w] = "reaped"]
    PROVE  Cardinality(Reaped') = Cardinality(Reaped) + 1
  <1>1. w \notin Reaped /\ Reaped' = Reaped \cup {w}
    BY DEF Reaped, Zombies, TypeOK
  <1>2. QED
    BY <1>1, ReapedFinite, FS_AddElement

LEMMA DrainInit == Init => DrainInv
  <1> SUFFICES ASSUME Init PROVE DrainInv
    OBVIOUS
  <1>1. TileInv /\ TypeOK
    BY TileInit DEF TileInv, TypeInv
  <1>2. terminated_children = 0 /\ reading \notin Workers /\ dpc # "count"
    BY DEF Init, Workers, Dispatcher
  <1>4. Cardinality(Reaped) \in Nat
    BY <1>1, ReapedFinite
  <1>3. QED
    BY <1>1, <1>2, <1>4 DEF DrainInv, CountedOK

LEMMA DrainStep == DrainInv /\ [Next]_vars => DrainInv'
  <1> SUFFICES ASSUME DrainInv, [Next]_vars PROVE DrainInv'
    OBVIOUS
  <1> USE DEF keyVars, endVars, shareVars, crewVars, tallyVars, forkVars, frameVars
  <1>0. TileInv' /\ TypeOK /\ FramesOK /\ LaunchedOK /\ CountedOK
    BY TileStep DEF DrainInv, TileInv, TypeInv
  <1>a. SUFFICES CountedOK'
    BY <1>0 DEF DrainInv
  <1>1. terminated_children \in Nat /\ Cardinality(Reaped) \in Nat /\ loaded \in Int
    BY <1>0, ReapedFinite DEF TypeOK
  <1>2. ASSUME UNCHANGED <<terminated_children, reading>>, Reaped' = Reaped,
               dpc' = "count" => dpc = "count" /\ loaded' = loaded
        PROVE  CountedOK'
    <2>1. CASE dpc' = "count"
      BY <1>0, <1>2, <2>1 DEF CountedOK
    <2>2. CASE dpc' # "count"
      BY <1>0, <1>1, <1>2, <2>2 DEF CountedOK
    <2>3. QED
      BY <2>1, <2>2
  <1>4. CASE DispatcherMain
    <2>1. CASE Fork
      <3>1. PICK w \in Workers : w = current_worker + 1
        BY <1>0, <2>1, SignalAssumption DEF Fork, At, TypeOK, Workers
      <3>2. workers' = [workers EXCEPT ![w] = "runs"]
        BY <2>1, <3>1 DEF Fork
      <3>3. workers[w] = "none"
        <4>1. dpc = "fork" /\ current_worker \in Int
          BY <1>0, <2>1 DEF Fork, At, TypeOK
        <4>2. QED
          BY <1>0, <3>1, <4>1 DEF LaunchedOK, Forked, Beyond
      <3>4. Reaped' = Reaped
        BY <1>0, <3>2, <3>3 DEF Reaped, TypeOK
      <3>5. QED
        BY <1>2, <2>1, <3>4 DEF Fork
    <2>2. CASE WaitAny
      <3>0. dpc = "waitpid" /\ UNCHANGED <<terminated_children, reading>>
        BY <2>2 DEF WaitAny, At
      <3>1. CASE workers' = workers /\ dpc' = "write"
        BY <1>2, <3>0, <3>1 DEF Reaped
      <3>2. CASE \E w \in Zombies : /\ workers' = [workers EXCEPT ![w] = "reaped"]
                                    /\ loaded' = terminated_children
                                    /\ dpc' = "count"
        <4>1. Cardinality(Reaped') = Cardinality(Reaped) + 1
          BY <1>0, <3>2, ReapOne DEF Zombies
        <4>2. QED
          BY <1>0, <1>1, <3>0, <3>2, <4>1 DEF CountedOK
      <3>3. QED
        BY <2>2, <3>1, <3>2 DEF WaitAny
    <2>5. CASE StoreTerminated
      <3>1. /\ dpc = "count" /\ dpc' = "drain" /\ terminated_children' = loaded + 1
            /\ reading' = reading /\ workers' = workers
        BY <2>5 DEF StoreTerminated, At
      <3>2. Reaped' = Reaped
        BY <3>1 DEF Reaped
      <3>3. QED
        BY <1>0, <1>1, <3>1, <3>2 DEF CountedOK
    <2>3. CASE ~(Fork \/ WaitAny \/ StoreTerminated)
      <3>1. UNCHANGED <<workers, terminated_children, reading>> /\ dpc' # "count"
        BY <1>4, <2>3 DEF DispatcherMain, Plan, Overrun, StorePid, StoreTask, Advance,
              StoreEnd, LoadRemaining, StoreRemaining, Drain, PrintBeyond, WriteCount
      <3>2. QED
        BY <1>2, <3>1 DEF Reaped
    <2>4. QED
      BY <2>1, <2>2, <2>3, <2>5
  <1>5. CASE Reap
    <2>1. PICK w \in Zombies : workers' = [workers EXCEPT ![w] = "reaped"]
      BY <1>5 DEF Reap
    <2>2. Cardinality(Reaped') = Cardinality(Reaped) + 1
      BY <1>0, <2>1, ReapOne DEF Zombies
    <2>3. UNCHANGED <<terminated_children, dpc, loaded>>
      BY <1>5 DEF Reap
    <2>4. QED
      BY <1>0, <1>1, <2>2, <2>3 DEF CountedOK
  <1>6. CASE ReadNumber
    <2>1. reading \in Workers
      <3>1. frames \in Seq({"key", "save", "read"})
        BY <1>0 DEF TypeOK
      <3>2. 1 \in DOMAIN frames /\ frames[1] = "read"
        BY <1>6, <3>1 DEF ReadNumber, Inside
      <3>3. QED
        BY <1>0, <3>2 DEF FramesOK
    <2>2. reading' \notin Workers /\ terminated_children' = terminated_children + 1
          /\ UNCHANGED <<workers, dpc, loaded>>
      BY <1>6 DEF ReadNumber, Workers, Dispatcher
    <2>3. Reaped' = Reaped
      BY <2>2 DEF Reaped
    <2>4. QED
      BY <1>0, <1>1, <2>1, <2>2, <2>3 DEF CountedOK
  <1>7. CASE TypeNumber
    <2>1. PICK p \in Processes, n \in Amounts :
            Handles(p) /\ (handle_increase(p, n) \/ handle_decrease(p, n))
      BY <1>7 DEF TypeNumber
    <2>2. \E how \in {"failed", "killed"} : Resume(p) \/ End(p, how)
      BY <2>1 DEF handle_increase, handle_decrease, Exit, Refuse, Resize
    <2>3. p # Dispatcher => workers[p] = "runs"
      BY <1>0, <2>1 DEF Handles, TypeOK
    <2>4. Reaped' = Reaped
      BY <1>0, <2>2, <2>3 DEF Resume, End, Reaped, TypeOK
    <2>5. dpc' \in {dpc, "dead"}
      BY <2>2 DEF Resume, End
    <2>6. QED
      BY <1>2, <1>7, <2>4, <2>5 DEF TypeNumber
  <1>8. CASE HandleKill
    <2>1. Reaped' = Reaped
      <3>1. ASSUME NEW v PROVE Reaped = {w \in Workers : Killed(v)[w] = "reaped"}
        BY <1>0 DEF Killed, Reaped, TypeOK
      <3>2. ASSUME workers' = [u \in Workers |-> IF u \in Running THEN "killed"
                                                 ELSE workers[u]]
            PROVE  Reaped' = Reaped
        BY <1>0, <3>2 DEF Running, Reaped, TypeOK
      <3>3. \/ workers' = workers
            \/ \E v : workers' = Killed(v)
            \/ workers' = [u \in Workers |-> IF u \in Running THEN "killed"
                                             ELSE workers[u]]
        BY <1>8 DEF HandleKill, KillVictim, Resume, SaveShare, KillMate
      <3>4. CASE workers' = workers
        BY <3>4 DEF Reaped
      <3>5. CASE \E v : workers' = Killed(v)
        BY <3>1, <3>5 DEF Reaped
      <3>6. QED
        BY <3>2, <3>3, <3>4, <3>5
    <2>2. dpc' \in {dpc, "dead"}
      BY <1>8 DEF HandleKill, KillVictim, Resume, SaveShare, KillMate
    <2>3. QED
      BY <1>2, <1>8, <2>1, <2>2 DEF HandleKill, KillVictim, SaveShare, KillMate
  <1>9. CASE \/ Press
             \/ \E w \in Workers : Search(w)
             \/ ShowCount
             \/ UNCHANGED vars
    <2>1. Reaped' = Reaped
      BY <1>0, <1>9 DEF Press, Search, ShowCount, vars, Reaped, TypeOK
    <2>2. QED
      BY <1>2, <1>9, <2>1 DEF Press, Search, ShowCount, vars
  <1>10. QED
    BY <1>0, <1>4, <1>5, <1>6, <1>7, <1>8, <1>9 DEF Next, HandleSigchild

\* main leaves the loop only when every worker it has launched was waited for,
\* however many of them the handler has reaped and however the crew was resized,
\* unless the crew is smaller than the workers launched (first_ex_ex_4.c 456-491).
THEOREM DrainAlwaysWaits == Spec => DrainWaits
  <1>1. ASSUME DrainInv, [Next]_vars
        PROVE  [dpc = "drain" /\ dpc' = "write"
                    /\ current_worker <= total_current_workers[Dispatcher]
                => Remaining = {}]_vars
    <2>1. SUFFICES ASSUME dpc = "drain", dpc' = "write",
                          current_worker <= total_current_workers[Dispatcher]
                   PROVE  Remaining = {}
      OBVIOUS
    <2>2. TypeOK /\ LaunchedOK /\ CountedOK
      BY <1>1 DEF DrainInv, TileInv, TypeInv
    <2>3. /\ terminated_children \in Nat /\ current_worker \in Nat
          /\ total_current_workers[Dispatcher] \in Int
      BY <2>2 DEF TypeOK, Processes
    <2>4. terminated_children >= total_current_workers[Dispatcher]
      <3>1. Next
        BY <1>1, <2>1 DEF vars
      <3>2. Drain
        BY <2>1, <3>1 DEF Next, DispatcherMain, Plan, Fork, Overrun, StorePid, StoreTask,
              Advance, StoreEnd, LoadRemaining, StoreRemaining, WaitAny, StoreTerminated,
              PrintBeyond, WriteCount, At,
              HandleSigchild, Reap, ReadNumber, Press, TypeNumber, handle_increase,
              handle_decrease, Exit, Refuse, Resize, Resume, End, HandleKill, KillVictim,
              SaveShare, KillMate, Search, ShowCount
      <3>3. QED
        BY <2>1, <2>3, <3>2 DEF Drain
    <2>5. Launched \subseteq 1 .. current_worker
      BY <2>1, <2>2, <2>3 DEF Launched, LaunchedOK, Forked, Beyond, Workers
    <2>6. Reaped \subseteq Launched
      BY DEF Reaped, Launched
    <2>7. IsFiniteSet(1 .. current_worker)
          /\ Cardinality(1 .. current_worker) = current_worker
      BY <2>3, FS_Interval
    <2>8. Cardinality(Reaped) >= current_worker
      BY <2>1, <2>2, <2>3, <2>4, ReapedFinite DEF CountedOK
    <2>9. Reaped = 1 .. current_worker
      <3>1. Reaped \in SUBSET (1 .. current_worker)
        BY <2>5, <2>6
      <3>2. Cardinality(Reaped) <= Cardinality(1 .. current_worker)
        BY <2>7, <3>1, FS_Subset
      <3>3. Cardinality(Reaped) = Cardinality(1 .. current_worker)
        BY <2>2, <2>3, <2>7, <2>8, <3>2, ReapedFinite
      <3>4. QED
        BY <2>7, <3>1, <3>3, FS_Subset
    <2>10. QED
      BY <2>5, <2>9 DEF Remaining, Reaped, Launched
  <1>2. QED
    BY <1>1, DrainInit, DrainStep, PTL DEF Spec, DrainWaits

-----------------------------------------------------------------------------
(* The count.                                                               *)

\* What the workers that were heard have been given to search.
Covered == UNION {ShareOf(w) : w \in heard}

\* The dispatcher hears a worker once, when it was waited for, and the count is
\* what those it has heard have searched.
AddedOK ==
    /\ heard \subseteq Reaped
    /\ reading \in Workers => reading \in Reaped \ heard
    /\ dpc \notin Beyond /\ count # Garbage =>
           ((\A w \in Launched : ShareOf(w) # {}) => count = Cardinality(Covered))
    /\ front_end_count \notin {<<>>, <<Garbage>>} =>
           dpc = "exited" /\ front_end_count = <<count>>

CountInv == TileInv /\ AddedOK

LEMMA AddedInit == Init => CountInv
  <1> SUFFICES ASSUME Init PROVE CountInv
    OBVIOUS
  <1>1. heard = {} /\ count = 0 /\ reading \notin Workers /\ front_end_count = <<>>
    BY DEF Init, Workers, Dispatcher
  <1>2. Covered = {}
    BY <1>1 DEF Covered
  <1>3. QED
    BY <1>1, <1>2, TileInit, FS_EmptySet DEF CountInv, AddedOK

\* A step in which no number is added.
LEMMA NothingAdded ==
    ASSUME AddedOK, UNCHANGED <<heard, count>>, Reaped \subseteq Reaped',
           reading' = reading \/ reading' \in Reaped' \ Reaped,
           Launched \subseteq Launched',
           \A w \in Launched : shares'[w] = shares[w],
           dpc \in Beyond => dpc' \in Beyond,
           dpc = "exited" => dpc' = "exited",
           front_end_count' = front_end_count
               \/ front_end_count' \in {<<>>, <<Garbage>>}
               \/ (dpc' = "exited" /\ front_end_count' = <<count>>)
    PROVE  AddedOK'
  <1>1. \A w \in Launched : ShareOf(w)' = ShareOf(w)
    BY DEF ShareOf, Share, Bytes
  <1>4. heard \subseteq Launched
    BY DEF AddedOK, Reaped, Launched
  <1>2. Covered' = Covered
    BY <1>1, <1>4 DEF Covered
  <1>5. (\A w \in Launched' : ShareOf(w)' # {}) => \A w \in Launched : ShareOf(w) # {}
    BY <1>1
  <1>6. /\ heard' \subseteq Reaped'
        /\ reading' \in Workers => reading' \in Reaped' \ heard'
    BY DEF AddedOK
  <1>7. dpc' \notin Beyond /\ count' # Garbage =>
            ((\A w \in Launched' : ShareOf(w)' # {}) => count' = Cardinality(Covered'))
    BY <1>2, <1>5 DEF AddedOK
  <1>8. front_end_count' \notin {<<>>, <<Garbage>>} =>
            dpc' = "exited" /\ front_end_count' = <<count'>>
    BY DEF AddedOK
  <1>3. QED
    BY <1>6, <1>7, <1>8 DEF AddedOK

\* What a worker reads of its share is the share, unless that is empty.
LEMMA ScanIsShare ==
    ASSUME TypeOK, NEW w \in Workers, ShareOf(w) # {}
    PROVE  Scanned(w) = Cardinality(ShareOf(w))
  <1>1. PICK a \in Int, b \in Int : a = shares[w][1] /\ b = shares[w][2]
    BY DEF TypeOK
  <1>2. Bytes \subseteq Int
    BY DEF Bytes
  <1>3. a < b
    <2>1. PICK p \in Bytes : a <= p /\ p < b
      BY <1>1 DEF ShareOf, Share
    <2>2. p \in Int
      BY <1>2, <2>1
    <2>3. QED
      BY <2>1, <2>2
  <1>4. ScanShare(a, b) = Share(a, b)
    <2>1. \A p \in Int : (p = a \/ (a < p /\ p < b)) <=> (a <= p /\ p < b)
      BY <1>3
    <2>2. QED
      BY <1>2, <2>1 DEF ScanShare, Share
  <1>5. QED
    BY <1>1, <1>4 DEF Scanned, ShareOf

LEMMA CoveredFinite ==
    /\ Covered \subseteq Bytes /\ IsFiniteSet(Covered) /\ Cardinality(Covered) \in Nat
    /\ \A w \in heard : /\ IsFiniteSet(ShareOf(w)) /\ Cardinality(ShareOf(w)) \in Nat
  <1>1. IsFiniteSet(Bytes)
    BY FS_Interval, FileSizeAssumption DEF Bytes
  <1>2. Covered \subseteq Bytes /\ \A w \in heard : ShareOf(w) \subseteq Bytes
    BY DEF Covered, ShareOf, Share
  <1>3. QED
    BY <1>1, <1>2, FS_Subset, FS_CardinalityType

\* The number of the worker that is being read is added.
LEMMA NumberAdded == ASSUME CountInv, ReadNumber PROVE AddedOK'
  <1> USE DEF endVars
  <1>0. TypeOK /\ FramesOK /\ FullTile /\ AddedOK
    BY DEF CountInv, TileInv, TypeInv
  <1>1. PICK w \in Workers : w = reading
    <2>1. frames \in Seq({"key", "save", "read"})
      BY <1>0 DEF TypeOK
    <2>2. 1 \in DOMAIN frames /\ frames[1] = "read"
      BY <2>1 DEF ReadNumber, Inside
    <2>3. QED
      BY <1>0, <2>2 DEF FramesOK
  <1>2. /\ w \in Reaped \ heard /\ heard \subseteq Reaped
        /\ heard' = heard \cup {w} /\ reading' \notin Workers
        /\ UNCHANGED <<workers, shares, dpc, front_end_count>>
        /\ dpc \notin Over
        /\ \/ count' = IF count = Garbage THEN Garbage ELSE count + Scanned(w)
           \/ count' = Garbage
    BY <1>0, <1>1 DEF ReadNumber, AddedOK, Workers, Dispatcher, forkVars
  <1>3. Reaped' = Reaped /\ Launched' = Launched
    BY <1>2 DEF Reaped, Launched
  <1>4. \A v \in Workers : ShareOf(v)' = ShareOf(v)
    BY <1>2 DEF ShareOf, Share, Bytes
  <1>9. w \in Launched /\ heard \subseteq Launched /\ Launched \subseteq Workers
    BY <1>2 DEF Reaped, Launched
  <1>5. ASSUME dpc \notin Beyond, count' # Garbage,
               \A v \in Launched : ShareOf(v) # {}
        PROVE  count' = Cardinality(Covered')
    <2>1. count # Garbage /\ count' = count + Scanned(w)
      BY <1>2, <1>5
    <2>2. count = Cardinality(Covered)
      BY <1>0, <1>2, <1>5, <2>1 DEF AddedOK
    <2>3. Scanned(w) = Cardinality(ShareOf(w))
      BY <1>0, <1>5, <1>9, ScanIsShare
    <2>4. heard \subseteq Workers
      BY <1>0 DEF TypeOK
    <2>5. Covered' = Covered \cup ShareOf(w)
      <3>1. Covered' = UNION {ShareOf(v)' : v \in heard'}
        BY DEF Covered
      <3>2. \A v \in heard' : ShareOf(v)' = ShareOf(v)
        BY <1>2, <1>4, <2>4
      <3>3. QED
        BY <1>2, <3>1, <3>2 DEF Covered
    <2>6. Covered \cap ShareOf(w) = {}
      <3>1. SUFFICES ASSUME NEW p \in ShareOf(w), NEW v \in heard, p \in ShareOf(v)
                     PROVE  FALSE
        BY DEF Covered
      <3>2. v # w /\ v \in Launched /\ w \in Launched
        BY <1>2, <3>1 DEF Reaped, Launched
      <3>3. p \in Bytes
        BY <3>1 DEF ShareOf, Share
      <3>4. \E u \in Launched : /\ p \in ShareOf(u)
                                /\ \A x \in Launched \ {u} : p \notin ShareOf(x)
        BY <1>0, <1>5, <3>1, <3>2, <3>3 DEF FullTile, Tiled
      <3>5. QED
        BY <3>1, <3>2, <3>4
    <2>7. /\ IsFiniteSet(Covered) /\ Cardinality(Covered) \in Nat
          /\ IsFiniteSet(ShareOf(w)) /\ Cardinality(ShareOf(w)) \in Nat
      <3>1. ShareOf(w) \subseteq Bytes
        BY DEF ShareOf, Share
      <3>2. IsFiniteSet(Bytes)
        BY FS_Interval, FileSizeAssumption DEF Bytes
      <3>3. QED
        BY <3>1, <3>2, CoveredFinite, FS_Subset, FS_CardinalityType
    <2>8. Cardinality(Covered \cup ShareOf(w))
              = Cardinality(Covered) + Cardinality(ShareOf(w))
      <3>1. Cardinality(Covered \cap ShareOf(w)) = 0
        BY <2>6, FS_EmptySet
      <3>2. Cardinality(Covered \cup ShareOf(w))
                = Cardinality(Covered) + Cardinality(ShareOf(w))
                  - Cardinality(Covered \cap ShareOf(w))
        BY <2>7, FS_Union
      <3>3. QED
        BY <2>7, <3>1, <3>2
    <2>9. QED
      BY <2>1, <2>2, <2>3, <2>5, <2>8
  <1>6. ~(front_end_count' \notin {<<>>, <<Garbage>>})
    BY <1>0, <1>2 DEF AddedOK, Over
  <1>7. (\A v \in Launched' : ShareOf(v)' # {}) => \A v \in Launched : ShareOf(v) # {}
    BY <1>3, <1>4, <1>9
  <1>8. QED
    BY <1>2, <1>3, <1>5, <1>6, <1>7 DEF AddedOK

LEMMA CountStep == CountInv /\ [Next]_vars => CountInv'
  <1> SUFFICES ASSUME CountInv, [Next]_vars PROVE CountInv'
    OBVIOUS
  <1> USE DEF keyVars, endVars, shareVars, crewVars, tallyVars, forkVars, frameVars
  <1>0. TileInv' /\ TypeOK /\ LaunchedOK /\ AddedOK
    BY TileStep DEF CountInv, TileInv, TypeInv
  <1>a. SUFFICES AddedOK'
    BY <1>0 DEF CountInv
  <1>1. CASE DispatcherMain
    <2>1. /\ UNCHANGED <<heard, count, reading, front_end_count>>
          /\ dpc \notin {"dead", "overrun", "exited"}
      BY <1>1 DEF DispatcherMain, Plan, Fork, Overrun, StorePid, StoreTask, Advance,
            StoreEnd, LoadRemaining, StoreRemaining, Drain, WaitAny, StoreTerminated,
            PrintBeyond, WriteCount, At
    <2>2. CASE Fork
      <3>1. PICK w \in Workers : w = current_worker + 1
        BY <1>0, <2>2, SignalAssumption DEF Fork, At, TypeOK, Workers
      <3>2. /\ workers' = [workers EXCEPT ![w] = "runs"]
            /\ shares' = [shares EXCEPT ![w] = <<start, end>>]
        BY <2>2, <3>1 DEF Fork
      <3>3. workers[w] = "none"
        <4>1. dpc = "fork" /\ current_worker \in Int
          BY <1>0, <2>2 DEF Fork, At, TypeOK
        <4>2. QED
          BY <1>0, <3>1, <4>1 DEF LaunchedOK, Forked, Beyond
      <3>4. Reaped' = Reaped /\ Launched \subseteq Launched'
        BY <1>0, <3>2, <3>3 DEF Reaped, Launched, TypeOK
      <3>5. \A v \in Launched : shares'[v] = shares[v]
        BY <1>0, <3>2, <3>3 DEF Launched, TypeOK
      <3>6. QED
        BY <1>0, <2>1, <3>4, <3>5, NothingAdded DEF Beyond
    <2>3. CASE ~Fork
      <3>1. UNCHANGED shares
        BY <1>1, <2>3 DEF DispatcherMain, Plan, Overrun, StorePid, StoreTask, Advance,
              StoreEnd, LoadRemaining, StoreRemaining, Drain, WaitAny, StoreTerminated,
              PrintBeyond, WriteCount
      <3>2. \/ workers' = workers
            \/ \E w \in Zombies : workers' = [workers EXCEPT ![w] = "reaped"]
        BY <1>1, <2>3 DEF DispatcherMain, Plan, Overrun, StorePid, StoreTask, Advance,
              StoreEnd, LoadRemaining, StoreRemaining, Drain, WaitAny, StoreTerminated,
              PrintBeyond, WriteCount
      <3>3. Reaped \subseteq Reaped' /\ Launched \subseteq Launched'
        BY <1>0, <3>2 DEF Reaped, Launched, TypeOK
      <3>4. QED
        BY <1>0, <2>1, <3>1, <3>3, NothingAdded DEF Beyond
    <2>4. QED
      BY <2>2, <2>3
  <1>2. CASE Reap
    <2>1. UNCHANGED <<heard, count, shares, dpc, front_end_count>>
      BY <1>2 DEF Reap
    <2>2. PICK w \in Zombies : /\ workers' = [workers EXCEPT ![w] = "reaped"]
                               /\ reading' = w \/ reading' = reading
      BY <1>2 DEF Reap
    <2>3. /\ w \in Reaped' \ Reaped /\ Reaped \subseteq Reaped'
          /\ Launched \subseteq Launched'
      BY <1>0, <2>2 DEF Reaped, Launched, Zombies, TypeOK
    <2>4. QED
      BY <1>0, <2>1, <2>2, <2>3, NothingAdded
  <1>3. CASE ReadNumber
    BY <1>3, NumberAdded
  <1>4. CASE TypeNumber
    <2>1. PICK p \in Processes, n \in Amounts :
            Handles(p) /\ (handle_increase(p, n) \/ handle_decrease(p, n))
      BY <1>4 DEF TypeNumber
    <2>2. \E how \in {"failed", "killed"} : Resume(p) \/ End(p, how)
      BY <2>1 DEF handle_increase, handle_decrease, Exit, Refuse, Resize
    <2>3. /\ p # Dispatcher => workers[p] = "runs"
          /\ p = Dispatcher => dpc \notin Over
      BY <1>0, <2>1 DEF Handles, TypeOK
    <2>4. Reaped' = Reaped /\ Launched \subseteq Launched'
      BY <1>0, <2>2, <2>3 DEF Resume, End, Reaped, Launched, TypeOK
    <2>5. dpc' = dpc \/ (dpc \notin Over /\ dpc' = "dead")
      BY <2>2, <2>3 DEF Resume, End
    <2>7. UNCHANGED <<heard, count, reading, shares, front_end_count>>
      BY <1>4 DEF TypeNumber
    <2>8. QED
      BY <1>0, <2>4, <2>5, <2>7, NothingAdded DEF Over, Beyond
  <1>5. CASE HandleKill
    <2>1. Reaped' = Reaped /\ Launched \subseteq Launched'
      <3>1. ASSUME NEW v
            PROVE  \A w \in Workers :
                       /\ Killed(v)[w] = "reaped" <=> workers[w] = "reaped"
                       /\ Killed(v)[w] = "none" <=> workers[w] = "none"
        BY <1>0 DEF Killed, TypeOK
      <3>2. ASSUME workers' = [u \in Workers |-> IF u \in Running THEN "killed"
                                                 ELSE workers[u]]
            PROVE  Reaped' = Reaped /\ Launched \subseteq Launched'
        BY <1>0, <3>2 DEF Running, Reaped, Launched, TypeOK
      <3>3. \/ workers' = workers
            \/ \E v : workers' = Killed(v)
            \/ workers' = [u \in Workers |-> IF u \in Running THEN "killed"
                                             ELSE workers[u]]
        BY <1>5 DEF HandleKill, KillVictim, Resume, SaveShare, KillMate
      <3>4. CASE workers' = workers
        BY <3>4 DEF Reaped, Launched
      <3>5. CASE \E v : workers' = Killed(v)
        BY <3>1, <3>5 DEF Reaped, Launched
      <3>6. QED
        BY <3>2, <3>3, <3>4, <3>5
    <2>2. /\ UNCHANGED <<heard, count, reading, shares, front_end_count>>
          /\ dpc' = dpc \/ (dpc \notin Over /\ dpc' = "dead")
      BY <1>5 DEF HandleKill, KillVictim, Resume, SaveShare, KillMate
    <2>3. QED
      BY <1>0, <2>1, <2>2, NothingAdded DEF Over, Beyond
  <1>6. CASE Press \/ (\E w \in Workers : Search(w)) \/ UNCHANGED vars
    <2>1. Reaped' = Reaped /\ Launched \subseteq Launched'
      <3>1. ASSUME NEW w \in Workers, Search(w)
            PROVE  Reaped' = Reaped /\ Launched \subseteq Launched'
        <4>1. workers[w] = "runs" /\ workers \in [Workers -> {"none", "runs", "exited",
                                         "failed", "killed", "reaped"}]
          BY <1>0, <3>1 DEF Search, TypeOK
        <4>2. \E how \in {"failed", "exited"} :
                  workers' = [workers EXCEPT ![w] = how]
          BY <3>1 DEF Search
        <4>3. QED
          BY <4>1, <4>2 DEF Reaped, Launched
      <3>2. CASE Press \/ UNCHANGED vars
        BY <3>2 DEF Press, vars, Reaped, Launched
      <3>3. QED
        BY <1>6, <3>1, <3>2
    <2>2. UNCHANGED <<heard, count, reading, shares, dpc, front_end_count>>
      BY <1>6 DEF Press, Search, vars
    <2>3. QED
      BY <1>0, <2>1, <2>2, NothingAdded
  <1>7. CASE ShowCount
    <2>1. Reaped' = Reaped /\ Launched \subseteq Launched'
      BY <1>7 DEF ShowCount, Reaped, Launched
    <2>2. /\ UNCHANGED <<heard, count, reading, shares, dpc>>
          /\ \/ dpc = "exited" /\ front_end_count' = <<count>>
             \/ front_end_count' = <<Garbage>>
      BY <1>7 DEF ShowCount
    <2>3. QED
      BY <1>0, <2>1, <2>2, NothingAdded
  <1>8. QED
    BY <1>1, <1>2, <1>3, <1>4, <1>5, <1>6, <1>7 DEF Next, HandleSigchild

\* front_end shows the number of matches when every worker's number was heard and
\* no share is empty, whatever has gone astray: however the handlers interrupt
\* main and each other, no number is added twice and none of another share
\* (first_ex_ex_4.c 64-98, 456-491, 509, 547-554).
THEOREM ShownIsTheWhole == Spec => []ShownIsWhole
  <1>1. CountInv => ShownIsWhole
    <2> SUFFICES ASSUME CountInv, front_end_count \notin {<<>>, <<Garbage>>},
                        \A w \in Launched : w \in heard /\ ShareOf(w) # {}
                 PROVE  front_end_count = <<FileSize>>
      BY DEF ShownIsWhole
    <2>1. TypeOK /\ EndsOK /\ FullTile /\ AddedOK
      BY DEF CountInv, TileInv, TypeInv
    <2>2. dpc = "exited" /\ front_end_count = <<count>> /\ count # Garbage
      BY <2>1 DEF AddedOK
    <2>3. heard \subseteq Launched
      BY <2>1 DEF AddedOK, Reaped, Launched
    <2>4. count = Cardinality(Covered)
      BY <2>1, <2>2, <2>3 DEF AddedOK, Beyond
    <2>5. HandedOut = FileSize
      BY <2>1, <2>2 DEF EndsOK, HandedOut, Beyond
    <2>6. Bytes \subseteq Covered
      <3>1. SUFFICES ASSUME NEW p \in Bytes PROVE p \in Covered
        OBVIOUS
      <3>2. p < HandedOut
        BY <2>5, FileSizeAssumption DEF Bytes
      <3>3. \E w \in Launched : p \in ShareOf(w)
        BY <2>1, <2>2, <3>2 DEF FullTile, Tiled, Beyond
      <3>4. QED
        BY <3>3 DEF Covered
    <2>7. Covered = Bytes
      BY <2>6, CoveredFinite
    <2>8. Cardinality(Bytes) = FileSize
      BY FS_Interval, FileSizeAssumption DEF Bytes
    <2>9. QED
      BY <2>2, <2>4, <2>7, <2>8
  <1>2. QED
    BY <1>1, AddedInit, CountStep, PTL DEF Spec
=============================================================================
