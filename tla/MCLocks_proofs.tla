---------------------------- MODULE MCLocks_proofs ----------------------------
(***************************************************************************)
(* The three programs whose threads wait for one another.  First mutex4.c: *)
(* its lock order excludes a cycle of waiting threads, for every number of *)
(* buckets, keys and swap threads.  Then mutex8.c: no getter sleeps through*)
(* the put it waits for, for every number of getters, putters, keys and    *)
(* wakeups that nobody sent.  Then mutex7.c: under any number of puts,     *)
(* threads, keys and buckets no key is twice in its chain, the last put    *)
(* wins, and nobody overtakes.  Last the three programs together.          *)
(***************************************************************************)
EXTENDS MCLocks, SequenceTheorems, WellFoundedInduction, TLAPS

USE SwapAssumption

\* What the invariant says of one thread: its buckets exist, and are ordered.
LEMMA Buckets ==
  ASSUME IInv, NEW t \in Thread, pc[t] # "done"
  PROVE  /\ i[t] \in Nat /\ i[t] < NKEYS - 1
         /\ b1(t) \in BucketNo /\ b2(t) \in BucketNo
         /\ Lower(t) \in BucketNo /\ Higher(t) \in BucketNo /\ Lower(t) <= Higher(t)
         /\ b1(t) # b2(t) => Lower(t) < Higher(t)
<1>1. i[t] \in 0 .. NKEYS /\ i[t] < NKEYS - 1 /\ keys \in [Index -> KeySpace]
  BY DEF IInv, TypeOK, LoopInv
<1>2. i[t] \in Index /\ i[t] + 1 \in Index
  BY <1>1 DEF Index
<1>3. keys[i[t]] \in Nat /\ keys[i[t] + 1] \in Nat
  BY <1>1, <1>2
<1>4. b1(t) \in BucketNo /\ b2(t) \in BucketNo
  BY <1>3 DEF b1, b2, Bucket, BucketNo
<1> QED BY <1>1, <1>4 DEF InOrder, Lower, Higher, BucketNo

\* The first state satisfies the invariant.
LEMMA InitInv ==
  ASSUME Init
  PROVE  IInv
<1>1. TypeOK
  BY DEF Init, TypeOK, SwapLoop, Label
<1>2. LoopInv /\ OwnInv /\ MainInv
  <2>1. \A t \in Thread : pc[t] \in {"lower", "done"} /\ (pc[t] = "lower" => i[t] < NKEYS - 1)
    BY DEF Init, SwapLoop
  <2>2. \A t \in Thread, bucket \in BucketNo : locks[bucket] # t
    BY DEF Init, Thread, None
  <2> QED BY <2>1, <2>2 DEF Init, LoopInv, OwnInv, MainInv
<1> QED BY <1>1, <1>2 DEF IInv

\* A step of thread t leaves the buckets of each thread but t alone, and t's own
\* while its counter stands.
LEMMA Frame ==
  ASSUME NEW t \in Thread, swap_values(t), IInv
  PROVE  /\ UNCHANGED <<keys, main>>
         /\ \A u \in Thread \ {t} : /\ pc'[u] = pc[u] /\ i'[u] = i[u] /\ Lower(u)' = Lower(u)
                                   /\ Higher(u)' = Higher(u) /\ b1(u)' = b1(u) /\ b2(u)' = b2(u)
         /\ i' = i => Lower(t)' = Lower(t) /\ Higher(t)' = Higher(t) /\ b1(t)' = b1(t) /\ b2(t)' = b2(t)
<1>1. UNCHANGED <<keys, main>>
  BY DEF swap_values, LockLower, LockHigher, UnlockHigher, UnlockLower
<1>2. \A u \in Thread \ {t} : pc'[u] = pc[u] /\ i'[u] = i[u]
  BY DEF swap_values, LockLower, LockHigher, UnlockHigher, UnlockLower, Goto, IInv, TypeOK
<1> QED BY <1>1, <1>2 DEF InOrder, Lower, Higher, b1, b2

\* What every step of a thread keeps of the types.
LEMMA StepTypes ==
  ASSUME IInv, NEW t \in Thread, swap_values(t)
  PROVE  TypeOK'
<1>1. pc[t] # "done"
  BY DEF swap_values, LockLower, LockHigher, UnlockHigher, UnlockLower, Goto
<1>2. Lower(t) \in BucketNo /\ Higher(t) \in BucketNo /\ i[t] \in Nat /\ i[t] < NKEYS - 1
  BY <1>1, Buckets
<1>3. locks' \in [BucketNo -> Thread \cup {None}]
  BY <1>2 DEF swap_values, LockLower, LockHigher, UnlockHigher, UnlockLower,
              Acquire, Release, IInv, TypeOK
<1>4. pc' \in [Thread -> Label]
  BY DEF swap_values, LockLower, LockHigher, UnlockHigher, UnlockLower,
         Goto, SwapLoop, Label, IInv, TypeOK
<1>5. i' \in [Thread -> 0 .. NKEYS]
  BY <1>2 DEF swap_values, LockLower, LockHigher, UnlockHigher, UnlockLower, IInv, TypeOK
<1> QED BY <1>3, <1>4, <1>5, Frame DEF IInv, TypeOK

\* Every step of a thread keeps what it knows of its own buckets.
LEMMA StepLoop ==
  ASSUME IInv, NEW t \in Thread, swap_values(t)
  PROVE  LoopInv' /\ MainInv'
<1>1. pc[t] # "done" /\ \A u \in Thread \ {t} : pc'[u] = pc[u]
  BY Frame DEF swap_values, LockLower, LockHigher, UnlockHigher, UnlockLower, Goto
<1>2. i[t] \in Nat /\ i[t] < NKEYS - 1
  BY <1>1, Buckets
<1>3. i'[t] < NKEYS - 1 \/ pc'[t] = "done"
  BY <1>2 DEF swap_values, LockLower, LockHigher, UnlockHigher, UnlockLower,
              Goto, SwapLoop, IInv, TypeOK
<1>4. pc'[t] \in {"higher", "swap"} => b1(t)' # b2(t)'
  <2>1. pc'[t] \in {"higher", "swap"} => i' = i /\ b1(t) # b2(t)
    BY DEF swap_values, LockLower, LockHigher, UnlockHigher, UnlockLower,
           Goto, SwapLoop, IInv, TypeOK, LoopInv
  <2> QED BY <2>1, Frame
<1>5. LoopInv'
  <2> SUFFICES ASSUME NEW u \in Thread
               PROVE  /\ i'[u] < NKEYS - 1 \/ pc'[u] = "done"
                      /\ pc'[u] \in {"higher", "swap"} => b1(u)' # b2(u)'
    BY DEF LoopInv
  <2>1. CASE u = t
    BY <1>3, <1>4, <2>1
  <2>2. CASE u # t
    BY <2>2, Frame DEF IInv, LoopInv
  <2> QED BY <2>1, <2>2
<1>6. MainInv'
  BY <1>1, Frame DEF IInv, MainInv
<1> QED BY <1>5, <1>6

\* What a thread owns at each place.
Owned(t) == (IF pc[t] \in {"higher", "swap", "unlock"} THEN {Lower(t)} ELSE {})
              \cup (IF pc[t] = "swap" THEN {Higher(t)} ELSE {})

\* Every step of a thread keeps the record of who owns which bucket.
LEMMA StepOwn ==
  ASSUME IInv, NEW t \in Thread, swap_values(t)
  PROVE  OwnInv'
<1>0. /\ locks \in [BucketNo -> Thread \cup {None}] /\ pc \in [Thread -> Label]
      /\ i \in [Thread -> 0 .. NKEYS] /\ None \notin Thread
      /\ \A u \in Thread, bucket \in BucketNo : locks[bucket] = u <=> bucket \in Owned(u)
  BY DEF IInv, TypeOK, OwnInv, Owned, None, Thread
<1>1. pc[t] # "done"
  BY DEF swap_values, LockLower, LockHigher, UnlockHigher, UnlockLower, Goto
<1>2. /\ Lower(t) \in BucketNo /\ Higher(t) \in BucketNo
      /\ b1(t) = b2(t) => Lower(t) = Higher(t)
      /\ b1(t) # b2(t) => Lower(t) # Higher(t)
  BY <1>1, Buckets DEF InOrder, Lower, Higher, BucketNo
<1>3. \A u \in Thread \ {t} : Owned(u)' = Owned(u)
  BY Frame DEF Owned
<1>4. ASSUME NEW bucket \in BucketNo, locks[bucket] = None, locks' = [locks EXCEPT ![bucket] = t],
             Owned(t)' = Owned(t) \cup {bucket}
      PROVE  \A u \in Thread, k \in BucketNo : locks'[k] = u <=> k \in Owned(u)'
  BY <1>0, <1>3, <1>4
<1>5. ASSUME NEW bucket \in BucketNo, locks[bucket] = t, locks' = [locks EXCEPT ![bucket] = None],
             Owned(t)' = Owned(t) \ {bucket}
      PROVE  \A u \in Thread, k \in BucketNo : locks'[k] = u <=> k \in Owned(u)'
  BY <1>0, <1>3, <1>5
<1>6. CASE LockLower(t)
  <2>1. locks[Lower(t)] = None /\ locks' = [locks EXCEPT ![Lower(t)] = t] /\ i' = i
    BY <1>6 DEF LockLower, Acquire
  <2>2. pc[t] = "lower" /\ pc'[t] \in {"unlock", "higher"}
    BY <1>0, <1>6 DEF LockLower, Goto
  <2>3. Owned(t)' = Owned(t) \cup {Lower(t)}
    BY <2>1, <2>2, Frame DEF Owned
  <2> QED BY <1>2, <1>4, <2>1, <2>3 DEF OwnInv, Owned
<1>7. CASE LockHigher(t)
  <2>1. locks[Higher(t)] = None /\ locks' = [locks EXCEPT ![Higher(t)] = t] /\ i' = i
    BY <1>7 DEF LockHigher, Acquire
  <2>2. pc[t] = "higher" /\ pc'[t] = "swap"
    BY <1>0, <1>7 DEF LockHigher, Goto
  <2>3. Owned(t)' = Owned(t) \cup {Higher(t)}
    BY <2>1, <2>2, Frame DEF Owned
  <2> QED BY <1>2, <1>4, <2>1, <2>3 DEF OwnInv, Owned
<1>8. CASE UnlockHigher(t)
  <2>1. locks' = [locks EXCEPT ![Higher(t)] = None] /\ i' = i
    BY <1>8 DEF UnlockHigher, Release
  <2>2. pc[t] = "swap" /\ pc'[t] = "unlock"
    BY <1>0, <1>8 DEF UnlockHigher, Goto
  <2>3. Higher(t) # Lower(t)
    BY <1>2, <2>2 DEF IInv, LoopInv
  <2>4. Owned(t)' = Owned(t) \ {Higher(t)}
    BY <2>1, <2>2, <2>3, Frame DEF Owned
  <2>5. locks[Higher(t)] = t
    BY <1>0, <1>2, <2>2 DEF Owned
  <2> QED BY <1>2, <1>5, <2>1, <2>4, <2>5 DEF OwnInv, Owned
<1>9. CASE UnlockLower(t)
  <2>1. locks' = [locks EXCEPT ![Lower(t)] = None]
    BY <1>9 DEF UnlockLower, Release
  <2>2. pc[t] = "unlock" /\ pc'[t] \in {"lower", "done"}
    BY <1>0, <1>9 DEF UnlockLower, Goto, SwapLoop
  <2>3. Owned(t)' = Owned(t) \ {Lower(t)}
    BY <2>2 DEF Owned
  <2>4. locks[Lower(t)] = t
    BY <1>0, <1>2, <2>2 DEF Owned
  <2> QED BY <1>2, <1>5, <2>1, <2>3, <2>4 DEF OwnInv, Owned
<1> QED BY <1>6, <1>7, <1>8, <1>9 DEF swap_values

\* Every step keeps the invariant.
LEMMA Step ==
  ASSUME IInv, [Next]_vars
  PROVE  IInv'
<1>1. ASSUME NEW t \in Thread, swap_values(t) PROVE IInv'
  BY <1>1, StepTypes, StepLoop, StepOwn DEF IInv
<1>2. CASE UNCHANGED <<keys, locks, pc, i>> /\ (UNCHANGED main \/ Join)
  <2>1. UNCHANGED <<keys, locks, pc, i>> /\ main' \in {"join", "end"}
    BY <1>2 DEF Join, IInv, TypeOK
  <2>2. LoopInv' /\ OwnInv'
    BY <2>1 DEF IInv, LoopInv, OwnInv, InOrder, Lower, Higher, b1, b2
  <2>3. MainInv'
    BY <1>2 DEF Join, IInv, MainInv
  <2> QED BY <2>1, <2>2, <2>3 DEF IInv, TypeOK
<1>3. CASE Join \/ Ended \/ UNCHANGED vars
  BY <1>2, <1>3 DEF Join, Ended, vars
<1> QED BY <1>1, <1>3 DEF Next

\* The invariant holds in every state of mutex4.c.
THEOREM Invariance == Spec => []IInv
<1>1. Init => IInv
  BY InitInv
<1>2. IInv /\ [Next]_vars => IInv'
  BY Step
<1> QED BY <1>1, <1>2, PTL DEF Spec

\* The variables keep their types.
THEOREM TypeCorrect == Spec => []TypeOK
<1>1. IInv => TypeOK
  BY DEF IInv
<1> QED BY <1>1, Invariance, PTL

\* A thread manipulates two buckets only when it owns both.
THEOREM Ownership == Spec => []BothLocked
<1>1. IInv => BothLocked
  <2> SUFFICES ASSUME IInv, NEW t \in Thread, pc[t] = "swap"
               PROVE  locks[b1(t)] = t /\ locks[b2(t)] = t
    BY DEF BothLocked
  <2>1. Lower(t) \in BucketNo /\ Higher(t) \in BucketNo
    BY Buckets
  <2>2. locks[Lower(t)] = t /\ locks[Higher(t)] = t
    BY <2>1 DEF IInv, OwnInv
  <2> QED BY <2>2 DEF InOrder, Lower, Higher
<1> QED BY <1>1, Invariance, PTL

\* A thread that waits owns only lower buckets than the one it waits for.
LEMMA Upwards ==
  ASSUME IInv
  PROVE  WaitsUpwards
<1> SUFFICES ASSUME NEW t \in Thread, NEW wanted \in WaitsFor(t), NEW owned \in BucketNo, locks[owned] = t
             PROVE  owned < wanted
  BY DEF WaitsUpwards
<1>1. pc[t] = "higher" /\ wanted = Higher(t) /\ owned = Lower(t)
  BY DEF WaitsFor, IInv, OwnInv
<1>2. b1(t) # b2(t)
  BY <1>1 DEF IInv, LoopInv
<1> QED BY <1>1, <1>2, Buckets

\* The lock order is respected, however the threads interleave.
THEOREM Ordered == Spec => []WaitsUpwards
<1>1. IInv => WaitsUpwards
  BY Upwards
<1> QED BY <1>1, Invariance, PTL

\* Two threads that waited for each other would each wait for the higher bucket.
LEMMA Apart ==
  ASSUME IInv
  PROVE  NoDeadlyEmbrace
<1> SUFFICES ASSUME NEW t \in Thread, NEW u \in Thread, NEW wt \in WaitsFor(t), NEW wu \in WaitsFor(u),
                    locks[wt] = u, locks[wu] = t
             PROVE  FALSE
  BY DEF NoDeadlyEmbrace
<1>1. wt \in BucketNo /\ wu \in BucketNo
  BY Buckets DEF WaitsFor
<1>2. wu < wt /\ wt < wu
  BY <1>1, Upwards DEF WaitsUpwards
<1> QED BY <1>1, <1>2 DEF BucketNo

\* No two threads wait for each other.
THEOREM NoEmbrace == Spec => []NoDeadlyEmbrace
<1>1. IInv => NoDeadlyEmbrace
  BY Apart
<1> QED BY <1>1, Invariance, PTL

\* In no circle of threads, however long, does each wait for a lock of the next one.
NoCircle ==
  \A n \in Nat : \A t \in [0 .. n -> Thread], wanted \in [0 .. n -> BucketNo] :
    ~(/\ \A k \in 0 .. n : wanted[k] \in WaitsFor(t[k])
      /\ \A k \in 0 .. n - 1 : locks[wanted[k]] = t[k + 1]
      /\ locks[wanted[n]] = t[0])

LessThan == {ij \in Nat \X Nat : ij[1] < ij[2]}

\* A bucket number that grows from each thread to the next is smallest at the first.
LEMMA Growing ==
  ASSUME NEW n \in Nat, NEW w \in [0 .. n -> BucketNo], \A k \in 0 .. n - 1 : w[k] < w[k + 1]
  PROVE  w[0] <= w[n]
<1> DEFINE T == {k \in 0 .. n : w[k] < w[0]}
<1>1. OpToRel(<, Nat) = LessThan
  BY DEF OpToRel, LessThan
<1>2. IsWellFoundedOn(LessThan, Nat)
  BY NatLessThanWellFounded, <1>1
<1>3. T \subseteq Nat
  OBVIOUS
<1>4. \A k \in 0 .. n : w[k] \in Int
  BY DEF BucketNo
<1>5. CASE T = {}
  BY <1>4, <1>5
<1>6. CASE T # {}
  <2>1. PICK k \in T : \A j \in T : <<j, k>> \notin LessThan
    <3> HIDE DEF T
    <3> QED BY <1>2, <1>3, <1>6, WFMin
  <2>2. k \in 0 .. n /\ w[k] < w[0]
    BY <2>1
  <2>3. k # 0 /\ k - 1 \in 0 .. n - 1 /\ k - 1 \in 0 .. n /\ (k - 1) + 1 = k
    BY <1>4, <2>2
  <2>4. w[k - 1] < w[k]
    BY <2>3
  <2>5. k - 1 \in T
    BY <1>4, <2>2, <2>3, <2>4
  <2>6. <<k - 1, k>> \in LessThan
    BY <2>2, <2>3 DEF LessThan
  <2> QED BY <2>1, <2>5, <2>6
<1> QED BY <1>5, <1>6

\* mutex4.c cannot deadlock: the circle would have to rise from each thread to the next,
\* and from the last to the first.
THEOREM NoDeadlock == Spec => []NoCircle
<1>1. ASSUME IInv
      PROVE  NoCircle
  <2> SUFFICES ASSUME NEW n \in Nat, NEW t \in [0 .. n -> Thread], NEW wanted \in [0 .. n -> BucketNo],
                      \A k \in 0 .. n : wanted[k] \in WaitsFor(t[k]),
                      \A k \in 0 .. n - 1 : locks[wanted[k]] = t[k + 1],
                      locks[wanted[n]] = t[0]
               PROVE  FALSE
    BY DEF NoCircle
  <2>1. \A u \in Thread : \A wu \in WaitsFor(u) : \A owned \in BucketNo : locks[owned] = u => owned < wu
    BY <1>1, Upwards DEF WaitsUpwards
  <2>2. ASSUME NEW k \in 0 .. n - 1
        PROVE  wanted[k] < wanted[k + 1]
    <3>1. k \in 0 .. n /\ k + 1 \in 0 .. n
      OBVIOUS
    <3> QED BY <2>1, <3>1
  <2>3. 0 \in 0 .. n /\ n \in 0 .. n
    OBVIOUS
  <2>4. wanted[n] < wanted[0]
    BY <2>1, <2>3
  <2>5. wanted[0] <= wanted[n]
    BY <2>2, Growing
  <2>6. wanted[0] \in Int /\ wanted[n] \in Int
    BY <2>3 DEF BucketNo
  <2> QED BY <2>4, <2>5, <2>6
<1> QED BY <1>1, Invariance, PTL

\* The locks are idle when main destroys them.
THEOREM SafeDestroy == Spec => []DestroyedIdle
<1>1. IInv => DestroyedIdle
  BY DEF IInv, TypeOK, OwnInv, MainInv, DestroyedIdle
<1> QED BY <1>1, Invariance, PTL
-----------------------------------------------------------------------------
(* mutex8.c: no getter sleeps through the put it waits for. *)

USE WaitsAssumption DEF Waits!CondAssumption

\* A key of the program has a bucket.
LEMMA WaitBucket ==
  ASSUME Waits!TypeOK, NEW t \in Waits!Thread
  PROVE  ckey[t] \in Nat /\ Waits!Mine(t) \in Waits!BucketNo
<1>1. ckey[t] \in Nat
  BY DEF Waits!TypeOK
<1> QED BY <1>1 DEF Waits!Mine, Waits!Bucket, Waits!BucketNo

\* Two threads between lock and unlock have different buckets.
LEMMA OneInside ==
  ASSUME Waits!WaitInv, NEW t \in Waits!Thread, NEW u \in Waits!Thread,
         cpc[t] \in Waits!Critical, cpc[u] \in Waits!Critical, Waits!Mine(t) = Waits!Mine(u)
  PROVE  t = u
BY DEF Waits!WaitInv, Waits!OwnInv

\* The first state satisfies the invariant.
LEMMA WaitInit ==
  ASSUME Waits!Init
  PROVE  Waits!WaitInv
BY DEF Waits!Init, Waits!WaitInv, Waits!TypeOK, Waits!OwnInv, Waits!NothingMissed, Waits!NoLostWakeup, Waits!ReturnsFound, Waits!Critical, Waits!Thread

\* Taking the lock keeps the invariant: the bucket was nobody's, and the thread
\* knows nothing yet.
LEMMA WaitLock ==
  ASSUME Waits!WaitInv, NEW t \in Waits!Thread, Waits!Lock(t)
  PROVE  Waits!WaitInv'
<1> USE DEF Waits!WaitInv
<1>1. Waits!Mine(t) \in Waits!BucketNo
  BY WaitBucket
<1>2. /\ cpc' = [cpc EXCEPT ![t] = IF t \in Getter THEN "walk" ELSE "store"] /\ cpc[t] = "lock"
      /\ clocks[Waits!Mine(t)] = Waits!Nobody /\ clocks' = [clocks EXCEPT ![Waits!Mine(t)] = t]
      /\ UNCHANGED <<ckey, ctable, cmain, spurious>>
  BY DEF Waits!Lock, Waits!Goto
<1>3. Waits!TypeOK'
  BY <1>1, <1>2 DEF Waits!TypeOK
<1>4. Waits!OwnInv'
  <2> SUFFICES ASSUME NEW u \in Waits!Thread, cpc'[u] \in Waits!Critical
               PROVE  clocks'[Waits!Mine(u)] = u
    BY <1>2 DEF Waits!OwnInv, Waits!Mine
  <2>1. CASE u = t
    BY <2>1, <1>1, <1>2 DEF Waits!TypeOK
  <2>2. CASE u # t
    <3>1. clocks[Waits!Mine(u)] = u
      BY <2>2, <1>2 DEF Waits!OwnInv, Waits!TypeOK
    <3>2. Waits!Mine(u) # Waits!Mine(t)
      BY <3>1, <1>2 DEF Waits!Nobody, Waits!Thread
    <3> QED BY <3>1, <3>2, <1>1, <1>2 DEF Waits!TypeOK
  <2> QED BY <2>1, <2>2
<1>5. Waits!NothingMissed' /\ Waits!ReturnsFound'
  BY <1>2 DEF Waits!NothingMissed, Waits!ReturnsFound, Waits!TypeOK, Waits!Thread
<1>6. Waits!NoLostWakeup'
  BY <1>2 DEF Waits!NoLostWakeup, Waits!TypeOK, Waits!Thread, Waits!Mine
<1> QED BY <1>3, <1>4, <1>5, <1>6

\* Searching, storing and broadcasting leave the locks alone, and who holds one.
LEMMA InsideKeeps ==
  ASSUME Waits!WaitInv, NEW t \in Waits!Thread, cpc[t] \in Waits!Critical, UNCHANGED <<ckey, clocks>>,
         \A u \in Waits!Thread : cpc'[u] \in Waits!Critical => cpc[u] \in Waits!Critical
  PROVE  Waits!OwnInv'
BY DEF Waits!WaitInv, Waits!OwnInv, Waits!Mine

\* Nobody else of the bucket is about to wait while a put stores its key.
LEMMA StoreKeeps ==
  ASSUME Waits!WaitInv, NEW t \in Putter, Waits!Store(t)
  PROVE  Waits!WaitInv'
<1> USE DEF Waits!WaitInv
<1>1. t \in Waits!Thread /\ ckey[t] \in KeySpace
  BY DEF Waits!Thread, Waits!TypeOK
<1>2. /\ cpc' = [cpc EXCEPT ![t] = "broadcast"] /\ cpc[t] = "store" /\ ctable' = ctable \cup {ckey[t]}
      /\ UNCHANGED <<ckey, clocks, cmain, spurious>>
  BY DEF Waits!Store, Waits!Goto
<1>3. \A u \in Waits!Thread : u # t => cpc'[u] = cpc[u]
  BY <1>2 DEF Waits!TypeOK
<1>4. cpc'[t] = "broadcast"
  BY <1>1, <1>2 DEF Waits!TypeOK
<1>5. Waits!TypeOK'
  BY <1>1, <1>2 DEF Waits!TypeOK
<1>6. Waits!OwnInv'
  BY <1>1, <1>2, <1>3, <1>4, InsideKeeps DEF Waits!Critical
<1>7. Waits!NothingMissed'
  <2> SUFFICES ASSUME NEW g \in Getter, cpc'[g] = "wait"
               PROVE  ckey[g] \notin ctable \cup {ckey[t]}
    BY <1>2 DEF Waits!NothingMissed
  <2>1. g \in Waits!Thread /\ g # t /\ cpc[g] = "wait"
    BY <1>1, <1>3 DEF Waits!Thread
  <2>2. Waits!Mine(g) # Waits!Mine(t)
    BY <2>1, <1>1, <1>2, OneInside DEF Waits!Critical
  <2> QED BY <2>1, <2>2 DEF Waits!NothingMissed, Waits!Mine
<1>8. Waits!NoLostWakeup'
  <2> SUFFICES ASSUME NEW g \in Getter, cpc'[g] = "asleep", ckey[g] \in ctable \cup {ckey[t]}
               PROVE  \E p \in Putter : cpc'[p] = "broadcast" /\ Waits!Mine(p) = Waits!Mine(g)
    BY <1>2 DEF Waits!NoLostWakeup, Waits!Mine
  <2>1. CASE ckey[g] = ckey[t]
    BY <2>1, <1>4 DEF Waits!Mine
  <2>2. CASE ckey[g] \in ctable
    <3>1. cpc[g] = "asleep"
      BY <1>1, <1>3 DEF Waits!Thread
    <3>2. PICK p \in Putter : cpc[p] = "broadcast" /\ Waits!Mine(p) = Waits!Mine(g)
      BY <2>2, <3>1 DEF Waits!NoLostWakeup
    <3> QED BY <3>2, <1>2, <1>3 DEF Waits!Thread
  <2> QED BY <2>1, <2>2
<1>9. Waits!ReturnsFound'
  BY <1>1, <1>2, <1>3 DEF Waits!ReturnsFound, Waits!Thread
<1> QED BY <1>5, <1>6, <1>7, <1>8, <1>9

\* A broadcast leaves no sleeper of its bucket; the putters of other buckets have
\* their own to do.
LEMMA BroadcastKeeps ==
  ASSUME Waits!WaitInv, NEW t \in Putter, Waits!Broadcast(t)
  PROVE  Waits!WaitInv'
<1> USE DEF Waits!WaitInv
<1>1. t \in Waits!Thread /\ cpc[t] = "broadcast" /\ UNCHANGED <<ckey, ctable, clocks, cmain, spurious>>
  BY DEF Waits!Thread, Waits!Broadcast
<1>2. cpc' = [u \in Waits!Thread |-> IF u = t THEN "unlock" ELSE IF u \in Waits!Asleep(Waits!Mine(t)) THEN "lock" ELSE cpc[u]]
  BY DEF Waits!Broadcast
<1>3. cpc'[t] = "unlock" /\ \A u \in Waits!Thread : u # t => cpc'[u] = "lock" \/ cpc'[u] = cpc[u]
  BY <1>1, <1>2
<1>4. \A g \in Getter : cpc'[g] = "asleep" => cpc[g] = "asleep" /\ Waits!Mine(g) # Waits!Mine(t)
  BY <1>1, <1>2 DEF Waits!Thread, Waits!Asleep
<1>5. Waits!TypeOK'
  BY <1>1, <1>2 DEF Waits!TypeOK
<1>6. Waits!OwnInv'
  BY <1>1, <1>3, InsideKeeps DEF Waits!Critical
<1>7. Waits!NothingMissed' /\ Waits!ReturnsFound'
  BY <1>1, <1>3 DEF Waits!NothingMissed, Waits!ReturnsFound, Waits!Thread
<1>8. Waits!NoLostWakeup'
  <2> SUFFICES ASSUME NEW g \in Getter, cpc'[g] = "asleep", ckey[g] \in ctable
               PROVE  \E p \in Putter : cpc'[p] = "broadcast" /\ Waits!Mine(p) = Waits!Mine(g)
    BY <1>1 DEF Waits!NoLostWakeup, Waits!Mine
  <2>1. PICK p \in Putter : cpc[p] = "broadcast" /\ Waits!Mine(p) = Waits!Mine(g)
    BY <1>4 DEF Waits!NoLostWakeup
  <2>2. p # t /\ p \in Waits!Thread
    BY <2>1, <1>4 DEF Waits!Thread
  <2>3. cpc'[p] = "broadcast"
    BY <2>1, <2>2, <1>2 DEF Waits!Asleep, Waits!Thread
  <2> QED BY <2>1, <2>3
<1> QED BY <1>5, <1>6, <1>7, <1>8

\* A getter goes to wait only if its key is missing.
LEMMA WalkKeeps ==
  ASSUME Waits!WaitInv, NEW g \in Getter, Waits!Walk(g)
  PROVE  Waits!WaitInv'
<1> USE DEF Waits!WaitInv
<1>1. /\ g \in Waits!Thread /\ cpc[g] = "walk" /\ UNCHANGED <<ckey, ctable, clocks, cmain, spurious>>
      /\ cpc' = [cpc EXCEPT ![g] = IF ckey[g] \in ctable THEN "unlock" ELSE "wait"]
  BY DEF Waits!Thread, Waits!Walk, Waits!Goto
<1>2. Waits!TypeOK'
  BY <1>1 DEF Waits!TypeOK
<1>3. Waits!OwnInv'
  BY <1>1, InsideKeeps DEF Waits!Critical, Waits!TypeOK
<1>4. Waits!NothingMissed' /\ Waits!ReturnsFound'
  BY <1>1 DEF Waits!NothingMissed, Waits!ReturnsFound, Waits!Thread, Waits!TypeOK
<1>5. Waits!NoLostWakeup'
  BY <1>1 DEF Waits!NoLostWakeup, Waits!Thread, Waits!TypeOK, Waits!Mine
<1> QED BY <1>2, <1>3, <1>4, <1>5

\* What gives a lock back leaves the other holders theirs.
LEMMA ReleaseOwn ==
  ASSUME Waits!WaitInv, NEW t \in Waits!Thread, cpc[t] \in Waits!Critical, UNCHANGED ckey,
         clocks' = [clocks EXCEPT ![Waits!Mine(t)] = Waits!Nobody], cpc'[t] \notin Waits!Critical,
         \A u \in Waits!Thread : u # t => cpc'[u] = cpc[u]
  PROVE  Waits!OwnInv'
<1> SUFFICES ASSUME NEW u \in Waits!Thread, cpc'[u] \in Waits!Critical
             PROVE  clocks'[Waits!Mine(u)] = u
  BY DEF Waits!OwnInv, Waits!Mine
<1>1. u # t /\ cpc[u] \in Waits!Critical
  OBVIOUS
<1>2. Waits!Mine(u) # Waits!Mine(t) /\ Waits!Mine(u) \in Waits!BucketNo
  BY <1>1, OneInside, WaitBucket DEF Waits!WaitInv
<1> QED BY <1>1, <1>2 DEF Waits!WaitInv, Waits!OwnInv, Waits!TypeOK

\* A getter falls asleep knowing that its key is missing.
LEMMA CondWaitKeeps ==
  ASSUME Waits!WaitInv, NEW g \in Getter, Waits!CondWait(g)
  PROVE  Waits!WaitInv'
<1> USE DEF Waits!WaitInv
<1>1. /\ g \in Waits!Thread /\ cpc[g] = "wait" /\ UNCHANGED <<ckey, ctable, cmain, spurious>>
      /\ cpc' = [cpc EXCEPT ![g] = "asleep"] /\ clocks' = [clocks EXCEPT ![Waits!Mine(g)] = Waits!Nobody]
  BY DEF Waits!Thread, Waits!CondWait, Waits!Goto
<1>2. Waits!TypeOK'
  BY <1>1 DEF Waits!TypeOK
<1>3. Waits!OwnInv'
  BY <1>1, ReleaseOwn DEF Waits!Critical, Waits!TypeOK
<1>4. Waits!NothingMissed' /\ Waits!ReturnsFound'
  BY <1>1 DEF Waits!NothingMissed, Waits!ReturnsFound, Waits!Thread, Waits!TypeOK
<1>5. Waits!NoLostWakeup'
  BY <1>1 DEF Waits!NoLostWakeup, Waits!NothingMissed, Waits!Thread, Waits!TypeOK, Waits!Mine
<1> QED BY <1>2, <1>3, <1>4, <1>5

\* The same of the last unlock of a call.
LEMMA UnlockKeeps ==
  ASSUME Waits!WaitInv, NEW t \in Waits!Thread, Waits!Unlock(t)
  PROVE  Waits!WaitInv'
<1> USE DEF Waits!WaitInv
<1>1. /\ cpc[t] = "unlock" /\ UNCHANGED <<ckey, ctable, cmain, spurious>>
      /\ cpc' = [cpc EXCEPT ![t] = "done"] /\ clocks' = [clocks EXCEPT ![Waits!Mine(t)] = Waits!Nobody]
  BY DEF Waits!Unlock, Waits!Goto
<1>2. Waits!TypeOK'
  BY <1>1 DEF Waits!TypeOK
<1>3. Waits!OwnInv'
  BY <1>1, ReleaseOwn DEF Waits!Critical, Waits!TypeOK
<1>4. Waits!NothingMissed' /\ Waits!ReturnsFound'
  BY <1>1 DEF Waits!NothingMissed, Waits!ReturnsFound, Waits!Thread, Waits!TypeOK
<1>5. Waits!NoLostWakeup'
  BY <1>1 DEF Waits!NoLostWakeup, Waits!Thread, Waits!TypeOK, Waits!Mine
<1> QED BY <1>2, <1>3, <1>4, <1>5

\* A wakeup that nobody sent harms nobody: the getter locks and looks again.
LEMMA SpuriousKeeps ==
  ASSUME Waits!WaitInv, NEW g \in Getter, Waits!SpuriousWakeup(g)
  PROVE  Waits!WaitInv'
<1> USE DEF Waits!WaitInv
<1>1. /\ g \in Waits!Thread /\ cpc[g] = "asleep" /\ UNCHANGED <<ckey, ctable, clocks, cmain>>
      /\ cpc' = [cpc EXCEPT ![g] = "lock"] /\ spurious' \in 0 .. MaxSpurious
  BY DEF Waits!Thread, Waits!SpuriousWakeup, Waits!Goto, Waits!TypeOK
<1>2. Waits!TypeOK'
  BY <1>1 DEF Waits!TypeOK
<1>3. Waits!OwnInv'
  BY <1>1 DEF Waits!Critical, Waits!TypeOK, Waits!OwnInv, Waits!Mine
<1>4. Waits!NothingMissed' /\ Waits!ReturnsFound'
  BY <1>1 DEF Waits!NothingMissed, Waits!ReturnsFound, Waits!Thread, Waits!TypeOK
<1>5. Waits!NoLostWakeup'
  BY <1>1 DEF Waits!NoLostWakeup, Waits!Thread, Waits!TypeOK, Waits!Mine
<1> QED BY <1>2, <1>3, <1>4, <1>5

\* Every step keeps the invariant.
LEMMA WaitStep ==
  ASSUME Waits!WaitInv, [Waits!Next]_waitVars
  PROVE  Waits!WaitInv'
<1>1. CASE Waits!Join
  BY <1>1 DEF Waits!Join, Waits!WaitInv, Waits!TypeOK, Waits!OwnInv, Waits!NothingMissed, Waits!NoLostWakeup, Waits!ReturnsFound, Waits!Mine
<1>2. CASE Waits!Ended \/ UNCHANGED waitVars
  BY <1>2 DEF Waits!Ended, Waits!vars, waitVars, Waits!WaitInv, Waits!TypeOK, Waits!OwnInv, Waits!NothingMissed, Waits!NoLostWakeup, Waits!ReturnsFound, Waits!Mine
<1>3. ASSUME NEW t \in Putter, Waits!put(t)
      PROVE  Waits!WaitInv'
  BY <1>3, WaitLock, StoreKeeps, BroadcastKeeps, UnlockKeeps DEF Waits!put, Waits!Thread
<1>4. ASSUME NEW g \in Getter, Waits!get_wait(g) \/ Waits!SpuriousWakeup(g)
      PROVE  Waits!WaitInv'
  BY <1>4, WaitLock, WalkKeeps, CondWaitKeeps, UnlockKeeps, SpuriousKeeps DEF Waits!get_wait, Waits!Thread
<1> QED BY <1>1, <1>2, <1>3, <1>4 DEF Waits!Next
-----------------------------------------------------------------------------
(* mutex7.c. *)

USE CrabAssumption DEF Crab!CrabAssumption

\* What a step of t may do to the chains and locks that others rely on: chains grow only
\* at an end that t holds, keys stay, and only free locks and t's own change.
Grows ==
  \A b \in Crab!BucketNo : /\ Len(table[b]) <= Len(table'[b])
                      /\ \A n \in 1 .. Len(table[b]) : table'[b][n].key = table[b][n].key
GrowsAtOwn(t) ==
  \A b \in Crab!BucketNo : Len(table[b]) # Len(table'[b]) =>
    Len(table[b]) = 0 \/ table[b][Len(table[b])].node_lock = t
SparesNodes(t) ==
  \A b \in Crab!BucketNo : \A n \in 1 .. Len(table[b]) :
    table[b][n].node_lock \notin {Crab!Nobody, t} => table'[b][n].node_lock = table[b][n].node_lock
SparesBuckets(t) ==
  \A b \in Crab!BucketNo : bucket_locks[b] \notin {Crab!Nobody, t} => bucket_locks'[b] = bucket_locks[b]
Alone(t) ==
  \A u \in Caller \ {t} : hpc'[u] = hpc[u] /\ key'[u] = key[u] /\ value'[u] = value[u] /\ curr'[u] = curr[u]
Harmless(t) == Grows /\ GrowsAtOwn(t) /\ SparesNodes(t) /\ SparesBuckets(t) /\ Alone(t)

\* The nodes of every chain keep their keys and values.
SameNodes ==
  \A b \in Crab!BucketNo : /\ Len(table'[b]) = Len(table[b])
                      /\ \A n \in 1 .. Len(table[b]) : /\ table'[b][n].key = table[b][n].key
                                                       /\ table'[b][n].value = table[b][n].value

\* The bucket of a key.
LEMMA BucketOfKey ==
  ASSUME NEW k \in KeySpace
  PROVE  Crab!Bucket(k) \in Crab!BucketNo
BY DEF Crab!Bucket, Crab!BucketNo

\* The chain of a thread.
LEMMA Chain ==
  ASSUME Crab!TypeOK, NEW t \in Caller
  PROVE  /\ key[t] \in KeySpace /\ key[t] \in Nat /\ Crab!Mine(t) \in Crab!BucketNo
         /\ Crab!Nodes(t) \in Seq(Crab!Node) /\ Len(Crab!Nodes(t)) \in Nat /\ DOMAIN Crab!Nodes(t) = 1 .. Len(Crab!Nodes(t))
<1>1. key[t] \in KeySpace /\ key[t] \in Nat
  BY DEF Crab!TypeOK
<1>2. Crab!Mine(t) \in Crab!BucketNo
  BY <1>1 DEF Crab!Mine, Crab!Bucket, Crab!BucketNo
<1>3. Crab!Nodes(t) \in Seq(Crab!Node)
  BY <1>2 DEF Crab!Nodes, Crab!TypeOK
<1> QED BY <1>1, <1>2, <1>3, LenProperties

\* Every chain is a sequence of nodes.
LEMMA Chains ==
  ASSUME Crab!TypeOK, NEW b \in Crab!BucketNo
  PROVE  /\ table[b] \in Seq(Crab!Node) /\ Len(table[b]) \in Nat /\ DOMAIN table[b] = 1 .. Len(table[b])
         /\ \A n \in 1 .. Len(table[b]) : table[b][n] \in Crab!Node
<1>1. table[b] \in Seq(Crab!Node)
  BY DEF Crab!TypeOK
<1> QED BY <1>1, LenProperties, ElementOfSeq

\* The same after a step.
LEMMA ChainsAfter ==
  ASSUME Crab!TypeOK', NEW b \in Crab!BucketNo
  PROVE  /\ table'[b] \in Seq(Crab!Node) /\ Len(table'[b]) \in Nat /\ DOMAIN (table'[b]) = 1 .. Len(table'[b])
         /\ \A n \in 1 .. Len(table'[b]) : table'[b][n] \in Crab!Node
<1>1. table'[b] \in Seq(Crab!Node)
  BY DEF Crab!TypeOK, Crab!BucketNo, Crab!Node, Crab!Value
<1> QED BY <1>1, LenProperties, ElementOfSeq

\* A lock of a node changes nothing else.
LEMMA SetLockEffect ==
  ASSUME Crab!TypeOK, NEW t \in Caller, NEW n \in 1 .. Len(Crab!Nodes(t)),
         NEW who \in Caller \cup {Crab!Nobody}, Crab!SetLock(t, n, who)
  PROVE  /\ table' \in [Crab!BucketNo -> Seq(Crab!Node)] /\ SameNodes
         /\ \A b \in Crab!BucketNo : \A m \in 1 .. Len(table[b]) :
              table'[b][m].node_lock = IF b = Crab!Mine(t) /\ m = n THEN who ELSE table[b][m].node_lock
<1> DEFINE node == [Crab!Nodes(t)[n] EXCEPT !.node_lock = who]
           chain == [Crab!Nodes(t) EXCEPT ![n] = node]
<1>1. Crab!Mine(t) \in Crab!BucketNo /\ Crab!Nodes(t) \in Seq(Crab!Node)
  BY Chain
<1>2. Crab!Nodes(t)[n] \in Crab!Node
  BY <1>1, ElementOfSeq
<1>3. node \in Crab!Node /\ node.key = Crab!Nodes(t)[n].key /\ node.value = Crab!Nodes(t)[n].value /\ node.node_lock = who
  BY <1>2 DEF Crab!Node
<1>4. chain \in Seq(Crab!Node) /\ Len(chain) = Len(Crab!Nodes(t)) /\ \A m \in 1 .. Len(Crab!Nodes(t)) : chain[m] = IF m = n THEN node ELSE Crab!Nodes(t)[m]
  <2> HIDE DEF node
  <2> QED BY <1>1, <1>3, ExceptSeq
<1>5. table' = [table EXCEPT ![Crab!Mine(t)] = chain]
  BY DEF Crab!SetLock, Crab!SetNodes
<1> HIDE DEF chain, node
<1>6. table' \in [Crab!BucketNo -> Seq(Crab!Node)]
  BY <1>1, <1>4, <1>5 DEF Crab!TypeOK
<1>7. \A b \in Crab!BucketNo : table'[b] = IF b = Crab!Mine(t) THEN chain ELSE table[b]
  BY <1>5 DEF Crab!TypeOK
<1>8. SameNodes
  BY <1>3, <1>4, <1>7 DEF SameNodes, Crab!Nodes
<1>9. ASSUME NEW b \in Crab!BucketNo, NEW m \in 1 .. Len(table[b])
      PROVE  table'[b][m].node_lock = IF b = Crab!Mine(t) /\ m = n THEN who ELSE table[b][m].node_lock
  BY <1>3, <1>4, <1>7 DEF Crab!Nodes
<1> QED BY <1>6, <1>8, <1>9

\* What the other threads hold and know survives a harmless step.
LEMMA OthersKeep ==
  ASSUME Crab!IInv, Crab!TypeOK', NEW t \in Caller, NEW u \in Caller, u # t, Harmless(t)
  PROVE  Crab!Own(u)' /\ Crab!Seen(u)'
<1> USE DEF Crab!IInv, Crab!NoDuplicateKeys
<1>1. /\ hpc'[u] = hpc[u] /\ key'[u] = key[u] /\ curr'[u] = curr[u] /\ Crab!Mine(u)' = Crab!Mine(u)
      /\ Crab!Mine(u) \in Crab!BucketNo
  BY Chain DEF Harmless, Alone, Crab!Mine
<1>2. /\ Len(Crab!Nodes(u)) \in Nat /\ DOMAIN Crab!Nodes(u) = 1 .. Len(Crab!Nodes(u))
      /\ Len(Crab!Nodes(u)') \in Nat /\ DOMAIN (Crab!Nodes(u)') = 1 .. Len(Crab!Nodes(u)')
      /\ Crab!Nodes(u)' = table'[Crab!Mine(u)] /\ Crab!Nodes(u) = table[Crab!Mine(u)]
  BY <1>1, Chain, ChainsAfter DEF Crab!Nodes, Crab!Mine
<1>3. Len(Crab!Nodes(u)) <= Len(Crab!Nodes(u)') /\ \A n \in 1 .. Len(Crab!Nodes(u)) : Crab!Nodes(u)'[n].key = Crab!Nodes(u)[n].key
  BY <1>1, <1>2 DEF Harmless, Grows
<1>4. \A n \in 1 .. Len(Crab!Nodes(u)) : Crab!Nodes(u)[n].node_lock = u => Crab!Nodes(u)'[n].node_lock = u
  BY <1>1, <1>2 DEF Harmless, SparesNodes, Crab!Nobody
<1>5. curr[u] \in Nat
  BY DEF Crab!TypeOK
<1>6. Crab!Own(u) /\ Crab!Seen(u)
  OBVIOUS
<1>7. Crab!Own(u)'
  <2>1. hpc[u] \in {"head", "enter", "leave"} => bucket_locks'[Crab!Mine(u)] = u
    BY <1>1, <1>6 DEF Crab!Own, Harmless, SparesBuckets, Crab!Nobody
  <2> QED BY <2>1, <1>1, <1>2, <1>3, <1>4, <1>5, <1>6 DEF Crab!Own
<1>8. Crab!Seen(u)'
  <2>1. hpc[u] \in Crab!OnNode => curr[u] \in 1 .. Len(Crab!Nodes(u)) /\ Crab!Nodes(u)[curr[u]].node_lock = u
    BY <1>2, <1>6 DEF Crab!Own
  <2>2. hpc[u] \in Crab!OnNode => Crab!Passed(u)' = Crab!Passed(u)
    BY <2>1, <1>1, <1>2, <1>3, <1>5 DEF Crab!Passed
  <2>3. hpc[u] \in Crab!OnNode \ {"unlock"} => \A n \in Crab!Passed(u)' : Crab!Nodes(u)'[n].key # key[u]
    BY <2>2, <1>2, <1>3, <1>6 DEF Crab!Seen, Crab!Passed
  <2>4. hpc[u] = "update" => Crab!Nodes(u)'[curr[u]].key = key[u]
    BY <2>1, <1>3, <1>6 DEF Crab!Seen, Crab!Found, Crab!OnNode
  <2>5. hpc[u] = "append" => curr[u] = Len(Crab!Nodes(u)')
    BY <2>1, <1>1, <1>2, <1>6 DEF Crab!Seen, Crab!AtEnd, Crab!OnNode, Harmless, GrowsAtOwn
  <2> QED BY <2>3, <2>4, <2>5, <1>1 DEF Crab!Seen, Crab!Found, Crab!AtEnd
<1> QED BY <1>7, <1>8

\* Two threads at nodes of one chain are at different nodes, and nobody is at the node
\* that another one has locked ahead.
LEMMA CrabApart ==
  ASSUME Crab!IInv, NEW t \in Caller, NEW u \in Caller, t # u, Crab!Mine(t) = Crab!Mine(u),
         hpc[t] \in Crab!OnNode, hpc[u] \in Crab!OnNode
  PROVE  curr[t] # curr[u] /\ (hpc[t] = "step" => curr[t] + 1 # curr[u])
BY DEF Crab!IInv, Crab!Own, Crab!Nodes

\* The order of the puts survives a step that stores nothing, if nobody passes.
LEMMA OrderMoves ==
  ASSUME Crab!IInv, SameNodes, UNCHANGED latest, Crab!TypeOK',
         \A k \in KeySpace : Crab!ToStore(k)' = Crab!ToStore(k),
         \A k \in KeySpace : \A u \in Crab!ToStore(k) : value'[u] = value[u],
         \A k \in KeySpace : \A u, w \in Crab!ToStore(k) : Crab!Place(w) < Crab!Place(u) => Crab!Place(w)' < Crab!Place(u)'
  PROVE  Crab!OrderInv'
<1> SUFFICES ASSUME NEW k \in KeySpace, latest[k] # Crab!NoValue
             PROVE  Crab!LastBehind(k)' \/ Crab!Stored(k)'
  BY DEF Crab!OrderInv
<1>1. CASE Crab!LastBehind(k)
  BY <1>1 DEF Crab!LastBehind
<1>2. CASE Crab!Stored(k)
  <2>1. Crab!Bucket(k) \in Crab!BucketNo
    BY BucketOfKey
  <2>2. DOMAIN table[Crab!Bucket(k)] = 1 .. Len(table[Crab!Bucket(k)]) /\ DOMAIN table'[Crab!Bucket(k)] = 1 .. Len(table'[Crab!Bucket(k)])
    BY <2>1, Chains, ChainsAfter DEF Crab!IInv, Crab!NoDuplicateKeys
  <2> QED BY <1>2, <2>1, <2>2 DEF Crab!Stored, SameNodes
<1> QED BY <1>1, <1>2 DEF Crab!IInv, Crab!OrderInv

\* It survives the entry of t, which is behind everybody in its bucket.
LEMMA OrderEnters ==
  ASSUME Crab!IInv, NEW t \in Caller, UNCHANGED <<table, key, value, curr>>,
         hpc[t] = "bucket", hpc' = [hpc EXCEPT ![t] = "head"], bucket_locks[Crab!Mine(t)] = Crab!Nobody,
         latest' = [latest EXCEPT ![key[t]] = value[t]]
  PROVE  Crab!OrderInv'
<1> USE DEF Crab!IInv, Crab!NoDuplicateKeys
<1>1. key[t] \in KeySpace
  BY Chain
<1>2. hpc'[t] = "head" /\ \A u \in Caller : u # t => hpc'[u] = hpc[u]
  BY DEF Crab!TypeOK
<1> SUFFICES ASSUME NEW k \in KeySpace, latest'[k] # Crab!NoValue
             PROVE  Crab!LastBehind(k)' \/ Crab!Stored(k)'
  BY DEF Crab!OrderInv
<1>3. CASE k = key[t]
  <2>1. t \in Crab!ToStore(k)' /\ value'[t] = latest'[k] /\ Crab!Place(t)' = 0
    BY <1>1, <1>2, <1>3 DEF Crab!ToStore, Crab!Place, Crab!TypeOK
  <2>2. ASSUME NEW u \in Crab!ToStore(k)', u # t
        PROVE  0 < Crab!Place(u)'
    <3>1. u \in Caller /\ u \in Crab!ToStore(k) /\ Crab!Mine(u) = Crab!Mine(t) /\ hpc'[u] = hpc[u]
      BY <2>2, <1>2, <1>3 DEF Crab!ToStore, Crab!Mine
    <3>2. hpc[u] # "head"
      BY <3>1 DEF Crab!Own, Crab!Nobody
    <3>3. hpc[u] \in Crab!OnNode
      BY <3>1, <3>2 DEF Crab!ToStore
    <3>4. curr[u] \in 1 .. Len(Crab!Nodes(u))
      BY <3>1, <3>3, Chain DEF Crab!Own
    <3> QED BY <3>1, <3>2, <3>4 DEF Crab!Place
  <2> QED BY <2>1, <2>2 DEF Crab!LastBehind
<1>4. CASE k # key[t]
  <2>1. Crab!ToStore(k)' = Crab!ToStore(k) /\ latest'[k] = latest[k] /\ t \notin Crab!ToStore(k)
    BY <1>1, <1>2, <1>4 DEF Crab!ToStore, Crab!TypeOK
  <2>2. \A u \in Crab!ToStore(k) : Crab!Place(u)' = Crab!Place(u)
    BY <2>1, <1>2 DEF Crab!Place, Crab!ToStore
  <2>3. Crab!LastBehind(k) => Crab!LastBehind(k)'
    BY <2>1, <2>2 DEF Crab!LastBehind
  <2>4. Crab!Stored(k) => Crab!Stored(k)'
    BY <2>1 DEF Crab!Stored
  <2> QED BY <2>1, <2>3, <2>4 DEF Crab!OrderInv
<1> QED BY <1>3, <1>4

\* It survives the store of t, if no put of the same key is ahead of t: then t is the
\* last one, or the last one is still behind t.
LEMMA OrderStores ==
  ASSUME Crab!IInv, Crab!TypeOK', NEW t \in Caller, UNCHANGED <<key, value, curr, latest>>, Alone(t),
         t \in Crab!ToStore(key[t]), hpc'[t] \in {"leave", "unlock"},
         \A u \in Crab!ToStore(key[t]) \ {t} : ~(Crab!Place(t) < Crab!Place(u)),
         NEW m \in 1 .. Len(table'[Crab!Mine(t)]),
         table'[Crab!Mine(t)][m].key = key[t], table'[Crab!Mine(t)][m].value = value[t],
         \A b \in Crab!BucketNo : /\ Len(table[b]) <= Len(table'[b])
                             /\ \A n \in 1 .. Len(table[b]) : table[b][n].key # key[t] =>
                                  /\ table'[b][n].key = table[b][n].key
                                  /\ table'[b][n].value = table[b][n].value
  PROVE  Crab!OrderInv'
<1> USE DEF Crab!IInv, Crab!NoDuplicateKeys
<1>1. \A u \in Caller : u # t => hpc'[u] = hpc[u]
  BY DEF Alone
<1> SUFFICES ASSUME NEW k \in KeySpace, latest[k] # Crab!NoValue
             PROVE  Crab!LastBehind(k)' \/ Crab!Stored(k)'
  BY DEF Crab!OrderInv
<1>2. \A u \in Caller : u # t => Crab!Place(u)' = Crab!Place(u)
  BY <1>1 DEF Crab!Place
<1>3. Crab!LastBehind(k) \/ Crab!Stored(k)
  BY DEF Crab!OrderInv
<1>4. CASE k = key[t]
  <2>1. Crab!ToStore(k)' = Crab!ToStore(k) \ {t}
    BY <1>1 DEF Crab!ToStore, Crab!OnNode
  <2>2. PICK w \in Crab!ToStore(k) : value[w] = latest[k] /\ \A u \in Crab!ToStore(k) \ {w} : Crab!Place(w) < Crab!Place(u)
    BY <1>3, <1>4 DEF Crab!LastBehind, Crab!Stored
  <2>3. CASE w = t
    <3>1. Crab!ToStore(k)' = {}
      BY <2>1, <2>2, <2>3, <1>4
    <3>2. Crab!Mine(t) \in Crab!BucketNo /\ Crab!Mine(t) = Crab!Bucket(k)
      BY <1>4, Chain DEF Crab!Mine
    <3>3. m \in DOMAIN (table'[Crab!Bucket(k)])
      BY <3>2, ChainsAfter
    <3> QED BY <3>1, <3>2, <3>3, <2>2, <2>3, <1>4 DEF Crab!Stored
  <2>4. CASE w # t
    <3>1. w \in Crab!ToStore(k)' /\ \A u \in Crab!ToStore(k)' : u \in Caller /\ u # t
      BY <2>1, <2>2, <2>4 DEF Crab!ToStore
    <3>2. \A u \in Crab!ToStore(k)' \ {w} : Crab!Place(w)' < Crab!Place(u)'
      BY <3>1, <2>1, <2>2, <1>2
    <3> QED BY <3>1, <3>2, <2>2 DEF Crab!LastBehind
  <2> QED BY <2>3, <2>4
<1>5. CASE k # key[t]
  <2>1. Crab!ToStore(k)' = Crab!ToStore(k) /\ \A u \in Crab!ToStore(k) : u \in Caller /\ u # t
    BY <1>1, <1>5 DEF Crab!ToStore
  <2>2. Crab!LastBehind(k) => Crab!LastBehind(k)'
    BY <2>1, <1>2 DEF Crab!LastBehind
  <2>3. ASSUME Crab!Stored(k)
        PROVE  Crab!Stored(k)'
    <3>1. Crab!Bucket(k) \in Crab!BucketNo
      BY BucketOfKey
    <3>2. PICK n \in 1 .. Len(table[Crab!Bucket(k)]) :
            table[Crab!Bucket(k)][n].key = k /\ table[Crab!Bucket(k)][n].value = latest[k]
      BY <3>1, <2>3, Chains DEF Crab!Stored
    <3>3. Len(table[Crab!Bucket(k)]) \in Nat /\ Len(table'[Crab!Bucket(k)]) \in Nat /\ DOMAIN (table'[Crab!Bucket(k)]) = 1 .. Len(table'[Crab!Bucket(k)])
      BY <3>1, Chains, ChainsAfter
    <3>4. n \in DOMAIN (table'[Crab!Bucket(k)]) /\ table'[Crab!Bucket(k)][n].key = k /\ table'[Crab!Bucket(k)][n].value = latest[k]
      BY <3>1, <3>2, <3>3, <1>5
    <3> QED BY <3>4, <2>1, <2>3 DEF Crab!Stored
  <2> QED BY <2>2, <2>3, <1>3
<1> QED BY <1>4, <1>5

\* What follows for the whole invariant when the nodes keep their keys and values.
LEMMA SameNodesKeep ==
  ASSUME Crab!IInv, Crab!TypeOK', SameNodes
  PROVE  Grows /\ (\A t : GrowsAtOwn(t)) /\ Crab!NoDuplicateKeys'
<1>1. \A b \in Crab!BucketNo : /\ Len(table[b]) \in Nat /\ DOMAIN table[b] = 1 .. Len(table[b])
                          /\ DOMAIN (table'[b]) = 1 .. Len(table'[b])
  BY Chains, ChainsAfter DEF Crab!IInv, Crab!NoDuplicateKeys
<1>2. Grows /\ \A t : GrowsAtOwn(t)
  BY <1>1 DEF SameNodes, Grows, GrowsAtOwn
<1>3. Crab!NoDuplicateKeys'
  BY <1>1 DEF SameNodes, Crab!IInv, Crab!NoDuplicateKeys
<1> QED BY <1>2, <1>3

\* A step that stores nothing, of a thread that has no value to store.
LEMMA OrderQuiet ==
  ASSUME Crab!IInv, Crab!TypeOK', SameNodes, UNCHANGED latest, NEW t \in Caller, Alone(t),
         hpc[t] \in {"idle", "bucket", "leave", "unlock"}, hpc'[t] \in {"idle", "bucket", "leave", "unlock"}
  PROVE  Crab!OrderInv'
<1>1. \A k \in KeySpace : t \notin Crab!ToStore(k) /\ Crab!ToStore(k)' = Crab!ToStore(k)
  BY DEF Crab!ToStore, Crab!OnNode, Alone
<1>2. \A k \in KeySpace : \A u \in Crab!ToStore(k) : u \in Caller \ {t}
  BY <1>1 DEF Crab!ToStore
<1>3. \A u \in Caller \ {t} : value'[u] = value[u] /\ Crab!Place(u)' = Crab!Place(u)
  BY DEF Alone, Crab!Place
<1> QED BY <1>1, <1>2, <1>3, OrderMoves

\* A step that stores nothing, of a thread that moves on but passes nobody.
LEMMA OrderWalks ==
  ASSUME Crab!IInv, Crab!TypeOK', SameNodes, UNCHANGED latest, NEW t \in Caller, Alone(t),
         hpc[t] \in ({"head"} \cup Crab!OnNode) \ {"unlock"}, hpc'[t] \in ({"head"} \cup Crab!OnNode) \ {"unlock"},
         key'[t] = key[t], value'[t] = value[t], Crab!Place(t) <= Crab!Place(t)',
         \A u \in Crab!ToStore(key[t]) \ {t} : Crab!Place(t) < Crab!Place(u) => Crab!Place(t)' < Crab!Place(u)
  PROVE  Crab!OrderInv'
<1>1. \A k \in KeySpace : Crab!ToStore(k)' = Crab!ToStore(k)
  BY DEF Crab!ToStore, Crab!OnNode, Alone
<1>2. \A u \in Caller : value'[u] = value[u]
  BY DEF Alone
<1>3. \A u \in Caller \ {t} : Crab!Place(u)' = Crab!Place(u)
  BY DEF Alone, Crab!Place
<1>4. \A u \in Caller : Crab!Place(u) \in Nat /\ Crab!Place(u)' \in Nat
  BY DEF Crab!Place, Crab!TypeOK, Crab!IInv, Crab!NoDuplicateKeys
<1>5. ASSUME NEW k \in KeySpace, NEW u \in Crab!ToStore(k), NEW w \in Crab!ToStore(k), Crab!Place(w) < Crab!Place(u)
      PROVE  Crab!Place(w)' < Crab!Place(u)'
  <2>1. u \in Caller /\ w \in Caller /\ key[u] = k /\ key[w] = k
    BY DEF Crab!ToStore
  <2>2. CASE w = t
    BY <2>1, <2>2, <1>3, <1>4, <1>5
  <2>3. CASE w # t /\ u = t
    BY <2>1, <2>3, <1>3, <1>4, <1>5
  <2>4. CASE w # t /\ u # t
    BY <2>1, <2>4, <1>3, <1>5
  <2> QED BY <2>2, <2>3, <2>4
<1>6. \A k \in KeySpace : \A u \in Crab!ToStore(k) : value'[u] = value[u]
  BY <1>2 DEF Crab!ToStore
<1> QED BY <1>1, <1>5, <1>6, OrderMoves

\* A harmless step of t that leaves t and the chains right keeps the invariant.
LEMMA Kept ==
  ASSUME Crab!IInv, Crab!TypeOK', NEW t \in Caller, Harmless(t), Crab!NoDuplicateKeys', Crab!OrderInv',
         Crab!Own(t)', Crab!Seen(t)'
  PROVE  Crab!IInv'
<1>1. \A u \in Caller : Crab!Own(u)' /\ Crab!Seen(u)'
  BY OthersKeep
<1> QED BY <1>1 DEF Crab!IInv

\* Where t stands: the position of its node, and the lock that is its own.
LEMMA AtNode ==
  ASSUME Crab!IInv, NEW t \in Caller, hpc[t] \in Crab!OnNode
  PROVE  /\ curr[t] \in 1 .. Len(Crab!Nodes(t)) /\ Crab!Nodes(t)[curr[t]].node_lock = t
         /\ hpc[t] \in {"next", "step"} => curr[t] + 1 \in 1 .. Len(Crab!Nodes(t))
         /\ Crab!Place(t) = curr[t]
BY Chain DEF Crab!IInv, Crab!NoDuplicateKeys, Crab!Own, Crab!Place, Crab!OnNode

\* Changing the lock of a node that nobody else holds is harmless.
LEMMA LockStep ==
  ASSUME Crab!IInv, Crab!TypeOK', NEW t \in Caller, Alone(t), NEW n \in 1 .. Len(Crab!Nodes(t)),
         NEW who \in Caller \cup {Crab!Nobody}, Crab!SetLock(t, n, who), UNCHANGED bucket_locks,
         Crab!Nodes(t)[n].node_lock \in {Crab!Nobody, t}
  PROVE  /\ Harmless(t) /\ Crab!NoDuplicateKeys' /\ SameNodes
         /\ Len(table'[Crab!Mine(t)]) = Len(Crab!Nodes(t))
         /\ \A m \in 1 .. Len(Crab!Nodes(t)) :
              /\ table'[Crab!Mine(t)][m].key = Crab!Nodes(t)[m].key
              /\ table'[Crab!Mine(t)][m].node_lock = IF m = n THEN who ELSE Crab!Nodes(t)[m].node_lock
<1> USE DEF Crab!IInv, Crab!NoDuplicateKeys
<1>1. /\ SameNodes
      /\ \A b \in Crab!BucketNo : \A m \in 1 .. Len(table[b]) :
           table'[b][m].node_lock = IF b = Crab!Mine(t) /\ m = n THEN who ELSE table[b][m].node_lock
  BY SetLockEffect
<1>2. Grows /\ GrowsAtOwn(t) /\ Crab!NoDuplicateKeys'
  BY <1>1, SameNodesKeep
<1>3. SparesNodes(t) /\ SparesBuckets(t)
  BY <1>1 DEF SparesNodes, SparesBuckets, Crab!Nodes
<1>4. Crab!Mine(t) \in Crab!BucketNo
  BY Chain
<1> QED BY <1>1, <1>2, <1>3, <1>4 DEF Harmless, SameNodes, Crab!Nodes

\* The call of put: no lock, no node.
LEMMA CallKeeps ==
  ASSUME Crab!IInv, NEW t \in Caller, Crab!Call(t)
  PROVE  Crab!IInv'
<1> USE DEF Crab!IInv, Crab!NoDuplicateKeys
<1>1. /\ hpc[t] = "idle" /\ hpc' = [hpc EXCEPT ![t] = "bucket"] /\ UNCHANGED <<table, bucket_locks, curr, latest>>
      /\ calls' = calls + 1 /\ calls < MaxPuts /\ value' = [value EXCEPT ![t] = calls']
  BY DEF Crab!Call, Crab!Goto
<1>2. PICK k \in KeySpace : key' = [key EXCEPT ![t] = k]
  BY DEF Crab!Call
<1>3. Crab!TypeOK'
  BY <1>1, <1>2 DEF Crab!TypeOK, Crab!Value
<1>4. Alone(t) /\ SameNodes /\ hpc'[t] = "bucket"
  BY <1>1, <1>2 DEF Alone, SameNodes, Crab!TypeOK
<1>5. Harmless(t) /\ Crab!NoDuplicateKeys'
  BY <1>1, <1>3, <1>4, SameNodesKeep DEF Harmless, SparesNodes, SparesBuckets
<1>6. Crab!OrderInv'
  BY <1>1, <1>3, <1>4, OrderQuiet
<1>7. Crab!Own(t)' /\ Crab!Seen(t)'
  BY <1>4 DEF Crab!Own, Crab!Seen, Crab!OnNode
<1> QED BY <1>3, <1>5, <1>6, <1>7, Kept

\* Locking the bucket: from here on the others know the order of the puts.
LEMMA LockBucketKeeps ==
  ASSUME Crab!IInv, NEW t \in Caller, Crab!LockBucket(t)
  PROVE  Crab!IInv'
<1> USE DEF Crab!IInv, Crab!NoDuplicateKeys
<1>1. /\ hpc[t] = "bucket" /\ hpc' = [hpc EXCEPT ![t] = "head"] /\ bucket_locks[Crab!Mine(t)] = Crab!Nobody
      /\ bucket_locks' = [bucket_locks EXCEPT ![Crab!Mine(t)] = t]
      /\ latest' = [latest EXCEPT ![key[t]] = value[t]]
      /\ UNCHANGED <<table, key, value, curr, calls>>
  BY DEF Crab!LockBucket, Crab!Goto
<1>2. Crab!Mine(t) \in Crab!BucketNo /\ key[t] \in KeySpace
  BY Chain
<1>3. Crab!TypeOK'
  BY <1>1, <1>2 DEF Crab!TypeOK
<1>4. Alone(t) /\ SameNodes /\ hpc'[t] = "head" /\ bucket_locks'[Crab!Mine(t)] = t /\ Crab!Mine(t)' = Crab!Mine(t)
  BY <1>1, <1>2 DEF Alone, SameNodes, Crab!TypeOK, Crab!Mine
<1>5. SparesBuckets(t)
  BY <1>1, <1>2 DEF SparesBuckets, Crab!TypeOK
<1>6. Harmless(t) /\ Crab!NoDuplicateKeys'
  BY <1>1, <1>3, <1>4, <1>5, SameNodesKeep DEF Harmless, SparesNodes
<1>7. Crab!OrderInv'
  BY <1>1, OrderEnters
<1>8. Crab!Own(t)' /\ Crab!Seen(t)'
  BY <1>4 DEF Crab!Own, Crab!Seen, Crab!OnNode
<1> QED BY <1>3, <1>6, <1>7, <1>8, Kept

\* Locking the first node: whoever is in the chain is past it.
LEMMA LockHeadKeeps ==
  ASSUME Crab!IInv, NEW t \in Caller, Crab!LockHead(t)
  PROVE  Crab!IInv'
<1> USE DEF Crab!IInv, Crab!NoDuplicateKeys
<1>1. /\ hpc[t] = "head" /\ hpc' = [hpc EXCEPT ![t] = "enter"] /\ Crab!Nodes(t) # <<>> /\ Crab!Nodes(t)[1].node_lock = Crab!Nobody
      /\ Crab!SetLock(t, 1, t) /\ curr' = [curr EXCEPT ![t] = 1]
      /\ UNCHANGED <<bucket_locks, key, value, calls, latest>>
  BY DEF Crab!LockHead, Crab!Goto
<1>2. 1 \in 1 .. Len(Crab!Nodes(t))
  BY <1>1, Chain, EmptySeq
<1>3. Crab!TypeOK'
  BY <1>1, <1>2, SetLockEffect DEF Crab!TypeOK
<1>4. /\ Alone(t) /\ hpc'[t] = "enter" /\ curr'[t] = 1 /\ Crab!Mine(t)' = Crab!Mine(t) /\ key'[t] = key[t] /\ value'[t] = value[t]
      /\ Crab!Place(t) = 0 /\ Crab!Place(t)' = 1
  BY <1>1 DEF Alone, Crab!TypeOK, Crab!Mine, Crab!Place
<1>5. /\ Harmless(t) /\ Crab!NoDuplicateKeys' /\ SameNodes /\ Len(table'[Crab!Mine(t)]) = Len(Crab!Nodes(t))
      /\ table'[Crab!Mine(t)][1].node_lock = t
  BY <1>1, <1>2, <1>3, <1>4, LockStep
<1>6. Crab!OrderInv'
  <2>1. ASSUME NEW u \in Crab!ToStore(key[t]) \ {t}, Crab!Place(t) < Crab!Place(u)
        PROVE  1 < Crab!Place(u)
    <3>1. u \in Caller /\ Crab!Mine(u) = Crab!Mine(t) /\ hpc[u] \in Crab!OnNode
      BY <2>1, <1>4 DEF Crab!ToStore, Crab!Mine, Crab!Place
    <3>2. curr[u] \in 1 .. Len(Crab!Nodes(u)) /\ Crab!Nodes(u)[curr[u]].node_lock = u /\ Crab!Place(u) = curr[u]
      BY <3>1, AtNode
    <3>3. curr[u] # 1
      BY <3>1, <3>2, <1>1 DEF Crab!Nodes, Crab!Nobody
    <3> QED BY <3>2, <3>3
  <2> QED BY <2>1, <1>1, <1>3, <1>4, <1>5, OrderWalks DEF Crab!OnNode
<1>7. Crab!Own(t)' /\ Crab!Seen(t)'
  <2>1. DOMAIN (Crab!Nodes(t)') = 1 .. Len(Crab!Nodes(t)) /\ Crab!Nodes(t)' = table'[Crab!Mine(t)]
    BY <1>3, <1>4, <1>5, Chain, ChainsAfter DEF Crab!Nodes
  <2>2. Crab!Own(t)'
    BY <2>1, <1>1, <1>2, <1>4, <1>5 DEF Crab!Own
  <2>3. Crab!Passed(t)' = {}
    BY <2>1, <1>4 DEF Crab!Passed
  <2> QED BY <2>2, <2>3, <1>4 DEF Crab!Seen
<1> QED BY <1>3, <1>5, <1>6, <1>7, Kept

\* Releasing the bucket, on the way into the chain or after the first node.
LEMMA UnlockBucketKeeps ==
  ASSUME Crab!IInv, NEW t \in Caller, Crab!UnlockBucket(t)
  PROVE  Crab!IInv'
<1> USE DEF Crab!IInv, Crab!NoDuplicateKeys
<1>1. /\ \/ hpc[t] = "enter" /\ hpc' = [hpc EXCEPT ![t] = "visit"] /\ UNCHANGED <<key, value, curr>>
         \/ hpc[t] = "leave" /\ hpc' = [hpc EXCEPT ![t] = "idle"] /\ Crab!Return(t)
      /\ bucket_locks' = [bucket_locks EXCEPT ![Crab!Mine(t)] = Crab!Nobody] /\ UNCHANGED <<table, calls, latest>>
  BY DEF Crab!UnlockBucket, Crab!Goto
<1>2. Crab!Mine(t) \in Crab!BucketNo /\ Crab!NoKey \in KeySpace /\ Crab!NoValue \in Crab!Value
  BY Chain DEF Crab!NoKey, Crab!NoValue, Crab!Value
<1>3. Crab!TypeOK'
  <2>1. key' \in [Caller -> KeySpace] /\ value' \in [Caller -> Crab!Value] /\ curr' \in [Caller -> Nat]
    <3>1. CASE UNCHANGED <<key, value, curr>>
      BY <3>1 DEF Crab!TypeOK
    <3>2. CASE Crab!Return(t)
      BY <3>2, <1>2 DEF Crab!TypeOK, Crab!Return
    <3> QED BY <3>1, <3>2, <1>1
  <2> QED BY <2>1, <1>1, <1>2 DEF Crab!TypeOK
<1>4. Alone(t) /\ SameNodes
  BY <1>1 DEF Alone, SameNodes, Crab!TypeOK, Crab!Return
<1>5. bucket_locks[Crab!Mine(t)] = t
  BY <1>1 DEF Crab!Own
<1>6. SparesBuckets(t)
  BY <1>1, <1>2, <1>5 DEF SparesBuckets, Crab!TypeOK
<1>7. Harmless(t) /\ Crab!NoDuplicateKeys'
  BY <1>1, <1>3, <1>4, <1>6, SameNodesKeep DEF Harmless, SparesNodes
<1>8. CASE hpc[t] = "enter"
  <2>1. /\ hpc'[t] = "visit" /\ UNCHANGED <<key, value, curr>> /\ Crab!Mine(t)' = Crab!Mine(t) /\ Crab!Nodes(t)' = Crab!Nodes(t)
        /\ Crab!Place(t)' = Crab!Place(t)
    BY <1>1, <1>8 DEF Crab!Mine, Crab!Nodes, Crab!Place, Crab!TypeOK
  <2>2. Crab!Place(t) \in Nat
    BY DEF Crab!Place, Crab!TypeOK
  <2>3. Crab!OrderInv'
    BY <2>1, <2>2, <1>1, <1>3, <1>4, <1>8, OrderWalks DEF Crab!OnNode
  <2>4. Crab!Own(t)'
    BY <2>1, <1>8 DEF Crab!Own, Crab!OnNode
  <2>5. Crab!Passed(t)' = Crab!Passed(t)
    BY <2>1, <1>8 DEF Crab!Passed
  <2>6. Crab!Seen(t)'
    BY <2>1, <2>5, <1>8 DEF Crab!Seen, Crab!OnNode
  <2> QED BY <2>3, <2>4, <2>6, <1>3, <1>7, Kept
<1>9. CASE hpc[t] = "leave"
  <2>1. hpc'[t] = "idle"
    BY <1>1, <1>9 DEF Crab!TypeOK
  <2>2. Crab!OrderInv'
    BY <2>1, <1>1, <1>3, <1>4, <1>9, OrderQuiet
  <2>3. Crab!Own(t)' /\ Crab!Seen(t)'
    BY <2>1 DEF Crab!Own, Crab!Seen, Crab!OnNode
  <2> QED BY <2>2, <2>3, <1>3, <1>7, Kept
<1> QED BY <1>1, <1>8, <1>9

\* Looking at a node: one more key that t has seen.
LEMMA VisitKeeps ==
  ASSUME Crab!IInv, NEW t \in Caller, Crab!Visit(t)
  PROVE  Crab!IInv'
<1> USE DEF Crab!IInv, Crab!NoDuplicateKeys
<1>1. /\ hpc[t] = "visit" /\ UNCHANGED <<table, bucket_locks, key, value, curr, calls, latest>>
      /\ hpc' = [hpc EXCEPT ![t] = IF Crab!Found(t) THEN "update" ELSE IF Crab!AtEnd(t) THEN "append" ELSE "next"]
  BY DEF Crab!Visit, Crab!Goto
<1>2. Crab!TypeOK'
  BY <1>1 DEF Crab!TypeOK
<1>3. /\ Alone(t) /\ SameNodes /\ hpc'[t] = IF Crab!Found(t) THEN "update" ELSE IF Crab!AtEnd(t) THEN "append" ELSE "next"
      /\ Crab!Nodes(t)' = Crab!Nodes(t)
  BY <1>1 DEF Alone, SameNodes, Crab!TypeOK, Crab!Nodes, Crab!Mine
<1>4. Harmless(t) /\ Crab!NoDuplicateKeys'
  BY <1>1, <1>2, <1>3, SameNodesKeep DEF Harmless, SparesNodes, SparesBuckets
<1>5. curr[t] \in 1 .. Len(Crab!Nodes(t)) /\ Crab!Nodes(t)[curr[t]].node_lock = t /\ Crab!Place(t) = curr[t]
  BY <1>1, AtNode DEF Crab!OnNode
<1>6. Crab!OrderInv'
  <2>1. Crab!Place(t)' = Crab!Place(t) /\ Crab!Place(t) \in Nat
    BY <1>1, <1>3, <1>5 DEF Crab!Place
  <2> QED BY <2>1, <1>1, <1>2, <1>3, OrderWalks DEF Crab!OnNode
<1>7. Len(Crab!Nodes(t)) \in Nat /\ DOMAIN Crab!Nodes(t) = 1 .. Len(Crab!Nodes(t))
  BY Chain
<1>8. Crab!Own(t)'
  BY <1>1, <1>3, <1>5, <1>7 DEF Crab!Own, Crab!AtEnd
<1>9. Crab!Seen(t)'
  <2>1. \A n \in DOMAIN Crab!Nodes(t) : n < curr[t] => Crab!Nodes(t)[n].key # key[t]
    BY <1>1 DEF Crab!Seen, Crab!Passed, Crab!OnNode
  <2>2. CASE Crab!Found(t)
    BY <2>1, <2>2, <1>1, <1>3 DEF Crab!Seen, Crab!Passed, Crab!Found
  <2>3. CASE ~Crab!Found(t)
    BY <2>1, <2>3, <1>1, <1>3 DEF Crab!Seen, Crab!Passed, Crab!Found, Crab!AtEnd
  <2> QED BY <2>2, <2>3
<1> QED BY <1>2, <1>4, <1>6, <1>8, <1>9, Kept

\* Locking the next node.
LEMMA LockNextKeeps ==
  ASSUME Crab!IInv, NEW t \in Caller, Crab!LockNext(t)
  PROVE  Crab!IInv'
<1> USE DEF Crab!IInv, Crab!NoDuplicateKeys
<1>1. /\ hpc[t] = "next" /\ hpc' = [hpc EXCEPT ![t] = "step"] /\ Crab!Nodes(t)[curr[t] + 1].node_lock = Crab!Nobody
      /\ Crab!SetLock(t, curr[t] + 1, t) /\ UNCHANGED <<bucket_locks, key, value, curr, calls, latest>>
  BY DEF Crab!LockNext, Crab!Goto
<1>2. /\ curr[t] \in 1 .. Len(Crab!Nodes(t)) /\ curr[t] + 1 \in 1 .. Len(Crab!Nodes(t)) /\ Crab!Place(t) = curr[t]
      /\ Crab!Nodes(t)[curr[t]].node_lock = t
  BY <1>1, AtNode DEF Crab!OnNode
<1>3. Crab!TypeOK'
  BY <1>1, <1>2, SetLockEffect DEF Crab!TypeOK
<1>4. Alone(t) /\ hpc'[t] = "step" /\ Crab!Mine(t)' = Crab!Mine(t) /\ key'[t] = key[t] /\ Crab!Place(t)' = Crab!Place(t) /\ Crab!Place(t) \in Nat
  BY <1>1, <1>2 DEF Alone, Crab!TypeOK, Crab!Mine, Crab!Place
<1>5. /\ Harmless(t) /\ Crab!NoDuplicateKeys' /\ SameNodes /\ Len(table'[Crab!Mine(t)]) = Len(Crab!Nodes(t))
      /\ \A m \in 1 .. Len(Crab!Nodes(t)) :
           /\ table'[Crab!Mine(t)][m].key = Crab!Nodes(t)[m].key
           /\ table'[Crab!Mine(t)][m].node_lock = IF m = curr[t] + 1 THEN t ELSE Crab!Nodes(t)[m].node_lock
  BY <1>1, <1>2, <1>3, <1>4, LockStep
<1>6. Crab!OrderInv'
  BY <1>1, <1>3, <1>4, <1>5, OrderWalks DEF Crab!OnNode
<1>7. DOMAIN (Crab!Nodes(t)') = 1 .. Len(Crab!Nodes(t)) /\ DOMAIN Crab!Nodes(t) = 1 .. Len(Crab!Nodes(t)) /\ Crab!Nodes(t)' = table'[Crab!Mine(t)]
  BY <1>3, <1>4, <1>5, Chain, ChainsAfter DEF Crab!Nodes
<1>8. Crab!Own(t)'
  BY <1>1, <1>2, <1>4, <1>5, <1>7 DEF Crab!Own
<1>9. Crab!Seen(t)'
  <2>1. Crab!Passed(t)' = Crab!Passed(t) /\ Crab!Passed(t) \subseteq 1 .. Len(Crab!Nodes(t))
    BY <1>1, <1>4, <1>7 DEF Crab!Passed
  <2>2. \A n \in Crab!Passed(t) : Crab!Nodes(t)[n].key # key[t]
    BY <1>1 DEF Crab!Seen, Crab!OnNode
  <2> QED BY <2>1, <2>2, <1>4, <1>5, <1>7 DEF Crab!Seen
<1> QED BY <1>3, <1>5, <1>6, <1>8, <1>9, Kept

\* Unlocking the node, on the way to the next one or out.
LEMMA UnlockCurrKeeps ==
  ASSUME Crab!IInv, NEW t \in Caller, Crab!UnlockCurr(t)
  PROVE  Crab!IInv'
<1> USE DEF Crab!IInv, Crab!NoDuplicateKeys
<1>1. /\ \/ hpc[t] = "step" /\ hpc' = [hpc EXCEPT ![t] = "visit"] /\ curr' = [curr EXCEPT ![t] = @ + 1] /\ UNCHANGED <<key, value>>
         \/ hpc[t] = "unlock" /\ hpc' = [hpc EXCEPT ![t] = "idle"] /\ Crab!Return(t)
      /\ Crab!SetLock(t, curr[t], Crab!Nobody) /\ UNCHANGED <<bucket_locks, calls, latest>>
  BY DEF Crab!UnlockCurr, Crab!Goto
<1>2. curr[t] \in 1 .. Len(Crab!Nodes(t)) /\ Crab!Nodes(t)[curr[t]].node_lock = t /\ Crab!Place(t) = curr[t]
  BY <1>1, AtNode DEF Crab!OnNode
<1>3. Crab!TypeOK'
  <2>1. table' \in [Crab!BucketNo -> Seq(Crab!Node)]
    BY <1>1, <1>2, SetLockEffect
  <2>2. key' \in [Caller -> KeySpace] /\ value' \in [Caller -> Crab!Value] /\ curr' \in [Caller -> Nat]
    <3>1. CASE curr' = [curr EXCEPT ![t] = @ + 1] /\ UNCHANGED <<key, value>>
      BY <3>1 DEF Crab!TypeOK
    <3>2. CASE Crab!Return(t)
      <4>1. Crab!NoKey \in KeySpace /\ Crab!NoValue \in Crab!Value
        BY DEF Crab!NoKey, Crab!NoValue, Crab!Value
      <4> QED BY <4>1, <3>2 DEF Crab!TypeOK, Crab!Return
    <3> QED BY <3>1, <3>2, <1>1
  <2> QED BY <2>1, <2>2, <1>1 DEF Crab!TypeOK
<1>4. Alone(t)
  BY <1>1 DEF Alone, Crab!TypeOK, Crab!Return
<1>5. /\ Harmless(t) /\ Crab!NoDuplicateKeys' /\ SameNodes /\ Len(table'[Crab!Mine(t)]) = Len(Crab!Nodes(t))
      /\ \A m \in 1 .. Len(Crab!Nodes(t)) :
           /\ table'[Crab!Mine(t)][m].key = Crab!Nodes(t)[m].key
           /\ table'[Crab!Mine(t)][m].node_lock = IF m = curr[t] THEN Crab!Nobody ELSE Crab!Nodes(t)[m].node_lock
  BY <1>1, <1>2, <1>3, <1>4, LockStep
<1>6. CASE hpc[t] = "step"
  <2>1. /\ hpc'[t] = "visit" /\ curr'[t] = curr[t] + 1 /\ Crab!Mine(t)' = Crab!Mine(t) /\ key'[t] = key[t] /\ value'[t] = value[t]
        /\ Crab!Place(t)' = Crab!Place(t) + 1
    BY <1>1, <1>2, <1>6 DEF Crab!TypeOK, Crab!Mine, Crab!Place
  <2>2. curr[t] + 1 \in 1 .. Len(Crab!Nodes(t)) /\ Crab!Nodes(t)[curr[t] + 1].node_lock = t
    BY <1>6, Chain DEF Crab!Own
  <2>3. Crab!OrderInv'
    <3>1. ASSUME NEW u \in Crab!ToStore(key[t]) \ {t}, Crab!Place(t) < Crab!Place(u)
          PROVE  Crab!Place(t) + 1 < Crab!Place(u)
      <4>1. u \in Caller /\ Crab!Mine(u) = Crab!Mine(t) /\ hpc[u] \in Crab!OnNode
        BY <3>1, <1>2 DEF Crab!ToStore, Crab!Mine, Crab!Place
      <4>2. curr[u] \in Nat /\ Crab!Place(u) = curr[u] /\ curr[t] + 1 # curr[u]
        BY <4>1, <1>6, AtNode, CrabApart DEF Crab!OnNode
      <4> QED BY <4>2, <3>1, <1>2
    <3> QED BY <3>1, <2>1, <1>1, <1>2, <1>3, <1>4, <1>5, <1>6, OrderWalks DEF Crab!OnNode
  <2>4. DOMAIN (Crab!Nodes(t)') = 1 .. Len(Crab!Nodes(t)) /\ DOMAIN Crab!Nodes(t) = 1 .. Len(Crab!Nodes(t)) /\ Crab!Nodes(t)' = table'[Crab!Mine(t)]
    BY <2>1, <1>3, <1>5, Chain, ChainsAfter DEF Crab!Nodes
  <2>5. Crab!Own(t)'
    BY <2>1, <2>2, <2>4, <1>2, <1>5 DEF Crab!Own
  <2>6. Crab!Seen(t)'
    <3>1. Crab!Passed(t)' = Crab!Passed(t) /\ Crab!Passed(t) \subseteq 1 .. Len(Crab!Nodes(t))
      BY <2>1, <2>4, <1>2, <1>6 DEF Crab!Passed
    <3>2. \A n \in Crab!Passed(t) : Crab!Nodes(t)[n].key # key[t]
      BY <1>6 DEF Crab!Seen, Crab!OnNode
    <3> QED BY <3>1, <3>2, <2>1, <2>4, <1>5 DEF Crab!Seen
  <2> QED BY <2>3, <2>5, <2>6, <1>3, <1>5, Kept
<1>7. CASE hpc[t] = "unlock"
  <2>1. hpc'[t] = "idle"
    BY <1>1, <1>7 DEF Crab!TypeOK
  <2>2. Crab!OrderInv'
    BY <2>1, <1>1, <1>3, <1>4, <1>5, <1>7, OrderQuiet
  <2>3. Crab!Own(t)' /\ Crab!Seen(t)'
    BY <2>1 DEF Crab!Own, Crab!Seen, Crab!OnNode
  <2> QED BY <2>2, <2>3, <1>3, <1>5, Kept
<1> QED BY <1>1, <1>6, <1>7

\* The node that t makes.
LEMMA NewNodes ==
  ASSUME Crab!TypeOK, NEW t \in Caller
  PROVE  /\ Crab!NewNode(t) \in Crab!Node /\ Crab!NewNode(t).key = key[t] /\ Crab!NewNode(t).value = value[t]
         /\ Crab!NewNode(t).node_lock = Crab!Nobody
BY DEF Crab!NewNode, Crab!Node, Crab!TypeOK

\* The first node of a bucket: nobody else is in the chain.
LEMMA FirstNodeKeeps ==
  ASSUME Crab!IInv, NEW t \in Caller, Crab!FirstNode(t)
  PROVE  Crab!IInv'
<1> USE DEF Crab!IInv, Crab!NoDuplicateKeys
<1>1. /\ hpc[t] = "head" /\ hpc' = [hpc EXCEPT ![t] = "leave"] /\ Crab!Nodes(t) = <<>>
      /\ table' = [table EXCEPT ![Crab!Mine(t)] = <<Crab!NewNode(t)>>]
      /\ UNCHANGED <<bucket_locks, key, value, curr, calls, latest>>
  BY DEF Crab!FirstNode, Crab!Goto, Crab!SetNodes
<1>2. Crab!Mine(t) \in Crab!BucketNo /\ Len(Crab!Nodes(t)) = 0
  BY <1>1, Chain, EmptySeq
<1> DEFINE chain == <<Crab!NewNode(t)>>
<1>3. /\ chain \in Seq(Crab!Node) /\ Len(chain) = 1 /\ chain[1].key = key[t] /\ chain[1].value = value[t]
      /\ DOMAIN chain = 1 .. 1
  BY NewNodes
<1>4. \A b \in Crab!BucketNo : table'[b] = IF b = Crab!Mine(t) THEN chain ELSE table[b]
  BY <1>1 DEF Crab!TypeOK
<1>5. Crab!TypeOK'
  <2>1. table' \in [Crab!BucketNo -> Seq(Crab!Node)]
    BY <1>1, <1>2, <1>3 DEF Crab!TypeOK
  <2> QED BY <2>1, <1>1 DEF Crab!TypeOK
<1> HIDE DEF chain
<1>6. Alone(t) /\ hpc'[t] = "leave" /\ Crab!Mine(t)' = Crab!Mine(t)
  BY <1>1 DEF Alone, Crab!TypeOK, Crab!Mine
<1>7. \A b \in Crab!BucketNo : Len(table[b]) <= Len(table'[b]) /\ \A n \in 1 .. Len(table[b]) : table'[b][n] = table[b][n]
  <2>1. \A b \in Crab!BucketNo : Len(table[b]) \in Nat
    BY Chains
  <2> QED BY <2>1, <1>2, <1>3, <1>4 DEF Crab!Nodes
<1>8. Harmless(t)
  BY <1>1, <1>2, <1>4, <1>6, <1>7 DEF Harmless, Grows, GrowsAtOwn, SparesNodes, SparesBuckets, Crab!Nodes
<1>9. Crab!NoDuplicateKeys'
  BY <1>3, <1>4, <1>5
<1>10. Crab!OrderInv'
  <2>1. ASSUME NEW u \in Crab!ToStore(key[t]) \ {t}, Crab!Place(t) < Crab!Place(u)
        PROVE  FALSE
    <3>1. u \in Caller /\ Crab!Mine(u) = Crab!Mine(t) /\ hpc[u] \in Crab!OnNode
      BY <2>1, <1>1 DEF Crab!ToStore, Crab!Mine, Crab!Place
    <3>2. curr[u] \in 1 .. Len(Crab!Nodes(u))
      BY <3>1, AtNode
    <3> QED BY <3>1, <3>2, <1>2 DEF Crab!Nodes
  <2>2. 1 \in 1 .. Len(table'[Crab!Mine(t)]) /\ table'[Crab!Mine(t)][1].key = key[t] /\ table'[Crab!Mine(t)][1].value = value[t]
    BY <1>2, <1>3, <1>4
  <2>3. t \in Crab!ToStore(key[t])
    BY <1>1 DEF Crab!ToStore
  <2> QED BY <2>1, <2>2, <2>3, <1>1, <1>5, <1>6, <1>7, OrderStores
<1>11. Crab!Own(t)' /\ Crab!Seen(t)'
  BY <1>1, <1>6 DEF Crab!Own, Crab!Seen, Crab!OnNode
<1> QED BY <1>5, <1>8, <1>9, <1>10, <1>11, Kept

\* The new value of a node that was found: no put of this key can be further on, as it
\* would have seen the key here.
LEMMA UpdateKeeps ==
  ASSUME Crab!IInv, NEW t \in Caller, Crab!Update(t)
  PROVE  Crab!IInv'
<1> USE DEF Crab!IInv, Crab!NoDuplicateKeys
<1> DEFINE n == curr[t]
           node == [Crab!Nodes(t)[n] EXCEPT !.value = value[t]]
           chain == [Crab!Nodes(t) EXCEPT ![n] = node]
<1>1. /\ hpc[t] = "update" /\ hpc' = [hpc EXCEPT ![t] = "unlock"] /\ table' = [table EXCEPT ![Crab!Mine(t)] = chain]
      /\ UNCHANGED <<bucket_locks, key, value, curr, calls, latest>>
  BY DEF Crab!Update, Crab!Goto, Crab!SetNodes
<1>2. Crab!Mine(t) \in Crab!BucketNo /\ Crab!Nodes(t) \in Seq(Crab!Node) /\ Len(Crab!Nodes(t)) \in Nat
  BY Chain
<1>3. n \in 1 .. Len(Crab!Nodes(t)) /\ Crab!Nodes(t)[n].node_lock = t /\ Crab!Place(t) = n /\ Crab!Nodes(t)[n].key = key[t]
  BY <1>1, AtNode DEF Crab!OnNode, Crab!Seen, Crab!Found
<1>4. Crab!Nodes(t)[n] \in Crab!Node
  BY <1>2, <1>3, ElementOfSeq
<1>5. node \in Crab!Node /\ node.key = key[t] /\ node.value = value[t] /\ node.node_lock = t
  BY <1>3, <1>4 DEF Crab!Node, Crab!TypeOK
<1>6. chain \in Seq(Crab!Node) /\ Len(chain) = Len(Crab!Nodes(t)) /\ \A m \in 1 .. Len(Crab!Nodes(t)) : chain[m] = IF m = n THEN node ELSE Crab!Nodes(t)[m]
  <2> HIDE DEF node
  <2> QED BY <1>2, <1>3, <1>5, ExceptSeq
<1> HIDE DEF chain, node, n
<1>7. \A b \in Crab!BucketNo : table'[b] = IF b = Crab!Mine(t) THEN chain ELSE table[b]
  BY <1>1 DEF Crab!TypeOK
<1>8. Crab!TypeOK'
  <2>1. table' \in [Crab!BucketNo -> Seq(Crab!Node)]
    BY <1>1, <1>2, <1>6 DEF Crab!TypeOK
  <2> QED BY <2>1, <1>1 DEF Crab!TypeOK
<1>9. Alone(t) /\ hpc'[t] = "unlock" /\ Crab!Mine(t)' = Crab!Mine(t) /\ curr'[t] = n
  BY <1>1 DEF Alone, Crab!TypeOK, Crab!Mine, n
<1>10. \A b \in Crab!BucketNo : /\ Len(table'[b]) = Len(table[b]) /\ Len(table[b]) \in Nat
                           /\ DOMAIN table[b] = 1 .. Len(table[b]) /\ DOMAIN (table'[b]) = 1 .. Len(table[b])
  BY <1>6, <1>7, <1>8, Chains, ChainsAfter DEF Crab!Nodes
<1>11. \A b \in Crab!BucketNo : \A m \in 1 .. Len(table[b]) :
         /\ table'[b][m].key = table[b][m].key /\ table'[b][m].node_lock = table[b][m].node_lock
         /\ table[b][m].key # key[t] => table'[b][m].value = table[b][m].value
  BY <1>3, <1>5, <1>6, <1>7 DEF Crab!Nodes
<1>12. Harmless(t) /\ Crab!NoDuplicateKeys'
  BY <1>1, <1>8, <1>9, <1>10, <1>11 DEF Harmless, Grows, GrowsAtOwn, SparesNodes, SparesBuckets
<1>13. Crab!OrderInv'
  <2>1. ASSUME NEW u \in Crab!ToStore(key[t]) \ {t}, Crab!Place(t) < Crab!Place(u)
        PROVE  FALSE
    <3>1. u \in Caller /\ key[u] = key[t] /\ Crab!Nodes(u) = Crab!Nodes(t) /\ hpc[u] \in Crab!OnNode \ {"unlock"}
      BY <2>1, <1>3 DEF Crab!ToStore, Crab!Mine, Crab!Nodes, Crab!Place
    <3>2. Crab!Place(u) = curr[u]
      BY <3>1, AtNode
    <3>3. n \in Crab!Passed(u)
      BY <3>1, <3>2, <2>1, <1>3, Chain DEF Crab!Passed
    <3> QED BY <3>1, <3>3, <1>3 DEF Crab!Seen
  <2>2. /\ n \in 1 .. Len(table'[Crab!Mine(t)])
        /\ table'[Crab!Mine(t)][n].key = key[t] /\ table'[Crab!Mine(t)][n].value = value[t]
    BY <1>2, <1>3, <1>5, <1>6, <1>7
  <2>3. t \in Crab!ToStore(key[t])
    BY <1>1 DEF Crab!ToStore, Crab!OnNode
  <2> QED BY <2>1, <2>2, <2>3, <1>1, <1>8, <1>9, <1>10, <1>11, OrderStores
<1>14. Crab!Own(t)' /\ Crab!Seen(t)'
  <2>1. Crab!Nodes(t)' = table'[Crab!Mine(t)] /\ Crab!Nodes(t) = table[Crab!Mine(t)]
    BY <1>9 DEF Crab!Nodes
  <2> QED BY <2>1, <1>2, <1>3, <1>9, <1>10, <1>11 DEF Crab!Own, Crab!Seen
<1> QED BY <1>8, <1>12, <1>13, <1>14, Kept

\* The new node at the end: t holds the last node, and has seen the keys of all.
LEMMA AppendNodeKeeps ==
  ASSUME Crab!IInv, NEW t \in Caller, Crab!AppendNode(t)
  PROVE  Crab!IInv'
<1> USE DEF Crab!IInv, Crab!NoDuplicateKeys
<1> DEFINE last == Len(Crab!Nodes(t))
           chain == Append(SubSeq(Crab!Nodes(t), 1, curr[t]), Crab!NewNode(t))
<1>1. /\ hpc[t] = "append" /\ hpc' = [hpc EXCEPT ![t] = "unlock"] /\ table' = [table EXCEPT ![Crab!Mine(t)] = chain]
      /\ UNCHANGED <<bucket_locks, key, value, curr, calls, latest>>
  BY DEF Crab!AppendNode, Crab!Goto, Crab!SetNodes
<1>2. Crab!Mine(t) \in Crab!BucketNo /\ Crab!Nodes(t) \in Seq(Crab!Node) /\ last \in Nat /\ DOMAIN Crab!Nodes(t) = 1 .. last
  BY Chain
<1>3. curr[t] = last /\ last \in 1 .. last /\ Crab!Nodes(t)[last].node_lock = t /\ Crab!Place(t) = last
  BY <1>1, AtNode DEF Crab!OnNode, Crab!Seen, Crab!AtEnd
<1>4. \A n \in 1 .. last : Crab!Nodes(t)[n].key # key[t]
  BY <1>1, <1>2, <1>3 DEF Crab!Seen, Crab!Passed, Crab!OnNode
<1>5. /\ chain \in Seq(Crab!Node) /\ Len(chain) = last + 1 /\ chain[last + 1] = Crab!NewNode(t)
      /\ \A n \in 1 .. last : chain[n] = Crab!Nodes(t)[n]
  <2> DEFINE front == SubSeq(Crab!Nodes(t), 1, curr[t])
  <2>1. \A n \in 1 .. last : Crab!Nodes(t)[n] \in Crab!Node
    BY <1>2, ElementOfSeq
  <2>2. front \in Seq(Crab!Node) /\ Len(front) = last /\ \A n \in 1 .. last : front[n] = Crab!Nodes(t)[n]
    BY <2>1, <1>2, <1>3, SubSeqProperties
  <2>3. Crab!NewNode(t) \in Crab!Node
    BY NewNodes
  <2> HIDE DEF front, last
  <2>4. /\ Append(front, Crab!NewNode(t)) \in Seq(Crab!Node) /\ Len(Append(front, Crab!NewNode(t))) = last + 1
        /\ Append(front, Crab!NewNode(t))[last + 1] = Crab!NewNode(t)
        /\ \A n \in 1 .. last : Append(front, Crab!NewNode(t))[n] = Crab!Nodes(t)[n]
    BY <2>2, <2>3, AppendProperties
  <2> QED BY <2>4 DEF front
<1> HIDE DEF chain
<1>6. \A b \in Crab!BucketNo : table'[b] = IF b = Crab!Mine(t) THEN chain ELSE table[b]
  BY <1>1 DEF Crab!TypeOK
<1>7. Crab!TypeOK'
  <2>1. table' \in [Crab!BucketNo -> Seq(Crab!Node)]
    BY <1>1, <1>2, <1>5 DEF Crab!TypeOK
  <2> QED BY <2>1, <1>1 DEF Crab!TypeOK
<1>8. Alone(t) /\ hpc'[t] = "unlock" /\ Crab!Mine(t)' = Crab!Mine(t) /\ curr'[t] = last
  BY <1>1, <1>3 DEF Alone, Crab!TypeOK, Crab!Mine
<1>9. \A b \in Crab!BucketNo : Len(table[b]) <= Len(table'[b]) /\ \A n \in 1 .. Len(table[b]) : table'[b][n] = table[b][n]
  <2>1. \A b \in Crab!BucketNo : Len(table[b]) \in Nat
    BY Chains
  <2> QED BY <2>1, <1>2, <1>5, <1>6 DEF Crab!Nodes
<1>10. Harmless(t)
  <2>1. GrowsAtOwn(t)
    BY <1>3, <1>6 DEF GrowsAtOwn, Crab!Nodes
  <2> QED BY <2>1, <1>1, <1>8, <1>9 DEF Harmless, Grows, SparesNodes, SparesBuckets
<1>11. Crab!NoDuplicateKeys'
  <2>1. DOMAIN chain = 1 .. last + 1
    BY <1>5, LenProperties
  <2>2. \A m, n \in DOMAIN chain : chain[m].key = chain[n].key => m = n
    <3>1. \A m, n \in 1 .. last : chain[m].key = chain[n].key => m = n
      BY <1>2, <1>5 DEF Crab!Nodes
    <3>2. chain[last + 1].key = key[t] /\ \A m \in 1 .. last : chain[m].key # key[t]
      BY <1>2, <1>4, <1>5, NewNodes
    <3>3. \A m \in 1 .. last + 1 : m \in 1 .. last \/ m = last + 1
      BY <1>2
    <3> HIDE DEF last
    <3> QED BY <2>1, <3>1, <3>2, <3>3
  <2> QED BY <2>2, <1>6, <1>7
<1>12. Crab!OrderInv'
  <2>1. ASSUME NEW u \in Crab!ToStore(key[t]) \ {t}, Crab!Place(t) < Crab!Place(u)
        PROVE  FALSE
    <3>1. u \in Caller /\ Crab!Nodes(u) = Crab!Nodes(t) /\ hpc[u] \in Crab!OnNode
      BY <2>1, <1>3 DEF Crab!ToStore, Crab!Mine, Crab!Nodes, Crab!Place
    <3>2. curr[u] \in 1 .. last /\ Crab!Place(u) = curr[u]
      BY <3>1, AtNode
    <3> QED BY <3>2, <2>1, <1>2, <1>3
  <2>2. /\ last + 1 \in 1 .. Len(table'[Crab!Mine(t)])
        /\ table'[Crab!Mine(t)][last + 1].key = key[t] /\ table'[Crab!Mine(t)][last + 1].value = value[t]
    BY <1>2, <1>5, <1>6, NewNodes
  <2>3. t \in Crab!ToStore(key[t])
    BY <1>1 DEF Crab!ToStore, Crab!OnNode
  <2> QED BY <2>1, <2>2, <2>3, <1>1, <1>7, <1>8, <1>9, OrderStores
<1>13. Crab!Own(t)' /\ Crab!Seen(t)'
  <2>1. DOMAIN chain = 1 .. last + 1
    BY <1>5, LenProperties
  <2>2. Crab!Nodes(t)' = chain
    BY <1>2, <1>6, <1>8 DEF Crab!Nodes
  <2>3. chain[last].node_lock = t
    BY <1>3, <1>5
  <2> QED BY <2>1, <2>2, <2>3, <1>2, <1>3, <1>8 DEF Crab!Own, Crab!Seen, Crab!OnNode
<1> QED BY <1>7, <1>10, <1>11, <1>12, <1>13, Kept

\* The first state satisfies the invariant.
LEMMA CrabInit ==
  ASSUME Crab!Init
  PROVE  Crab!IInv
<1>1. Crab!TypeOK
  <2>1. Crab!NoKey \in KeySpace /\ Crab!NoValue \in Crab!Value /\ 0 \in 0 .. MaxPuts
    BY DEF Crab!NoKey, Crab!NoValue, Crab!Value
  <2>2. <<>> \in Seq(Crab!Node)
    BY EmptySeq
  <2> QED BY <2>1, <2>2 DEF Crab!Init, Crab!TypeOK
<1>2. Crab!NoDuplicateKeys
  BY <1>1 DEF Crab!Init, Crab!NoDuplicateKeys
<1>3. \A t \in Caller : Crab!Own(t) /\ Crab!Seen(t)
  BY DEF Crab!Init, Crab!Own, Crab!Seen, Crab!OnNode
<1>4. Crab!OrderInv
  BY DEF Crab!Init, Crab!OrderInv
<1> QED BY <1>2, <1>3, <1>4 DEF Crab!IInv

\* Every step keeps it.
LEMMA CrabStep ==
  ASSUME Crab!IInv, [Crab!Next]_crabVars
  PROVE  Crab!IInv'
<1>1. ASSUME NEW t \in Caller, Crab!put(t)
      PROVE  Crab!IInv'
  BY <1>1, LockBucketKeeps, FirstNodeKeeps, LockHeadKeeps, UnlockBucketKeeps, VisitKeeps, UpdateKeeps,
     AppendNodeKeeps, LockNextKeeps, UnlockCurrKeeps DEF Crab!put
<1>2. CASE UNCHANGED crabVars
  BY <1>2 DEF crabVars, Crab!IInv, Crab!NoDuplicateKeys, Crab!TypeOK, Crab!Own, Crab!Seen, Crab!OrderInv, Crab!Nodes,
     Crab!Mine, Crab!Passed, Crab!Found, Crab!AtEnd,
              Crab!LastBehind, Crab!Stored, Crab!ToStore, Crab!Place
<1> QED BY <1>1, <1>2, CallKeeps DEF Crab!Next, Crab!Ended, Crab!vars, crabVars

\* The chains as the callers see them follow from the order of the puts.
LEMMA ChainFollows ==
  ASSUME Crab!IInv
  PROVE  Crab!ChainKept
<1> SUFFICES ASSUME NEW k \in KeySpace, Crab!Inside(k) = {}, latest[k] # Crab!NoValue
             PROVE  \E n \in DOMAIN table[Crab!Bucket(k)] :
                      table[Crab!Bucket(k)][n].key = k /\ table[Crab!Bucket(k)][n].value = latest[k]
  BY DEF Crab!IInv, Crab!ChainKept, Crab!LastPutWins
<1>1. Crab!ToStore(k) = {}
  BY DEF Crab!ToStore, Crab!Inside, Crab!OnNode
<1> QED BY <1>1 DEF Crab!IInv, Crab!OrderInv, Crab!LastBehind, Crab!Stored

\* A walker steps only to a node it has locked, and that is never the node of another walker.
LEMMA StepPasses ==
  ASSUME Crab!IInv, Crab!Next
  PROVE  Crab!NobodyPasses
<1> SUFFICES ASSUME NEW t \in Caller, NEW u \in Caller, Crab!Walking(t), Crab!Walking(u), Crab!Mine(t) = Crab!Mine(u),
                    curr[t] < curr[u]
             PROVE  curr'[t] < curr'[u] \/ ~Crab!Walking(u)'
  BY DEF Crab!NobodyPasses
<1>1. t # u /\ curr[t] \in Nat /\ curr[u] \in Nat /\ curr \in [Caller -> Nat]
  <2>1. curr \in [Caller -> Nat]
    BY DEF Crab!IInv, Crab!NoDuplicateKeys, Crab!TypeOK
  <2> QED BY <2>1
<1>2. hpc[t] = "step" => curr[t] + 1 < curr[u]
  <2>1. hpc[t] \in Crab!OnNode /\ hpc[u] \in Crab!OnNode
    BY DEF Crab!Walking, Crab!OnNode
  <2>2. hpc[t] = "step" => curr[t] + 1 # curr[u]
    BY <2>1, <1>1, CrabApart
  <2> QED BY <2>2, <1>1
<1>3. ASSUME NEW a \in Caller, Crab!Call(a) \/ Crab!put(a), NEW w \in {t, u}
      PROVE  curr'[w] = curr[w] \/ (hpc[w] = "step" /\ curr'[w] = curr[w] + 1)
  <2>1. CASE Crab!Call(a) \/ Crab!LockBucket(a) \/ Crab!FirstNode(a) \/ Crab!Visit(a) \/ Crab!Update(a) \/ Crab!AppendNode(a) \/ Crab!LockNext(a)
    BY <2>1 DEF Crab!Call, Crab!LockBucket, Crab!FirstNode, Crab!Visit, Crab!Update, Crab!AppendNode, Crab!LockNext
  <2>2. CASE Crab!LockHead(a)
    BY <2>2, <1>1 DEF Crab!LockHead, Crab!Goto, Crab!Walking
  <2>3. CASE Crab!UnlockBucket(a)
    BY <2>3, <1>1 DEF Crab!UnlockBucket, Crab!Goto, Crab!Return, Crab!Walking
  <2>4. CASE Crab!UnlockCurr(a)
    BY <2>4, <1>1 DEF Crab!UnlockCurr, Crab!Goto, Crab!Return, Crab!Walking
  <2> QED BY <2>1, <2>2, <2>3, <2>4, <1>3 DEF Crab!put
<1>4. CASE Crab!Ended
  BY <1>4 DEF Crab!Ended, Crab!vars
<1>5. CASE \E a \in Caller : Crab!Call(a) \/ Crab!put(a)
  BY <1>1, <1>2, <1>3, <1>5
<1> QED BY <1>4, <1>5 DEF Crab!Next
-----------------------------------------------------------------------------
(* The three programs together. *)

\* What the three need: each keeps its own invariant, also while it does not run.
AllInv == IInv /\ WaitInv /\ Crab!IInv

\* mutex4.c, finished, and mutex8.c, finished.
LEMMA DoneInv ==
  /\ SwapDone => IInv
  /\ WaitsDone => WaitInv
<1>1. Crab!NoKey \in KeySpace
  BY CrabAssumption DEF Crab!CrabAssumption, Crab!NoKey
<1>2. SwapDone => IInv
  BY <1>1 DEF SwapDone, IInv, TypeOK, LoopInv, OwnInv, MainInv, Label, None, Thread
<1>3. WaitsDone => WaitInv
  BY <1>1, WaitsAssumption DEF WaitsDone, WaitInv, Waits!CondAssumption, Waits!WaitInv, Waits!TypeOK, Waits!OwnInv,
     Waits!NothingMissed, Waits!NoLostWakeup, Waits!ReturnsFound, Waits!Critical, Waits!Thread, Waits!BucketNo
<1> QED BY <1>2, <1>3

LEMMA AllInit ==
  ASSUME LocksInit
  PROVE  AllInv
<1>1. Init => IInv
  BY InitInv
<1>2. Waits!Init => WaitInv
  BY WaitInit DEF WaitInv
<1>3. Crab!Init => Crab!IInv
  BY CrabInit
<1> QED BY <1>1, <1>2, <1>3, DoneInv DEF LocksInit, AllInv

\* A program that stands still keeps its invariant.
LEMMA StandStill ==
  /\ IInv /\ UNCHANGED vars => IInv'
  /\ WaitInv /\ UNCHANGED waitVars => WaitInv'
  /\ Crab!IInv /\ UNCHANGED crabVars => Crab!IInv'
<1>1. WaitInv /\ UNCHANGED waitVars => WaitInv'
  BY WaitStep DEF WaitInv
<1>2. Crab!IInv /\ UNCHANGED crabVars => Crab!IInv'
  BY CrabStep
<1> QED BY <1>1, <1>2, Step

LEMMA AllStep ==
  ASSUME AllInv, [LocksNext]_allVars
  PROVE  AllInv'
<1>1. CASE Swaps
  BY <1>1, Step, StandStill DEF Swaps, AllInv
<1>2. CASE WaitFor
  <2>1. WaitInv'
    BY <1>2, WaitStep DEF WaitFor, AllInv, WaitInv
  <2> QED BY <1>2, <2>1, StandStill DEF WaitFor, AllInv
<1>3. CASE Puts
  <2>1. Crab!IInv'
    BY <1>3, CrabStep DEF Puts, AllInv
  <2> QED BY <1>3, <2>1, StandStill DEF Puts, AllInv
<1>4. CASE UNCHANGED allVars
  BY <1>4, StandStill DEF allVars, AllInv
<1> QED BY <1>1, <1>2, <1>3, <1>4 DEF LocksNext

\* The invariants hold in every state of the three programs.
THEOREM AllKept == LocksSpec => []AllInv
<1>1. LocksInit => AllInv
  BY AllInit
<1>2. AllInv /\ [LocksNext]_allVars => AllInv'
  BY AllStep
<1> QED BY <1>1, <1>2, PTL DEF LocksSpec

\* mutex8.c: no getter sleeps through the put it waits for, or returns without its key.
THEOREM NobodySleepsOn == LocksSpec => []WaitInv
<1>1. AllInv => WaitInv
  BY DEF AllInv
<1> QED BY <1>1, AllKept, PTL

\* mutex7.c: no key is in a chain twice, and each has the value of the put that locked the
\* bucket last, once its puts have returned.
THEOREM ChainStaysKept == LocksSpec => []ChainKept
<1>1. AllInv => ChainKept
  BY ChainFollows DEF AllInv, ChainKept
<1> QED BY <1>1, AllKept, PTL

\* mutex7.c: nobody overtakes in the chain.
THEOREM NobodyOvertakes == LocksSpec => NeverPassed
<1>1. AllInv /\ [LocksNext]_allVars => [Crab!NobodyPasses]_(Crab!vars)
  <2> SUFFICES ASSUME AllInv, [LocksNext]_allVars, ~UNCHANGED Crab!vars
               PROVE  Crab!NobodyPasses
    OBVIOUS
  <2>1. Crab!Next
    BY DEF LocksNext, Swaps, WaitFor, Puts, allVars, crabVars, Crab!vars
  <2> QED BY <2>1, StepPasses DEF AllInv
<1> QED BY <1>1, AllKept, PTL DEF LocksSpec, NeverPassed, Crab!NeverPassed

\* The lock order of mutex4.c excludes a deadly embrace here too.
THEOREM NobodyEmbraces == LocksSpec => []NoDeadlyEmbrace
<1>1. AllInv => NoDeadlyEmbrace
  BY Apart DEF AllInv
<1> QED BY <1>1, AllKept, PTL
=============================================================================
