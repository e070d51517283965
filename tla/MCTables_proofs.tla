---------------------------- MODULE MCTables_proofs ----------------------------
(***************************************************************************)
(* The table programs mutex1.c, mutex3.c, mutex5.c, mutex6.c, mutex9.c and *)
(* mutex10.c for every number of buckets, keys and threads.  First what    *)
(* they share: whatever the kind of lock, a put that has its chain to      *)
(* itself keeps the table right.  The operators of Chains say so, and a    *)
(* step of a put is one of those of PutStep.  Then the programs one by     *)
(* one: that their steps are of that form, and what they count.            *)
(***************************************************************************)
EXTENDS MCTables, FiniteSetTheorems, TLAPS

USE TableAssumption

\* Where a put has the lock, where a thread is in a put, and in a get.
Working   == {"search", "store", "count", "unlock"}
PutLabels == Working \cup {"lock", "yield"}
GetLabels == {"get", "rdlock", "walk", "rdunlock"}
Labels    == PutLabels \cup GetLabels \cup {"done"}

\* The owner of the lock of a bucket.
Owner(n) ==
  CASE program = "mutex1.c" -> global_lock
    [] program = "mutex3.c" -> rwlocks[n].writer
    [] OTHER -> locks[n]
\* The buckets whose lock is the one that t takes.
Covers(t, n) == program = "mutex1.c" \/ n = Chain(t)

\* Before the gets, and from there on.
Early == phase \in {"assert", "put", "aborted"}
InSlice(j) == j < b * nthread
AllPut == \A j \in Index : InSlice(j) => Holding(table[Bucket(keys[j])], keys[j]) # {}

\* The threads are in their loops.
LoopInv ==
  /\ \A t \in Thread : pc[t] \in PutLabels => Early /\ iter[t] < b
  /\ \A t \in Thread : pc[t] = "done" /\ Early => iter[t] = b
  /\ \A t \in Thread : pc[t] \in GetLabels => phase = "get" /\ iter[t] < NKEYS
\* Who works on a chain has its lock, and nobody else has one.
LockInv ==
  /\ \A t \in Thread : pc[t] \in Working => Owner(Chain(t)) = t
  /\ \A n \in BucketNo : Owner(n) \in Thread \cup {None}
  /\ \A n \in BucketNo : \A t \in Thread : Owner(n) = t => pc[t] \in Working /\ Covers(t, n)
\* The chains hold the entries of their keys, and only of those that were put.
PlaceInv == \A n \in BucketNo : \A j \in table[n] : Bucket(keys[j]) = n /\ InSlice(j)
\* What was put is there, and what is being put is there before the lock is given back.
TableInv == PlaceInv /\ NoDuplicateKeys /\ (Early => NoLostPut) /\ (~Early => AllPut)
PutInv ==
  \A t \in Thread : pc[t] \in {"count", "unlock"} => Holding(table[Chain(t)], Key(t)) # {}

ChainsInv == TableTypes(Labels) /\ LoopInv /\ LockInv /\ TableInv /\ FreshSearch /\ PutInv

\* The steps of a put: the locks that t takes have their owner afterwards.
OwnerAfter(t, who) == \A n \in BucketNo : Owner(n)' = IF Covers(t, n) THEN who ELSE Owner(n)
SameOwners == \A n \in BucketNo : Owner(n)' = Owner(n)
SameChains == UNCHANGED <<nthread, keys, table, val, iter, seen>>
Takes(t) == Goto(t, "lock", "search") /\ Owner(Chain(t)) = None /\ OwnerAfter(t, t) /\ SameChains
Gives(t) == Return(t) /\ OwnerAfter(t, None)
Polls(t) == SameChains /\ SameOwners /\ (Goto(t, "lock", "yield") \/ Goto(t, "yield", "lock"))
Searches(t) == Search(t) /\ SameOwners
Stores(t)   == SameOwners /\ \E after \in {"count", "unlock"} : Store(t, after)
Counts(t)   == Goto(t, "count", "unlock") /\ SameChains /\ SameOwners
PutStep(t)  ==
  /\ Takes(t) \/ Gives(t) \/ Polls(t) \/ Searches(t) \/ Stores(t) \/ Counts(t)
  /\ UNCHANGED <<program, phase>>
-----------------------------------------------------------------------------
(* Arithmetic. *)

LEMMA SliceType ==
  ASSUME nthread \in ThreadNums
  PROVE  /\ nthread \in Nat \ {0} /\ b \in Nat /\ b * nthread \in Nat /\ b * nthread <= NKEYS
         /\ Thread \subseteq Int /\ None \notin Thread /\ 0 \in Thread
         /\ \A t \in Thread : \A k \in 0 .. b - 1 : b * t + k \in Index /\ InSlice(b * t + k)
<1>1. nthread \in Nat \ {0}
  OBVIOUS
<1>2. b \in Nat /\ b * nthread <= NKEYS /\ b * nthread \in Nat
  BY <1>1 DEF b
<1>3. ASSUME NEW t \in Thread, NEW k \in 0 .. b - 1 PROVE b * t + k \in Index /\ InSlice(b * t + k)
  <2>1. b * t \in Nat /\ b * (t + 1) = b * t + b
    BY <1>1, <1>2, <1>3 DEF Thread
  <2>2. b * (t + 1) <= b * nthread
    BY <1>1, <1>2, <1>3 DEF Thread
  <2> QED BY <1>2, <1>3, <2>1, <2>2 DEF Index, InSlice
<1> QED BY <1>1, <1>2, <1>3 DEF Thread, None

\* The slices of the threads are all there is to put.
LEMMA SlicesCover ==
  ASSUME nthread \in ThreadNums, NEW j \in Index, InSlice(j)
  PROVE  \E t \in Thread : \E k \in 0 .. b - 1 : j = b * t + k
<1>1. nthread \in Nat \ {0} /\ b \in Nat /\ j \in Nat /\ j < b * nthread
  BY SliceType DEF Index, InSlice
<1>2. b \in Nat \ {0}
  BY <1>1
<1> HIDE DEF b
<1> DEFINE t == j \div b
           k == j % b
<1>3. j = b * t + k /\ k \in 0 .. b - 1 /\ t \in Nat
  BY <1>1, <1>2
<1>4. t < nthread
  BY <1>1, <1>2, <1>3
<1>5. t \in Thread
  BY <1>1, <1>3, <1>4 DEF Thread
<1> HIDE DEF t, k
<1> QED BY <1>3, <1>5

\* The entry, the key and the chain of a thread that has a put to do.
LEMMA PutTypes ==
  ASSUME TableTypes(Labels), LoopInv, NEW t \in Thread, pc[t] \in PutLabels
  PROVE  /\ At(t) \in Index /\ InSlice(At(t)) /\ Key(t) \in KeySpace /\ Chain(t) \in BucketNo
         /\ iter[t] \in Nat /\ iter[t] + 1 \in 0 .. NKEYS /\ iter[t] < b /\ b \in Nat
         /\ Key(t) = keys[At(t)] /\ Chain(t) = Bucket(Key(t))
<1>1. nthread \in ThreadNums /\ iter[t] \in 0 .. NKEYS /\ iter[t] < b /\ keys \in [Index -> KeySpace]
  BY DEF TableTypes, LoopInv
<1>2. b \in Nat /\ iter[t] \in 0 .. b - 1
  BY <1>1, SliceType
<1>3. At(t) \in Index /\ InSlice(At(t))
  BY <1>1, <1>2, SliceType DEF At
<1>4. Key(t) \in KeySpace /\ Key(t) \in Nat
  BY <1>1, <1>3 DEF Key
<1>5. Chain(t) \in BucketNo
  BY <1>4 DEF Chain, Bucket, BucketNo
<1>6. b <= NKEYS
  BY <1>1, <1>2, SliceType
<1> QED BY <1>1, <1>2, <1>3, <1>4, <1>5, <1>6 DEF Key, Chain

\* The bucket of a key.
LEMMA KeyBucket ==
  ASSUME keys \in [Index -> KeySpace], NEW j \in Index
  PROVE  keys[j] \in Nat /\ Bucket(keys[j]) \in BucketNo
<1>1. keys[j] \in Nat
  OBVIOUS
<1> QED BY <1>1 DEF Bucket, BucketNo

\* No two threads work on the same chain.
LEMMA Exclusion ==
  ASSUME LockInv, NEW t \in Thread, NEW u \in Thread, pc[t] \in Working, pc[u] \in Working, Chain(t) = Chain(u)
  PROVE  t = u
BY DEF LockInv
-----------------------------------------------------------------------------
(* The steps of a put. *)

\* Which chain a thread works on depends on the keys and on its loop counter only.
LEMMA Frame ==
  ASSUME UNCHANGED <<nthread, keys>>, NEW t, iter'[t] = iter[t]
  PROVE  At(t)' = At(t) /\ Key(t)' = Key(t) /\ Chain(t)' = Chain(t)
BY DEF At, Key, Chain, b

LEMMA SameSets ==
  ASSUME UNCHANGED nthread
  PROVE  Thread' = Thread /\ b' = b /\ \A j : InSlice(j)' = InSlice(j)
BY DEF Thread, b, InSlice

\* A step that leaves the table and the loop counters alone.
LEMMA SameTable ==
  ASSUME TableInv, UNCHANGED <<nthread, keys, table, iter, phase>>
  PROVE  TableInv'
<1>1. \A j \in Index : Put(j)' = Put(j)
  BY SameSets DEF Put
<1>2. NoLostPut => NoLostPut'
  BY <1>1 DEF NoLostPut, Holding
<1>3. AllPut => AllPut'
  BY SameSets DEF AllPut, Holding
<1> QED BY <1>2, <1>3, SameSets DEF TableInv, PlaceInv, NoDuplicateKeys, Early

\* A step of t inside a put leaves the loops and types as they are.
LEMMA InsideLoop ==
  ASSUME TableTypes(Labels), LoopInv, NEW t \in Thread, pc[t] \in PutLabels,
         NEW l \in PutLabels, pc' = [pc EXCEPT ![t] = l], UNCHANGED <<nthread, keys, iter, phase>>
  PROVE  LoopInv' /\ pc' \in [Thread -> Labels]
<1>1. Thread' = Thread /\ b' = b
  BY SameSets
<1>2. pc' \in [Thread -> Labels] /\ pc'[t] = l /\ \A u \in Thread : u # t => pc'[u] = pc[u]
  BY DEF TableTypes, Labels
<1>3. l # "done" /\ l \notin GetLabels
  BY DEF PutLabels, Working, GetLabels
<1> QED BY <1>1, <1>2, <1>3 DEF LoopInv, Early

\* The owner of the chain of a thread whose loop counter stands.
LEMMA SameOwner ==
  ASSUME UNCHANGED <<nthread, keys, program>>, NEW u, iter'[u] = iter[u], NEW c, Chain(u) = c
  PROVE  Owner(Chain(u))' = Owner(c)'
BY Frame DEF Owner

\* ... and, with the lock in hand, the locks.
LEMMA InsideLock ==
  ASSUME TableTypes(Labels), LoopInv, LockInv, NEW t \in Thread, NEW l, pc' = [pc EXCEPT ![t] = l],
         pc[t] \in Working <=> l \in Working, SameOwners, UNCHANGED <<nthread, keys, iter, program>>
  PROVE  LockInv'
<1>1. Thread' = Thread /\ \A u : Chain(u)' = Chain(u) /\ \A n : Covers(u, n)' = Covers(u, n)
  BY SameSets, Frame DEF Covers
<1>2. \A u \in Thread : pc'[u] \in Working <=> pc[u] \in Working
  BY DEF TableTypes
<1>3. ASSUME NEW u \in Thread, pc'[u] \in Working PROVE Owner(Chain(u))' = u
  <2>1. Owner(Chain(u)) = u /\ Chain(u) \in BucketNo
    BY <1>2, <1>3, PutTypes DEF LockInv, PutLabels
  <2>2. Owner(Chain(u))' = Owner(Chain(u))
    BY <2>1, SameOwner DEF SameOwners
  <2> QED BY <2>1, <2>2
<1>4. \A n \in BucketNo : Owner(n)' \in Thread \cup {None}
  BY DEF LockInv, SameOwners
<1>5. ASSUME NEW n \in BucketNo, NEW u \in Thread, Owner(n)' = u PROVE pc'[u] \in Working /\ Covers(u, n)'
  BY <1>1, <1>2, <1>5 DEF LockInv, SameOwners
<1> QED BY <1>1, <1>3, <1>4, <1>5 DEF LockInv

\* What the others know survives a step of t that leaves the table alone.
LEMMA OthersKnow ==
  ASSUME FreshSearch, PutInv, NEW t, UNCHANGED <<nthread, keys, table>>,
         \A u \in Thread \ {t} : pc'[u] = pc[u] /\ iter'[u] = iter[u] /\ seen'[u] = seen[u],
         t \in Thread => /\ pc'[t] = "store" => seen'[t] = table'[Chain(t)']
                         /\ pc'[t] \in {"count", "unlock"} => Holding(table[Chain(t)], Key(t))' # {}
  PROVE  FreshSearch' /\ PutInv'
<1>1. Thread' = Thread
  BY SameSets
<1>2. \A u \in Thread \ {t} : /\ Chain(u)' = Chain(u) /\ Key(u)' = Key(u)
                              /\ Holding(table[Chain(u)], Key(u))' = Holding(table[Chain(u)], Key(u))
  BY Frame DEF Holding
<1>3. FreshSearch'
  BY <1>1, <1>2 DEF FreshSearch
<1>4. PutInv'
  BY <1>1, <1>2 DEF PutInv
<1> QED BY <1>3, <1>4

\* Taking a lock keeps everything: it was nobody's.
LEMMA TakesKeeps ==
  ASSUME ChainsInv, NEW t \in Thread, Takes(t), UNCHANGED <<program, phase>>
  PROVE  ChainsInv'
<1> USE DEF ChainsInv
<1>1. /\ pc[t] = "lock" /\ pc' = [pc EXCEPT ![t] = "search"] /\ Owner(Chain(t)) = None
      /\ UNCHANGED <<nthread, keys, table, val, iter, seen>>
  BY DEF Takes, Goto, SameChains
<1>2. \A n \in BucketNo : Owner(n)' = IF Covers(t, n) THEN t ELSE Owner(n)
  BY DEF Takes, OwnerAfter
<1>3. LoopInv' /\ pc' \in [Thread -> Labels]
  BY <1>1, InsideLoop DEF PutLabels, Working
<1>4. Thread' = Thread /\ \A u : Chain(u)' = Chain(u) /\ \A n : Covers(u, n)' = Covers(u, n)
  BY <1>1, SameSets, Frame DEF Covers
<1>5. TableTypes(Labels)'
  BY <1>1, <1>3, <1>4 DEF TableTypes
<1>6. pc'[t] = "search" /\ \A u \in Thread \ {t} : pc'[u] = pc[u]
  BY <1>1 DEF TableTypes
<1>7. Chain(t) \in BucketNo /\ Covers(t, Chain(t)) /\ \A u \in Thread : pc[u] \in Working => Chain(u) \in BucketNo
  BY <1>1, PutTypes DEF PutLabels, Covers
<1>8. \A n \in BucketNo : Covers(t, n) => Owner(n) = None
  BY <1>1 DEF Covers, Owner
<1>9. LockInv'
  <2>1. ASSUME NEW u \in Thread, pc'[u] \in Working PROVE Owner(Chain(u))' = u
    <3>1. CASE u = t
      BY <3>1, <1>1, <1>2, <1>7, SameOwner
    <3>2. CASE u # t
      <4>1. Owner(Chain(u)) = u /\ Chain(u) \in BucketNo /\ u # None
        BY <3>2, <2>1, <1>6, <1>7, SliceType DEF LockInv, TableTypes
      <4>2. ~Covers(t, Chain(u))
        BY <4>1, <1>8
      <4>3. Owner(Chain(u))' = Owner(Chain(u))
        BY <4>1, <4>2, <1>1, <1>2, SameOwner
      <4> QED BY <4>1, <4>3
    <3> QED BY <3>1, <3>2
  <2>2. \A n \in BucketNo : Owner(n)' \in Thread \cup {None}
    BY <1>2 DEF LockInv
  <2>3. ASSUME NEW n \in BucketNo, NEW u \in Thread, Owner(n)' = u PROVE pc'[u] \in Working /\ Covers(u, n)'
    BY <2>3, <1>2, <1>4, <1>6 DEF LockInv, Working
  <2> QED BY <1>4, <2>1, <2>2, <2>3 DEF LockInv
<1>10. TableInv'
  BY <1>1, SameTable
<1>11. FreshSearch' /\ PutInv'
  BY <1>1, <1>6, OthersKnow
<1> QED BY <1>3, <1>5, <1>9, <1>10, <1>11

\* A step with the lock in hand that leaves the table alone.
LEMMA InsideKeeps ==
  ASSUME ChainsInv, NEW t \in Thread, pc[t] \in PutLabels, NEW l \in PutLabels, pc' = [pc EXCEPT ![t] = l],
         pc[t] \in Working <=> l \in Working, SameOwners, UNCHANGED <<nthread, keys, table, iter, program, phase>>,
         val' \in [Index -> Thread \cup {None}], seen' \in [Thread -> SUBSET Index],
         \A u \in Thread \ {t} : seen'[u] = seen[u],
         l = "store" => seen'[t] = table[Chain(t)],
         l \in {"count", "unlock"} => Holding(table[Chain(t)], Key(t)) # {}
  PROVE  ChainsInv'
<1> USE DEF ChainsInv
<1>1. LoopInv' /\ pc' \in [Thread -> Labels]
  BY InsideLoop
<1>2. LockInv'
  BY InsideLock
<1>3. TableInv'
  BY SameTable
<1>4. Thread' = Thread
  BY SameSets
<1>5. TableTypes(Labels)'
  BY <1>1, <1>4 DEF TableTypes
<1>6. pc'[t] = l /\ \A u \in Thread \ {t} : pc'[u] = pc[u]
  BY DEF TableTypes
<1>7. Chain(t)' = Chain(t) /\ Holding(table[Chain(t)], Key(t))' = Holding(table[Chain(t)], Key(t))
  BY Frame DEF Holding
<1>8. FreshSearch' /\ PutInv'
  BY <1>6, <1>7, OthersKnow
<1> QED BY <1>1, <1>2, <1>3, <1>5, <1>8

LEMMA PollsKeeps ==
  ASSUME ChainsInv, NEW t \in Thread, Polls(t), UNCHANGED <<program, phase>>
  PROVE  ChainsInv'
<1>1. UNCHANGED <<nthread, keys, table, val, iter, seen>> /\ SameOwners
  BY DEF Polls, SameChains
<1>2. PICK l \in {"lock", "yield"} : pc[t] \in {"lock", "yield"} /\ pc' = [pc EXCEPT ![t] = l]
  BY DEF Polls, Goto
<1>3. val' \in [Index -> Thread \cup {None}] /\ seen' \in [Thread -> SUBSET Index]
  BY <1>1 DEF ChainsInv, TableTypes
<1> QED BY <1>1, <1>2, <1>3, InsideKeeps DEF PutLabels, Working

LEMMA SearchesKeeps ==
  ASSUME ChainsInv, NEW t \in Thread, Searches(t), UNCHANGED <<program, phase>>
  PROVE  ChainsInv'
<1>1. /\ UNCHANGED <<nthread, keys, table, val, iter>> /\ SameOwners
      /\ pc[t] = "search" /\ pc' = [pc EXCEPT ![t] = "store"] /\ seen' = [seen EXCEPT ![t] = table[Chain(t)]]
  BY DEF Searches, Search, Goto
<1>2. /\ table[Chain(t)] \subseteq Index /\ val \in [Index -> Thread \cup {None}] /\ seen \in [Thread -> SUBSET Index]
  BY <1>1, PutTypes DEF ChainsInv, TableTypes, PutLabels, Working
<1>3. seen' \in [Thread -> SUBSET Index] /\ seen'[t] = table[Chain(t)] /\ \A u \in Thread \ {t} : seen'[u] = seen[u]
  BY <1>1, <1>2
<1> QED BY <1>1, <1>2, <1>3, InsideKeeps DEF PutLabels, Working

LEMMA CountsKeeps ==
  ASSUME ChainsInv, NEW t \in Thread, Counts(t), UNCHANGED <<program, phase>>
  PROVE  ChainsInv'
<1>1. /\ UNCHANGED <<nthread, keys, table, val, iter, seen>> /\ SameOwners
      /\ pc[t] = "count" /\ pc' = [pc EXCEPT ![t] = "unlock"]
  BY DEF Counts, Goto, SameChains
<1>2. val' \in [Index -> Thread \cup {None}] /\ seen' \in [Thread -> SUBSET Index]
  BY <1>1 DEF ChainsInv, TableTypes
<1>3. Holding(table[Chain(t)], Key(t)) # {}
  BY <1>1 DEF ChainsInv, PutInv
<1> QED BY <1>1, <1>2, <1>3, InsideKeeps DEF PutLabels, Working

\* A put that finds its key changes the value of an entry of the chain.
LEMMA UpdateKeeps ==
  ASSUME ChainsInv, NEW t \in Thread, Stores(t), UNCHANGED <<program, phase>>, Holding(seen[t], Key(t)) # {}
  PROVE  ChainsInv'
<1>1. PICK after \in {"count", "unlock"} : Store(t, after)
  BY DEF Stores
<1>2. /\ UNCHANGED <<nthread, keys, table, iter, seen>> /\ SameOwners
      /\ pc[t] = "store" /\ pc' = [pc EXCEPT ![t] = after]
      /\ val' = [val EXCEPT ![CHOOSE j \in Holding(seen[t], Key(t)) : TRUE] = t]
  BY <1>1 DEF Stores, Store, Goto
<1>3. seen[t] = table[Chain(t)] /\ seen' \in [Thread -> SUBSET Index]
  BY <1>2 DEF ChainsInv, FreshSearch, TableTypes
<1>4. val' \in [Index -> Thread \cup {None}]
  BY <1>2 DEF ChainsInv, TableTypes
<1> QED BY <1>2, <1>3, <1>4, InsideKeeps DEF PutLabels, Working

\* A put that does not find its key adds an entry to the chain, which is the one it saw.
LEMMA InsertEffect ==
  ASSUME ChainsInv, NEW t \in Thread, NEW after, Store(t, after), Holding(seen[t], Key(t)) = {}
  PROVE  /\ At(t) \in Index /\ InSlice(At(t)) /\ Chain(t) \in BucketNo /\ keys[At(t)] = Key(t)
         /\ Bucket(Key(t)) = Chain(t) /\ pc[t] = "store" /\ pc' = [pc EXCEPT ![t] = after]
         /\ val' = [val EXCEPT ![At(t)] = t]
         /\ table' = [table EXCEPT ![Chain(t)] = table[Chain(t)] \cup {At(t)}]
         /\ \A n \in BucketNo : At(t) \notin table[n]
         /\ \A j \in table[Chain(t)] : keys[j] # Key(t)
         /\ UNCHANGED <<nthread, keys, iter, seen>>
<1>1. /\ UNCHANGED <<nthread, keys, iter, seen>> /\ pc[t] = "store" /\ pc' = [pc EXCEPT ![t] = after]
      /\ val' = [val EXCEPT ![At(t)] = t] /\ table' = [table EXCEPT ![Chain(t)] = seen[t] \cup {At(t)}]
  BY DEF Store, Goto
<1>2. seen[t] = table[Chain(t)]
  BY <1>1 DEF ChainsInv, FreshSearch
<1>3. /\ At(t) \in Index /\ InSlice(At(t)) /\ Chain(t) \in BucketNo /\ keys[At(t)] = Key(t)
      /\ Bucket(Key(t)) = Chain(t)
  BY <1>1, PutTypes DEF ChainsInv, PutLabels, Working
<1>4. \A j \in table[Chain(t)] : keys[j] # Key(t)
  BY <1>2 DEF Holding
<1>5. \A n \in BucketNo : At(t) \notin table[n]
  BY <1>3, <1>4 DEF ChainsInv, TableInv, PlaceInv
<1> QED BY <1>1, <1>2, <1>3, <1>4, <1>5

LEMMA InsertKeeps ==
  ASSUME ChainsInv, NEW t \in Thread, Stores(t), UNCHANGED <<program, phase>>, Holding(seen[t], Key(t)) = {}
  PROVE  ChainsInv'
<1> USE DEF ChainsInv
<1>1. PICK after \in {"count", "unlock"} : Store(t, after)
  BY DEF Stores
<1>2. /\ At(t) \in Index /\ InSlice(At(t)) /\ Chain(t) \in BucketNo /\ keys[At(t)] = Key(t)
      /\ Bucket(Key(t)) = Chain(t) /\ pc[t] = "store" /\ pc' = [pc EXCEPT ![t] = after]
      /\ val' = [val EXCEPT ![At(t)] = t]
      /\ table' = [table EXCEPT ![Chain(t)] = table[Chain(t)] \cup {At(t)}]
      /\ \A n \in BucketNo : At(t) \notin table[n]
      /\ \A j \in table[Chain(t)] : keys[j] # Key(t)
      /\ UNCHANGED <<nthread, keys, iter, seen>>
  BY <1>1, InsertEffect
<1>3. /\ keys \in [Index -> KeySpace] /\ table \in [BucketNo -> SUBSET Index] /\ SameOwners
      /\ pc \in [Thread -> Labels]
  BY DEF TableTypes, Stores
<1>4. LoopInv' /\ pc' \in [Thread -> Labels]
  BY <1>2, InsideLoop DEF PutLabels, Working
<1>5. LockInv'
  BY <1>2, <1>3, InsideLock DEF Working
<1>6. Thread' = Thread /\ b' = b /\ \A j : InSlice(j)' = InSlice(j) /\ Put(j)' = Put(j)
  BY <1>2, SameSets DEF Put
<1>7. TableTypes(Labels)'
  <2>1. table' \in [BucketNo -> SUBSET Index] /\ val' \in [Index -> Thread \cup {None}]
    BY <1>2, <1>3 DEF TableTypes
  <2> QED BY <2>1, <1>2, <1>4, <1>6 DEF TableTypes
<1>8. \A n \in BucketNo : \A k : Holding(table[n], k) \subseteq Holding(table[n], k)'
  BY <1>2, <1>3 DEF Holding
<1>9. TableInv'
  <2>1. PlaceInv'
    BY <1>2, <1>3, <1>6 DEF TableInv, PlaceInv, Bucket
  <2>2. NoDuplicateKeys'
    BY <1>2, <1>3 DEF TableInv, NoDuplicateKeys
  <2>3. \A j \in Index : /\ Holding(table[Bucket(keys[j])], keys[j]) \subseteq Holding(table[Bucket(keys[j])], keys[j])'
                         /\ keys'[j] = keys[j]
    BY <1>2, <1>3, <1>8, KeyBucket
  <2>4. (NoLostPut => NoLostPut') /\ (AllPut => AllPut')
    BY <2>3, <1>6 DEF NoLostPut, AllPut
  <2> QED BY <2>1, <2>2, <2>4 DEF TableInv, Early
<1>10. pc'[t] = after /\ \A u \in Thread \ {t} : pc'[u] = pc[u]
  BY <1>2, <1>3
<1>11. \A u \in Thread : Chain(u)' = Chain(u) /\ Key(u)' = Key(u)
  BY <1>2, Frame
<1>12. ASSUME NEW u \in Thread, pc'[u] = "store" PROVE seen'[u] = table'[Chain(u)']
  <2>1. u # t /\ pc[u] = "store"
    BY <1>10, <1>12
  <2>2. Chain(u) # Chain(t) /\ Chain(u) \in BucketNo /\ seen[u] = table[Chain(u)]
    BY <2>1, <1>2, Exclusion, PutTypes DEF Working, PutLabels, FreshSearch
  <2> QED BY <2>2, <1>2, <1>3, <1>11
<1>13. ASSUME NEW u \in Thread, pc'[u] \in {"count", "unlock"} PROVE Holding(table[Chain(u)], Key(u))' # {}
  <2>1. CASE u = t
    <3>1. At(t) \in Holding(table[Chain(t)], Key(t))'
      BY <1>2, <1>3, <1>11 DEF Holding
    <3> QED BY <2>1, <3>1
  <2>2. CASE u # t
    <3>1. pc[u] \in {"count", "unlock"} /\ Chain(u) \in BucketNo
      BY <2>2, <1>10, <1>13, PutTypes DEF Working, PutLabels
    <3>2. Holding(table[Chain(u)], Key(u)) # {}
      BY <3>1 DEF PutInv
    <3>3. Holding(table[Chain(u)], Key(u)) \subseteq Holding(table[Chain(u)], Key(u))'
      BY <3>1, <1>2, <1>3, <1>11 DEF Holding
    <3> QED BY <3>2, <3>3
  <2> QED BY <2>1, <2>2
<1> QED BY <1>4, <1>5, <1>6, <1>7, <1>9, <1>12, <1>13 DEF FreshSearch, PutInv

\* A put that returns leaves its key in the table, and gives back a lock that was its own.
LEMMA GivesKeeps ==
  ASSUME ChainsInv, NEW t \in Thread, Gives(t), UNCHANGED <<program, phase>>
  PROVE  ChainsInv'
<1> USE DEF ChainsInv
<1>1. /\ UNCHANGED <<nthread, keys, table, val, seen>> /\ iter' = [iter EXCEPT ![t] = iter[t] + 1]
      /\ pc[t] = "unlock" /\ pc' = [pc EXCEPT ![t] = PutLoop(t, iter[t] + 1)]
  BY DEF Gives, Return, Goto
<1>2. \A n \in BucketNo : Owner(n)' = IF Covers(t, n) THEN None ELSE Owner(n)
  BY DEF Gives, OwnerAfter
<1>3. /\ pc \in [Thread -> Labels] /\ iter \in [Thread -> 0 .. NKEYS] /\ nthread \in ThreadNums
      /\ keys \in [Index -> KeySpace]
  BY DEF TableTypes
<1>4. /\ iter[t] < b /\ b \in Nat /\ iter[t] \in Nat /\ iter[t] + 1 \in 0 .. NKEYS /\ At(t) \in Index
      /\ Key(t) = keys[At(t)] /\ Chain(t) = Bucket(Key(t)) /\ Chain(t) \in BucketNo
  BY <1>1, PutTypes DEF PutLabels, Working
<1>5. /\ pc'[t] = PutLoop(t, iter[t] + 1) /\ iter'[t] = iter[t] + 1
      /\ \A u \in Thread \ {t} : pc'[u] = pc[u] /\ iter'[u] = iter[u]
  BY <1>1, <1>3
<1>6. \/ pc'[t] = "lock" /\ iter'[t] < b
      \/ pc'[t] = "done" /\ iter'[t] = b
  BY <1>4, <1>5 DEF PutLoop
<1>7. Thread' = Thread /\ b' = b /\ \A j : InSlice(j)' = InSlice(j)
  BY <1>1, SameSets
<1>8. TableTypes(Labels)'
  <2>1. pc' \in [Thread -> Labels]
    BY <1>1, <1>3, <1>5, <1>6 DEF Labels, PutLabels
  <2>2. iter' \in [Thread -> 0 .. NKEYS]
    BY <1>1, <1>3, <1>4
  <2> QED BY <2>1, <2>2, <1>1, <1>7 DEF TableTypes
<1>9. LoopInv'
  BY <1>1, <1>5, <1>6, <1>7 DEF LoopInv, PutLabels, GetLabels, Working, Early
<1>10. \A u \in Thread \ {t} : Chain(u)' = Chain(u) /\ Key(u)' = Key(u)
  BY <1>1, <1>5, Frame
<1>11. pc'[t] \notin Working
  BY <1>6 DEF Working
<1>12. LockInv'
  <2>1. ASSUME NEW u \in Thread, pc'[u] \in Working PROVE Owner(Chain(u))' = u
    <3>1. u # t /\ pc[u] \in Working /\ Chain(u) \in BucketNo
      BY <2>1, <1>5, <1>11, PutTypes DEF PutLabels
    <3>2. Owner(Chain(u)) = u /\ Owner(Chain(t)) = t
      BY <3>1, <1>1 DEF LockInv, Working
    <3>3. ~Covers(t, Chain(u))
      BY <3>1, <3>2 DEF Covers, Owner
    <3>4. Owner(Chain(u))' = Owner(Chain(u))
      BY <3>1, <3>3, <1>1, <1>2, <1>5, SameOwner
    <3> QED BY <3>2, <3>4
  <2>2. \A n \in BucketNo : Owner(n)' \in Thread \cup {None}
    BY <1>2 DEF LockInv
  <2>3. ASSUME NEW n \in BucketNo, NEW u \in Thread, Owner(n)' = u PROVE pc'[u] \in Working /\ Covers(u, n)'
    <3>1. Owner(n) = u /\ ~Covers(t, n)
      BY <2>3, <1>2, <1>3, SliceType
    <3>2. u # t /\ pc[u] \in Working /\ Covers(u, n)
      BY <3>1 DEF LockInv
    <3> QED BY <3>2, <1>5, <1>10 DEF Covers
  <2> QED BY <1>7, <2>1, <2>2, <2>3 DEF LockInv
<1>13. TableInv'
  <2>1. PlaceInv' /\ NoDuplicateKeys' /\ (AllPut => AllPut')
    BY <1>1, <1>7 DEF TableInv, PlaceInv, NoDuplicateKeys, AllPut, Holding
  <2>2. ASSUME NEW j \in Index, Put(j)' PROVE Put(j) \/ j = At(t)
    <3>1. PICK u \in Thread : \E k \in 0 .. b - 1 : j = b * u + k /\ k < iter'[u]
      BY <2>2, <1>7 DEF Put
    <3>2. PICK k \in 0 .. b - 1 : j = b * u + k /\ k < iter'[u]
      BY <3>1
    <3>3. k < iter[u] \/ (u = t /\ k = iter[t])
      BY <3>2, <1>4, <1>5
    <3> QED BY <3>2, <3>3 DEF Put, At
  <2>3. Holding(table[Bucket(keys[At(t)])], keys[At(t)]) # {}
    BY <1>1, <1>4 DEF PutInv
  <2>4. NoLostPut => NoLostPut'
    BY <2>2, <2>3, <1>1 DEF NoLostPut, Holding
  <2> QED BY <2>1, <2>4 DEF TableInv, Early
<1>14. FreshSearch'
  BY <1>1, <1>5, <1>6, <1>7, <1>10 DEF FreshSearch
<1>15. PutInv'
  BY <1>1, <1>5, <1>6, <1>7, <1>10 DEF PutInv, Holding
<1> QED BY <1>8, <1>9, <1>12, <1>13, <1>14, <1>15

\* Every step of a put keeps the chains right.
LEMMA PutKeeps ==
  ASSUME ChainsInv, NEW t \in Thread, PutStep(t)
  PROVE  ChainsInv'
BY TakesKeeps, GivesKeeps, PollsKeeps, SearchesKeeps, UpdateKeeps, InsertKeeps, CountsKeeps DEF PutStep
-----------------------------------------------------------------------------
(* The steps of main and of the gets. *)

\* All puts have returned when their threads are done.
LEMMA AllDone ==
  ASSUME ChainsInv, Early, \A t \in Thread : pc[t] = "done"
  PROVE  AllPut
<1>1. \A t \in Thread : iter[t] = b
  BY DEF ChainsInv, LoopInv
<1>2. ASSUME NEW j \in Index, InSlice(j) PROVE Put(j)
  <2>1. nthread \in ThreadNums
    BY DEF ChainsInv, TableTypes
  <2>2. PICK t \in Thread : \E k \in 0 .. b - 1 : j = b * t + k
    BY <2>1, <1>2, SlicesCover
  <2>3. b \in Nat
    BY <2>1, SliceType
  <2> QED BY <1>1, <2>2, <2>3 DEF Put
<1> QED BY <1>2 DEF AllPut, ChainsInv, TableInv, NoLostPut

\* main goes on to another phase, with the threads of the next one.
MainStep ==
  /\ UNCHANGED <<nthread, keys, table, val, seen, program>> /\ SameOwners
  /\ \/ /\ phase = "assert" /\ phase' \in {"put", "aborted"} /\ UNCHANGED <<pc, iter>>
     \/ /\ phase = "put" /\ phase' = "get" /\ \A t \in Thread : pc[t] = "done"
        /\ iter' = [t \in Thread |-> 0]
        /\ \E l \in GetLabels : pc' = [t \in Thread |-> IF NKEYS > 0 THEN l ELSE "done"]
     \/ /\ phase \in {"put", "get"} /\ phase' = "end" /\ \A t \in Thread : pc[t] = "done"
        /\ UNCHANGED <<pc, iter>>

\* A get takes a step: it stays at its key, or goes on to the next one.
GetStep(t) ==
  /\ UNCHANGED <<nthread, keys, table, val, seen, program, phase>> /\ SameOwners
  /\ pc[t] \in GetLabels
  /\ \/ UNCHANGED iter /\ \E l \in GetLabels : pc' = [pc EXCEPT ![t] = l]
     \/ /\ iter' = [iter EXCEPT ![t] = @ + 1]
        /\ \E l \in GetLabels : pc' = [pc EXCEPT ![t] = IF iter[t] + 1 < NKEYS THEN l ELSE "done"]

\* While nobody works on a chain, no lock is held.
LEMMA Outside ==
  ASSUME LockInv, \A t \in Thread : pc[t] \notin Working /\ pc'[t] \notin Working, SameOwners, UNCHANGED nthread
  PROVE  LockInv' /\ FreshSearch' /\ PutInv' /\ \A n \in BucketNo : Owner(n) = None
<1>1. Thread' = Thread
  BY SameSets
<1>2. \A n \in BucketNo : Owner(n) = None /\ Owner(n)' = None
  BY DEF LockInv, SameOwners
<1>3. None \notin Thread
  BY DEF None, Thread
<1> QED BY <1>1, <1>2, <1>3 DEF LockInv, FreshSearch, PutInv, Working

\* Nobody works on a chain when all threads are done, or when the gets have begun.
LEMMA NoneWorking ==
  ASSUME LoopInv, NEW t \in Thread, pc[t] = "done" \/ pc[t] \in GetLabels \/ ~Early
  PROVE  pc[t] \notin Working
BY DEF LoopInv, PutLabels, Working, GetLabels

\* The types and the table, if only the loops change.
LEMMA LoopsMove ==
  ASSUME ChainsInv, UNCHANGED <<nthread, keys, table, val, seen>>, Early' => Early /\ UNCHANGED iter,
         ~Early' => AllPut, pc' \in [Thread -> Labels], iter' \in [Thread -> 0 .. NKEYS]
  PROVE  TableTypes(Labels)' /\ TableInv'
<1>1. Thread' = Thread /\ b' = b /\ \A j : InSlice(j)' = InSlice(j)
  BY SameSets
<1>2. TableTypes(Labels)'
  BY <1>1 DEF ChainsInv, TableTypes
<1>3. PlaceInv' /\ NoDuplicateKeys' /\ (AllPut => AllPut')
  BY <1>1 DEF ChainsInv, TableInv, PlaceInv, NoDuplicateKeys, AllPut, Holding
<1>4. UNCHANGED iter => (NoLostPut => NoLostPut')
  BY <1>1 DEF NoLostPut, Put, Holding
<1> QED BY <1>2, <1>3, <1>4 DEF ChainsInv, TableInv

LEMMA MainKeeps ==
  ASSUME ChainsInv, MainStep
  PROVE  ChainsInv'
<1>1. /\ UNCHANGED <<nthread, keys, table, val, seen, program>> /\ SameOwners
      /\ pc \in [Thread -> Labels] /\ iter \in [Thread -> 0 .. NKEYS]
      /\ LoopInv /\ LockInv /\ FreshSearch /\ PutInv /\ (~Early => AllPut)
  BY DEF MainStep, ChainsInv, TableTypes, TableInv
<1>2. Thread' = Thread /\ b' = b
  BY <1>1, SameSets
<1>3. CASE phase = "assert" /\ phase' \in {"put", "aborted"} /\ UNCHANGED <<pc, iter>>
  <2>1. Early /\ Early'
    BY <1>3 DEF Early
  <2>2. TableTypes(Labels)' /\ TableInv'
    BY <1>1, <1>3, <2>1, LoopsMove
  <2>3. LoopInv'
    BY <1>1, <1>2, <1>3, <2>1 DEF LoopInv, GetLabels
  <2>4. \A u : Chain(u)' = Chain(u) /\ Key(u)' = Key(u) /\ \A n : Covers(u, n)' = Covers(u, n)
    BY <1>1, <1>3, Frame DEF Covers
  <2>5. ASSUME NEW u \in Thread, pc[u] \in Working PROVE Owner(Chain(u))' = u
    <3>1. Owner(Chain(u)) = u /\ Chain(u) \in BucketNo
      BY <1>1, <2>5, PutTypes DEF LockInv, PutLabels, ChainsInv
    <3> QED BY <1>1, <1>3, <3>1, SameOwner DEF SameOwners
  <2>6. LockInv'
    BY <1>1, <1>2, <1>3, <2>4, <2>5 DEF LockInv, SameOwners
  <2>7. FreshSearch' /\ PutInv'
    BY <1>1, <1>2, <1>3, <2>4 DEF FreshSearch, PutInv, Holding
  <2> QED BY <2>2, <2>3, <2>6, <2>7 DEF ChainsInv
<1>4. CASE /\ phase = "put" /\ phase' = "get" /\ \A t \in Thread : pc[t] = "done"
           /\ iter' = [t \in Thread |-> 0]
           /\ \E l \in GetLabels : pc' = [t \in Thread |-> IF NKEYS > 0 THEN l ELSE "done"]
  <2>1. Early /\ ~Early'
    BY <1>4 DEF Early
  <2>2. AllPut
    BY <1>4, <2>1, AllDone
  <2>3. PICK l \in GetLabels : pc' = [t \in Thread |-> IF NKEYS > 0 THEN l ELSE "done"]
    BY <1>4
  <2>4. pc' \in [Thread -> Labels] /\ iter' \in [Thread -> 0 .. NKEYS]
    BY <1>4, <2>3 DEF Labels
  <2>5. TableTypes(Labels)' /\ TableInv'
    BY <1>1, <2>1, <2>2, <2>4, LoopsMove
  <2>6. l \notin PutLabels /\ "done" \notin PutLabels /\ l # "done" /\ "done" \notin GetLabels
    BY DEF PutLabels, Working, GetLabels
  <2>7. \A t \in Thread : pc'[t] = (IF NKEYS > 0 THEN l ELSE "done") /\ iter'[t] = 0
    BY <1>4, <2>3
  <2>8. LoopInv'
    BY <1>2, <1>4, <2>1, <2>6, <2>7 DEF LoopInv
  <2>9. LockInv' /\ FreshSearch' /\ PutInv'
    BY <1>1, <1>4, <2>6, <2>7, NoneWorking, Outside DEF PutLabels
  <2> QED BY <2>5, <2>8, <2>9 DEF ChainsInv
<1>5. CASE /\ phase \in {"put", "get"} /\ phase' = "end" /\ \A t \in Thread : pc[t] = "done"
           /\ UNCHANGED <<pc, iter>>
  <2>1. ~Early' /\ AllPut
    BY <1>1, <1>5, AllDone DEF Early
  <2>2. TableTypes(Labels)' /\ TableInv'
    BY <1>1, <1>5, <2>1, LoopsMove
  <2>3. "done" \notin PutLabels /\ "done" \notin GetLabels
    BY DEF PutLabels, Working, GetLabels
  <2>4. LoopInv'
    BY <1>2, <1>5, <2>1, <2>3 DEF LoopInv
  <2>5. LockInv' /\ FreshSearch' /\ PutInv'
    BY <1>1, <1>5, NoneWorking, Outside
  <2> QED BY <2>2, <2>4, <2>5 DEF ChainsInv
<1> QED BY <1>3, <1>4, <1>5 DEF MainStep

LEMMA GetKeeps ==
  ASSUME ChainsInv, NEW t \in Thread, GetStep(t)
  PROVE  ChainsInv'
<1>1. /\ UNCHANGED <<nthread, keys, table, val, seen, program, phase>> /\ SameOwners /\ pc[t] \in GetLabels
      /\ pc \in [Thread -> Labels] /\ iter \in [Thread -> 0 .. NKEYS]
      /\ LoopInv /\ LockInv /\ (~Early => AllPut)
  BY DEF GetStep, ChainsInv, TableTypes, TableInv
<1>2. phase = "get" /\ iter[t] < NKEYS /\ ~Early /\ ~Early'
  BY <1>1 DEF LoopInv, Early
<1>3. PICK l \in GetLabels :
        \/ UNCHANGED iter /\ pc' = [pc EXCEPT ![t] = l]
        \/ /\ iter' = [iter EXCEPT ![t] = iter[t] + 1]
           /\ pc' = [pc EXCEPT ![t] = IF iter[t] + 1 < NKEYS THEN l ELSE "done"]
  BY DEF GetStep
<1>4. /\ iter' \in [Thread -> 0 .. NKEYS] /\ pc' \in [Thread -> Labels]
      /\ \A u \in Thread \ {t} : pc'[u] = pc[u] /\ iter'[u] = iter[u]
      /\ pc'[t] = "done" \/ (pc'[t] = l /\ iter'[t] < NKEYS)
  BY <1>1, <1>2, <1>3 DEF Labels
<1>5. l \notin PutLabels /\ "done" \notin PutLabels /\ "done" \notin GetLabels
  BY DEF PutLabels, Working, GetLabels
<1>6. Thread' = Thread /\ b' = b
  BY <1>1, SameSets
<1>7. LoopInv'
  BY <1>1, <1>2, <1>4, <1>5, <1>6 DEF LoopInv
<1>8. LockInv' /\ FreshSearch' /\ PutInv'
  BY <1>1, <1>2, <1>4, <1>5, NoneWorking, Outside DEF PutLabels
<1>9. TableTypes(Labels)' /\ TableInv'
  BY <1>1, <1>2, <1>4, LoopsMove
<1> QED BY <1>7, <1>8, <1>9 DEF ChainsInv
\* What no step of the threads changes.
LEMMA StepFrame ==
  ASSUME NEW t, PutStep(t) \/ GetStep(t)
  PROVE  UNCHANGED <<nthread, keys, program, phase>> /\ Thread' = Thread
<1>1. PutStep(t) => UNCHANGED <<nthread, keys, program, phase>>
  BY DEF PutStep, Takes, Gives, Polls, Searches, Stores, Counts, Return, Search, Store, SameChains
<1>2. GetStep(t) => UNCHANGED <<nthread, keys, program, phase>>
  BY DEF GetStep
<1> QED BY <1>1, <1>2, SameSets
-----------------------------------------------------------------------------
(* mutex1.c: one lock for the whole table. *)

GlobalInv ==
  /\ pc \in [Thread -> {"lock", "search", "store", "unlock", "get", "done"}]
  /\ missing = [t \in Thread |-> 0]
  /\ phase \in {"assert", "put", "get", "end", "aborted"}
  /\ phase \in {"put", "get", "end"} => NKEYS % nthread = 0

\* Its steps are of the kinds above, and each get finds its key.
LEMMA GlobalStep ==
  ASSUME In1, NEW t \in Thread, Global!Step(t)
  PROVE  /\ PutStep(t) \/ GetStep(t)
         /\ PutStep(t) => /\ UNCHANGED missing
                          /\ \E l \in {"lock", "search", "store", "unlock", "done"} : pc' = [pc EXCEPT ![t] = l]
         /\ ~PutStep(t) => /\ pc[t] = "get" /\ \E l \in {"get", "done"} : pc' = [pc EXCEPT ![t] = l]
                           /\ Holding(table[Bucket(keys[iter[t]])], keys[iter[t]]) # {} => UNCHANGED missing
<1>1. program = "mutex1.c" /\ program' = program
  BY DEF In1
<1>2. UNCHANGED global_lock => SameOwners
  BY <1>1 DEF SameOwners, Owner
<1>3. CASE Global!Lock(t)
  <2>1. Takes(t)
    BY <1>1, <1>3 DEF Global!Lock, Global!Goto, Global!None, None, Takes, Goto, SameChains, OwnerAfter, Covers, Owner
  <2> QED BY <1>1, <1>3, <2>1 DEF PutStep, Global!Lock, Global!Goto
<1>4. CASE Global!Unlock(t)
  <2>1. Gives(t)
    BY <1>1, <1>4 DEF Global!Unlock, Global!Return, Global!Goto, Global!PutLoop, Global!b, Global!None, None,
       Gives, Return, Goto, PutLoop, b, OwnerAfter, Covers, Owner
  <2> QED BY <1>1, <1>4, <2>1 DEF PutStep, Global!Unlock, Global!Return, Global!Goto, Global!PutLoop
<1>5. CASE Global!Search(t) /\ UNCHANGED <<global_lock, missing, phase>>
  <2>1. Searches(t)
    BY <1>2, <1>5 DEF Global!Search, Global!Goto, Global!Chain, Global!Key, Global!At, Global!b, Global!Bucket,
       Searches, Search, Goto, Chain, Key, At, b, Bucket
  <2> QED BY <1>1, <1>5, <2>1 DEF PutStep, Global!Search, Global!Goto
<1>6. CASE Global!Store(t, "unlock") /\ UNCHANGED <<global_lock, missing, phase>>
  <2>1. Stores(t)
    BY <1>2, <1>6 DEF Global!Store, Global!Goto, Global!Chain, Global!Key, Global!At, Global!b, Global!Bucket,
       Global!Holding, Stores, Store, Goto, Chain, Key, At, b, Bucket, Holding
  <2> QED BY <1>1, <1>6, <2>1 DEF PutStep, Global!Store, Global!Goto
<1>7. CASE Global!get(t)
  <2>1. GetStep(t)
    BY <1>1, <1>2, <1>7 DEF Global!get, Global!Goto, GetStep, GetLabels
  <2> QED BY <1>1, <1>7, <2>1 DEF Global!get, Global!Goto, Global!Holding, Global!Bucket, Holding, Bucket,
     PutStep, Takes, Gives, Polls, Searches, Stores, Counts, Return, Search, Store, Goto
<1> QED BY <1>3, <1>4, <1>5, <1>6, <1>7 DEF Global!Step, Global!put

LEMMA GlobalMain ==
  ASSUME In1, Global!Main
  PROVE  /\ MainStep /\ UNCHANGED missing
         /\ phase = "assert" => phase' = IF NKEYS % nthread = 0 THEN "put" ELSE "aborted"
         /\ UNCHANGED pc \/ \E l \in {"get", "done"} : pc' = [t \in Thread |-> l]
<1>1. program = "mutex1.c" /\ program' = program
  BY DEF In1
<1>2. UNCHANGED global_lock => SameOwners
  BY <1>1 DEF SameOwners, Owner
<1>3. CASE Global!Assert
  BY <1>1, <1>2, <1>3 DEF Global!Assert, Global!tableVars, MainStep
<1>4. CASE Global!StartGets
  BY <1>1, <1>2, <1>4 DEF Global!StartGets, Global!Thread, Thread, MainStep, GetLabels
<1>5. CASE Global!Finish
  BY <1>1, <1>2, <1>5 DEF Global!Finish, Global!tableVars, Global!Thread, Thread, MainStep
<1> QED BY <1>3, <1>4, <1>5 DEF Global!Main

\* The slices of the threads are all of keys[] if the assertion holds.
LEMMA WholeSlices ==
  ASSUME nthread \in ThreadNums, NKEYS % nthread = 0
  PROVE  \A j \in Index : InSlice(j)
<1>1. nthread \in Nat \ {0} /\ b * nthread = NKEYS
  BY DEF b
<1> QED BY <1>1 DEF Index, InSlice

LEMMA GlobalKeeps ==
  ASSUME ChainsInv, GlobalInv, In1, Global!Main \/ \E t \in Thread : Global!Step(t)
  PROVE  ChainsInv' /\ GlobalInv'
<1>1. CASE Global!Main
  <2>1. MainStep /\ UNCHANGED missing /\ Thread' = Thread /\ nthread' = nthread
    BY <1>1, GlobalMain, SameSets DEF MainStep
  <2>2. pc' \in [Thread -> {"lock", "search", "store", "unlock", "get", "done"}]
    BY <1>1, GlobalMain DEF GlobalInv
  <2>3. phase' \in {"assert", "put", "get", "end", "aborted"} /\ (phase' \in {"put", "get", "end"} => NKEYS % nthread = 0)
    BY <1>1, GlobalMain DEF GlobalInv, MainStep
  <2> QED BY <2>1, <2>2, <2>3, MainKeeps DEF GlobalInv
<1>2. ASSUME NEW t \in Thread, Global!Step(t) PROVE ChainsInv' /\ GlobalInv'
  <2>1. ChainsInv' /\ Thread' = Thread /\ UNCHANGED <<nthread, phase>>
    BY <1>2, GlobalStep, PutKeeps, GetKeeps, StepFrame
  <2>2. pc' \in [Thread -> {"lock", "search", "store", "unlock", "get", "done"}]
    BY <1>2, GlobalStep DEF GlobalInv
  <2>3. UNCHANGED missing
    <3>1. CASE PutStep(t)
      BY <1>2, <3>1, GlobalStep
    <3>2. CASE ~PutStep(t)
      <4>1. pc[t] = "get" /\ (Holding(table[Bucket(keys[iter[t]])], keys[iter[t]]) # {} => UNCHANGED missing)
        BY <1>2, <3>2, GlobalStep
      <4>2. phase = "get" /\ iter[t] \in Index /\ nthread \in ThreadNums
        BY <4>1 DEF ChainsInv, LoopInv, GetLabels, TableTypes, Index
      <4>3. AllPut /\ InSlice(iter[t])
        BY <4>2, WholeSlices DEF ChainsInv, TableInv, Early, GlobalInv
      <4> QED BY <4>1, <4>2, <4>3 DEF AllPut
    <3> QED BY <3>1, <3>2
  <2> QED BY <2>1, <2>2, <2>3 DEF GlobalInv
<1> QED BY <1>1, <1>2

\* What follows for mutex1.c.
LEMMA GlobalFollows ==
  ASSUME ChainsInv, GlobalInv, program = "mutex1.c"
  PROVE  Global!TypeOK /\ Global!DestroyedIdle /\ Global!NothingMissing
<1>1. global_lock \in Thread \cup {None} /\ (phase = "end" => global_lock = None)
  <2>1. 0 \in BucketNo /\ Owner(0) = global_lock
    BY DEF BucketNo, Owner
  <2>2. phase = "end" => \A t \in Thread : pc[t] \notin Working
    BY NoneWorking DEF ChainsInv, Early
  <2> QED BY <2>1, <2>2 DEF ChainsInv, LockInv
<1>2. Global!TypeOK
  <2>1. TableTypes(Labels)
    BY DEF ChainsInv
  <2>2. missing \in [Thread -> 0 .. NKEYS]
    BY DEF GlobalInv
  <2> QED BY <1>1, <2>1, <2>2 DEF GlobalInv, TableTypes, Global!TypeOK, Global!TableTypes, Global!Index, Global!BucketNo,
     Global!Thread, Global!None, Index, BucketNo, Thread, None
<1>3. Global!NothingMissing
  BY DEF GlobalInv, Global!NothingMissing, Global!Thread, Thread
<1> QED BY <1>1, <1>2, <1>3 DEF Global!DestroyedIdle, Global!None, None
-----------------------------------------------------------------------------
(* mutex3.c: read-write locks, and keys that nobody puts. *)

\* The keys that are put, and the positions below m of the others.
PutKeys    == {keys[p] : p \in {q \in Index : InSlice(q)}}
Lacking(m) == {j \in 0 .. m - 1 : keys[j] \notin PutKeys}
GetBucket(t) == Bucket(keys[iter[t]])

RWInv ==
  /\ pc \in [Thread -> {"lock", "search", "store", "unlock", "rdlock", "walk", "rdunlock", "done"}]
  /\ rwlocks \in [BucketNo -> [writer : Thread \cup {None}, readers : SUBSET Thread]]
  /\ found \in [Thread -> BOOLEAN] /\ missing \in [Thread -> Nat] /\ phase \in {"put", "get", "end"}
  /\ \A n \in BucketNo : \A t \in rwlocks[n].readers : pc[t] \in {"walk", "rdunlock"} /\ GetBucket(t) = n
  /\ \A t \in Thread : pc[t] = "rdunlock" => (found[t] <=> keys[iter[t]] \in PutKeys)
  /\ \A t \in Thread : missing[t] = IF phase = "put" THEN 0 ELSE Cardinality(Lacking(iter[t]))
  /\ \A t \in Thread : pc[t] = "done" /\ phase # "put" => iter[t] = NKEYS

\* The table holds the keys that were put, and no others.
LEMMA FoundInTable ==
  ASSUME ChainsInv, ~Early, NEW j \in Index
  PROVE  Holding(table[Bucket(keys[j])], keys[j]) # {} <=> keys[j] \in PutKeys
<1>1. keys \in [Index -> KeySpace] /\ table \in [BucketNo -> SUBSET Index] /\ Bucket(keys[j]) \in BucketNo
  BY KeyBucket DEF ChainsInv, TableTypes
<1>2. ASSUME NEW n \in table[Bucket(keys[j])], keys[n] = keys[j] PROVE keys[j] \in PutKeys
  BY <1>1, <1>2 DEF ChainsInv, TableInv, PlaceInv, PutKeys
<1>3. ASSUME keys[j] \in PutKeys PROVE Holding(table[Bucket(keys[j])], keys[j]) # {}
  <2>1. PICK n \in Index : InSlice(n) /\ keys[n] = keys[j]
    BY <1>3 DEF PutKeys
  <2> QED BY <2>1 DEF ChainsInv, TableInv, AllPut
<1> QED BY <1>2, <1>3 DEF Holding

\* One key more is missed, or is not.
LEMMA LackingGrows ==
  ASSUME NEW m \in Nat
  PROVE  /\ Lacking(m) \subseteq Lacking(m + 1) /\ IsFiniteSet(Lacking(m)) /\ Cardinality(Lacking(m)) \in 0 .. m
         /\ Cardinality(Lacking(m + 1)) = Cardinality(Lacking(m)) + (IF keys[m] \in PutKeys THEN 0 ELSE 1)
<1>1. Lacking(m + 1) = Lacking(m) \cup (IF keys[m] \in PutKeys THEN {} ELSE {m}) /\ m \notin Lacking(m)
  BY DEF Lacking
<1>2. IsFiniteSet(0 .. m - 1) /\ Cardinality(0 .. m - 1) = m
  BY FS_Interval
<1>3. Lacking(m) \in SUBSET (0 .. m - 1)
  BY DEF Lacking
<1>4. IsFiniteSet(Lacking(m)) /\ Cardinality(Lacking(m)) <= m
  BY <1>2, <1>3, FS_Subset
<1>5. Cardinality(Lacking(m)) \in Nat
  BY <1>4, FS_CardinalityType
<1>6. keys[m] \notin PutKeys => Cardinality(Lacking(m + 1)) = Cardinality(Lacking(m)) + 1
  BY <1>1, <1>4, FS_AddElement
<1> QED BY <1>1, <1>4, <1>5, <1>6

\* The writer of a lock changes alone.
LEMMA SetWriter ==
  ASSUME rwlocks \in [BucketNo -> [writer : Thread \cup {None}, readers : SUBSET Thread]],
         NEW c, NEW who \in Thread \cup {None}, rwlocks' = [rwlocks EXCEPT ![c].writer = who]
  PROVE  /\ rwlocks' \in [BucketNo -> [writer : Thread \cup {None}, readers : SUBSET Thread]]
         /\ \A n \in BucketNo : /\ rwlocks'[n].writer = IF n = c THEN who ELSE rwlocks[n].writer
                                /\ rwlocks'[n].readers = rwlocks[n].readers
<1>1. ASSUME NEW n \in BucketNo
      PROVE  /\ rwlocks[n] \in [writer : Thread \cup {None}, readers : SUBSET Thread]
             /\ rwlocks'[n] = IF n = c THEN [rwlocks[n] EXCEPT !.writer = who] ELSE rwlocks[n]
  OBVIOUS
<1>2. ASSUME NEW n \in BucketNo
      PROVE  /\ rwlocks'[n] \in [writer : Thread \cup {None}, readers : SUBSET Thread]
             /\ rwlocks'[n].writer = IF n = c THEN who ELSE rwlocks[n].writer
             /\ rwlocks'[n].readers = rwlocks[n].readers
  BY <1>1
<1> QED BY <1>2

\* The steps of the puts and of main are of the kinds above ...
LEMMA RWPut ==
  ASSUME RWInv, In3, NEW t \in Thread, RW!put(t)
  PROVE  /\ PutStep(t) /\ UNCHANGED <<found, missing>>
         /\ \E l \in {"lock", "search", "store", "unlock", "done"} : pc[t] \in Working \cup {"lock"} /\ pc' = [pc EXCEPT ![t] = l]
         /\ \A n \in BucketNo : rwlocks'[n].readers = rwlocks[n].readers
         /\ rwlocks' \in [BucketNo -> [writer : Thread \cup {None}, readers : SUBSET Thread]]
<1>1. program = "mutex3.c" /\ program' = program
  BY DEF In3
<1>2. UNCHANGED rwlocks => SameOwners
  BY <1>1 DEF SameOwners, Owner
<1>3. CASE RW!wrlock(t)
  <2>1. rwlocks' = [rwlocks EXCEPT ![Chain(t)].writer = t] /\ rwlocks[Chain(t)].writer = None
    BY <1>3 DEF RW!wrlock, RW!Free, RW!None, None, RW!Chain, RW!Key, RW!At, RW!b, RW!Bucket, Chain, Key, At, b, Bucket
  <2>2. Takes(t)
    BY <1>1, <1>3, <2>1 DEF RWInv, RW!wrlock, RW!Goto, Takes, Goto, SameChains, OwnerAfter, Covers, Owner
  <2>3. /\ \A n \in BucketNo : rwlocks'[n].readers = rwlocks[n].readers
        /\ rwlocks' \in [BucketNo -> [writer : Thread \cup {None}, readers : SUBSET Thread]]
    BY <2>1, SetWriter DEF RWInv
  <2>4. pc[t] = "lock" /\ pc' = [pc EXCEPT ![t] = "search"] /\ UNCHANGED <<found, missing, phase>>
    BY <1>3 DEF RW!wrlock, RW!Goto
  <2> QED BY <1>1, <2>2, <2>3, <2>4 DEF PutStep
<1>4. CASE RW!wrunlock(t)
  <2>1. rwlocks' = [rwlocks EXCEPT ![Chain(t)].writer = None]
    BY <1>4 DEF RW!wrunlock, RW!None, None, RW!Chain, RW!Key, RW!At, RW!b, RW!Bucket, Chain, Key, At, b, Bucket
  <2>2. Gives(t)
    BY <1>1, <1>4, <2>1 DEF RWInv, RW!wrunlock, RW!Return, RW!Goto, RW!PutLoop, RW!b, Gives, Return, Goto, PutLoop, b,
       OwnerAfter, Covers, Owner
  <2>3. /\ \A n \in BucketNo : rwlocks'[n].readers = rwlocks[n].readers
        /\ rwlocks' \in [BucketNo -> [writer : Thread \cup {None}, readers : SUBSET Thread]]
    BY <2>1, SetWriter DEF RWInv
  <2>4. /\ pc[t] = "unlock" /\ UNCHANGED <<found, missing, phase>>
        /\ \E l \in {"lock", "done"} : pc' = [pc EXCEPT ![t] = l]
    BY <1>4 DEF RW!wrunlock, RW!Return, RW!Goto, RW!PutLoop
  <2> QED BY <1>1, <2>2, <2>3, <2>4 DEF PutStep, Working
<1>5. CASE RW!Search(t) /\ UNCHANGED <<rwlocks, found, missing, phase>>
  <2>1. Searches(t)
    BY <1>2, <1>5 DEF RW!Search, RW!Goto, RW!Chain, RW!Key, RW!At, RW!b, RW!Bucket,
       Searches, Search, Goto, Chain, Key, At, b, Bucket
  <2> QED BY <1>1, <1>5, <2>1 DEF PutStep, RWInv, RW!Search, RW!Goto, Working
<1>6. CASE RW!Store(t, "unlock") /\ UNCHANGED <<rwlocks, found, missing, phase>>
  <2>1. Stores(t)
    BY <1>2, <1>6 DEF RW!Store, RW!Goto, RW!Chain, RW!Key, RW!At, RW!b, RW!Bucket,
       RW!Holding, Stores, Store, Goto, Chain, Key, At, b, Bucket, Holding
  <2> QED BY <1>1, <1>6, <2>1 DEF PutStep, RWInv, RW!Store, RW!Goto, Working
<1> QED BY <1>3, <1>4, <1>5, <1>6 DEF RW!put

\* ... and the steps of the gets and of main; nobody works on a chain then.
LEMMA SetReaders ==
  ASSUME rwlocks \in [BucketNo -> [writer : Thread \cup {None}, readers : SUBSET Thread]],
         NEW c, NEW set, c \in BucketNo => set \subseteq Thread, rwlocks' = [rwlocks EXCEPT ![c].readers = set]
  PROVE  /\ rwlocks' \in [BucketNo -> [writer : Thread \cup {None}, readers : SUBSET Thread]]
         /\ \A n \in BucketNo : /\ rwlocks'[n].readers = IF n = c THEN set ELSE rwlocks[n].readers
                                /\ rwlocks'[n].writer = rwlocks[n].writer
<1>1. ASSUME NEW n \in BucketNo
      PROVE  /\ rwlocks[n] \in [writer : Thread \cup {None}, readers : SUBSET Thread]
             /\ rwlocks'[n] = IF n = c THEN [rwlocks[n] EXCEPT !.readers = set] ELSE rwlocks[n]
  OBVIOUS
<1>2. ASSUME NEW n \in BucketNo
      PROVE  /\ rwlocks'[n] \in [writer : Thread \cup {None}, readers : SUBSET Thread]
             /\ rwlocks'[n].readers = IF n = c THEN set ELSE rwlocks[n].readers
             /\ rwlocks'[n].writer = rwlocks[n].writer
  BY <1>1
<1> QED BY <1>2

LEMMA RWMain ==
  ASSUME In3, RW!Main
  PROVE  /\ MainStep /\ UNCHANGED <<rwlocks, found, missing>> /\ \A t \in Thread : pc[t] = "done"
         /\ \/ /\ phase = "put" /\ phase' = "get" /\ iter' = [t \in Thread |-> 0]
               /\ pc' = [t \in Thread |-> IF NKEYS > 0 THEN "rdlock" ELSE "done"]
            \/ phase = "get" /\ phase' = "end" /\ UNCHANGED <<pc, iter>>
<1>1. program = "mutex3.c" /\ program' = program
  BY DEF In3
<1>2. UNCHANGED rwlocks => SameOwners
  BY <1>1 DEF SameOwners, Owner
<1>3. CASE RW!StartGets
  BY <1>1, <1>2, <1>3 DEF RW!StartGets, RW!Idle, RW!Thread, Thread, MainStep, GetLabels
<1>4. CASE RW!Finish
  BY <1>1, <1>2, <1>4 DEF RW!Finish, RW!Idle, RW!tableVars, RW!Thread, Thread, MainStep
<1> QED BY <1>3, <1>4 DEF RW!Main

\* The keys that are put do not change, and a key is missed once for each position.
LEMMA SameKeys ==
  ASSUME UNCHANGED <<nthread, keys>>
  PROVE  PutKeys' = PutKeys /\ \A m : Lacking(m)' = Lacking(m)
<1>1. PutKeys' = PutKeys
  BY SameSets DEF PutKeys
<1> QED BY <1>1 DEF Lacking

LEMMA RWMainKeeps ==
  ASSUME ChainsInv, RWInv, In3, RW!Main
  PROVE  RWInv'
<1>1. /\ UNCHANGED <<nthread, keys, rwlocks, found, missing>> /\ \A t \in Thread : pc[t] = "done"
      /\ Thread' = Thread /\ pc \in [Thread -> Labels]
  BY RWMain, SameSets DEF MainStep, ChainsInv, TableTypes
<1>2. \A n \in BucketNo : rwlocks[n].readers = {}
  <2>1. \A n \in BucketNo : rwlocks[n].readers \subseteq Thread
    BY DEF RWInv
  <2> QED BY <1>1, <2>1 DEF RWInv
<1>3. PutKeys' = PutKeys /\ \A m : Lacking(m)' = Lacking(m)
  BY <1>1, SameKeys
<1>4. CASE /\ phase = "put" /\ phase' = "get" /\ iter' = [t \in Thread |-> 0]
           /\ pc' = [t \in Thread |-> IF NKEYS > 0 THEN "rdlock" ELSE "done"]
  <2>1. pc' \in [Thread -> {"lock", "search", "store", "unlock", "rdlock", "walk", "rdunlock", "done"}]
    BY <1>4
  <2>2. \A t \in Thread : pc'[t] # "rdunlock" /\ iter'[t] = 0 /\ (pc'[t] = "done" => NKEYS = 0)
    BY <1>4
  <2>3. Cardinality(Lacking(0)) = 0
    <3>1. Lacking(0) = {}
      BY DEF Lacking
    <3> QED BY <3>1, FS_EmptySet
  <2> QED BY <1>1, <1>2, <1>3, <1>4, <2>1, <2>2, <2>3 DEF RWInv
<1>5. CASE phase = "get" /\ phase' = "end" /\ UNCHANGED <<pc, iter>>
  BY <1>1, <1>2, <1>3, <1>5 DEF RWInv
<1> QED BY <1>4, <1>5, RWMain

\* A get finds its key if it is one that was put, and counts it as missing if not.
LEMMA RWGetKeeps ==
  ASSUME ChainsInv, RWInv, In3, NEW t \in Thread, RW!get(t)
  PROVE  GetStep(t) /\ RWInv'
<1>1. program = "mutex3.c" /\ program' = program
  BY DEF In3
<1>2. UNCHANGED <<nthread, keys, table, val, seen, phase>> /\ pc[t] \in {"rdlock", "walk", "rdunlock"}
  BY DEF RW!get, RW!rdlock, RW!walk, RW!rdunlock, RW!Goto
<1>3. /\ phase = "get" /\ iter[t] \in Index /\ iter[t] \in Nat /\ iter[t] < NKEYS /\ NKEYS \in Nat
      /\ iter \in [Thread -> 0 .. NKEYS] /\ GetBucket(t) \in BucketNo
  <2>1. /\ phase = "get" /\ iter[t] < NKEYS /\ iter \in [Thread -> 0 .. NKEYS] /\ NKEYS \in Nat
        /\ keys \in [Index -> KeySpace]
    BY <1>2 DEF ChainsInv, TableTypes, LoopInv, GetLabels
  <2>2. iter[t] \in Index /\ iter[t] \in Nat
    BY <2>1 DEF Index
  <2> QED BY <2>1, <2>2, KeyBucket DEF GetBucket
<1>4. PutKeys' = PutKeys /\ (\A m : Lacking(m)' = Lacking(m)) /\ Thread' = Thread
  BY <1>2, SameKeys, SameSets
<1>5. RW!GetBucket(t) = GetBucket(t) /\ RW!GetKey(t) = keys[iter[t]]
  BY DEF RW!GetBucket, RW!GetKey, RW!Bucket, GetBucket, Bucket
<1>6. /\ pc \in [Thread -> {"lock", "search", "store", "unlock", "rdlock", "walk", "rdunlock", "done"}]
      /\ rwlocks \in [BucketNo -> [writer : Thread \cup {None}, readers : SUBSET Thread]]
      /\ found \in [Thread -> BOOLEAN] /\ missing \in [Thread -> Nat]
      /\ \A u \in Thread : missing[u] = Cardinality(Lacking(iter[u]))
  BY <1>3 DEF RWInv
<1>7. iter' = iter => \A u \in Thread : GetBucket(u)' = GetBucket(u)
  BY <1>2 DEF GetBucket, Bucket
<1>8. (\A n \in BucketNo : rwlocks'[n].writer = rwlocks[n].writer) => SameOwners
  BY <1>1 DEF SameOwners, Owner
<1>9. CASE RW!rdlock(t)
  <2>1. /\ pc[t] = "rdlock" /\ pc' = [pc EXCEPT ![t] = "walk"] /\ UNCHANGED <<iter, found, missing>>
        /\ rwlocks' = [rwlocks EXCEPT ![GetBucket(t)].readers = rwlocks[GetBucket(t)].readers \cup {t}]
    BY <1>5, <1>9 DEF RW!rdlock, RW!Goto
  <2>2. rwlocks[GetBucket(t)].readers \cup {t} \subseteq Thread
    BY <1>3, <1>6
  <2>3. /\ rwlocks' \in [BucketNo -> [writer : Thread \cup {None}, readers : SUBSET Thread]]
        /\ \A n \in BucketNo : /\ rwlocks'[n].readers = IF n = GetBucket(t) THEN rwlocks[GetBucket(t)].readers \cup {t} ELSE rwlocks[n].readers
                               /\ rwlocks'[n].writer = rwlocks[n].writer
    BY <1>6, <2>1, <2>2, SetReaders
  <2>4. GetStep(t)
    BY <1>1, <1>2, <1>8, <2>1, <2>3 DEF GetStep, GetLabels
  <2>5. pc' \in [Thread -> {"lock", "search", "store", "unlock", "rdlock", "walk", "rdunlock", "done"}]
    BY <1>6, <2>1
  <2>6. pc'[t] = "walk" /\ \A u \in Thread \ {t} : pc'[u] = pc[u]
    BY <1>6, <2>1
  <2>7. ASSUME NEW n \in BucketNo, NEW u \in rwlocks'[n].readers PROVE pc'[u] \in {"walk", "rdunlock"} /\ GetBucket(u)' = n
    <3>1. CASE u = t
      <4>1. t \notin rwlocks[n].readers
        BY <2>1 DEF RWInv
      <4>2. n = GetBucket(t)
        BY <3>1, <4>1, <2>3, <2>7
      <4> QED BY <3>1, <4>2, <2>1, <2>6, <1>7
    <3>2. CASE u # t
      <4>1. u \in rwlocks[n].readers
        BY <3>2, <2>3, <2>7
      <4>2. u \in Thread
        BY <4>1, <1>6
      <4> QED BY <3>2, <4>1, <4>2, <2>1, <2>6, <1>7 DEF RWInv
    <3> QED BY <3>1, <3>2
  <2>8. \A u \in Thread : pc'[u] = "rdunlock" => (found'[u] <=> keys'[iter'[u]] \in PutKeys)
    BY <1>2, <2>1, <2>6 DEF RWInv
  <2>9. \A u \in Thread : pc'[u] = "done" => iter'[u] = NKEYS
    BY <1>3, <2>1, <2>6 DEF RWInv
  <2> QED BY <1>2, <1>3, <1>4, <1>6, <2>1, <2>3, <2>4, <2>5, <2>7, <2>8, <2>9 DEF RWInv
<1>10. CASE RW!walk(t)
  <2>1. /\ pc[t] = "walk" /\ pc' = [pc EXCEPT ![t] = "rdunlock"] /\ UNCHANGED <<iter, rwlocks, missing>>
        /\ found' = [found EXCEPT ![t] = Holding(table[GetBucket(t)], keys[iter[t]]) # {}]
    BY <1>5, <1>10 DEF RW!walk, RW!Goto, RW!Holding, Holding
  <2>2. GetStep(t)
    BY <1>1, <1>2, <1>8, <2>1 DEF GetStep, GetLabels
  <2>3. pc' \in [Thread -> {"lock", "search", "store", "unlock", "rdlock", "walk", "rdunlock", "done"}]
    BY <1>6, <2>1
  <2>4. pc'[t] = "rdunlock" /\ \A u \in Thread \ {t} : pc'[u] = pc[u] /\ found'[u] = found[u]
    BY <1>6, <2>1
  <2>5. found' \in [Thread -> BOOLEAN] /\ (found'[t] <=> Holding(table[GetBucket(t)], keys[iter[t]]) # {})
    BY <1>6, <2>1
  <2>6. Holding(table[GetBucket(t)], keys[iter[t]]) # {} <=> keys[iter[t]] \in PutKeys
    BY <1>3, FoundInTable DEF Early, GetBucket
  <2>7. ASSUME NEW n \in BucketNo, NEW u \in rwlocks'[n].readers PROVE pc'[u] \in {"walk", "rdunlock"} /\ GetBucket(u)' = n
    <3>1. u \in rwlocks[n].readers /\ u \in Thread
      BY <2>7, <2>1, <1>6
    <3> QED BY <3>1, <2>1, <2>4, <1>7 DEF RWInv
  <2>8. \A u \in Thread : pc'[u] = "rdunlock" => (found'[u] <=> keys'[iter'[u]] \in PutKeys)
    BY <1>2, <2>1, <2>4, <2>5, <2>6 DEF RWInv
  <2>9. \A u \in Thread : pc'[u] = "done" => iter'[u] = NKEYS
    BY <1>3, <2>1, <2>4 DEF RWInv
  <2> QED BY <1>2, <1>3, <1>4, <1>6, <2>1, <2>2, <2>3, <2>5, <2>7, <2>8, <2>9 DEF RWInv
<1>11. CASE RW!rdunlock(t)
  <2>1. /\ pc[t] = "rdunlock" /\ UNCHANGED found /\ iter' = [iter EXCEPT ![t] = iter[t] + 1]
        /\ pc' = [pc EXCEPT ![t] = IF iter[t] + 1 < NKEYS THEN "rdlock" ELSE "done"]
        /\ rwlocks' = [rwlocks EXCEPT ![GetBucket(t)].readers = rwlocks[GetBucket(t)].readers \ {t}]
        /\ missing' = IF found[t] THEN missing ELSE [missing EXCEPT ![t] = missing[t] + 1]
    BY <1>5, <1>11 DEF RW!rdunlock, RW!Goto
  <2>2. rwlocks[GetBucket(t)].readers \ {t} \subseteq Thread
    BY <1>3, <1>6
  <2>3. /\ rwlocks' \in [BucketNo -> [writer : Thread \cup {None}, readers : SUBSET Thread]]
        /\ \A n \in BucketNo : /\ rwlocks'[n].readers = IF n = GetBucket(t) THEN rwlocks[GetBucket(t)].readers \ {t} ELSE rwlocks[n].readers
                               /\ rwlocks'[n].writer = rwlocks[n].writer
    BY <1>6, <2>1, <2>2, SetReaders
  <2>4. GetStep(t)
    BY <1>1, <1>2, <1>8, <2>1, <2>3 DEF GetStep, GetLabels
  <2>5. pc' \in [Thread -> {"lock", "search", "store", "unlock", "rdlock", "walk", "rdunlock", "done"}]
    BY <1>6, <2>1
  <2>6. /\ pc'[t] = (IF iter[t] + 1 < NKEYS THEN "rdlock" ELSE "done") /\ iter'[t] = iter[t] + 1
        /\ \A u \in Thread \ {t} : pc'[u] = pc[u] /\ iter'[u] = iter[u]
    BY <1>3, <1>6, <2>1
  <2>7. ASSUME NEW n \in BucketNo, NEW u \in rwlocks'[n].readers PROVE pc'[u] \in {"walk", "rdunlock"} /\ GetBucket(u)' = n
    <3>1. u \in rwlocks[n].readers /\ u \in Thread
      BY <2>7, <2>3, <1>6
    <3>2. u # t
      <4>1. t \in rwlocks[n].readers => n = GetBucket(t)
        BY DEF RWInv
      <4> QED BY <4>1, <2>3, <2>7
    <3>3. GetBucket(u)' = GetBucket(u)
      BY <3>1, <3>2, <2>6, <1>2 DEF GetBucket, Bucket
    <3> QED BY <3>1, <3>2, <3>3, <2>6 DEF RWInv
  <2>8. \A u \in Thread : pc'[u] = "rdunlock" => (found'[u] <=> keys'[iter'[u]] \in PutKeys)
    BY <1>2, <2>1, <2>6 DEF RWInv
  <2>9. ASSUME NEW u \in Thread, pc'[u] = "done" PROVE iter'[u] = NKEYS
    <3>1. CASE u = t
      BY <3>1, <2>9, <2>6, <1>3
    <3>2. CASE u # t
      BY <3>2, <2>9, <2>6, <1>3 DEF RWInv
    <3> QED BY <3>1, <3>2
  <2>10. missing' \in [Thread -> Nat] /\ \A u \in Thread \ {t} : missing'[u] = missing[u]
    BY <1>6, <2>1
  <2>11. missing'[t] = Cardinality(Lacking(iter[t])) + (IF keys[iter[t]] \in PutKeys THEN 0 ELSE 1)
    <3>1. found[t] <=> keys[iter[t]] \in PutKeys
      BY <2>1 DEF RWInv
    <3>2. missing[t] = Cardinality(Lacking(iter[t])) /\ missing[t] \in Nat
      BY <1>6
    <3>3. CASE found[t]
      BY <3>1, <3>2, <3>3, <2>1
    <3>4. CASE ~found[t]
      BY <3>1, <3>2, <3>4, <2>1, <1>6
    <3> QED BY <3>3, <3>4
  <2>12. Cardinality(Lacking(iter[t] + 1)) = missing'[t]
    BY <1>3, <2>11, LackingGrows
  <2>13. \A u \in Thread : missing'[u] = Cardinality(Lacking(iter'[u]))
    BY <1>6, <2>6, <2>10, <2>12
  <2>14. \A u \in Thread : Cardinality(Lacking(iter[u]))' = Cardinality(Lacking(iter'[u]))
    BY <1>2, SameKeys DEF Lacking
  <2> QED BY <1>2, <1>3, <1>4, <1>6, <2>1, <2>3, <2>4, <2>5, <2>7, <2>8, <2>9, <2>10, <2>13, <2>14 DEF RWInv
<1> QED BY <1>9, <1>10, <1>11 DEF RW!get

\* A put has no readers around it.
LEMMA RWPutKeeps ==
  ASSUME ChainsInv, RWInv, In3, NEW t \in Thread, RW!put(t)
  PROVE  RWInv'
<1>1. /\ PutStep(t) /\ UNCHANGED <<found, missing>>
      /\ \A n \in BucketNo : rwlocks'[n].readers = rwlocks[n].readers
      /\ rwlocks' \in [BucketNo -> [writer : Thread \cup {None}, readers : SUBSET Thread]]
  BY RWPut
<1>2. PICK l \in {"lock", "search", "store", "unlock", "done"} :
        pc[t] \in Working \cup {"lock"} /\ pc' = [pc EXCEPT ![t] = l]
  BY RWPut
<1>3. /\ Thread' = Thread /\ UNCHANGED <<nthread, keys, phase>> /\ phase = "put"
      /\ pc \in [Thread -> {"lock", "search", "store", "unlock", "rdlock", "walk", "rdunlock", "done"}]
  <2>1. phase = "put"
    BY <1>2 DEF ChainsInv, LoopInv, PutLabels, Early, RWInv
  <2> QED BY <1>1, <2>1, StepFrame DEF RWInv
<1>4. pc' \in [Thread -> {"lock", "search", "store", "unlock", "rdlock", "walk", "rdunlock", "done"}]
  BY <1>2, <1>3
<1>5. \A n \in BucketNo : rwlocks[n].readers = {}
  <2>1. \A n \in BucketNo : rwlocks[n].readers \subseteq Thread
    BY DEF RWInv
  <2>2. \A u \in Thread : pc[u] \notin {"walk", "rdunlock"}
    BY <1>3 DEF ChainsInv, LoopInv, GetLabels
  <2> QED BY <2>1, <2>2 DEF RWInv
<1>6. \A u \in Thread : pc'[u] # "rdunlock"
  <2>1. \A u \in Thread : pc[u] # "rdunlock"
    BY <1>3 DEF ChainsInv, LoopInv, GetLabels
  <2> QED BY <2>1, <1>2, <1>3
<1> QED BY <1>1, <1>3, <1>4, <1>5, <1>6 DEF RWInv

LEMMA RWKeeps ==
  ASSUME ChainsInv, RWInv, In3, RW!Main \/ \E t \in Thread : RW!Step(t)
  PROVE  ChainsInv' /\ RWInv'
<1>1. CASE RW!Main
  BY <1>1, RWMain, MainKeeps, RWMainKeeps
<1>2. ASSUME NEW t \in Thread, RW!put(t) PROVE ChainsInv' /\ RWInv'
  BY <1>2, RWPut, PutKeeps, RWPutKeeps
<1>3. ASSUME NEW t \in Thread, RW!get(t) PROVE ChainsInv' /\ RWInv'
  BY <1>3, RWGetKeeps, GetKeeps
<1> QED BY <1>1, <1>2, <1>3 DEF RW!Step

\* Cardinality is one operator, whichever instance of Chains it is read in.
LEMMA RWCardinality == \A S : RW!Cardinality(S) = Cardinality(S)
BY DEF Cardinality, RW!Cardinality, IsFiniteSet, RW!IsFiniteSet

\* What follows for mutex3.c.
LEMMA RWFollows ==
  ASSUME ChainsInv, RWInv, program = "mutex3.c"
  PROVE  RW!TypeOK /\ RW!DestroyedIdle /\ RW!ReadersNeverWait /\ RW!MissingExact
<1>1. TableTypes(Labels) /\ LockInv /\ iter \in [Thread -> 0 .. NKEYS] /\ NKEYS \in Nat
  BY DEF ChainsInv, TableTypes
<1>2. \A t \in Thread : pc[t] \in GetLabels => iter[t] \in Index
  BY <1>1 DEF ChainsInv, LoopInv, Index
<1>3. RW!TypeOK
  <2>1. ASSUME NEW t \in Thread PROVE missing[t] \in 0 .. NKEYS
    <3>1. iter[t] \in Nat /\ iter[t] <= NKEYS
      BY <1>1
    <3>2. Cardinality(Lacking(iter[t])) \in 0 .. iter[t]
      BY <3>1, LackingGrows
    <3>3. missing[t] = IF phase = "put" THEN 0 ELSE Cardinality(Lacking(iter[t]))
      BY DEF RWInv
    <3> HIDE DEF Lacking
    <3> QED BY <3>1, <3>2, <3>3, <1>1
  <2>2. missing \in [Thread -> 0 .. NKEYS]
    BY <2>1 DEF RWInv
  <2> QED BY <1>1, <2>2 DEF RWInv, TableTypes, RW!TypeOK, RW!TableTypes, RW!Index, RW!BucketNo,
     RW!Thread, RW!None, Index, BucketNo, Thread, None
<1>4. ASSUME ~Early PROVE \A n \in BucketNo : rwlocks[n].writer = None
  <2>1. \A t \in Thread : pc[t] \notin Working
    BY <1>4, NoneWorking DEF ChainsInv
  <2>2. \A n \in BucketNo : Owner(n) = rwlocks[n].writer
    BY DEF Owner
  <2> QED BY <1>1, <2>1, <2>2 DEF LockInv
<1>5. RW!DestroyedIdle
  <2> SUFFICES ASSUME phase = "end", NEW n \in BucketNo PROVE rwlocks[n].writer = None /\ rwlocks[n].readers = {}
    BY DEF RW!DestroyedIdle, RW!Free, RW!None, None, RW!BucketNo, BucketNo
  <2>1. \A t \in Thread : pc[t] \notin GetLabels
    BY DEF ChainsInv, LoopInv
  <2>2. rwlocks[n].readers \subseteq Thread
    BY DEF RWInv
  <2>3. rwlocks[n].readers = {}
    BY <2>1, <2>2 DEF RWInv, GetLabels
  <2> QED BY <1>4, <2>3 DEF Early
<1>6. RW!ReadersNeverWait
  <2> SUFFICES ASSUME NEW t \in Thread, pc[t] = "rdlock" PROVE rwlocks[GetBucket(t)].writer = None
    BY DEF RW!ReadersNeverWait, RW!Thread, Thread, RW!GetBucket, RW!GetKey, RW!Bucket, GetBucket, Bucket, RW!None, None
  <2>1. phase = "get" /\ iter[t] \in Index
    BY <1>2 DEF ChainsInv, LoopInv, GetLabels
  <2>2. GetBucket(t) \in BucketNo
    BY <2>1, <1>1, KeyBucket DEF GetBucket, TableTypes
  <2> QED BY <2>1, <2>2, <1>4 DEF Early
<1>7. RW!MissingExact
  <2> SUFFICES ASSUME phase = "end", NEW t \in Thread PROVE missing[t] = Cardinality(Lacking(NKEYS))
    <3>1. Lacking(NKEYS) = {j \in Index : keys[j] \notin {keys[p] : p \in {q \in Index : q < b * nthread}}}
      BY DEF Lacking, PutKeys, Index, InSlice
    <3>2. \A S : RW!Cardinality(S) = Cardinality(S)
      BY RWCardinality
    <3> QED BY <3>1, <3>2 DEF RW!MissingExact, RW!Thread, Thread, RW!Index, Index, RW!b, b
  <2>1. pc[t] = "done"
    BY DEF RWInv, ChainsInv, LoopInv, PutLabels, GetLabels, Working, Early
  <2>2. iter[t] = NKEYS
    BY <2>1 DEF RWInv
  <2> QED BY <2>2 DEF RWInv
<1> QED BY <1>3, <1>5, <1>6, <1>7
-----------------------------------------------------------------------------
(* mutex5.c and mutex9.c: spinlocks, and locks with padding. *)

LockTypes == locks \in [BucketNo -> Thread \cup {None}] /\ phase \in {"put", "end"}
SpinInv   == LockTypes /\ pc \in [Thread -> {"lock", "search", "store", "unlock", "done"}]

\* The locks of the programs with one lock for each bucket.
ByBucket == program \in {"mutex5.c", "mutex6.c", "mutex9.c", "mutex10.c"} /\ UNCHANGED program

LEMMA ByBucketLocks ==
  ASSUME ByBucket, LockTypes
  PROVE  /\ UNCHANGED locks => SameOwners
         /\ \A t \in Thread : Owner(Chain(t)) = locks[Chain(t)]
         /\ \A t \in Thread : \A who : locks' = [locks EXCEPT ![Chain(t)] = who] => OwnerAfter(t, who)
<1>1. \A n : Owner(n) = locks[n] /\ Owner(n)' = locks'[n] /\ \A t : Covers(t, n) <=> n = Chain(t)
  BY DEF ByBucket, Owner, Covers
<1> QED BY <1>1 DEF LockTypes, SameOwners, OwnerAfter

\* What a spinlock table and the padded one share is read in either instance.
LEMMA SpinStep ==
  ASSUME SpinInv, ByBucket, NEW t \in Thread, Spin!Step(t)
  PROVE  /\ PutStep(t)
         /\ \E l \in {"lock", "search", "store", "unlock", "done"} : pc' = [pc EXCEPT ![t] = l]
         /\ locks' \in [BucketNo -> Thread \cup {None}]
<1>1. /\ UNCHANGED locks => SameOwners
      /\ Owner(Chain(t)) = locks[Chain(t)]
      /\ \A who : locks' = [locks EXCEPT ![Chain(t)] = who] => OwnerAfter(t, who)
      /\ UNCHANGED program /\ locks \in [BucketNo -> Thread \cup {None}]
  BY ByBucketLocks DEF SpinInv, LockTypes, ByBucket
<1>2. CASE Spin!spin_lock(t)
  <2>1. Takes(t) /\ UNCHANGED phase /\ locks' = [locks EXCEPT ![Chain(t)] = t] /\ pc' = [pc EXCEPT ![t] = "search"]
    BY <1>1, <1>2 DEF Spin!spin_lock, Spin!Goto, Spin!None, None, Spin!Chain, Spin!Key, Spin!At, Spin!b, Spin!Bucket,
       Takes, Goto, SameChains, Chain, Key, At, b, Bucket
  <2> QED BY <1>1, <2>1 DEF PutStep
<1>3. CASE Spin!spin_unlock(t)
  <2>1. Gives(t) /\ UNCHANGED phase /\ locks' = [locks EXCEPT ![Chain(t)] = None] /\ pc' = [pc EXCEPT ![t] = PutLoop(t, iter[t] + 1)]
    BY <1>1, <1>3 DEF Spin!spin_unlock, Spin!Return, Spin!Goto, Spin!PutLoop, Spin!None, None, Spin!Chain, Spin!Key,
       Spin!At, Spin!b, Spin!Bucket, Gives, Return, Goto, PutLoop, Chain, Key, At, b, Bucket
  <2> QED BY <1>1, <2>1 DEF PutStep, PutLoop
<1>4. CASE Spin!Search(t) /\ UNCHANGED <<locks, phase>>
  <2>1. Searches(t) /\ pc' = [pc EXCEPT ![t] = "store"]
    BY <1>1, <1>4 DEF Spin!Search, Spin!Goto, Spin!Chain, Spin!Key, Spin!At, Spin!b, Spin!Bucket,
       Searches, Search, Goto, Chain, Key, At, b, Bucket
  <2> QED BY <1>1, <1>4, <2>1 DEF PutStep
<1>5. CASE Spin!Store(t, "unlock") /\ UNCHANGED <<locks, phase>>
  <2>1. Stores(t) /\ pc' = [pc EXCEPT ![t] = "unlock"]
    BY <1>1, <1>5 DEF Spin!Store, Spin!Goto, Spin!Chain, Spin!Key, Spin!At, Spin!b, Spin!Bucket,
       Spin!Holding, Stores, Store, Goto, Chain, Key, At, b, Bucket, Holding
  <2> QED BY <1>1, <1>5, <2>1 DEF PutStep
<1> QED BY <1>2, <1>3, <1>4, <1>5 DEF Spin!Step

\* main ends when all threads are done.
LEMMA EndStep ==
  ASSUME ByBucket, LockTypes, phase = "put", phase' = "end", \A t \in Thread : pc[t] = "done",
         UNCHANGED <<nthread, keys, table, val, pc, iter, seen, locks>>
  PROVE  MainStep /\ LockTypes'
<1>1. SameOwners /\ Thread' = Thread
  BY ByBucketLocks, SameSets
<1> QED BY <1>1 DEF MainStep, ByBucket, LockTypes

LEMMA SpinKeeps ==
  ASSUME ChainsInv, SpinInv, ByBucket, Spin!Main \/ \E t \in Thread : Spin!Step(t)
  PROVE  ChainsInv' /\ SpinInv'
<1>1. CASE Spin!Main
  <2>1. MainStep /\ LockTypes' /\ UNCHANGED <<nthread, pc>>
    BY <1>1, EndStep DEF Spin!Main, Spin!tableVars, Spin!Thread, Thread, SpinInv
  <2>2. Thread' = Thread
    BY <2>1, SameSets
  <2> QED BY <2>1, <2>2, MainKeeps DEF SpinInv
<1>2. ASSUME NEW t \in Thread, Spin!Step(t) PROVE ChainsInv' /\ SpinInv'
  <2>1. PutStep(t) /\ locks' \in [BucketNo -> Thread \cup {None}]
    BY <1>2, SpinStep
  <2>2. ChainsInv' /\ Thread' = Thread /\ UNCHANGED phase
    BY <2>1, PutKeeps, StepFrame
  <2>3. pc' \in [Thread -> {"lock", "search", "store", "unlock", "done"}]
    BY <1>2, SpinStep DEF SpinInv
  <2> QED BY <2>1, <2>2, <2>3 DEF SpinInv, LockTypes
<1> QED BY <1>1, <1>2

\* With one lock for each bucket the locks are idle at the end.
LEMMA IdleAtEnd ==
  ASSUME ChainsInv, program \in {"mutex5.c", "mutex6.c", "mutex9.c", "mutex10.c"}, phase = "end", NEW n \in BucketNo
  PROVE  locks[n] = None
<1>1. \A t \in Thread : pc[t] \notin Working
  BY NoneWorking DEF ChainsInv, Early
<1>2. Owner(n) = locks[n]
  BY DEF Owner
<1> QED BY <1>1, <1>2 DEF ChainsInv, LockInv

\* What follows for mutex5.c ...
LEMMA SpinFollows ==
  ASSUME ChainsInv, SpinInv, program \in {"mutex5.c", "mutex9.c"}
  PROVE  Spin!TypeOK /\ Spin!DestroyedIdle
<1>1. TableTypes(Labels)
  BY DEF ChainsInv
<1>2. Spin!TypeOK
  BY <1>1 DEF SpinInv, LockTypes, TableTypes, Spin!TypeOK, Spin!TableTypes, Spin!Index, Spin!BucketNo,
     Spin!Thread, Spin!None, Index, BucketNo, Thread, None
<1> QED BY <1>2, IdleAtEnd DEF Spin!DestroyedIdle, Spin!BucketNo, BucketNo, Spin!None, None

\* ... and for mutex9.c, whose operations are the same.
LEMMA PaddedIsSpin ==
  /\ Padded!Main <=> Spin!Main
  /\ \A t : Padded!Step(t) <=> Spin!Step(t)
  /\ Padded!TypeOK <=> Spin!TypeOK
BY DEF Padded!Main, Spin!Main, Padded!Step, Spin!Step, Padded!spin_lock, Spin!spin_lock, Padded!spin_unlock,
   Spin!spin_unlock, Padded!Search, Spin!Search, Padded!Store, Spin!Store, Padded!Return, Spin!Return,
   Padded!PutLoop, Spin!PutLoop, Padded!Goto, Spin!Goto, Padded!Holding, Spin!Holding, Padded!Chain, Spin!Chain,
   Padded!Bucket, Spin!Bucket, Padded!Key, Spin!Key, Padded!At, Spin!At, Padded!b, Spin!b, Padded!Thread, Spin!Thread,
   Padded!tableVars, Spin!tableVars, Padded!None, Spin!None, Padded!TypeOK, Spin!TypeOK, Padded!TableTypes,
   Spin!TableTypes, Padded!Index, Spin!Index, Padded!BucketNo, Spin!BucketNo

LEMMA PaddedFollows ==
  ASSUME ChainsInv, SpinInv, base \in 0 .. 63, program = "mutex9.c"
  PROVE  Padded!PaddedTypeOK
BY SpinFollows, PaddedIsSpin DEF Padded!PaddedTypeOK, Padded!LINE
-----------------------------------------------------------------------------
(* mutex6.c: a lock that is polled. *)

PollInv == LockTypes /\ pc \in [Thread -> {"lock", "yield", "search", "store", "unlock", "done"}]

LEMMA PollStep ==
  ASSUME PollInv, ByBucket, NEW t \in Thread, Poll!Step(t)
  PROVE  /\ PutStep(t)
         /\ \E l \in {"lock", "yield", "search", "store", "unlock", "done"} : pc' = [pc EXCEPT ![t] = l]
         /\ locks' \in [BucketNo -> Thread \cup {None}]
<1>1. /\ UNCHANGED locks => SameOwners
      /\ Owner(Chain(t)) = locks[Chain(t)]
      /\ \A who : locks' = [locks EXCEPT ![Chain(t)] = who] => OwnerAfter(t, who)
      /\ UNCHANGED program /\ locks \in [BucketNo -> Thread \cup {None}]
  BY ByBucketLocks DEF PollInv, LockTypes, ByBucket
<1>2. CASE Poll!TryLock(t) /\ locks[Chain(t)] = None
  <2>1. Takes(t) /\ UNCHANGED phase /\ locks' = [locks EXCEPT ![Chain(t)] = t] /\ pc' = [pc EXCEPT ![t] = "search"]
    BY <1>1, <1>2 DEF Poll!TryLock, Poll!Goto, Poll!None, None, Poll!Chain, Poll!Key, Poll!At, Poll!b, Poll!Bucket,
       Takes, Goto, SameChains, Chain, Key, At, b, Bucket
  <2> QED BY <1>1, <2>1 DEF PutStep
<1>3. CASE Poll!TryLock(t) /\ locks[Chain(t)] # None
  <2>1. Polls(t) /\ UNCHANGED <<phase, locks>> /\ pc' = [pc EXCEPT ![t] = "yield"]
    BY <1>1, <1>3 DEF Poll!TryLock, Poll!Goto, Poll!None, None, Poll!Chain, Poll!Key, Poll!At, Poll!b, Poll!Bucket,
       Polls, Goto, SameChains, Chain, Key, At, b, Bucket
  <2> QED BY <1>1, <2>1 DEF PutStep
<1>4. CASE Poll!sched_yield(t)
  <2>1. Polls(t) /\ UNCHANGED <<phase, locks>> /\ pc' = [pc EXCEPT ![t] = "lock"]
    BY <1>1, <1>4 DEF Poll!sched_yield, Poll!Goto, Polls, Goto, SameChains
  <2> QED BY <1>1, <2>1 DEF PutStep
<1>5. CASE Poll!Unlock(t)
  <2>1. Gives(t) /\ UNCHANGED phase /\ locks' = [locks EXCEPT ![Chain(t)] = None] /\ pc' = [pc EXCEPT ![t] = PutLoop(t, iter[t] + 1)]
    BY <1>1, <1>5 DEF Poll!Unlock, Poll!Return, Poll!Goto, Poll!PutLoop, Poll!None, None, Poll!Chain, Poll!Key,
       Poll!At, Poll!b, Poll!Bucket, Gives, Return, Goto, PutLoop, Chain, Key, At, b, Bucket
  <2> QED BY <1>1, <2>1 DEF PutStep, PutLoop
<1>6. CASE Poll!Search(t) /\ UNCHANGED <<locks, phase>>
  <2>1. Searches(t) /\ pc' = [pc EXCEPT ![t] = "store"]
    BY <1>1, <1>6 DEF Poll!Search, Poll!Goto, Poll!Chain, Poll!Key, Poll!At, Poll!b, Poll!Bucket,
       Searches, Search, Goto, Chain, Key, At, b, Bucket
  <2> QED BY <1>1, <1>6, <2>1 DEF PutStep
<1>7. CASE Poll!Store(t, "unlock") /\ UNCHANGED <<locks, phase>>
  <2>1. Stores(t) /\ pc' = [pc EXCEPT ![t] = "unlock"]
    BY <1>1, <1>7 DEF Poll!Store, Poll!Goto, Poll!Chain, Poll!Key, Poll!At, Poll!b, Poll!Bucket,
       Poll!Holding, Stores, Store, Goto, Chain, Key, At, b, Bucket, Holding
  <2> QED BY <1>1, <1>7, <2>1 DEF PutStep
<1> QED BY <1>2, <1>3, <1>4, <1>5, <1>6, <1>7 DEF Poll!Step

LEMMA PollKeeps ==
  ASSUME ChainsInv, PollInv, ByBucket, Poll!Main \/ \E t \in Thread : Poll!Step(t)
  PROVE  ChainsInv' /\ PollInv'
<1>1. CASE Poll!Main
  <2>1. MainStep /\ LockTypes' /\ UNCHANGED <<nthread, pc>>
    BY <1>1, EndStep DEF Poll!Main, Poll!tableVars, Poll!Thread, Thread, PollInv
  <2>2. Thread' = Thread
    BY <2>1, SameSets
  <2> QED BY <2>1, <2>2, MainKeeps DEF PollInv
<1>2. ASSUME NEW t \in Thread, Poll!Step(t) PROVE ChainsInv' /\ PollInv'
  <2>1. PutStep(t) /\ locks' \in [BucketNo -> Thread \cup {None}]
    BY <1>2, PollStep
  <2>2. ChainsInv' /\ Thread' = Thread /\ UNCHANGED phase
    BY <2>1, PutKeeps, StepFrame
  <2>3. pc' \in [Thread -> {"lock", "yield", "search", "store", "unlock", "done"}]
    BY <1>2, PollStep DEF PollInv
  <2> QED BY <2>1, <2>2, <2>3 DEF PollInv, LockTypes
<1> QED BY <1>1, <1>2

\* What follows for mutex6.c.
LEMMA PollFollows ==
  ASSUME ChainsInv, PollInv, program = "mutex6.c"
  PROVE  Poll!TypeOK /\ Poll!DestroyedIdle
<1>1. TableTypes(Labels)
  BY DEF ChainsInv
<1>2. Poll!TypeOK
  BY <1>1 DEF PollInv, LockTypes, TableTypes, Poll!TypeOK, Poll!TableTypes, Poll!Index, Poll!BucketNo,
     Poll!Thread, Poll!None, Index, BucketNo, Thread, None
<1> QED BY <1>2, IdleAtEnd DEF Poll!DestroyedIdle, Poll!BucketNo, BucketNo, Poll!None, None
-----------------------------------------------------------------------------
(* mutex10.c: the number of inserts. *)

\* The threads that have an insert to count, and what is there to count.
Counting == {t \in Thread : pc[t] = "count"}
Entries  == UNION {table[n] : n \in BucketNo}
CountInv ==
  /\ LockTypes /\ pc \in [Thread -> {"lock", "search", "store", "count", "unlock", "done"}]
  /\ total_inserts \in Nat
  /\ total_inserts + Cardinality(Counting) = Cardinality(Entries)

LEMMA CountsFinite ==
  ASSUME ChainsInv
  PROVE  /\ IsFiniteSet(Counting) /\ Cardinality(Counting) \in Nat
         /\ IsFiniteSet(Entries) /\ Cardinality(Entries) \in 0 .. NKEYS
<1>1. nthread \in Nat /\ table \in [BucketNo -> SUBSET Index] /\ NKEYS \in Nat
  BY DEF ChainsInv, TableTypes
<1>2. IsFiniteSet(Thread)
  <2>1. IsFiniteSet(0 .. nthread - 1)
    BY <1>1, FS_Interval
  <2> QED BY <2>1 DEF Thread
<1>3. IsFiniteSet(Index) /\ Cardinality(Index) = NKEYS
  <2>1. IsFiniteSet(0 .. NKEYS - 1) /\ Cardinality(0 .. NKEYS - 1) = NKEYS
    BY <1>1, FS_Interval
  <2> QED BY <2>1 DEF Index
<1>4. Counting \in SUBSET Thread /\ Entries \in SUBSET Index
  BY <1>1 DEF Counting, Entries
<1>5. IsFiniteSet(Counting) /\ IsFiniteSet(Entries) /\ Cardinality(Entries) <= NKEYS
  BY <1>2, <1>3, <1>4, FS_Subset
<1> QED BY <1>5, FS_CardinalityType

\* Who moves between other labels has nothing to do with the count.
LEMMA SameCounting ==
  ASSUME pc \in [Thread -> Labels], NEW t \in Thread, NEW l, pc' = [pc EXCEPT ![t] = l], UNCHANGED nthread
  PROVE  Counting' = IF l = "count" THEN Counting \cup {t} ELSE Counting \ {t}
<1>1. pc'[t] = l /\ \A u \in Thread \ {t} : pc'[u] = pc[u]
  OBVIOUS
<1> QED BY <1>1, SameSets DEF Counting

\* Its steps are of the kinds above; all but two leave the table and the counter alone.
LEMMA CountStep ==
  ASSUME ChainsInv, CountInv, In10, NEW t \in Thread, Count!Step(t)
  PROVE  /\ PutStep(t) /\ locks' \in [BucketNo -> Thread \cup {None}]
         /\ \/ /\ UNCHANGED <<total_inserts, table>> /\ pc[t] # "count"
               /\ \E l \in {"lock", "search", "store", "unlock", "done"} : pc' = [pc EXCEPT ![t] = l]
            \/ UNCHANGED total_inserts /\ Store(t, "count") /\ Holding(seen[t], Key(t)) = {}
            \/ /\ total_inserts' = total_inserts + 1 /\ UNCHANGED table
               /\ pc[t] = "count" /\ pc' = [pc EXCEPT ![t] = "unlock"]
<1>0. ByBucket /\ LockTypes
  BY DEF In10, ByBucket, CountInv
<1>1. /\ UNCHANGED locks => SameOwners
      /\ Owner(Chain(t)) = locks[Chain(t)]
      /\ \A who : locks' = [locks EXCEPT ![Chain(t)] = who] => OwnerAfter(t, who)
      /\ UNCHANGED program /\ locks \in [BucketNo -> Thread \cup {None}]
  BY <1>0, ByBucketLocks DEF LockTypes, ByBucket
<1>2. CASE Count!Lock(t)
  <2>1. /\ Takes(t) /\ UNCHANGED <<phase, total_inserts, table>> /\ locks' = [locks EXCEPT ![Chain(t)] = t]
        /\ pc[t] = "lock" /\ pc' = [pc EXCEPT ![t] = "search"]
    BY <1>1, <1>2 DEF Count!Lock, Count!Goto, Count!None, None, Count!Chain, Count!Key, Count!At, Count!b, Count!Bucket,
       Takes, Goto, SameChains, Chain, Key, At, b, Bucket
  <2> QED BY <1>1, <2>1 DEF PutStep
<1>3. CASE Count!Unlock(t)
  <2>1. /\ Gives(t) /\ UNCHANGED <<phase, total_inserts, table>> /\ locks' = [locks EXCEPT ![Chain(t)] = None]
        /\ pc[t] = "unlock" /\ pc' = [pc EXCEPT ![t] = PutLoop(t, iter[t] + 1)]
    BY <1>1, <1>3 DEF Count!Unlock, Count!Return, Count!Goto, Count!PutLoop, Count!None, None, Count!Chain, Count!Key,
       Count!At, Count!b, Count!Bucket, Gives, Return, Goto, PutLoop, Chain, Key, At, b, Bucket
  <2> QED BY <1>1, <2>1 DEF PutStep, PutLoop
<1>4. CASE Count!Search(t) /\ UNCHANGED <<locks, total_inserts, phase>>
  <2>1. Searches(t) /\ pc[t] = "search" /\ pc' = [pc EXCEPT ![t] = "store"] /\ UNCHANGED table
    BY <1>1, <1>4 DEF Count!Search, Count!Goto, Count!Chain, Count!Key, Count!At, Count!b, Count!Bucket,
       Searches, Search, Goto, Chain, Key, At, b, Bucket
  <2> QED BY <1>1, <1>4, <2>1 DEF PutStep
<1>5. CASE Count!StoreOrInsert(t)
  <2>1. /\ Store(t, IF Holding(seen[t], Key(t)) = {} THEN "count" ELSE "unlock")
        /\ UNCHANGED <<locks, phase, total_inserts>>
    BY <1>5 DEF Count!StoreOrInsert, Count!Store, Count!Goto, Count!Chain, Count!Key, Count!At, Count!b, Count!Bucket,
       Count!Holding, Store, Goto, Chain, Key, At, b, Bucket, Holding
  <2>2. Stores(t) /\ PutStep(t)
    BY <1>1, <2>1 DEF Stores, PutStep
  <2>3. CASE Holding(seen[t], Key(t)) = {}
    BY <1>1, <2>1, <2>2, <2>3
  <2>4. CASE Holding(seen[t], Key(t)) # {}
    <3>1. pc[t] = "store" /\ pc' = [pc EXCEPT ![t] = "unlock"] /\ UNCHANGED table
      BY <2>1, <2>4 DEF Store, Goto
    <3> QED BY <3>1, <1>1, <2>1, <2>2
  <2> QED BY <2>3, <2>4
<1>6. CASE Count!atomic_fetch_add(t)
  <2>1. /\ Counts(t) /\ UNCHANGED <<phase, locks, table>> /\ total_inserts' = total_inserts + 1
        /\ pc[t] = "count" /\ pc' = [pc EXCEPT ![t] = "unlock"]
    BY <1>1, <1>6 DEF Count!atomic_fetch_add, Count!Goto, Counts, Goto, SameChains
  <2> QED BY <1>1, <2>1 DEF PutStep
<1> QED BY <1>2, <1>3, <1>4, <1>5, <1>6 DEF Count!Step

\* An insert adds an entry and a thread that has it to count; counting takes the thread away.
LEMMA CountStepKeeps ==
  ASSUME ChainsInv, CountInv, In10, NEW t \in Thread, Count!Step(t)
  PROVE  CountInv'
<1>1. PutStep(t) /\ locks' \in [BucketNo -> Thread \cup {None}]
  BY CountStep
<1>2. /\ Thread' = Thread /\ UNCHANGED <<phase, nthread>> /\ pc \in [Thread -> Labels] /\ total_inserts \in Nat
      /\ table \in [BucketNo -> SUBSET Index]
  BY <1>1, StepFrame, SameSets DEF ChainsInv, TableTypes, CountInv
<1>3. /\ IsFiniteSet(Counting) /\ Cardinality(Counting) \in Nat /\ IsFiniteSet(Entries) /\ Cardinality(Entries) \in Nat
      /\ total_inserts + Cardinality(Counting) = Cardinality(Entries)
  BY CountsFinite DEF CountInv
<1>4. CASE UNCHANGED <<total_inserts, table>> /\ pc[t] # "count"
           /\ \E l \in {"lock", "search", "store", "unlock", "done"} : pc' = [pc EXCEPT ![t] = l]
  <2>1. PICK l \in {"lock", "search", "store", "unlock", "done"} : pc' = [pc EXCEPT ![t] = l]
    BY <1>4
  <2>2. Counting' = Counting
    <3>1. Counting \ {t} = Counting
      BY <1>4 DEF Counting
    <3>2. l # "count"
      OBVIOUS
    <3>3. Counting' = IF l = "count" THEN Counting \cup {t} ELSE Counting \ {t}
      BY <2>1, <1>2, SameCounting
    <3> QED BY <3>1, <3>2, <3>3
  <2>3. Entries' = Entries
    BY <1>4 DEF Entries
  <2>4. pc' \in [Thread -> {"lock", "search", "store", "count", "unlock", "done"}]
    BY <2>1 DEF CountInv
  <2> QED BY <1>1, <1>2, <1>3, <1>4, <2>2, <2>3, <2>4 DEF CountInv, LockTypes
<1>5. CASE UNCHANGED total_inserts /\ Store(t, "count") /\ Holding(seen[t], Key(t)) = {}
  <2>1. /\ At(t) \in Index /\ Chain(t) \in BucketNo /\ pc[t] = "store" /\ pc' = [pc EXCEPT ![t] = "count"]
        /\ table' = [table EXCEPT ![Chain(t)] = table[Chain(t)] \cup {At(t)}]
        /\ \A n \in BucketNo : At(t) \notin table[n]
    BY <1>5, InsertEffect
  <2>2. Counting' = Counting \cup {t} /\ t \notin Counting
    BY <2>1, <1>2, SameCounting DEF Counting
  <2>3. Entries' = Entries \cup {At(t)} /\ At(t) \notin Entries
    BY <2>1, <1>2 DEF Entries
  <2>4. Cardinality(Counting') = Cardinality(Counting) + 1 /\ Cardinality(Entries') = Cardinality(Entries) + 1
    BY <2>2, <2>3, <1>3, FS_AddElement
  <2>5. pc' \in [Thread -> {"lock", "search", "store", "count", "unlock", "done"}]
    BY <2>1 DEF CountInv
  <2> QED BY <1>1, <1>2, <1>3, <1>5, <2>4, <2>5 DEF CountInv, LockTypes
<1>6. CASE /\ total_inserts' = total_inserts + 1 /\ UNCHANGED table
           /\ pc[t] = "count" /\ pc' = [pc EXCEPT ![t] = "unlock"]
  <2>1. Counting' = Counting \ {t} /\ t \in Counting
    BY <1>6, <1>2, SameCounting DEF Counting
  <2>2. Cardinality(Counting') = Cardinality(Counting) - 1
    BY <2>1, <1>3, FS_RemoveElement
  <2>3. Entries' = Entries
    BY <1>6 DEF Entries
  <2>4. pc' \in [Thread -> {"lock", "search", "store", "count", "unlock", "done"}]
    BY <1>6 DEF CountInv
  <2> QED BY <1>1, <1>2, <1>3, <1>6, <2>2, <2>3, <2>4 DEF CountInv, LockTypes
<1> QED BY <1>4, <1>5, <1>6, CountStep

LEMMA CountKeeps ==
  ASSUME ChainsInv, CountInv, In10, Count!Main \/ \E t \in Thread : Count!Step(t)
  PROVE  ChainsInv' /\ CountInv'
<1>1. CASE Count!Main
  <2>1. ByBucket /\ LockTypes
    BY DEF In10, ByBucket, CountInv
  <2>2. MainStep /\ LockTypes' /\ UNCHANGED <<nthread, pc, table, total_inserts>>
    BY <1>1, <2>1, EndStep DEF Count!Main, Count!tableVars, Count!Thread, Thread
  <2>3. Thread' = Thread
    BY <2>2, SameSets
  <2>4. Counting' = Counting /\ Entries' = Entries
    BY <2>2, <2>3 DEF Counting, Entries
  <2> QED BY <2>2, <2>3, <2>4, MainKeeps DEF CountInv
<1>2. ASSUME NEW t \in Thread, Count!Step(t) PROVE ChainsInv' /\ CountInv'
  BY <1>2, CountStep, PutKeeps, CountStepKeeps
<1> QED BY <1>1, <1>2

\* When all is put there is one entry for each key.
LEMMA OneEntryEach ==
  ASSUME ChainsInv, ~Early
  PROVE  Cardinality(PutKeys) = Cardinality(Entries)
<1>1. /\ keys \in [Index -> KeySpace] /\ table \in [BucketNo -> SUBSET Index] /\ PlaceInv /\ NoDuplicateKeys /\ AllPut
  BY DEF ChainsInv, TableTypes, TableInv
<1> DEFINE f == [j \in Entries |-> keys[j]]
<1>2. \A j \in Entries : j \in Index /\ InSlice(j) /\ j \in table[Bucket(keys[j])] /\ Bucket(keys[j]) \in BucketNo
  BY <1>1 DEF Entries, PlaceInv
<1>3. f \in [Entries -> PutKeys]
  BY <1>2 DEF PutKeys
<1>4. ASSUME NEW j1 \in Entries, NEW j2 \in Entries, keys[j1] = keys[j2] PROVE j1 = j2
  BY <1>1, <1>2, <1>4 DEF NoDuplicateKeys
<1>5. ASSUME NEW k \in PutKeys PROVE \E j \in Entries : keys[j] = k
  <2>1. PICK p \in Index : InSlice(p) /\ keys[p] = k
    BY <1>5 DEF PutKeys
  <2>2. PICK j \in table[Bucket(keys[p])] : keys[j] = keys[p]
    BY <2>1, <1>1 DEF AllPut, Holding
  <2>3. Bucket(keys[p]) \in BucketNo
    BY <1>1, KeyBucket
  <2> QED BY <2>1, <2>2, <2>3 DEF Entries
<1>6. f \in Bijection(Entries, PutKeys)
  <2>1. f \in Injection(Entries, PutKeys)
    BY <1>3, <1>4 DEF Injection, IsInjective
  <2>2. f \in Surjection(Entries, PutKeys)
    BY <1>3, <1>5 DEF Surjection
  <2> HIDE DEF f
  <2> QED BY <2>1, <2>2 DEF Bijection
<1>7. ExistsBijection(Entries, PutKeys) /\ IsFiniteSet(Entries)
  BY <1>6, CountsFinite DEF ExistsBijection
<1> QED BY <1>7, FS_Bijection

LEMMA CountCardinality == \A S : Count!Cardinality(S) = Cardinality(S)
BY DEF Cardinality, Count!Cardinality, IsFiniteSet, Count!IsFiniteSet

\* What follows for mutex10.c.
LEMMA CountFollows ==
  ASSUME ChainsInv, CountInv, program = "mutex10.c"
  PROVE  Count!TypeOK /\ Count!CountsEntries /\ Count!FinalCount
<1>1. /\ TableTypes(Labels) /\ LockTypes /\ pc \in [Thread -> {"lock", "search", "store", "count", "unlock", "done"}]
      /\ total_inserts \in Nat /\ total_inserts + Cardinality(Counting) = Cardinality(Entries)
      /\ Cardinality(Counting) \in Nat /\ Cardinality(Entries) \in 0 .. NKEYS
  BY CountsFinite DEF ChainsInv, CountInv
<1>2. total_inserts \in 0 .. NKEYS
  BY <1>1
<1>3. Count!TypeOK
  BY <1>1, <1>2 DEF LockTypes, TableTypes, Count!TypeOK, Count!TableTypes, Count!Index, Count!BucketNo,
     Count!Thread, Count!None, Index, BucketNo, Thread, None
<1>4. Count!CountsEntries
  BY <1>1, CountCardinality DEF Count!CountsEntries, Counting, Entries, Count!Thread, Thread, Count!BucketNo, BucketNo
<1>5. Count!FinalCount
  <2> SUFFICES ASSUME phase = "end" PROVE total_inserts = Cardinality(PutKeys)
    <3>1. PutKeys = {keys[j] : j \in {q \in Index : q < b * nthread}}
      BY DEF PutKeys, InSlice
    <3> QED BY <3>1, CountCardinality DEF Count!FinalCount, Count!Index, Index, Count!b, b
  <2>1. ~Early /\ \A t \in Thread : pc[t] # "count"
    BY NoneWorking DEF Early, ChainsInv, Working
  <2>2. Cardinality(Counting) = 0
    <3>1. Counting = {}
      BY <2>1 DEF Counting
    <3> QED BY <3>1, FS_EmptySet
  <2> QED BY <2>1, <2>2, <1>1, OneEntryEach
<1> QED BY <1>3, <1>4, <1>5
-----------------------------------------------------------------------------
(* All of the programs. *)

\* The inductive invariant: the chains are right, and what each program adds.
TablesInv ==
  /\ ChainsInv
  /\ program \in {"mutex1.c", "mutex3.c", "mutex5.c", "mutex6.c", "mutex9.c", "mutex10.c"}
  /\ program = "mutex1.c" => GlobalInv
  /\ program = "mutex3.c" => RWInv
  /\ program \in {"mutex5.c", "mutex9.c"} => SpinInv
  /\ program = "mutex6.c" => PollInv
  /\ program = "mutex9.c" => base \in 0 .. 63
  /\ program = "mutex10.c" => CountInv

\* The table is empty at first, and no lock is held.
LEMMA EmptyTable ==
  ASSUME TableInit, phase \in {"assert", "put"}, \A n \in BucketNo : Owner(n) = None
  PROVE  ChainsInv /\ pc \in [Thread -> {"lock", "done"}]
<1>1. nthread \in Nat \ {0} /\ b \in Nat /\ 0 \in 0 .. NKEYS /\ None \notin Thread
  BY SliceType DEF TableInit
<1>2. pc \in [Thread -> {"lock", "done"}]
  BY DEF TableInit, PutLoop
<1>3. \A t \in Thread : pc[t] = (IF 0 < b THEN "lock" ELSE "done") /\ iter[t] = 0
  BY DEF TableInit, PutLoop
<1>4. TableTypes(Labels)
  <2>1. pc \in [Thread -> Labels]
    BY <1>2 DEF Labels, PutLabels
  <2> QED BY <2>1, <1>1 DEF TableInit, TableTypes
<1>5. LoopInv
  BY <1>1, <1>3 DEF LoopInv, PutLabels, GetLabels, Working, Early
<1>6. LockInv /\ FreshSearch /\ PutInv
  <2>1. \A t \in Thread : pc[t] \notin Working /\ pc[t] \notin {"store", "count", "unlock"}
    BY <1>3 DEF Working
  <2> QED BY <1>1, <2>1 DEF LockInv, FreshSearch, PutInv
<1>7. TableInv
  <2>1. \A n \in BucketNo : table[n] = {}
    BY DEF TableInit
  <2>2. \A j \in Index : ~Put(j)
    BY <1>1, <1>3 DEF Put
  <2> QED BY <2>1, <2>2 DEF TableInv, PlaceInv, NoDuplicateKeys, NoLostPut, Early
<1> QED BY <1>2, <1>4, <1>5, <1>6, <1>7 DEF ChainsInv

\* TableInit as each instance reads it.
LEMMA SameInit ==
  /\ Global!TableInit <=> TableInit
  /\ RW!TableInit <=> TableInit
  /\ Spin!TableInit <=> TableInit
  /\ Poll!TableInit <=> TableInit
  /\ Padded!TableInit <=> TableInit
  /\ Count!TableInit <=> TableInit
<1>1. Global!TableInit <=> TableInit
  BY DEF TableInit, Index, BucketNo, Thread, None, PutLoop, b,
     Global!TableInit, Global!Index, Global!BucketNo, Global!Thread, Global!None, Global!PutLoop, Global!b
<1>2. RW!TableInit <=> TableInit
  BY DEF TableInit, Index, BucketNo, Thread, None, PutLoop, b,
     RW!TableInit, RW!Index, RW!BucketNo, RW!Thread, RW!None, RW!PutLoop, RW!b
<1>3. Spin!TableInit <=> TableInit
  BY DEF TableInit, Index, BucketNo, Thread, None, PutLoop, b,
     Spin!TableInit, Spin!Index, Spin!BucketNo, Spin!Thread, Spin!None, Spin!PutLoop, Spin!b
<1>4. Poll!TableInit <=> TableInit
  BY DEF TableInit, Index, BucketNo, Thread, None, PutLoop, b,
     Poll!TableInit, Poll!Index, Poll!BucketNo, Poll!Thread, Poll!None, Poll!PutLoop, Poll!b
<1>5. Padded!TableInit <=> TableInit
  BY DEF TableInit, Index, BucketNo, Thread, None, PutLoop, b,
     Padded!TableInit, Padded!Index, Padded!BucketNo, Padded!Thread, Padded!None, Padded!PutLoop, Padded!b
<1>6. Count!TableInit <=> TableInit
  BY DEF TableInit, Index, BucketNo, Thread, None, PutLoop, b,
     Count!TableInit, Count!Index, Count!BucketNo, Count!Thread, Count!None, Count!PutLoop, Count!b
<1> QED BY <1>1, <1>2, <1>3, <1>4, <1>5, <1>6

LEMMA TablesInit ==
  ASSUME Init
  PROVE  TablesInv
<1>1. TableInit
  BY SameInit DEF Init, Global!Init, RW!Init, Spin!Init, Poll!Init, Padded!PaddedInit, Padded!Init, Count!Init
<1>2. CASE program = "mutex1.c" /\ Global!Init
  <2>1. \A n \in BucketNo : Owner(n) = None
    BY <1>2 DEF Owner, Global!Init, Global!None, None
  <2>2. ChainsInv /\ pc \in [Thread -> {"lock", "done"}]
    BY <1>1, <1>2, <2>1, EmptyTable DEF Global!Init
  <2> QED BY <1>2, <2>2 DEF TablesInv, GlobalInv, Global!Init, Global!Thread, Thread
<1>3. CASE program = "mutex3.c" /\ RW!Init
  <2>1. /\ rwlocks = [n \in BucketNo |-> [writer |-> None, readers |-> {}]]
        /\ found = [t \in Thread |-> FALSE] /\ missing = [t \in Thread |-> 0] /\ phase = "put"
    BY <1>3 DEF RW!Init, RW!None, None, RW!BucketNo, BucketNo, RW!Thread, Thread
  <2>2. \A n \in BucketNo : Owner(n) = None
    BY <1>3, <2>1 DEF Owner
  <2>3. ChainsInv /\ pc \in [Thread -> {"lock", "done"}]
    BY <1>1, <2>1, <2>2, EmptyTable
  <2>4. RWInv
    BY <2>1, <2>3 DEF RWInv
  <2> QED BY <1>3, <2>3, <2>4 DEF TablesInv
<1>4. ASSUME program \in {"mutex5.c", "mutex6.c", "mutex9.c", "mutex10.c"}, phase = "put",
             locks = [n \in BucketNo |-> None]
      PROVE  ChainsInv /\ pc \in [Thread -> {"lock", "done"}] /\ LockTypes
  <2>1. \A n \in BucketNo : Owner(n) = None
    BY <1>4 DEF Owner
  <2> QED BY <1>1, <1>4, <2>1, EmptyTable DEF LockTypes
<1>5. CASE program = "mutex5.c" /\ Spin!Init
  <2>1. phase = "put" /\ locks = [n \in BucketNo |-> None]
    BY <1>5 DEF Spin!Init, Spin!BucketNo, BucketNo, Spin!None, None
  <2> QED BY <1>4, <1>5, <2>1 DEF TablesInv, SpinInv
<1>6. CASE program = "mutex6.c" /\ Poll!Init
  <2>1. phase = "put" /\ locks = [n \in BucketNo |-> None]
    BY <1>6 DEF Poll!Init, Poll!BucketNo, BucketNo, Poll!None, None
  <2> QED BY <1>4, <1>6, <2>1 DEF TablesInv, PollInv
<1>7. CASE program = "mutex9.c" /\ Padded!PaddedInit
  <2>1. phase = "put" /\ locks = [n \in BucketNo |-> None] /\ base \in 0 .. 63
    BY <1>7 DEF Padded!PaddedInit, Padded!Init, Padded!BucketNo, BucketNo, Padded!None, None, Padded!LINE
  <2> QED BY <1>4, <1>7, <2>1 DEF TablesInv, SpinInv
<1>8. CASE program = "mutex10.c" /\ Count!Init
  <2>1. phase = "put" /\ locks = [n \in BucketNo |-> None] /\ total_inserts = 0
    BY <1>8 DEF Count!Init, Count!BucketNo, BucketNo, Count!None, None
  <2>2. ChainsInv /\ pc \in [Thread -> {"lock", "done"}] /\ LockTypes
    BY <1>4, <1>8, <2>1
  <2>3. Counting = {} /\ Entries = {}
    BY <1>1, <2>2 DEF Counting, Entries, TableInit
  <2>4. Cardinality(Counting) = 0 /\ Cardinality(Entries) = 0
    BY <2>3, FS_EmptySet
  <2> QED BY <1>8, <2>1, <2>2, <2>4 DEF TablesInv, CountInv
<1> QED BY <1>2, <1>3, <1>5, <1>6, <1>7, <1>8 DEF Init

\* The step of each program, as a step of main or of a thread.
LEMMA Steps ==
  ASSUME Main \/ \E t \in Thread : Step(t)
  PROVE  \/ In1 /\ (Global!Main \/ \E t \in Thread : Global!Step(t))
         \/ In3 /\ (RW!Main \/ \E t \in Thread : RW!Step(t))
         \/ /\ program \in {"mutex5.c", "mutex9.c"} /\ UNCHANGED <<program, base>>
            /\ Spin!Main \/ \E t \in Thread : Spin!Step(t)
         \/ /\ program = "mutex6.c" /\ UNCHANGED program
            /\ Poll!Main \/ \E t \in Thread : Poll!Step(t)
         \/ In10 /\ (Count!Main \/ \E t \in Thread : Count!Step(t))
BY PaddedIsSpin DEF Main, Step, InL, Padded!PaddedMain, Padded!PaddedStep

LEMMA TablesStep ==
  ASSUME TablesInv, [Next]_vars
  PROVE  TablesInv'
<1> USE DEF TablesInv
<1>1. CASE In1 /\ (Global!Main \/ \E t \in Thread : Global!Step(t))
  BY <1>1, GlobalKeeps DEF In1
<1>2. CASE In3 /\ (RW!Main \/ \E t \in Thread : RW!Step(t))
  BY <1>2, RWKeeps DEF In3
<1>3. CASE /\ program \in {"mutex5.c", "mutex9.c"} /\ UNCHANGED <<program, base>>
           /\ Spin!Main \/ \E t \in Thread : Spin!Step(t)
  BY <1>3, SpinKeeps DEF ByBucket
<1>4. CASE /\ program = "mutex6.c" /\ UNCHANGED program
           /\ Poll!Main \/ \E t \in Thread : Poll!Step(t)
  BY <1>4, PollKeeps DEF ByBucket
<1>5. CASE In10 /\ (Count!Main \/ \E t \in Thread : Count!Step(t))
  BY <1>5, CountKeeps DEF In10
<1>6. CASE UNCHANGED vars
  <2>1. UNCHANGED <<nthread, keys, table, val, pc, iter, seen, program, phase, global_lock, rwlocks, locks, found,
                    missing, total_inserts, base>>
    BY <1>6 DEF vars, tableVars
  <2>2. ChainsInv' <=> ChainsInv
    BY <2>1 DEF ChainsInv, TableTypes, LoopInv, LockInv, TableInv, PlaceInv, NoDuplicateKeys, NoLostPut, AllPut,
       FreshSearch, PutInv, Put, InSlice, Early, Owner, Covers, Holding, Chain, Key, At, Bucket, Thread, b
  <2>3. GlobalInv' <=> GlobalInv
    BY <2>1 DEF GlobalInv, Thread
  <2>4. RWInv' <=> RWInv
    BY <2>1 DEF RWInv, GetBucket, Bucket, Lacking, PutKeys, InSlice, Thread, b
  <2>5. (SpinInv' <=> SpinInv) /\ (PollInv' <=> PollInv) /\ (CountInv' <=> CountInv)
    BY <2>1 DEF SpinInv, PollInv, CountInv, LockTypes, Counting, Entries, Thread
  <2> QED BY <2>1, <2>2, <2>3, <2>4, <2>5
<1> QED BY <1>1, <1>2, <1>3, <1>4, <1>5, <1>6, Steps DEF Next, Ended

\* For every number of buckets, keys and threads, whatever keys random() returns: under
\* each of the six kinds of lock a thread that works on a chain has it to itself, what
\* it saw there is still so when it stores, and what was put stays (inductive invariant).
THEOREM TablesStand == Spec => []TablesInv
<1>1. Init => TablesInv
  BY TablesInit
<1>2. TablesInv /\ [Next]_vars => TablesInv'
  BY TablesStep
<1> QED BY <1>1, <1>2, PTL DEF Spec

\* No key is twice in a chain, no put is lost, no put acts on an outdated search, and
\* main destroys idle locks: for mutex1.c, mutex3.c, mutex5.c, mutex6.c and mutex9.c.
THEOREM EveryPutKept == Spec => []PutsKept
<1>1. TablesInv => PutsKept
  <2> SUFFICES ASSUME TablesInv PROVE PutsKept
    OBVIOUS
  <2> USE DEF TablesInv
  <2>1. NoDuplicateKeys /\ FreshSearch
    BY DEF ChainsInv, TableInv
  <2>2. NoLostPut
    <3>1. CASE Early
      BY <3>1 DEF ChainsInv, TableInv
    <3>2. CASE ~Early
      <4>1. AllPut /\ nthread \in ThreadNums
        BY <3>2 DEF ChainsInv, TableInv, TableTypes
      <4>2. \A j \in Index : Put(j) => InSlice(j)
        BY <4>1, SliceType DEF Put
      <4> QED BY <4>1, <4>2 DEF AllPut, NoLostPut
    <3> QED BY <3>1, <3>2
  <2>3. TypeOK
    BY GlobalFollows, RWFollows, SpinFollows, PollFollows, PaddedFollows, CountFollows DEF TypeOK
  <2>4. LocksIdle
    BY GlobalFollows, RWFollows, SpinFollows, PollFollows DEF LocksIdle
  <2> QED BY <2>1, <2>2, <2>3, <2>4 DEF PutsKept
<1> QED BY <1>1, TablesStand, PTL

\* The gets of mutex1.c miss nothing, those of mutex3.c exactly the keys that nobody
\* put, and the counter of mutex10.c ends at the number of different keys.
THEOREM CountsAreExact == Spec => []CountsExact
<1>1. TablesInv => CountsExact
  BY GlobalFollows, RWFollows, CountFollows DEF TablesInv, CountsExact
<1> QED BY <1>1, TablesStand, PTL

\* While the gets of mutex1.c run, no step changes the table or a value.
THEOREM GetsUndisturbed == Spec => QuietReads
<1>1. ASSUME TablesInv, [Next]_vars, program = "mutex1.c", phase = "get" PROVE UNCHANGED <<table, val>>
  <2>1. CASE UNCHANGED vars
    BY <2>1 DEF vars, tableVars
  <2>2. CASE In1 /\ Global!Main
    BY <2>2, GlobalMain DEF MainStep
  <2>3. ASSUME In1, NEW t \in Thread, Global!Step(t) PROVE UNCHANGED <<table, val>>
    <3>1. ~PutStep(t)
      <4>1. PutStep(t) => pc[t] \in PutLabels
        BY DEF PutStep, Takes, Gives, Polls, Searches, Stores, Counts, Return, Search, Store, Goto, PutLabels, Working
      <4>2. ~Early
        BY <1>1 DEF Early
      <4> QED BY <4>1, <4>2, <1>1 DEF TablesInv, ChainsInv, LoopInv
    <3> QED BY <3>1, <2>3, GlobalStep DEF GetStep
  <2> QED BY <1>1, <2>1, <2>2, <2>3, Steps DEF Next, Ended, In3, In10
<1>2. TablesInv /\ [Next]_vars => [program = "mutex1.c" => Global!QuietReads]_vars
  BY <1>1 DEF Global!QuietReads
<1> QED BY <1>2, TablesStand, PTL DEF Spec, QuietReads
=============================================================================
