--------------------------- MODULE HashTable_proofs ---------------------------
(***************************************************************************)
(* Proofs about HashTable for every number of threads, keys and buckets.   *)
(***************************************************************************)
EXTENDS HashTable, TLAPS

USE DEF None

-----------------------------------------------------------------------------
(* Arithmetic. *)

\* key % NBUCKET is a bucket number.
LEMMA BucketType == \A key \in Nat : Bucket(key) \in BucketNo
  BY SizesAssumption DEF Bucket, BucketNo

\* The slices of the put threads lie inside keys[].
LEMMA SliceType == b \in Nat /\ \A t \in PutThread, i \in 0 .. b - 1 : b * t + i \in Index
<1>1. b \in Nat /\ b * nthread <= NKEYS
  BY SizesAssumption DEF b
<1>2. ASSUME NEW t \in PutThread, NEW i \in 0 .. b - 1 PROVE b * t + i \in Index
  <2>1. b * t \in Nat /\ b * (t + 1) = b * t + b
    BY <1>1 DEF PutThread
  <2>2. b * (t + 1) <= b * nthread
    BY <1>1, SizesAssumption DEF PutThread
  <2> QED BY <1>1, <2>1, <2>2, SizesAssumption DEF Index
<1> QED BY <1>1, <1>2

LEMMA ThreadTypes ==
  /\ PutThread \subseteq Int /\ GetThread \subseteq Int /\ Thread \subseteq Int
  /\ None \notin Thread /\ PutThread \cap GetThread = {}
  BY SizesAssumption DEF PutThread, GetThread, Thread

\* The loop bound of a thread.
LEMMA LastType == \A t \in Thread : Last(t) \in 0 .. NKEYS
<1>1. b \in Nat /\ b <= NKEYS
  <2>1. b \in Nat /\ b * nthread <= NKEYS
    BY SizesAssumption DEF b
  <2>2. b <= b * nthread
    BY <2>1, SizesAssumption
  <2> QED BY <2>1, <2>2, SizesAssumption
<1> QED BY <1>1, SizesAssumption DEF Last

\* The position, the key and the bucket of a call that a thread has left to make.
LEMMA CallType ==
  ASSUME TypeOK, NEW t \in Thread, NEW i \in Nat, i < Last(t)
  PROVE  Pos(t, i) \in Index /\ keys[Pos(t, i)] \in KeySpace /\ Bucket(keys[Pos(t, i)]) \in BucketNo
<1>1. Pos(t, i) \in Index
  BY SliceType, SizesAssumption DEF Pos, Index, Last
<1>2. keys[Pos(t, i)] \in KeySpace
  BY <1>1 DEF TypeOK
<1> QED BY <1>1, <1>2, BucketType, KeysAssumption
-----------------------------------------------------------------------------
(* Types and loops. *)

\* A thread starts, or goes on with, a call only if its loop has one left.
LEMMA LoopTestType ==
  ASSUME NEW t \in Thread, NEW i \in Nat
  PROVE  /\ LoopTest(t, i) \in {"lock", "done"}
         /\ LoopTest(t, i) = "lock" => i < Last(t)
  BY DEF LoopTest

LEMMA CreatedType ==
  ASSUME NEW k \in 0 .. 2 * nthread - 1
  PROVE  Created(k) \in Thread
  BY SizesAssumption DEF Created, Thread, PutThread, GetThread

LEMMA TypeInit == Init => TypeOK /\ LoopInv
<1> SUFFICES ASSUME Init PROVE TypeOK /\ LoopInv
  OBVIOUS
<1>1. TypeOK
  BY SizesAssumption DEF Init, TypeOK, Critical
<1>2. LoopInv
  BY LastType, SizesAssumption DEF Init, LoopInv, Critical, Thread
<1> QED BY <1>1, <1>2

LEMMA TypeStep == TypeOK /\ LoopInv /\ GetInv /\ [Next]_vars => TypeOK' /\ LoopInv'
<1> SUFFICES ASSUME TypeOK, LoopInv, GetInv, [Next]_vars PROVE TypeOK' /\ LoopInv'
  OBVIOUS
<1> USE DEF Goto
<1>1. ASSUME NEW t \in Thread, Lock(t) PROVE TypeOK' /\ LoopInv'
  BY <1>1 DEF Lock, TypeOK, LoopInv, Critical
<1>2. ASSUME NEW t \in Thread, Search(t) PROVE TypeOK' /\ LoopInv'
  <2> DEFINE found == Holding(Chain(t), Key(t))
  <2>1. found \subseteq Index /\ iter[t] < Last(t)
    BY <1>2, CallType DEF Search, TypeOK, LoopInv, Critical, Holding, Chain, Key, At
  <2>2. (IF found = {} THEN None ELSE CHOOSE j \in found : TRUE) \in Index \cup {None}
    BY <2>1
  <2>3. TypeOK'
    BY <1>2, <2>2 DEF Search, TypeOK, Critical
  <2>4. LoopInv'
    BY <1>2, <2>1 DEF Search, TypeOK, LoopInv, Critical
  <2> QED BY <2>3, <2>4
<1>3. ASSUME NEW t \in Thread, Update(t) PROVE TypeOK' /\ LoopInv'
  BY <1>3 DEF Update, TypeOK, LoopInv, Critical, GetInv, Thread
<1>4. ASSUME NEW t \in Thread, Insert(t) PROVE TypeOK' /\ LoopInv'
  <2>1. Chain(t) \in BucketNo
    BY <1>4, CallType DEF Insert, LoopInv, Critical, TypeOK, Chain, Key, At
  <2> QED BY <1>4, <2>1 DEF Insert, TypeOK, LoopInv, Critical, GetInv, Thread
<1>5. ASSUME NEW t \in Thread, Link(t) PROVE TypeOK' /\ LoopInv'
  <2>1. At(t) \in Index
    BY <1>5, CallType DEF Link, LoopInv, Critical, TypeOK, At
  <2> QED BY <1>5, <2>1 DEF Link, TypeOK, LoopInv, Critical
<1>6. ASSUME NEW t \in Thread, Unlock(t) PROVE TypeOK' /\ LoopInv'
  <2>1. iter[t] \in Nat /\ iter[t] < Last(t) /\ Last(t) \in 0 .. NKEYS
    BY <1>6, LastType DEF Unlock, LoopInv, Critical, TypeOK
  <2>2. iter' = [iter EXCEPT ![t] = iter[t] + 1] /\ iter[t] + 1 \in 0 .. NKEYS
    BY <1>6, <2>1, SizesAssumption DEF Unlock
  <2>3. missing' \in [GetThread -> 0 .. NKEYS] /\ \A g \in GetThread : missing'[g] <= iter'[g]
    BY <1>6, <2>1, <2>2, SizesAssumption, ThreadTypes DEF Unlock, TypeOK, LoopInv, Thread
  <2>4. TypeOK'
    <3>1. LoopTest(t, iter[t] + 1) \in {"lock", "done"} /\ iter' \in [Thread -> 0 .. NKEYS]
      BY <2>1, <2>2, LoopTestType DEF TypeOK
    <3> QED BY <1>6, <2>3, <3>1 DEF Unlock, TypeOK
  <2>5. LoopInv'
    BY <1>6, <2>1, <2>2, <2>3, LoopTestType DEF Unlock, TypeOK, LoopInv, Critical
  <2> QED BY <2>4, <2>5
<1>7. CASE Create
  <2>1. main.k \in 0 .. 2 * nthread - 1
    BY DEF TypeOK
  <2>2. TypeOK'
    BY <1>7, <2>1, CreatedType, LoopTestType, SizesAssumption DEF Create, Loop, TypeOK, Critical
  <2>3. LoopInv'
    BY <1>7, <2>1, CreatedType DEF Create, TypeOK, LoopInv, Critical, LoopTest
  <2> QED BY <2>2, <2>3
<1>8. CASE Join
  BY <1>8, SizesAssumption DEF Join, Loop, TypeOK, LoopInv
<1>9. CASE Destroy
  BY <1>9, SizesAssumption DEF Destroy, TypeOK, LoopInv
<1>10. CASE UNCHANGED vars
  BY <1>10 DEF vars, TypeOK, LoopInv
<1> QED
  BY <1>1, <1>2, <1>3, <1>4, <1>5, <1>6, <1>7, <1>8, <1>9, <1>10 DEF Next, Step, Ended
-----------------------------------------------------------------------------
(* Control: the mutexes, and the threads that main creates and joins. *)

\* The bucket of a thread's call depends on the keys and on its loop counter only.
LEMMA Frame ==
  ASSUME keys' = keys, NEW t \in Thread, iter'[t] = iter[t]
  PROVE  At(t)' = At(t) /\ Key(t)' = Key(t) /\ Chain(t)' = Chain(t)
  BY DEF At, Key, Chain, Pos

\* Two threads are never in the critical section of the same bucket.
LEMMA Exclusion ==
  ASSUME LockInv, NEW t \in Thread, NEW u \in Thread,
         pc[t] \in Critical, pc[u] \in Critical, Chain(t) = Chain(u)
  PROVE  t = u
  BY DEF LockInv

ControlInv == LockInv /\ GetInv /\ MainInv

LEMMA ControlInit == Init => ControlInv
<1> SUFFICES ASSUME Init PROVE ControlInv
  OBVIOUS
<1>1. LockInv
  BY ThreadTypes DEF Init, LockInv, Critical
<1>2. GetInv
  BY ThreadTypes DEF Init, GetInv, Thread
<1>3. MainInv
  BY CreatedType DEF Init, MainInv
<1> QED BY <1>1, <1>2, <1>3 DEF ControlInv

\* A step of a thread inside its critical section leaves the control as it was.
LEMMA InsideStep ==
  ASSUME TypeOK, LoopInv, ControlInv, NEW t \in Thread, pc[t] \in Critical,
         NEW label \in Critical, Goto(t, label),
         t \in GetThread => label \notin {"update", "insert", "link"},
         UNCHANGED <<keys, locks, iter, main>>
  PROVE  ControlInv'
<1>1. \A u \in Thread : Chain(u)' = Chain(u)
  BY Frame
<1>2. LockInv'
  BY <1>1 DEF ControlInv, LockInv, Goto, TypeOK
<1>3. GetInv'
  BY DEF ControlInv, GetInv, Goto, TypeOK
<1>4. MainInv'
  BY CreatedType DEF ControlInv, MainInv, Goto, TypeOK, Critical
<1> QED BY <1>2, <1>3, <1>4 DEF ControlInv

LEMMA ControlStep == TypeOK /\ LoopInv /\ ControlInv /\ [Next]_vars => ControlInv'
<1> SUFFICES ASSUME TypeOK, LoopInv, ControlInv, [Next]_vars PROVE ControlInv'
  OBVIOUS
<1>1. ASSUME NEW t \in Thread, Lock(t) PROVE ControlInv'
  <2>1. \A u \in Thread : Chain(u)' = Chain(u)
    BY <1>1, Frame DEF Lock
  <2>2. Chain(t) \in BucketNo
    BY <1>1, CallType DEF Lock, LoopInv, Critical, TypeOK, Chain, Key, At
  <2>3. LockInv'
    BY <1>1, <2>1, <2>2, ThreadTypes DEF Lock, ControlInv, LockInv, Goto, TypeOK, Critical
  <2>4. GetInv' /\ MainInv'
    BY <1>1, CreatedType DEF Lock, ControlInv, GetInv, MainInv, Goto, TypeOK
  <2> QED BY <2>3, <2>4 DEF ControlInv
<1>2. ASSUME NEW t \in Thread, Search(t) PROVE ControlInv'
  BY <1>2, InsideStep, ThreadTypes DEF Search, Critical, Goto
<1>3. ASSUME NEW t \in Thread, Update(t) PROVE ControlInv'
  BY <1>3, InsideStep DEF Update, Critical
<1>4. ASSUME NEW t \in Thread, Insert(t) PROVE ControlInv'
  BY <1>4, InsideStep DEF Insert, Critical, ControlInv, GetInv
<1>5. ASSUME NEW t \in Thread, Link(t) PROVE ControlInv'
  BY <1>5, InsideStep DEF Link, Critical
<1>6. ASSUME NEW t \in Thread, Unlock(t) PROVE ControlInv'
  <2>1. \A u \in Thread \ {t} : Chain(u)' = Chain(u)
    BY <1>6, Frame DEF Unlock, TypeOK
  <2>2. Chain(t) \in BucketNo /\ locks[Chain(t)] = t
    BY <1>6, CallType DEF Unlock, LoopInv, Critical, TypeOK, Chain, Key, At, ControlInv, LockInv
  <2>3. LoopTest(t, iter[t] + 1) \in {"lock", "done"}
    BY DEF LoopTest
  <2>4. LockInv'
    BY <1>6, <2>1, <2>2, <2>3, ThreadTypes DEF Unlock, ControlInv, LockInv, Goto, TypeOK, Critical
  <2>5. GetInv' /\ MainInv'
    BY <1>6, <2>3, CreatedType DEF Unlock, ControlInv, GetInv, MainInv, Goto, TypeOK
  <2> QED BY <2>4, <2>5 DEF ControlInv
<1>7. CASE Create
  <2> DEFINE t == Created(main.k)
  <2>1. main.k \in 0 .. 2 * nthread - 1 /\ t \in Thread /\ pc[t] = "new"
    BY <1>7, CreatedType DEF TypeOK, Create, ControlInv, MainInv
  <2>2. \A u \in Thread : Chain(u)' = Chain(u)
    BY <1>7, Frame DEF Create
  <2>3. LockInv' /\ GetInv'
    BY <1>7, <2>1, <2>2, LoopTestType DEF Create, ControlInv, LockInv, GetInv, Goto, TypeOK, Critical, LoopTest
  <2>4. \A k \in main.k + 1 .. 2 * nthread - 1 : Created(k) # t
    BY <2>1, SizesAssumption DEF Created
  <2>5. MainInv'
    BY <1>7, <2>1, <2>4, ThreadTypes, CreatedType, SizesAssumption
       DEF Create, Loop, ControlInv, MainInv, Goto, TypeOK, Thread, PutThread, GetThread
  <2> QED BY <2>3, <2>5 DEF ControlInv
<1>8. CASE Join
  <2>1. \A u \in Thread : Chain(u)' = Chain(u)
    BY <1>8, Frame DEF Join
  <2>2. LockInv' /\ GetInv'
    BY <1>8, <2>1 DEF Join, ControlInv, LockInv, GetInv
  <2>3. MainInv'
    BY <1>8, SizesAssumption DEF Join, Loop, ControlInv, MainInv, TypeOK, Thread, PutThread, GetThread
  <2> QED BY <2>2, <2>3 DEF ControlInv
<1>9. CASE Destroy
  <2>1. \A u \in Thread : Chain(u)' = Chain(u)
    BY <1>9, Frame DEF Destroy
  <2> QED BY <1>9, <2>1 DEF Destroy, ControlInv, LockInv, GetInv, MainInv
<1>10. CASE UNCHANGED vars
  <2>1. \A u \in Thread : Chain(u)' = Chain(u)
    BY <1>10, Frame DEF vars
  <2> QED BY <1>10, <2>1, CreatedType DEF vars, ControlInv, LockInv, GetInv, MainInv
<1> QED
  BY <1>1, <1>2, <1>3, <1>4, <1>5, <1>6, <1>7, <1>8, <1>9, <1>10 DEF Next, Step, Ended
-----------------------------------------------------------------------------
(* Data: the chains. *)

DataInv == PlaceInv /\ NoDuplicateKeys /\ PutInv /\ NoLostPut

LEMMA DataInit == Init => DataInv
  BY ThreadTypes DEF Init, DataInv, PlaceInv, NoDuplicateKeys, PutInv, NoLostPut, Thread

\* A step that changes neither the table nor the counters leaves the chains as they were.
LEMMA SameTable ==
  ASSUME UNCHANGED <<keys, table, iter>>, PlaceInv, NoDuplicateKeys, NoLostPut
  PROVE  /\ PlaceInv' /\ NoDuplicateKeys' /\ NoLostPut'
         /\ \A u \in Thread : /\ At(u)' = At(u)
                              /\ Chain(u)' = Chain(u)
                              /\ Holding(Chain(u), Key(u))' = Holding(Chain(u), Key(u))
<1>1. \A i, k : Holding(i, k)' = Holding(i, k)
  BY DEF Holding
<1>2. \A u \in Thread : At(u)' = At(u) /\ Chain(u)' = Chain(u) /\ Key(u)' = Key(u)
  BY Frame
<1> QED BY <1>1, <1>2 DEF PlaceInv, NoDuplicateKeys, NoLostPut, Holding

LEMMA DataStep ==
  TypeOK /\ LoopInv /\ ControlInv /\ DataInv /\ [Next]_vars => DataInv'
<1> SUFFICES ASSUME TypeOK, LoopInv, ControlInv, DataInv, [Next]_vars PROVE DataInv'
  OBVIOUS
<1> USE DEF DataInv, Goto
<1>0. ASSUME NEW t \in Thread, pc[t] \in Critical
      PROVE  At(t) \in Index /\ Key(t) \in KeySpace /\ Chain(t) \in BucketNo
  BY <1>0, CallType DEF LoopInv, TypeOK, Chain, Key, At
<1>1. ASSUME NEW t \in Thread, Lock(t) PROVE DataInv'
  <2>1. PutInv'
    BY <1>1, SameTable DEF Lock, PutInv, TypeOK, Thread
  <2> QED BY <1>1, <2>1, SameTable DEF Lock
<1>2. ASSUME NEW t \in Thread, Search(t) PROVE DataInv'
  <2>1. PutInv'
    BY <1>2, SameTable, ThreadTypes DEF Search, PutInv, TypeOK, Thread
  <2> QED BY <1>2, <2>1, SameTable DEF Search
<1>3. ASSUME NEW t \in Thread, Update(t) PROVE DataInv'
  <2>1. t \in PutThread /\ e[t] \in Holding(Chain(t), Key(t)) /\ pc[t] \in Critical
    BY <1>3 DEF Update, PutInv, ControlInv, GetInv, Thread, Critical
  <2>2. ASSUME NEW u \in PutThread, pc[u] = "link" PROVE val'[At(u)] = val[At(u)]
    <3>1. Chain(u) # Chain(t)
      BY <1>3, <2>1, <2>2, Exclusion DEF ControlInv, Critical, Update, Thread
    <3>2. At(u) # e[t]
      BY <2>1, <3>1 DEF Holding, Chain, Key
    <3> QED BY <1>0, <1>3, <2>2, <3>2 DEF Update, TypeOK, Critical, Thread
  <2>3. PutInv'
    BY <1>3, <2>1, <2>2, SameTable DEF Update, PutInv, TypeOK, Thread
  <2> QED BY <1>3, <2>3, SameTable DEF Update
<1>4. ASSUME NEW t \in Thread, Insert(t) PROVE DataInv'
  <2>1. t \in PutThread /\ pc[t] \in Critical /\ At(t) \in Index
    BY <1>4, <1>0 DEF Insert, ControlInv, GetInv, Thread, Critical
  <2>2. ASSUME NEW u \in PutThread, pc[u] = "link" PROVE val'[At(u)] = val[At(u)]
    <3>1. Chain(u) # Chain(t)
      BY <1>4, <2>1, <2>2, Exclusion DEF ControlInv, Critical, Insert, Thread
    <3>2. At(u) # At(t)
      BY <3>1 DEF Chain, Key
    <3> QED BY <1>0, <1>4, <2>2, <3>2 DEF Insert, TypeOK, Critical, Thread
  <2>3. PutInv'
    BY <1>4, <2>1, <2>2, SameTable DEF Insert, PutInv, TypeOK, Thread
  <2> QED BY <1>4, <2>3, SameTable DEF Insert
<1>5. ASSUME NEW t \in Thread, Link(t) PROVE DataInv'
  <2>1. /\ t \in PutThread /\ pc[t] \in Critical
        /\ At(t) \in Index /\ Key(t) \in KeySpace /\ Chain(t) \in BucketNo
        /\ Holding(Chain(t), Key(t)) = {} /\ head[t] = table[Chain(t)]
    BY <1>5, <1>0 DEF Link, ControlInv, GetInv, Thread, Critical, PutInv
  <2>2. table' = [table EXCEPT ![Chain(t)] = table[Chain(t)] \cup {At(t)}]
    BY <1>5, <2>1 DEF Link
  <2>3. keys[At(t)] = Key(t) /\ Bucket(Key(t)) = Chain(t) /\ keys' = keys
    BY <1>5 DEF Key, Chain, Link
  <2>4. PlaceInv'
    BY <2>1, <2>2, <2>3 DEF PlaceInv, TypeOK
  <2>5. NoDuplicateKeys'
    BY <2>1, <2>2, <2>3 DEF NoDuplicateKeys, TypeOK, Holding
  <2>6. \A i \in BucketNo : \A k : Holding(i, k) \subseteq Holding(i, k)'
    BY <2>1, <2>2, <2>3 DEF Holding, TypeOK
  <2>7. NoLostPut'
    <3> SUFFICES ASSUME NEW u \in PutThread, NEW i \in 0 .. iter[u] - 1
                 PROVE  Holding(Bucket(keys[Pos(u, i)]), keys[Pos(u, i)])' # {}
      BY <1>5, <2>3 DEF NoLostPut, Link
    <3>1. Bucket(keys[Pos(u, i)]) \in BucketNo
      BY CallType, LastType DEF LoopInv, TypeOK, Thread
    <3>2. Holding(Bucket(keys[Pos(u, i)]), keys[Pos(u, i)]) # {}
      BY DEF NoLostPut
    <3> QED BY <2>3, <2>6, <3>1, <3>2
  <2>8. PutInv'
    <3> SUFFICES ASSUME NEW u \in PutThread
                 PROVE  LET found == Holding(Chain(u), Key(u))'
                        IN  /\ pc'[u] = "update" => e'[u] \in found
                            /\ pc'[u] \in {"insert", "link"} => found = {}
                            /\ pc'[u] = "link" => head'[u] = table'[Chain(u)'] /\ val'[At(u)'] = u
                            /\ pc'[u] = "unlock" => found # {}
      BY DEF PutInv
    <3>1. u \in Thread /\ At(u)' = At(u) /\ Key(u)' = Key(u) /\ Chain(u)' = Chain(u)
      BY <1>5, Frame DEF Link, Thread
    <3>2. CASE u = t
      BY <1>5, <2>1, <2>2, <2>3, <3>1, <3>2 DEF Link, TypeOK, Holding
    <3>3. CASE u # t /\ pc[u] \in Critical
      <4>1. Chain(u) # Chain(t) /\ Chain(u) \in BucketNo
        BY <2>1, <3>1, <3>3, <1>0, Exclusion DEF ControlInv
      <4>2. table'[Chain(u)] = table[Chain(u)] /\ Holding(Chain(u), Key(u))' = Holding(Chain(u), Key(u))
        BY <2>2, <2>3, <3>1, <4>1 DEF TypeOK, Holding
      <4> QED BY <1>5, <3>1, <3>3, <4>2 DEF Link, PutInv, TypeOK
    <3>4. CASE u # t /\ pc[u] \notin Critical
      BY <1>5, <3>1, <3>4 DEF Link, TypeOK, Critical
    <3> QED BY <3>2, <3>3, <3>4
  <2> QED BY <2>4, <2>5, <2>7, <2>8
<1>6. ASSUME NEW t \in Thread, Unlock(t) PROVE DataInv'
  <2>1. \A i, k : Holding(i, k)' = Holding(i, k)
    BY <1>6 DEF Unlock, Holding
  <2>2. LoopTest(t, iter[t] + 1) \in {"lock", "done"}
    BY DEF LoopTest
  <2>3. PutInv'
    <3>1. \A u \in Thread \ {t} : At(u)' = At(u) /\ Key(u)' = Key(u) /\ Chain(u)' = Chain(u)
      BY <1>6, Frame DEF Unlock, TypeOK
    <3> QED BY <1>6, <2>1, <2>2, <3>1 DEF Unlock, PutInv, TypeOK, Thread
  <2>4. NoLostPut'
    <3>1. t \in PutThread => Holding(Chain(t), Key(t)) # {}
      BY <1>6 DEF Unlock, PutInv
    <3> SUFFICES ASSUME NEW u \in PutThread, NEW i \in 0 .. iter'[u] - 1
                 PROVE  Holding(Bucket(keys[Pos(u, i)]), keys[Pos(u, i)]) # {}
      BY <1>6, <2>1 DEF NoLostPut, Unlock
    <3>2. i \in 0 .. iter[u] - 1 \/ (u = t /\ i = iter[t])
      BY <1>6 DEF Unlock, TypeOK, Thread
    <3> QED BY <3>1, <3>2 DEF NoLostPut, Chain, Key, At
  <2>5. PlaceInv' /\ NoDuplicateKeys'
    BY <1>6 DEF Unlock, PlaceInv, NoDuplicateKeys
  <2> QED BY <2>3, <2>4, <2>5
<1>7. CASE Create
  <2> DEFINE t == Created(main.k)
  <2>1. t \in Thread /\ LoopTest(t, iter[t]) \in {"lock", "done"}
    BY CreatedType DEF TypeOK, LoopTest
  <2>2. PutInv'
    BY <1>7, <2>1, SameTable DEF Create, PutInv, TypeOK, Thread
  <2> QED BY <1>7, <2>2, SameTable DEF Create
<1>8. CASE Join
  BY <1>8, SameTable DEF Join, PutInv, Thread
<1>9. CASE Destroy
  BY <1>9, SameTable DEF Destroy, PutInv, Thread
<1>10. CASE UNCHANGED vars
  BY <1>10, SameTable DEF vars, PutInv, Thread
<1> QED
  BY <1>1, <1>2, <1>3, <1>4, <1>5, <1>6, <1>7, <1>8, <1>9, <1>10 DEF Next, Step, Ended
-----------------------------------------------------------------------------
(* Safety. *)

\* The inductive invariant holds in every reachable state of mutex2.c.
THEOREM Invariance == Spec => []IInv
<1>1. Init => IInv
  BY TypeInit, ControlInit, DataInit DEF IInv, ControlInv, DataInv
<1>2. IInv /\ [Next]_vars => IInv'
  BY TypeStep, ControlStep, DataStep DEF IInv, ControlInv, DataInv
<1> QED BY <1>1, <1>2, PTL DEF Spec

\* The variables keep their types.
THEOREM TypeCorrect == Spec => []TypeOK
  BY Invariance, PTL DEF IInv

\* For any number of threads, keys and buckets, no chain ever holds two entries
\* with the same key.
THEOREM Uniqueness == Spec => []NoDuplicateKeys
  BY Invariance, PTL DEF IInv

\* For any number of threads, keys and buckets, a put that has returned is not lost.
THEOREM Durability == Spec => []NoLostPut
  BY Invariance, PTL DEF IInv

\* main never destroys a mutex that a thread holds or may still lock.
THEOREM SafeDestroy == Spec => []DestroyedIdle
<1>1. IInv => DestroyedIdle
  <2> SUFFICES ASSUME IInv, main.at \in {"destroy", "end"} PROVE DestroyedIdle
    BY DEF DestroyedIdle
  <2>1. \A t \in Thread : pc[t] = "done"
    BY DEF IInv, MainInv
  <2>2. \A i \in BucketNo : locks[i] = None
    BY <2>1 DEF IInv, TypeOK, LockInv, Critical
  <2> QED BY <2>1, <2>2 DEF DestroyedIdle
<1> QED BY <1>1, Invariance, PTL

\* No thread's step changes the chain that another thread is working on.
THEOREM Stability == Spec => BucketStable
<1>1. IInv /\ [Next]_vars =>
        [\A t \in Thread : pc[t] \in Critical /\ pc'[t] = pc[t] => UNCHANGED table[Chain(t)]]_vars
  <2> SUFFICES ASSUME IInv, [Next]_vars, NEW t \in Thread, pc[t] \in Critical, pc'[t] = pc[t]
               PROVE  table'[Chain(t)'] = table[Chain(t)]
    OBVIOUS
  <2>1. CASE \E u \in Thread : Link(u)
    <3>1. PICK u \in Thread : Link(u)
      BY <2>1
    <3>2. u # t /\ Chain(u) # Chain(t) /\ Chain(t)' = Chain(t)
      BY <3>1, Exclusion, Frame DEF Link, Goto, IInv, TypeOK, Critical
    <3> QED BY <3>1, <3>2 DEF Link, IInv, TypeOK
  <2>2. CASE \E u \in Thread : Unlock(u)
    <3>1. PICK u \in Thread : Unlock(u)
      BY <2>2
    <3>2. u # t
      BY <3>1 DEF Unlock, Goto, LoopTest, IInv, TypeOK
    <3>3. Chain(t)' = Chain(t)
      BY <3>1, <3>2, Frame DEF Unlock, IInv, TypeOK
    <3> QED BY <3>1, <3>3 DEF Unlock
  <2>3. CASE UNCHANGED <<keys, iter, table>>
    BY <2>3, Frame
  <2> QED
    BY <2>1, <2>2, <2>3 DEF Next, Step, Lock, Search, Update, Insert, Create, Join, Destroy, Ended, vars
<1> QED BY <1>1, Invariance, PTL DEF Spec, BucketStable
-----------------------------------------------------------------------------
(* Refinement: the table is an atomic map. *)

\* The value that the map has for a key.
LEMMA MapValue ==
  ASSUME NoDuplicateKeys, NEW k \in KeySpace
  PROVE  /\ \A j \in Holding(Bucket(k), k) : mapBar[k] = val[j]
         /\ Holding(Bucket(k), k) = {} => mapBar[k] = Absent
<1>1. Bucket(k) \in BucketNo
  BY BucketType, KeysAssumption
<1> QED BY <1>1 DEF NoDuplicateKeys, Holding, mapBar

\* The map is the same if the chains are, and the values of the entries in them.
LEMMA SameMap ==
  ASSUME UNCHANGED <<keys, table>>,
         \A i \in BucketNo : \A j \in table[i] : val'[j] = val[j]
  PROVE  mapBar' = mapBar
<1>1. ASSUME NEW k \in KeySpace
      PROVE  LET here == \E j \in table[Bucket(k)] : keys[j] = k
                 it   == CHOOSE j \in table[Bucket(k)] : keys[j] = k
             IN  (IF here THEN val'[it] ELSE Absent) = (IF here THEN val[it] ELSE Absent)
  BY BucketType, KeysAssumption
<1> QED BY <1>1 DEF mapBar

\* A step between two places where no call has just taken effect counts no call.
LEMMA SameCalls ==
  ASSUME TypeOK, NEW t \in Thread, NEW label, Goto(t, label), ~Effective(t), label # "unlock",
         UNCHANGED <<iter, missing>>, \A u \in Thread \ {t} : e'[u] = e[u]
  PROVE  callsBar' = callsBar /\ missingBar' = missingBar
  BY DEF callsBar, missingBar, Effective, Goto, TypeOK, Thread

\* The step of a put that writes the table is the put of the map.
LEMMA PutEffect ==
  ASSUME IInv, IInv', NEW t \in PutThread, pc[t] \in Critical \ {"unlock"}, Goto(t, "unlock"),
         UNCHANGED <<keys, iter, missing, e>>,
         NEW j \in Index, j \in Holding(Chain(t), Key(t))', val'[j] = t,
         \A i \in Index \ {j} : val'[i] = val[i],
         \A i \in BucketNo : table'[i] \cup {j} = table[i] \cup {j}
  PROVE  Abstract!Put(t)
<1>1. /\ Key(t) \in KeySpace /\ Chain(t) \in BucketNo /\ iter[t] < b /\ t \in Thread
      /\ Key(t)' = Key(t) /\ Chain(t)' = Chain(t) /\ keys[j] = Key(t)
  BY CallType, Frame DEF IInv, LoopInv, TypeOK, Critical, Chain, Key, At, Thread, Last, Holding
<1>2. mapBar'[Key(t)] = t
  BY <1>1 DEF Chain, IInv, Holding, NoDuplicateKeys, mapBar
<1>3. ASSUME NEW k \in KeySpace \ {Key(t)} PROVE mapBar'[k] = mapBar[k]
  <2>1. Bucket(k) \in BucketNo
    BY BucketType, KeysAssumption
  <2>2. Holding(Bucket(k), k)' = Holding(Bucket(k), k) /\ j \notin Holding(Bucket(k), k)
    BY <1>1, <1>3, <2>1 DEF Holding
  <2>3. CASE Holding(Bucket(k), k) = {}
    <3>1. mapBar[k] = Absent
      BY <2>3, MapValue DEF IInv
    <3>2. mapBar'[k] = Absent
      BY <2>2, <2>3, <2>1 DEF mapBar, Holding
    <3> QED BY <3>1, <3>2
  <2>4. CASE Holding(Bucket(k), k) # {}
    <3>1. PICK i \in Holding(Bucket(k), k) : TRUE
      BY <2>4
    <3>2. mapBar[k] = val[i] /\ i \in Index \ {j}
      BY <2>1, <2>2, <3>1, MapValue DEF IInv, TypeOK, Holding
    <3>3. mapBar'[k] = val'[i]
      BY <2>1, <2>2, <3>1 DEF IInv, Holding, NoDuplicateKeys, mapBar
    <3> QED BY <3>2, <3>3
  <2> QED BY <2>3, <2>4
<1>4. mapBar' = [mapBar EXCEPT ![Key(t)] = t]
  <2>1. mapBar = [k \in KeySpace |-> mapBar[k]] /\ mapBar' = [k \in KeySpace |-> mapBar'[k]]
    BY DEF mapBar
  <2> QED BY <1>1, <1>2, <1>3, <2>1
<1>5. callsBar' = [callsBar EXCEPT ![t] = @ + 1] /\ callsBar[t] = iter[t]
  BY <1>1 DEF callsBar, Effective, Goto, IInv, TypeOK
<1>6. missingBar' = missingBar
  BY ThreadTypes DEF missingBar, Effective, Goto, IInv, TypeOK, Thread
<1>7. Key(t) = keys[b * t + callsBar[t]]
  BY <1>5 DEF Key, At, Pos
<1> QED BY <1>1, <1>4, <1>5, <1>6, <1>7 DEF Abstract!Put, b

\* The search of a get is the get of the map.
LEMMA GetEffect ==
  ASSUME IInv, NEW t \in GetThread, Search(t)
  PROVE  Abstract!Get(t)
<1>1. /\ t \in Thread \ PutThread /\ iter[t] < NKEYS /\ Key(t) \in KeySpace /\ pc[t] = "search"
      /\ Holding(Chain(t), Key(t)) \subseteq Index /\ pc' = [pc EXCEPT ![t] = "unlock"]
      /\ UNCHANGED <<iter, missing>>
  BY CallType, ThreadTypes
     DEF Search, Goto, IInv, LoopInv, TypeOK, Critical, Chain, Key, At, Thread, Last, Holding
<1>2. UNCHANGED <<keys, mapBar>>
  BY SameMap DEF Search
<1>3. callsBar' = [callsBar EXCEPT ![t] = @ + 1] /\ callsBar[t] = iter[t]
  BY <1>1 DEF callsBar, Effective, IInv, TypeOK
<1>4. e'[t] = None <=> mapBar[Key(t)] = Absent
  <2>1. CASE Holding(Chain(t), Key(t)) = {}
    BY <1>1, <2>1, MapValue DEF Search, Chain, IInv, TypeOK
  <2>2. CASE Holding(Chain(t), Key(t)) # {}
    <3>1. e'[t] \in Holding(Chain(t), Key(t))
      BY <1>1, <2>2 DEF Search, IInv, TypeOK
    <3>2. mapBar[Key(t)] \in PutThread \cup {None}
      BY <1>1, <3>1, MapValue DEF Chain, IInv, TypeOK
    <3>3. e'[t] # None /\ mapBar[Key(t)] # Absent
      BY <1>1, <3>1, <3>2 DEF Index, Absent, PutThread
    <3> QED BY <3>3
  <2> QED BY <2>1, <2>2
<1>5. missingBar' = [missingBar EXCEPT ![t] = IF mapBar[Key(t)] = Absent THEN @ + 1 ELSE @]
  BY <1>1, <1>4 DEF missingBar, Effective, IInv, TypeOK, Thread, Search
<1>6. Key(t) = keys[callsBar[t]]
  BY <1>1, <1>3 DEF Key, At, Pos
<1> QED BY <1>1, <1>2, <1>3, <1>5, <1>6 DEF Abstract!Get

\* mutex2.c implements the atomic map: puts and gets that run together take
\* effect one after another, whatever the number of threads, keys and buckets.
THEOREM Refinement == Spec => Linearizable
<1> DEFINE absVars == <<keys, mapBar, callsBar, missingBar>>
<1>1. Init => Abstract!Init
  <2> SUFFICES ASSUME Init PROVE Abstract!Init
    OBVIOUS
  <2>1. mapBar = [k \in KeySpace |-> Absent]
    BY BucketType, KeysAssumption DEF Init, mapBar
  <2>2. callsBar = [t \in Thread |-> 0]
    BY DEF Init, callsBar, Effective
  <2>3. missingBar = [t \in GetThread |-> 0]
    BY DEF Init, missingBar, Effective, Thread
  <2> QED
    BY <2>1, <2>2, <2>3 DEF Init, Abstract!Init, Index, Thread,
       Abstract!PutThread, Abstract!GetThread, PutThread, GetThread
<1>2. IInv /\ IInv' /\ [Next]_vars => [Abstract!Next]_absVars
  <2> SUFFICES ASSUME IInv, IInv', [Next]_vars PROVE Abstract!Next \/ UNCHANGED absVars
    OBVIOUS
  <2>1. ASSUME NEW t \in Thread, Lock(t) PROVE UNCHANGED absVars
    BY <2>1, SameMap, SameCalls DEF Lock, Effective, Goto, IInv
  <2>2. ASSUME NEW t \in Thread, Search(t) PROVE Abstract!Next \/ UNCHANGED absVars
    <3>1. CASE t \in GetThread
      BY <2>2, <3>1, GetEffect DEF Abstract!Next, Abstract!GetThread, GetThread
    <3>2. CASE t \notin GetThread
      <4>1. \E label \in {"insert", "update"} : Goto(t, label)
        BY <2>2, <3>2 DEF Search
      <4>2. \A u \in Thread \ {t} : e'[u] = e[u]
        BY <2>2 DEF Search, IInv, TypeOK
      <4> QED BY <2>2, <4>1, <4>2, SameMap, SameCalls DEF Search, Effective, IInv
    <3> QED BY <3>1, <3>2
  <2>3. ASSUME NEW t \in Thread, Update(t) PROVE Abstract!Next
    <3>1. /\ t \in PutThread /\ e[t] \in Holding(Chain(t), Key(t)) /\ pc[t] \in Critical \ {"unlock"}
          /\ Chain(t) \in BucketNo
      BY <2>3, CallType DEF Update, IInv, PutInv, GetInv, Thread, Critical, LoopInv, TypeOK, Chain, Key, At
    <3>2. Holding(Chain(t), Key(t))' = Holding(Chain(t), Key(t)) /\ e[t] \in Index
      BY <2>3, <3>1, Frame DEF Update, Holding, IInv, TypeOK, Thread
    <3>3. Abstract!Put(t)
      BY <2>3, <3>1, <3>2, PutEffect DEF Update, IInv, TypeOK
    <3> QED BY <3>1, <3>3 DEF Abstract!Next, Abstract!PutThread, PutThread
  <2>4. ASSUME NEW t \in Thread, Insert(t) PROVE UNCHANGED absVars
    <3>1. t \in PutThread /\ Holding(Chain(t), Key(t)) = {}
      BY <2>4 DEF Insert, IInv, PutInv, GetInv, Thread
    <3>2. \A i \in BucketNo : \A j \in table[i] : j # At(t)
      BY <3>1 DEF Holding, Chain, Key, IInv, PlaceInv
    <3>3. UNCHANGED mapBar
      BY <2>4, <3>2, SameMap DEF Insert, IInv, TypeOK
    <3> QED BY <2>4, <3>3, SameCalls DEF Insert, Effective, Goto, IInv
  <2>5. ASSUME NEW t \in Thread, Link(t) PROVE Abstract!Next
    <3>1. /\ t \in PutThread /\ head[t] = table[Chain(t)] /\ val[At(t)] = t
          /\ pc[t] \in Critical \ {"unlock"} /\ Chain(t) \in BucketNo /\ At(t) \in Index
      BY <2>5, CallType DEF Link, IInv, PutInv, GetInv, Thread, Critical, LoopInv, TypeOK, Chain, Key, At
    <3>2. table' = [table EXCEPT ![Chain(t)] = table[Chain(t)] \cup {At(t)}]
      BY <2>5, <3>1 DEF Link
    <3>3. At(t) \in Holding(Chain(t), Key(t))'
      BY <2>5, <3>1, <3>2, Frame DEF Link, Holding, Key, IInv, TypeOK, Thread
    <3>4. \A i \in BucketNo : table'[i] \cup {At(t)} = table[i] \cup {At(t)}
      BY <3>1, <3>2 DEF IInv, TypeOK
    <3>5. Abstract!Put(t)
      BY <2>5, <3>1, <3>3, <3>4, PutEffect DEF Link, IInv, TypeOK
    <3> QED BY <3>1, <3>5 DEF Abstract!Next, Abstract!PutThread, PutThread
  <2>6. ASSUME NEW t \in Thread, Unlock(t) PROVE UNCHANGED absVars
    <3>1. LoopTest(t, iter[t] + 1) # "unlock"
      BY DEF LoopTest
    <3>2. callsBar' = callsBar /\ missingBar' = missingBar
      BY <2>6, <3>1, ThreadTypes DEF Unlock, Goto, callsBar, missingBar, Effective, IInv, TypeOK, Thread
    <3> QED BY <2>6, <3>2, SameMap DEF Unlock
  <2>7. CASE Create
    <3>1. Created(main.k) \in Thread /\ pc[Created(main.k)] = "new"
      BY <2>7, CreatedType DEF Create, IInv, TypeOK, MainInv
    <3>2. LoopTest(Created(main.k), iter[Created(main.k)]) # "unlock"
      BY DEF LoopTest
    <3> QED BY <2>7, <3>1, <3>2, SameMap, SameCalls DEF Create, Effective, IInv
  <2>8. CASE UNCHANGED <<keys, table, val, pc, iter, e, missing>>
    BY <2>8, SameMap DEF callsBar, missingBar, Effective
  <2> QED
    BY <2>1, <2>2, <2>3, <2>4, <2>5, <2>6, <2>7, <2>8 DEF Next, Step, Join, Destroy, Ended, vars
<1> QED
  BY <1>1, <1>2, Invariance, PTL DEF Spec, Linearizable, Abstract!Spec
=============================================================================
