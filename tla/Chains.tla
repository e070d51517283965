-------------------------------- MODULE Chains --------------------------------
(***************************************************************************)
(* What the programs w5labs/mutex1.c to mutex10.c share: keys[], the       *)
(* chained table, and a put that searches its chain and then updates the   *)
(* entry it found or links a new one.  Each program adds its locks.        *)
(*                                                                         *)
(* As in HashTable an entry is named by the position j of keys[] whose put *)
(* allocated it, and a chain is the set of the entries in it.              *)
(***************************************************************************)
EXTENDS Integers, FiniteSets

CONSTANTS NBUCKET, NKEYS,
          KeySpace,     \* the values random() may return
          ThreadNums    \* the values of argv[1] to consider

ASSUME TableAssumption ==
  /\ NBUCKET \in Nat \ {0} /\ NKEYS \in Nat
  /\ KeySpace \subseteq Nat /\ ThreadNums \subseteq Nat \ {0}

VARIABLES nthread, keys, table,
          val,         \* e->value of the entries
          pc, iter,    \* of each thread: where it is, and its loop counter
          seen         \* of each thread: the chain it searched, or got as insert's n
tableVars == <<nthread, keys, table, val, pc, iter, seen>>

None     == -1
Index    == 0 .. NKEYS - 1
BucketNo == 0 .. NBUCKET - 1
Thread   == 0 .. nthread - 1
AnyThread == UNION {0 .. n - 1 : n \in ThreadNums}

b           == NKEYS \div nthread
Bucket(key) == key % NBUCKET
At(t)       == b * t + iter[t]
Key(t)      == keys[At(t)]
Chain(t)    == Bucket(Key(t))
Holding(chain, key) == {j \in chain : keys[j] = key}

\* put_thread: the first label of a put, or the end of the loop.
PutLoop(t, i) == IF i < b THEN "lock" ELSE "done"

TableInit ==
  /\ nthread \in ThreadNums
  /\ keys \in [Index -> KeySpace]
  /\ table = [i \in BucketNo |-> {}]
  /\ val = [j \in Index |-> None]
  /\ iter = [t \in Thread |-> 0]
  /\ pc = [t \in Thread |-> PutLoop(t, 0)]
  /\ seen = [t \in Thread |-> {}]

Goto(t, from, to) == pc[t] = from /\ pc' = [pc EXCEPT ![t] = to]

\* The walk over the chain.
Search(t) ==
  /\ Goto(t, "search", "store")
  /\ seen' = [seen EXCEPT ![t] = table[Chain(t)]]
  /\ UNCHANGED <<nthread, keys, table, val, iter>>

\* Update the entry that was found, or insert a new one in front of the chain as it
\* was read: an entry that another thread linked in between would be lost.
Store(t, after) ==
  /\ Goto(t, "store", after)
  /\ LET found == Holding(seen[t], Key(t))
     IN  IF found # {}
         THEN val' = [val EXCEPT ![CHOOSE j \in found : TRUE] = t] /\ UNCHANGED table
         ELSE /\ val' = [val EXCEPT ![At(t)] = t]
              /\ table' = [table EXCEPT ![Chain(t)] = seen[t] \cup {At(t)}]
  /\ UNCHANGED <<nthread, keys, iter, seen>>

\* Mutant: the loop of put_thread does not count.
PutAgain(t) ==
  /\ Goto(t, "unlock", PutLoop(t, iter[t]))
  /\ UNCHANGED <<nthread, keys, table, val, iter, seen>>

\* The put returns.
Return(t) ==
  /\ Goto(t, "unlock", PutLoop(t, iter[t] + 1))
  /\ iter' = [iter EXCEPT ![t] = @ + 1]
  /\ UNCHANGED <<nthread, keys, table, val, seen>>
-----------------------------------------------------------------------------
TableTypes(labels) ==
  /\ nthread \in ThreadNums /\ keys \in [Index -> KeySpace]
  /\ table \in [BucketNo -> SUBSET Index] /\ val \in [Index -> Thread \cup {None}]
  /\ pc \in [Thread -> labels] /\ iter \in [Thread -> 0 .. NKEYS]
  /\ seen \in [Thread -> SUBSET Index]

\* No chain holds two entries with the same key.
NoDuplicateKeys ==
  \A i \in BucketNo : \A j1, j2 \in table[i] : keys[j1] = keys[j2] => j1 = j2

\* The positions of keys[] whose puts have returned, and whether each key is there.
Put(j)    == \E t \in Thread : \E i \in 0 .. b - 1 : j = b * t + i /\ i < iter[t]
NoLostPut == \A j \in Index : Put(j) => Holding(table[Bucket(keys[j])], keys[j]) # {}

\* What a walk saw is still the chain when the put stores: no search is stale.
FreshSearch == \A t \in Thread : pc[t] = "store" => seen[t] = table[Chain(t)]
=============================================================================
