----------------------------- MODULE HandOverHand -----------------------------
(***************************************************************************)
(* w5labs/mutex7.c: a lock in every node of a chain.  A put holds its node *)
(* until it has locked the next one, so several puts walk one chain at the *)
(* same time, each behind the other.  New nodes go to the end of the chain.*)
(***************************************************************************)
EXTENDS Integers, Sequences

CONSTANTS NBUCKET, KeySpace, Thread,
          MaxPuts    \* bound: the calls of put()

CrabAssumption ==
  NBUCKET \in Nat \ {0} /\ KeySpace \subseteq Nat /\ KeySpace # {} /\ MaxPuts \in Nat
  /\ "nobody" \notin Thread

VARIABLES table,           \* of each bucket: its nodes [key, value, node_lock]
          bucket_locks,
          key, value,      \* the arguments of each thread's call
          curr,            \* its node, as a position in the chain
          pc,
          calls,           \* of put(), so far
          latest           \* history: of each key, the value of the last put that locked its bucket
vars == <<table, bucket_locks, key, value, curr, pc, calls, latest>>

BucketNo  == 0 .. NBUCKET - 1
Bucket(k) == k % NBUCKET
Mine(t)   == Bucket(key[t])
Nodes(t)  == table[Mine(t)]
Nobody    == "nobody"
NoValue   == 0
Value     == 0 .. MaxPuts

NoKey     == CHOOSE k \in KeySpace : TRUE

Init ==
  /\ table = [i \in BucketNo |-> <<>>]
  /\ bucket_locks = [i \in BucketNo |-> Nobody]
  /\ key = [t \in Thread |-> NoKey]
  /\ value = [t \in Thread |-> NoValue]
  /\ curr = [t \in Thread |-> 0]
  /\ pc = [t \in Thread |-> "idle"] /\ calls = 0
  /\ latest = [k \in KeySpace |-> NoValue]

Goto(t, from, to) == pc[t] = from /\ pc' = [pc EXCEPT ![t] = to]
\* The chain of t's bucket becomes chain.
SetNodes(t, chain) == table' = [table EXCEPT ![Mine(t)] = chain]
SetLock(t, n, who) == SetNodes(t, [Nodes(t) EXCEPT ![n] = [@ EXCEPT !.node_lock = who]])
\* The call returns, and its arguments are gone.
Return(t) == /\ key' = [key EXCEPT ![t] = NoKey] /\ value' = [value EXCEPT ![t] = NoValue]
             /\ curr' = [curr EXCEPT ![t] = 0]
NewNode(t) == [key |-> key[t], value |-> value[t], node_lock |-> Nobody]

\* A thread calls put(k, v), with a value that no other call has.
Call(t) ==
  /\ Goto(t, "idle", "bucket") /\ calls < MaxPuts
  /\ calls' = calls + 1
  /\ \E k \in KeySpace : key' = [key EXCEPT ![t] = k]
  /\ value' = [value EXCEPT ![t] = calls']
  /\ UNCHANGED <<table, bucket_locks, curr, latest>>

LockBucket(t) ==
  /\ Goto(t, "bucket", "head") /\ bucket_locks[Mine(t)] = Nobody
  /\ bucket_locks' = [bucket_locks EXCEPT ![Mine(t)] = t]
  /\ latest' = [latest EXCEPT ![key[t]] = value[t]]
  /\ UNCHANGED <<table, key, value, curr, calls>>

\* Case 1: the bucket is empty, and the new node becomes its head.
FirstNode(t) ==
  /\ Nodes(t) = <<>> /\ Goto(t, "head", "leave")
  /\ SetNodes(t, <<NewNode(t)>>)
  /\ UNCHANGED <<bucket_locks, key, value, curr, calls, latest>>

\* Mutant: the first node is taken while another put holds it.
EnterAnyway(t) ==
  /\ Nodes(t) # <<>> /\ Goto(t, "head", "enter") /\ SetLock(t, 1, t)
  /\ curr' = [curr EXCEPT ![t] = 1]
  /\ UNCHANGED <<bucket_locks, key, value, calls, latest>>

\* Case 2: lock the first node, then release the bucket.
LockHead(t) ==
  /\ Nodes(t) # <<>> /\ Nodes(t)[1].node_lock = Nobody
  /\ Goto(t, "head", "enter") /\ SetLock(t, 1, t)
  /\ curr' = [curr EXCEPT ![t] = 1]
  /\ UNCHANGED <<bucket_locks, key, value, calls, latest>>

UnlockBucket(t) ==
  /\ \/ Goto(t, "enter", "visit") /\ UNCHANGED <<key, value, curr>>
     \/ Goto(t, "leave", "idle") /\ Return(t)
  /\ bucket_locks' = [bucket_locks EXCEPT ![Mine(t)] = Nobody]
  /\ UNCHANGED <<table, calls, latest>>

Found(t) == Nodes(t)[curr[t]].key = key[t]
AtEnd(t) == curr[t] = Len(Nodes(t))

\* Look at the node: its key, and whether there is a next one.
Visit(t) ==
  /\ Goto(t, "visit", IF Found(t) THEN "update" ELSE IF AtEnd(t) THEN "append" ELSE "next")
  /\ UNCHANGED <<table, bucket_locks, key, value, curr, calls, latest>>

Update(t) ==
  /\ Goto(t, "update", "unlock")
  /\ SetNodes(t, [Nodes(t) EXCEPT ![curr[t]] = [@ EXCEPT !.value = value[t]]])
  /\ UNCHANGED <<bucket_locks, key, value, curr, calls, latest>>

\* curr->next = e: whatever came after curr meanwhile would be cut off.
AppendNode(t) ==
  /\ Goto(t, "append", "unlock")
  /\ SetNodes(t, Append(SubSeq(Nodes(t), 1, curr[t]), NewNode(t)))
  /\ UNCHANGED <<bucket_locks, key, value, curr, calls, latest>>

\* Mutant: the next node is taken while another put holds it.
StepOn(t) ==
  /\ Goto(t, "next", "step") /\ SetLock(t, curr[t] + 1, t)
  /\ UNCHANGED <<bucket_locks, key, value, curr, calls, latest>>

LockNext(t) ==
  /\ Goto(t, "next", "step") /\ Nodes(t)[curr[t] + 1].node_lock = Nobody
  /\ SetLock(t, curr[t] + 1, t)
  /\ UNCHANGED <<bucket_locks, key, value, curr, calls, latest>>

UnlockCurr(t) ==
  /\ \/ Goto(t, "step", "visit") /\ curr' = [curr EXCEPT ![t] = @ + 1] /\ UNCHANGED <<key, value>>
     \/ Goto(t, "unlock", "idle") /\ Return(t)
  /\ SetLock(t, curr[t], Nobody)
  /\ UNCHANGED <<bucket_locks, calls, latest>>

put(t) == \/ LockBucket(t) \/ FirstNode(t) \/ LockHead(t) \/ UnlockBucket(t)
          \/ Visit(t) \/ Update(t) \/ AppendNode(t) \/ LockNext(t) \/ UnlockCurr(t)

Ended == calls = MaxPuts /\ (\A t \in Thread : pc[t] = "idle") /\ UNCHANGED vars
Next  == Ended \/ \E t \in Thread : Call(t) \/ put(t)
Spec  == Init /\ [][Next]_vars
\* The kernel schedules each thread again and again; a thread need not call put.
FairSpec == Spec /\ \A t \in Thread : WF_vars(put(t))
-----------------------------------------------------------------------------
Node == [key : KeySpace, value : Value, node_lock : Thread \cup {Nobody}]
TypeOK ==
  /\ table \in [BucketNo -> Seq(Node)]
  /\ bucket_locks \in [BucketNo -> Thread \cup {Nobody}]
  /\ key \in [Thread -> KeySpace] /\ value \in [Thread -> Value]
  /\ curr \in [Thread -> Nat] /\ calls \in 0 .. MaxPuts
  /\ pc \in [Thread -> {"idle", "bucket", "head", "enter", "leave", "visit",
                      "update", "append", "next", "step", "unlock"}]
  /\ latest \in [KeySpace -> Value]

\* No chain holds a key twice, although two puts of a new key walk the chain
\* one behind the other, and the types of the variables are right.
NoDuplicateKeys ==
  /\ TypeOK
  /\ \A i \in BucketNo : \A m, n \in DOMAIN table[i] : table[i][m].key = table[i][n].key => m = n

\* The puts that are in a bucket, from its lock to its last node.
Inside(k) == {t \in Thread : pc[t] \notin {"idle", "bucket"} /\ key[t] = k}

\* The lock order of the bucket is the order of the puts: when no put of a key is
\* under way, its node holds the value of the last one that locked the bucket.
LastPutWins ==
  \A k \in KeySpace : Inside(k) = {} /\ latest[k] # NoValue =>
    \E n \in DOMAIN table[Bucket(k)] :
      table[Bucket(k)][n].key = k /\ table[Bucket(k)][n].value = latest[k]

\* No key is in a chain twice, and each has the value of the put that locked the bucket last.
ChainKept == NoDuplicateKeys /\ LastPutWins

\* What each put holds and knows at its place: the lock of the bucket up to the first
\* node, the lock of its node and on the way that of the next one, and that its key is
\* at none of the nodes it has passed.
OnNode   == {"enter", "visit", "update", "append", "next", "step", "unlock"}
Own(t) ==
  /\ pc[t] \in {"head", "enter", "leave"} => bucket_locks[Mine(t)] = t
  /\ pc[t] \in OnNode => curr[t] \in DOMAIN Nodes(t) /\ Nodes(t)[curr[t]].node_lock = t
  /\ pc[t] \in {"next", "step"} => curr[t] + 1 \in DOMAIN Nodes(t)
  /\ pc[t] = "step" => Nodes(t)[curr[t] + 1].node_lock = t
Passed(t) == {n \in DOMAIN Nodes(t) : n < curr[t] \/ (n = curr[t] /\ pc[t] \in {"append", "next", "step"})}
Seen(t) ==
  /\ pc[t] \in OnNode \ {"unlock"} => \A n \in Passed(t) : Nodes(t)[n].key # key[t]
  /\ pc[t] = "update" => Found(t)
  /\ pc[t] = "append" => AtEnd(t)

\* The puts that have not stored yet, and how far they are.  The last one that locked the
\* bucket for a key is behind all others of that key; once it has stored there are none.
ToStore(k) == {t \in Thread : pc[t] \in ({"head"} \cup OnNode) \ {"unlock"} /\ key[t] = k}
Place(t)   == IF pc[t] = "head" THEN 0 ELSE curr[t]
LastBehind(k) ==
  \E w \in ToStore(k) : value[w] = latest[k] /\ \A u \in ToStore(k) \ {w} : Place(w) < Place(u)
Stored(k) ==
  /\ ToStore(k) = {}
  /\ \E n \in DOMAIN table[Bucket(k)] :
       table[Bucket(k)][n].key = k /\ table[Bucket(k)][n].value = latest[k]
OrderInv == \A k \in KeySpace : latest[k] # NoValue => LastBehind(k) \/ Stored(k)

\* The invariant that explains all this: the order of the puts that have not stored yet,
\* with what each of them holds and has seen.
IInv == NoDuplicateKeys /\ (\A t \in Thread : Own(t) /\ Seen(t)) /\ OrderInv

\* Of each step: nobody overtakes in a chain, of two walkers the one that is ahead stays ahead.
Walking(t) == pc[t] \in {"visit", "next", "step"}
NobodyPasses ==
  \A t, u \in Thread :
    Walking(t) /\ Walking(u) /\ Mine(t) = Mine(u) /\ curr[t] < curr[u] =>
      curr'[t] < curr'[u] \/ ~Walking(u)'
NeverPassed == [][NobodyPasses]_vars

\* Every call returns: the walkers of a chain do not wait for each other in a cycle.
PutsReturn == \A t \in Thread : pc[t] # "idle" ~> pc[t] = "idle"
=============================================================================
