------------------------------- MODULE CondVar -------------------------------
(***************************************************************************)
(* w5labs/mutex8.c: get_wait() sleeps on the condition variable of the     *)
(* bucket until put() has stored its key and broadcasts.  main has one     *)
(* getter and one putter of keys[0]; here there are some of each.          *)
(***************************************************************************)
EXTENDS Integers

CONSTANTS NBUCKET, KeySpace, Getter, Putter,
          MaxSpurious    \* bound: at most so many wakeups that nobody sent

CondAssumption ==
  /\ NBUCKET \in Nat \ {0} /\ KeySpace \subseteq Nat
  /\ Getter \cap Putter = {} /\ "nobody" \notin Getter \cup Putter
  /\ MaxSpurious \in Nat

VARIABLES key,      \* of each thread: its key
          table,    \* the keys that the buckets hold
          locks, pc, main,
          spurious  \* the wakeups that nobody sent, so far
vars == <<key, table, locks, pc, main, spurious>>

Thread   == Getter \cup Putter
BucketNo == 0 .. NBUCKET - 1
Bucket(k) == k % NBUCKET
Mine(t)  == Bucket(key[t])
Nobody   == "nobody"

\* As in main, somebody puts each key that a getter waits for.
Init ==
  /\ key \in [Thread -> KeySpace]
  /\ \A g \in Getter : \E p \in Putter : key[g] = key[p]
  /\ table = {}
  /\ locks = [i \in BucketNo |-> Nobody]
  /\ pc = [t \in Thread |-> "lock"]
  /\ main = "join" /\ spurious = 0

Goto(t, from, to) == pc[t] = from /\ pc' = [pc EXCEPT ![t] = to]

\* Mutant: put does not wait for the lock.
LockGets(t) ==
  /\ Goto(t, "lock", IF t \in Getter THEN "walk" ELSE "store")
  /\ t \in Getter => locks[Mine(t)] = Nobody
  /\ locks' = [locks EXCEPT ![Mine(t)] = t]
  /\ UNCHANGED <<key, table, main, spurious>>

Lock(t) ==
  /\ Goto(t, "lock", IF t \in Getter THEN "walk" ELSE "store")
  /\ locks[Mine(t)] = Nobody /\ locks' = [locks EXCEPT ![Mine(t)] = t]
  /\ UNCHANGED <<key, table, main, spurious>>

Store(t) ==
  /\ Goto(t, "store", "broadcast")
  /\ table' = table \cup {key[t]}
  /\ UNCHANGED <<key, locks, main, spurious>>

Asleep(i) == {g \in Getter : pc[g] = "asleep" /\ Mine(g) = i}

\* Every thread that sleeps on the bucket will lock it again.
Broadcast(t) ==
  /\ pc[t] = "broadcast"
  /\ pc' = [u \in Thread |-> IF u = t THEN "unlock" ELSE IF u \in Asleep(Mine(t)) THEN "lock" ELSE pc[u]]
  /\ UNCHANGED <<key, table, locks, main, spurious>>

\* Search the chain: the loop ends, or the getter is about to wait.
Walk(t) ==
  /\ Goto(t, "walk", IF key[t] \in table THEN "unlock" ELSE "wait")
  /\ UNCHANGED <<key, table, locks, main, spurious>>

\* pthread_cond_wait unlocks and sleeps in one step.
CondWait(t) ==
  /\ Goto(t, "wait", "asleep")
  /\ locks' = [locks EXCEPT ![Mine(t)] = Nobody]
  /\ UNCHANGED <<key, table, main, spurious>>

SpuriousWakeup(t) ==
  /\ spurious < MaxSpurious /\ spurious' = spurious + 1
  /\ Goto(t, "asleep", "lock")
  /\ UNCHANGED <<key, table, locks, main>>

Unlock(t) ==
  /\ Goto(t, "unlock", "done")
  /\ locks' = [locks EXCEPT ![Mine(t)] = Nobody]
  /\ UNCHANGED <<key, table, main, spurious>>

put(t)      == Lock(t) \/ Store(t) \/ Broadcast(t) \/ Unlock(t)
get_wait(t) == Lock(t) \/ Walk(t) \/ CondWait(t) \/ Unlock(t)

Join  == /\ main = "join" /\ \A t \in Thread : pc[t] = "done"
         /\ main' = "end" /\ UNCHANGED <<key, table, locks, pc, spurious>>
Ended == main = "end" /\ UNCHANGED vars

Next == \/ Join \/ Ended
        \/ \E t \in Putter : put(t)
        \/ \E t \in Getter : get_wait(t) \/ SpuriousWakeup(t)
Spec == Init /\ [][Next]_vars
\* The kernel schedules each thread again and again; nothing makes a sleeper wake
\* but a broadcast.
FairSpec == /\ Spec /\ WF_vars(Join)
            /\ \A t \in Putter : WF_vars(put(t))
            /\ \A t \in Getter : WF_vars(get_wait(t))
-----------------------------------------------------------------------------
TypeOK ==
  /\ key \in [Thread -> KeySpace] /\ table \subseteq KeySpace
  /\ locks \in [BucketNo -> Thread \cup {Nobody}]
  /\ pc \in [Thread -> {"lock", "store", "broadcast", "unlock", "walk", "wait", "asleep", "done"}]
  /\ main \in {"join", "end"} /\ spurious \in 0 .. MaxSpurious

\* Between lock and unlock a thread holds the lock of its bucket.
Critical == {"walk", "wait", "store", "broadcast", "unlock"}
OwnInv   == \A t \in Thread : pc[t] \in Critical => locks[Mine(t)] = t

\* What a getter has not found is still missing when it goes to sleep.
NothingMissed == \A g \in Getter : pc[g] = "wait" => key[g] \notin table

\* A thread never sleeps through the put it waits for: while its key is in the
\* table, the put that stored a key of its bucket has still to broadcast.
NoLostWakeup ==
  \A g \in Getter : pc[g] = "asleep" /\ key[g] \in table =>
    \E p \in Putter : pc[p] = "broadcast" /\ Mine(p) = Mine(g)

\* get_wait returns only with its key in the table, however often it was woken.
ReturnsFound == \A g \in Getter : pc[g] \in {"unlock", "done"} => key[g] \in table

\* What the lock and the condition of a bucket are for; it is inductive.
WaitInv == TypeOK /\ OwnInv /\ NothingMissed /\ NoLostWakeup /\ ReturnsFound

\* Every get_wait returns at last, since each key is put.
GettersReturn == \A g \in Getter : <>(pc[g] = "done")
=============================================================================
