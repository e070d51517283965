------------------------------ MODULE LockOrder ------------------------------
(***************************************************************************)
(* w5labs/mutex4.c: swap threads that lock the buckets of two keys, the    *)
(* lower bucket first, so that they cannot wait for each other in a cycle. *)
(* (What they would do to the two buckets is left open by the code.)       *)
(***************************************************************************)
EXTENDS Integers

CONSTANTS NBUCKET, NKEYS,
          NSWAP,       \* swap threads; 2 in the code
          KeySpace     \* the values random() may return

ASSUME SwapAssumption ==
  /\ NBUCKET \in Nat \ {0} /\ NKEYS \in Nat /\ NSWAP \in Nat \ {0} /\ KeySpace \subseteq Nat

VARIABLES keys, locks,
          pc, i,     \* of each swap thread: where it is, and its loop counter
          main       \* "join" or "end"
vars == <<keys, locks, pc, i, main>>

None     == -1
Index    == 0 .. NKEYS - 1
BucketNo == 0 .. NBUCKET - 1
Thread   == 0 .. NSWAP - 1

Bucket(key) == key % NBUCKET
b1(t) == Bucket(keys[i[t]])
b2(t) == Bucket(keys[i[t] + 1])
\* Mutant: the bucket of the first key is always locked first.
AsGiven(t) == TRUE
\* The branches of swap_values: which bucket is locked first, and which second.
InOrder(t) == b1(t) <= b2(t)
Lower(t)   == IF InOrder(t) THEN b1(t) ELSE b2(t)
Higher(t)  == IF InOrder(t) THEN b2(t) ELSE b1(t)

\* The loop of swap_thread.
SwapLoop(n) == IF n < NKEYS - 1 THEN "lower" ELSE "done"

Init ==
  /\ keys \in [Index -> KeySpace]
  /\ locks = [bucket \in BucketNo |-> None]
  /\ pc = [t \in Thread |-> SwapLoop(0)]
  /\ i = [t \in Thread |-> 0]
  /\ main = "join"

Acquire(t, bucket) == locks[bucket] = None /\ locks' = [locks EXCEPT ![bucket] = t]
Release(bucket)    == locks' = [locks EXCEPT ![bucket] = None]
Goto(t, from, to)  == pc[t] = from /\ pc' = [pc EXCEPT ![t] = to]

\* Mutant: the second lock is forgotten.
LockOne(t) ==
  /\ Goto(t, "lower", IF b1(t) = b2(t) THEN "unlock" ELSE "swap")
  /\ Acquire(t, Lower(t))
  /\ UNCHANGED <<keys, i, main>>

\* The first lock; it is the only one when both keys are in the same bucket.
LockLower(t) ==
  /\ Goto(t, "lower", IF b1(t) = b2(t) THEN "unlock" ELSE "higher")
  /\ Acquire(t, Lower(t))
  /\ UNCHANGED <<keys, i, main>>

LockHigher(t) ==
  /\ Goto(t, "higher", "swap") /\ Acquire(t, Higher(t)) /\ UNCHANGED <<keys, i, main>>

\* The locks are released in the reverse order.
UnlockHigher(t) ==
  /\ Goto(t, "swap", "unlock") /\ Release(Higher(t)) /\ UNCHANGED <<keys, i, main>>

\* Mutant: the loop does not count.
SwapAgain(t) ==
  /\ Goto(t, "unlock", SwapLoop(i[t])) /\ Release(Lower(t)) /\ UNCHANGED <<keys, i, main>>

UnlockLower(t) ==
  /\ Goto(t, "unlock", SwapLoop(i[t] + 1)) /\ Release(Lower(t))
  /\ i' = [i EXCEPT ![t] = @ + 1]
  /\ UNCHANGED <<keys, main>>

swap_values(t) == LockLower(t) \/ LockHigher(t) \/ UnlockHigher(t) \/ UnlockLower(t)

\* main has joined the threads and destroys the locks.
Join  == /\ main = "join" /\ \A t \in Thread : pc[t] = "done"
         /\ main' = "end" /\ UNCHANGED <<keys, locks, pc, i>>
Ended == main = "end" /\ UNCHANGED vars

Next == Join \/ Ended \/ \E t \in Thread : swap_values(t)
Spec == Init /\ [][Next]_vars
\* The kernel schedules each thread again and again.
FairSpec == Spec /\ WF_vars(Join) /\ \A t \in Thread : WF_vars(swap_values(t))
-----------------------------------------------------------------------------
Label == {"lower", "higher", "swap", "unlock", "done"}
TypeOK ==
  /\ keys \in [Index -> KeySpace] /\ locks \in [BucketNo -> Thread \cup {None}]
  /\ pc \in [Thread -> Label] /\ i \in [Thread -> 0 .. NKEYS] /\ main \in {"join", "end"}

\* A thread manipulates two buckets only when it owns both.
BothLocked == \A t \in Thread : pc[t] = "swap" => locks[b1(t)] = t /\ locks[b2(t)] = t

\* The bucket that a thread waits for, as a set of at most one.
WaitsFor(t) == IF pc[t] = "lower" THEN {Lower(t)} ELSE IF pc[t] = "higher" THEN {Higher(t)} ELSE {}

\* A thread that waits owns only lower buckets than the one it waits for.
WaitsUpwards ==
  \A t \in Thread : \A wanted \in WaitsFor(t) : \A owned \in BucketNo :
    locks[owned] = t => owned < wanted

\* No two threads wait for each other.
NoDeadlyEmbrace ==
  \A t, u \in Thread : \A wt \in WaitsFor(t), wu \in WaitsFor(u) :
    ~(locks[wt] = u /\ locks[wu] = t)

\* The locks are idle when main destroys them.
DestroyedIdle == main = "end" => \A bucket \in BucketNo : locks[bucket] = None

\* "Swap threads completed without deadlocking!" (line 97)
Termination == <>(main = "end")
-----------------------------------------------------------------------------
(* The inductive invariant. *)

LoopInv == \A t \in Thread :
  /\ i[t] < NKEYS - 1 \/ pc[t] = "done"
  /\ pc[t] \in {"higher", "swap"} => b1(t) # b2(t)
\* The buckets that a thread owns at each place.
OwnInv == \A t \in Thread, bucket \in BucketNo :
  locks[bucket] = t <=>
    \/ pc[t] \in {"higher", "swap", "unlock"} /\ bucket = Lower(t)
    \/ pc[t] = "swap" /\ bucket = Higher(t)
MainInv == main = "end" => \A t \in Thread : pc[t] = "done"
IInv == TypeOK /\ LoopInv /\ OwnInv /\ MainInv
=============================================================================
