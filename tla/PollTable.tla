------------------------------ MODULE PollTable ------------------------------
(***************************************************************************)
(* w5labs/mutex6.c: put() polls the lock of its bucket with trylock and    *)
(* gives up the CPU when it is busy.                                       *)
(***************************************************************************)
EXTENDS Chains

VARIABLES locks,    \* the owner of each bucket's lock, or None
          phase     \* of main
vars == <<tableVars, locks, phase>>

Init == TableInit /\ locks = [i \in BucketNo |-> None] /\ phase = "put"

\* Mutant: the result of pthread_mutex_trylock is not tested.
TryAnyway(t) ==
  /\ Goto(t, "lock", "search") /\ locks' = [locks EXCEPT ![Chain(t)] = t]
  /\ UNCHANGED <<nthread, keys, table, val, iter, seen, phase>>

\* pthread_mutex_trylock succeeds, or it returns EBUSY.
TryLock(t) ==
  /\ IF locks[Chain(t)] = None
     THEN Goto(t, "lock", "search") /\ locks' = [locks EXCEPT ![Chain(t)] = t]
     ELSE Goto(t, "lock", "yield") /\ UNCHANGED locks
  /\ UNCHANGED <<nthread, keys, table, val, iter, seen, phase>>
sched_yield(t) == Goto(t, "yield", "lock") /\ UNCHANGED <<nthread, keys, table, val, iter, seen, locks, phase>>
Unlock(t) == Return(t) /\ locks' = [locks EXCEPT ![Chain(t)] = None] /\ UNCHANGED phase
Step(t) == \/ pc[t] = "lock" /\ TryLock(t)
           \/ sched_yield(t) \/ Unlock(t)
           \/ (Search(t) \/ Store(t, "unlock")) /\ UNCHANGED <<locks, phase>>

\* main joins the threads and destroys the locks.
Main == /\ phase = "put" /\ \A t \in Thread : pc[t] = "done"
        /\ phase' = "end" /\ UNCHANGED <<tableVars, locks>>

Next == Main \/ \E t \in Thread : Step(t)
Spec == Init /\ [][Next]_vars
-----------------------------------------------------------------------------
TypeOK ==
  /\ TableTypes({"lock", "yield", "search", "store", "unlock", "done"})
  /\ locks \in [BucketNo -> Thread \cup {None}] /\ phase \in {"put", "end"}

\* The locks are idle when main destroys them.
DestroyedIdle == phase = "end" => \A i \in BucketNo : locks[i] = None
=============================================================================
