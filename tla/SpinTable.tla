------------------------------ MODULE SpinTable ------------------------------
(***************************************************************************)
(* w5labs/mutex5.c: one spinlock per bucket.  To spin is to wait: the step *)
(* that counts is the one that finds the lock free and takes it.           *)
(***************************************************************************)
EXTENDS Chains

VARIABLES locks,    \* the owner of each bucket's spinlock, or None
          phase     \* of main
vars == <<tableVars, locks, phase>>

Init == TableInit /\ locks = [i \in BucketNo |-> None] /\ phase = "put"

spin_lock(t) ==
  /\ Goto(t, "lock", "search")
  /\ locks[Chain(t)] = None /\ locks' = [locks EXCEPT ![Chain(t)] = t]
  /\ UNCHANGED <<nthread, keys, table, val, iter, seen, phase>>
spin_unlock(t) == Return(t) /\ locks' = [locks EXCEPT ![Chain(t)] = None] /\ UNCHANGED phase
Step(t) == \/ spin_lock(t) \/ spin_unlock(t)
           \/ (Search(t) \/ Store(t, "unlock")) /\ UNCHANGED <<locks, phase>>

\* main joins the threads and destroys the locks.
Main == /\ phase = "put" /\ \A t \in Thread : pc[t] = "done"
        /\ phase' = "end" /\ UNCHANGED <<tableVars, locks>>

Next == Main \/ \E t \in Thread : Step(t)
Spec == Init /\ [][Next]_vars
-----------------------------------------------------------------------------
TypeOK ==
  /\ TableTypes({"lock", "search", "store", "unlock", "done"})
  /\ locks \in [BucketNo -> Thread \cup {None}] /\ phase \in {"put", "end"}

\* The locks are idle when main destroys them.
DestroyedIdle == phase = "end" => \A i \in BucketNo : locks[i] = None
=============================================================================
