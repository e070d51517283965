----------------------------- MODULE InsertCount -----------------------------
(***************************************************************************)
(* w5labs/mutex10.c: one mutex per bucket, and an atomic counter of the    *)
(* inserts in all buckets.                                                 *)
(***************************************************************************)
EXTENDS Chains

VARIABLES locks, total_inserts,
          phase     \* of main
vars == <<tableVars, locks, total_inserts, phase>>

Init == /\ TableInit /\ locks = [i \in BucketNo |-> None]
        /\ total_inserts = 0 /\ phase = "put"

Lock(t) ==
  /\ Goto(t, "lock", "search")
  /\ locks[Chain(t)] = None /\ locks' = [locks EXCEPT ![Chain(t)] = t]
  /\ UNCHANGED <<nthread, keys, table, val, iter, seen, total_inserts, phase>>

\* Mutant: updates are counted too.
CountUpdates(t) == Store(t, "count") /\ UNCHANGED <<locks, total_inserts, phase>>

\* A new entry is still to be counted.
StoreOrInsert(t) ==
  /\ Store(t, IF Holding(seen[t], Key(t)) = {} THEN "count" ELSE "unlock")
  /\ UNCHANGED <<locks, total_inserts, phase>>

atomic_fetch_add(t) ==
  /\ Goto(t, "count", "unlock")
  /\ total_inserts' = total_inserts + 1
  /\ UNCHANGED <<nthread, keys, table, val, iter, seen, locks, phase>>

Unlock(t) ==
  Return(t) /\ locks' = [locks EXCEPT ![Chain(t)] = None] /\ UNCHANGED <<total_inserts, phase>>

Step(t) == \/ Lock(t) \/ StoreOrInsert(t) \/ atomic_fetch_add(t) \/ Unlock(t)
           \/ Search(t) /\ UNCHANGED <<locks, total_inserts, phase>>

\* main joins the threads and prints total_inserts.
Main == /\ phase = "put" /\ \A t \in Thread : pc[t] = "done"
        /\ phase' = "end" /\ UNCHANGED <<tableVars, locks, total_inserts>>

Next == Main \/ \E t \in Thread : Step(t)
Spec == Init /\ [][Next]_vars
-----------------------------------------------------------------------------
TypeOK ==
  /\ TableTypes({"lock", "search", "store", "count", "unlock", "done"})
  /\ locks \in [BucketNo -> Thread \cup {None}] /\ total_inserts \in 0 .. NKEYS
  /\ phase \in {"put", "end"}

\* The counter is never ahead of the table, and never behind by more than the
\* inserts that are just being counted.
CountsEntries ==
  total_inserts + Cardinality({t \in Thread : pc[t] = "count"})
    = Cardinality(UNION {table[i] : i \in BucketNo})

\* main prints the number of different keys that were put.
FinalCount ==
  phase = "end" => total_inserts = Cardinality({keys[j] : j \in {q \in Index : q < b * nthread}})
=============================================================================
