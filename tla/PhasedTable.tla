----------------------------- MODULE PhasedTable -----------------------------
(***************************************************************************)
(* w5labs/mutex1.c: one lock for the whole table; all put threads are      *)
(* joined before the get threads start, and get() takes no lock.           *)
(***************************************************************************)
EXTENDS Chains

VARIABLES global_lock,
          missing,    \* of each get thread
          phase       \* of main
vars == <<tableVars, global_lock, missing, phase>>

Init ==
  /\ TableInit
  /\ global_lock = None
  /\ missing = [t \in Thread |-> 0]
  /\ phase = "assert"

\* assert(NKEYS % nthread == 0): the program goes on, or it aborts.
Assert ==
  /\ phase = "assert"
  /\ phase' = IF NKEYS % nthread = 0 THEN "put" ELSE "aborted"
  /\ UNCHANGED <<tableVars, global_lock, missing>>

Lock(t) ==
  /\ phase = "put" /\ Goto(t, "lock", "search")
  /\ global_lock = None /\ global_lock' = t
  /\ UNCHANGED <<nthread, keys, table, val, iter, seen, missing, phase>>
Unlock(t) == Return(t) /\ global_lock' = None /\ UNCHANGED <<missing, phase>>
put(t) == \/ Lock(t) \/ Unlock(t)
          \/ (Search(t) \/ Store(t, "unlock")) /\ UNCHANGED <<global_lock, missing, phase>>

\* Mutant: main joins the first put thread only, and the others go on.
StartGetsEarly ==
  /\ phase = "put" /\ pc[0] = "done"
  /\ phase' = "get"
  /\ iter' = [t \in Thread |-> IF pc[t] = "done" THEN 0 ELSE iter[t]]
  /\ pc' = [t \in Thread |-> IF pc[t] = "done" THEN "get" ELSE pc[t]]
  /\ UNCHANGED <<nthread, keys, table, val, seen, global_lock, missing>>

\* main has joined all put threads and creates the get threads.
StartGets ==
  /\ phase = "put" /\ \A t \in Thread : pc[t] = "done"
  /\ phase' = "get"
  /\ iter' = [t \in Thread |-> 0]
  /\ pc' = [t \in Thread |-> IF NKEYS > 0 THEN "get" ELSE "done"]
  /\ UNCHANGED <<nthread, keys, table, val, seen, global_lock, missing>>

\* get() walks without a lock, and get_thread counts the keys it does not find.
get(t) ==
  /\ Goto(t, "get", IF iter[t] + 1 < NKEYS THEN "get" ELSE "done")
  /\ LET key == keys[iter[t]]
     IN  missing' = IF Holding(table[Bucket(key)], key) = {}
                    THEN [missing EXCEPT ![t] = @ + 1] ELSE missing
  /\ iter' = [iter EXCEPT ![t] = @ + 1]
  /\ UNCHANGED <<nthread, keys, table, val, seen, global_lock, phase>>

\* main has joined all get threads, and destroys the lock.
Finish ==
  /\ phase = "get" /\ \A t \in Thread : pc[t] = "done"
  /\ phase' = "end"
  /\ UNCHANGED <<tableVars, global_lock, missing>>

Main == Assert \/ StartGets \/ Finish
Step(t) == put(t) \/ get(t)
Next == Main \/ \E t \in Thread : Step(t)
Spec == Init /\ [][Next]_vars
-----------------------------------------------------------------------------
TypeOK ==
  /\ TableTypes({"lock", "search", "store", "unlock", "get", "done"})
  /\ global_lock \in Thread \cup {None}
  /\ missing \in [Thread -> 0 .. NKEYS]
  /\ phase \in {"assert", "put", "get", "end", "aborted"}

\* Of each step: the gets need no lock, since nothing changes the table while one walks it.
QuietReads == phase = "get" => UNCHANGED <<table, val>>

\* Every get thread finds all keys: the assertion makes the slices of the put
\* threads cover keys[], and no insert is lost.
NothingMissing == phase = "end" => \A t \in Thread : missing[t] = 0

\* The lock is idle when main destroys it.
DestroyedIdle == phase = "end" => global_lock = None
=============================================================================
