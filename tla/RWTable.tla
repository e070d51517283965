------------------------------- MODULE RWTable -------------------------------
(***************************************************************************)
(* w5labs/mutex3.c: one read-write lock per bucket.  The put threads are   *)
(* joined before the get threads start; nothing asserts that nthread       *)
(* divides NKEYS, so the last keys may have no put.                        *)
(***************************************************************************)
EXTENDS Chains

VARIABLES rwlocks,    \* of each bucket: its writer or None, and its readers
          found,      \* of each get thread: whether the walk found the key
          missing, phase
vars == <<tableVars, rwlocks, found, missing, phase>>

Init ==
  /\ TableInit
  /\ rwlocks = [i \in BucketNo |-> [writer |-> None, readers |-> {}]]
  /\ found = [t \in Thread |-> FALSE] /\ missing = [t \in Thread |-> 0]
  /\ phase = "put"

Free(i)  == rwlocks[i].writer = None /\ rwlocks[i].readers = {}
Idle(ph) == phase = ph /\ \A t \in Thread : pc[t] = "done"

wrlock(t) ==
  /\ Goto(t, "lock", "search") /\ Free(Chain(t))
  /\ rwlocks' = [rwlocks EXCEPT ![Chain(t)].writer = t]
  /\ UNCHANGED <<nthread, keys, table, val, iter, seen, found, missing, phase>>
wrunlock(t) ==
  /\ Return(t) /\ rwlocks' = [rwlocks EXCEPT ![Chain(t)].writer = None]
  /\ UNCHANGED <<found, missing, phase>>
put(t) == \/ wrlock(t) \/ wrunlock(t)
          \/ (Search(t) \/ Store(t, "unlock")) /\ UNCHANGED <<rwlocks, found, missing, phase>>

StartGets ==
  /\ Idle("put") /\ phase' = "get"
  /\ iter' = [t \in Thread |-> 0]
  /\ pc' = [t \in Thread |-> IF NKEYS > 0 THEN "rdlock" ELSE "done"]
  /\ UNCHANGED <<nthread, keys, table, val, seen, rwlocks, found, missing>>

GetKey(t)    == keys[iter[t]]
GetBucket(t) == Bucket(GetKey(t))

rdlock(t) ==
  /\ Goto(t, "rdlock", "walk") /\ rwlocks[GetBucket(t)].writer = None
  /\ rwlocks' = [rwlocks EXCEPT ![GetBucket(t)].readers = @ \cup {t}]
  /\ UNCHANGED <<nthread, keys, table, val, iter, seen, found, missing, phase>>
walk(t) ==
  /\ Goto(t, "walk", "rdunlock")
  /\ found' = [found EXCEPT ![t] = Holding(table[GetBucket(t)], GetKey(t)) # {}]
  /\ UNCHANGED <<nthread, keys, table, val, iter, seen, rwlocks, missing, phase>>
rdunlock(t) ==
  /\ Goto(t, "rdunlock", IF iter[t] + 1 < NKEYS THEN "rdlock" ELSE "done")
  /\ rwlocks' = [rwlocks EXCEPT ![GetBucket(t)].readers = @ \ {t}]
  /\ missing' = IF found[t] THEN missing ELSE [missing EXCEPT ![t] = @ + 1]
  /\ iter' = [iter EXCEPT ![t] = @ + 1]
  /\ UNCHANGED <<nthread, keys, table, val, seen, found, phase>>
get(t) == rdlock(t) \/ walk(t) \/ rdunlock(t)

Finish == Idle("get") /\ phase' = "end" /\ UNCHANGED <<tableVars, rwlocks, found, missing>>
Main == StartGets \/ Finish
Step(t) == put(t) \/ get(t)
Next == Main \/ \E t \in Thread : Step(t)
Spec == Init /\ [][Next]_vars
-----------------------------------------------------------------------------
TypeOK ==
  /\ TableTypes({"lock", "search", "store", "unlock", "rdlock", "walk", "rdunlock", "done"})
  /\ rwlocks \in [BucketNo -> [writer : Thread \cup {None}, readers : SUBSET Thread]]
  /\ found \in [Thread -> BOOLEAN] /\ missing \in [Thread -> 0 .. NKEYS]
  /\ phase \in {"put", "get", "end"}

\* "Allows OTHER readers to lock simultaneously" (line 57): a get thread never
\* waits, since nobody that could still hold a write lock is left.
ReadersNeverWait == \A t \in Thread : pc[t] = "rdlock" => rwlocks[GetBucket(t)].writer = None

\* Each get thread counts exactly the keys that no put thread was given: those at
\* the end of keys[] when nthread does not divide NKEYS, unless they occur before.
MissingExact ==
  phase = "end" => \A t \in Thread :
    missing[t] = Cardinality({j \in Index : keys[j] \notin {keys[p] : p \in {q \in Index : q < b * nthread}}})

\* The locks are idle when main destroys them.
DestroyedIdle == phase = "end" => \A i \in BucketNo : Free(i)
=============================================================================
