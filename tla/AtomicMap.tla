------------------------------ MODULE AtomicMap ------------------------------
(***************************************************************************)
(* What the hash table of w5labs/mutex2.c promises its callers: a map from *)
(* keys to values on which each put() and each get() is one atomic step.   *)
(***************************************************************************)
EXTENDS Integers

CONSTANTS NKEYS, nthread, KeySpace, Absent

VARIABLES keys, map,
          calls,    \* of each thread: the calls that have taken effect
          missing   \* of each get thread: its calls that found nothing

PutThread == 0 .. nthread - 1
GetThread == nthread .. 2 * nthread - 1

Init ==
  /\ keys \in [0 .. NKEYS - 1 -> KeySpace]
  /\ map = [k \in KeySpace |-> Absent]
  /\ calls = [t \in PutThread \cup GetThread |-> 0]
  /\ missing = [t \in GetThread |-> 0]

Put(t) ==
  LET b == NKEYS \div nthread
  IN  /\ calls[t] < b
      /\ map' = [map EXCEPT ![keys[b * t + calls[t]]] = t]
      /\ calls' = [calls EXCEPT ![t] = @ + 1]
      /\ UNCHANGED <<keys, missing>>

Get(t) ==
  /\ calls[t] < NKEYS
  /\ missing' = [missing EXCEPT ![t] = IF map[keys[calls[t]]] = Absent THEN @ + 1 ELSE @]
  /\ calls' = [calls EXCEPT ![t] = @ + 1]
  /\ UNCHANGED <<keys, map>>

Next == (\E t \in PutThread : Put(t)) \/ (\E t \in GetThread : Get(t))

Spec == Init /\ [][Next]_<<keys, map, calls, missing>>
=============================================================================
