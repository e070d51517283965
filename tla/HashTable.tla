------------------------------ MODULE HashTable ------------------------------
(***************************************************************************)
(* w5labs/mutex2.c: a chained hash table with one mutex per bucket, on     *)
(* which nthread put threads and nthread get threads run at the same time. *)
(*                                                                         *)
(* An entry is named by the position j of keys[] whose put allocated it,   *)
(* so its key is keys[j]; a chain is the set of entries reachable from     *)
(* table[i].  The walk over a chain is one step: BucketStable says that    *)
(* the chain does not change under a thread that is walking it.            *)
(***************************************************************************)
EXTENDS Integers, FiniteSets

CONSTANTS NBUCKET, NKEYS, nthread,
          KeySpace     \* the values random() may return

ASSUME SizesAssumption == NBUCKET \in Nat \ {0} /\ NKEYS \in Nat /\ nthread \in Nat \ {0}
ASSUME KeysAssumption  == KeySpace \subseteq Nat

VARIABLES keys, table,
          val,        \* e->value of the entries
          locks,      \* the owner of each bucket's mutex, or None
          pc, iter,   \* of each thread: where it is, and its loop counter i
          e, head,    \* locals: the entry found, and the chain that insert was given
          missing,    \* of each get thread
          main        \* where main is, and its loop counter
vars == <<keys, table, val, locks, pc, iter, e, head, missing, main>>

None      == -1
Index     == 0 .. NKEYS - 1
BucketNo  == 0 .. NBUCKET - 1
PutThread == 0 .. nthread - 1
GetThread == nthread .. 2 * nthread - 1
Thread    == PutThread \cup GetThread

b           == NKEYS \div nthread
Last(t)     == IF t \in PutThread THEN b ELSE NKEYS
Pos(t, i)   == IF t \in PutThread THEN b * t + i ELSE i
Bucket(key) == key % NBUCKET
At(t)       == Pos(t, iter[t])
Key(t)      == keys[At(t)]
Chain(t)    == Bucket(Key(t))

\* Where a thread is in its critical section.
Critical == {"search", "update", "insert", "link", "unlock"}
\* The entries of bucket i that hold key k.
Holding(i, k) == {j \in table[i] : keys[j] = k}

Goto(t, label) == pc' = [pc EXCEPT ![t] = label]

Init ==
  /\ keys \in [Index -> KeySpace]
  /\ table = [i \in BucketNo |-> {}]
  /\ val = [j \in Index |-> None]
  /\ locks = [i \in BucketNo |-> None]
  /\ pc = [t \in Thread |-> "new"]
  /\ iter = [t \in Thread |-> 0]
  /\ e = [t \in Thread |-> None]
  /\ head = [t \in Thread |-> {}]
  /\ missing = [t \in GetThread |-> 0]
  /\ main = [at |-> "create", k |-> 0]

\* Where the thread goes when its loop counter is i.
LoopTest(t, i) == IF i < Last(t) THEN "lock" ELSE "done"

\* Mutant: the mutex is not waited for.
LockAnyway(t) ==
  /\ pc[t] = "lock"
  /\ locks' = [locks EXCEPT ![Chain(t)] = t]
  /\ Goto(t, "search")
  /\ UNCHANGED <<keys, table, val, iter, e, head, missing, main>>

Lock(t) ==
  /\ pc[t] = "lock" /\ locks[Chain(t)] = None
  /\ locks' = [locks EXCEPT ![Chain(t)] = t]
  /\ Goto(t, "search")
  /\ UNCHANGED <<keys, table, val, iter, e, head, missing, main>>

Search(t) ==
  /\ pc[t] = "search"
  /\ LET found == Holding(Chain(t), Key(t))
     IN  /\ e' = [e EXCEPT ![t] = IF found = {} THEN None ELSE CHOOSE j \in found : TRUE]
         /\ Goto(t, IF t \in GetThread THEN "unlock"
                    ELSE IF found = {} THEN "insert" ELSE "update")
  /\ UNCHANGED <<keys, table, val, locks, iter, head, missing, main>>

Update(t) ==
  /\ pc[t] = "update"
  /\ val' = [val EXCEPT ![e[t]] = t]
  /\ Goto(t, "unlock")
  /\ UNCHANGED <<keys, table, locks, iter, e, head, missing, main>>

\* Mutant: the new entry has no next entry.
InsertAlone(t) ==
  /\ pc[t] = "insert"
  /\ head' = [head EXCEPT ![t] = {}]
  /\ val' = [val EXCEPT ![At(t)] = t]
  /\ Goto(t, "link")
  /\ UNCHANGED <<keys, table, locks, iter, e, missing, main>>

\* insert() allocates and fills the entry, with the chain it was given as next ...
Insert(t) ==
  /\ pc[t] = "insert"
  /\ head' = [head EXCEPT ![t] = table[Chain(t)]]
  /\ val' = [val EXCEPT ![At(t)] = t]
  /\ Goto(t, "link")
  /\ UNCHANGED <<keys, table, locks, iter, e, missing, main>>

\* ... and then makes it the first entry of the bucket.
Link(t) ==
  /\ pc[t] = "link"
  /\ table' = [table EXCEPT ![Chain(t)] = head[t] \cup {At(t)}]
  /\ Goto(t, "unlock")
  /\ UNCHANGED <<keys, val, locks, iter, e, head, missing, main>>

\* Mutant: the loop of put_thread does not count.
PutAgain(t) ==
  /\ pc[t] = "unlock"
  /\ locks' = [locks EXCEPT ![Chain(t)] = None]
  /\ iter' = IF t \in PutThread THEN iter ELSE [iter EXCEPT ![t] = @ + 1]
  /\ Goto(t, LoopTest(t, iter'[t]))
  /\ UNCHANGED <<keys, table, val, e, head, missing, main>>

Unlock(t) ==
  /\ pc[t] = "unlock"
  /\ locks' = [locks EXCEPT ![Chain(t)] = None]
  /\ missing' = IF t \in GetThread /\ e[t] = None
                THEN [missing EXCEPT ![t] = @ + 1] ELSE missing
  /\ iter' = [iter EXCEPT ![t] = @ + 1]
  /\ Goto(t, LoopTest(t, iter[t] + 1))
  /\ UNCHANGED <<keys, table, val, e, head, main>>

Step(t) == Lock(t) \/ Search(t) \/ Update(t) \/ Insert(t) \/ Link(t) \/ Unlock(t)

\* The k-th pthread_create of main: put and get threads in turn.
Created(k) == IF k % 2 = 0 THEN k \div 2 ELSE nthread + k \div 2

\* main's loops over its threads.
Loop(here, after) ==
  main' = IF main.k + 1 < 2 * nthread THEN [at |-> here, k |-> main.k + 1]
          ELSE [at |-> after, k |-> 0]

Create ==
  /\ main.at = "create"
  /\ LET t == Created(main.k) IN Goto(t, LoopTest(t, iter[t]))
  /\ Loop("create", "join")
  /\ UNCHANGED <<keys, table, val, locks, iter, e, head, missing>>

\* Mutant: main joins one half of the threads.
JoinHalf ==
  /\ main.at = "join" /\ pc[main.k] = "done"
  /\ main' = IF main.k + 1 < nthread THEN [at |-> "join", k |-> main.k + 1]
             ELSE [at |-> "destroy", k |-> 0]
  /\ UNCHANGED <<keys, table, val, locks, pc, iter, e, head, missing>>

Join ==
  /\ main.at = "join" /\ pc[main.k] = "done"
  /\ Loop("join", "destroy")
  /\ UNCHANGED <<keys, table, val, locks, pc, iter, e, head, missing>>

Destroy ==
  /\ main.at = "destroy"
  /\ main' = [at |-> "end", k |-> 0]
  /\ UNCHANGED <<keys, table, val, locks, pc, iter, e, head, missing>>

\* main has returned, and the process with it.
Ended == main.at = "end" /\ UNCHANGED vars

Next == Create \/ Join \/ Destroy \/ Ended \/ \E t \in Thread : Step(t)

Spec == Init /\ [][Next]_vars
\* The kernel runs every thread that can run: each is scheduled again and again.
Fairness == WF_vars(Create \/ Join \/ Destroy) /\ \A t \in Thread : WF_vars(Step(t))
FairSpec == Spec /\ Fairness
-----------------------------------------------------------------------------
\* The types of the variables.
TypeOK ==
  /\ keys \in [Index -> KeySpace]
  /\ table \in [BucketNo -> SUBSET Index]
  /\ val \in [Index -> PutThread \cup {None}]
  /\ locks \in [BucketNo -> Thread \cup {None}]
  /\ pc \in [Thread -> Critical \cup {"new", "lock", "done"}]
  /\ iter \in [Thread -> 0 .. NKEYS]
  /\ e \in [Thread -> Index \cup {None}]
  /\ head \in [Thread -> SUBSET Index]
  /\ missing \in [GetThread -> 0 .. NKEYS]
  /\ main \in [at : {"create", "join", "destroy", "end"}, k : 0 .. 2 * nthread - 1]

\* No chain ever holds two entries with the same key: the search of a put and
\* its insert are one atomic step to every other put of that key.
NoDuplicateKeys ==
  \A i \in BucketNo : \A j1, j2 \in table[i] : keys[j1] = keys[j2] => j1 = j2

\* A put that has returned is never lost: its key stays in the table, whatever
\* the other threads insert in the same bucket.
NoLostPut ==
  \A t \in PutThread : \A i \in 0 .. iter[t] - 1 :
    LET k == keys[Pos(t, i)] IN Holding(Bucket(k), k) # {}

\* While a thread is between lock and unlock, only its own steps change its
\* bucket: get() walks a chain that nobody modifies (the comment at lines 14-16).
BucketStable ==
  [][\A t \in Thread :
       pc[t] \in Critical /\ pc'[t] = pc[t] => UNCHANGED table[Chain(t)]]_vars

\* When main destroys the mutexes nobody holds one, and nobody will lock one.
DestroyedIdle ==
  main.at \in {"destroy", "end"} =>
    /\ \A i \in BucketNo : locks[i] = None
    /\ \A t \in Thread : pc[t] = "done"

\* Every thread finishes its calls and main returns: no mutex stays locked.
Termination == <>(main.at = "end")
-----------------------------------------------------------------------------
\* The abstract map (AtomicMap) that the threads see.
Absent == -2
mapBar == [k \in KeySpace |->
             IF \E j \in table[Bucket(k)] : keys[j] = k
             THEN val[CHOOSE j \in table[Bucket(k)] : keys[j] = k] ELSE Absent]
\* A call takes effect at Search (get), at Update or at Link (put).
Effective(t) == pc[t] = "unlock"
callsBar   == [t \in Thread |-> IF Effective(t) THEN iter[t] + 1 ELSE iter[t]]
missingBar == [t \in GetThread |->
                 IF Effective(t) /\ e[t] = None THEN missing[t] + 1 ELSE missing[t]]
Abstract == INSTANCE AtomicMap WITH map <- mapBar, calls <- callsBar, missing <- missingBar
\* Every put and every get behaves as if it were one atomic step on a map from
\* keys to values: gets may run together with puts and still see whole updates.
Linearizable == Abstract!Spec
-----------------------------------------------------------------------------
(* The inductive invariant: why the properties above hold. *)

\* A thread that is in its loop has a call left to make; a call misses once.
LoopInv ==
  /\ \A t \in Thread : iter[t] <= Last(t)
  /\ \A t \in Thread : pc[t] \in Critical \cup {"lock"} => iter[t] < Last(t)
  /\ \A t \in GetThread : missing[t] <= iter[t]

\* A mutex is owned by the thread that is in the critical section of its bucket.
LockInv ==
  /\ \A t \in Thread : pc[t] \in Critical => locks[Chain(t)] = t
  /\ \A t \in Thread, i \in BucketNo : locks[i] = t => pc[t] \in Critical /\ Chain(t) = i

\* An entry is in the bucket of its key.
PlaceInv == \A i \in BucketNo : \A j \in table[i] : Bucket(keys[j]) = i

\* What a put knows of its key as it goes through its critical section.
PutInv == \A t \in PutThread :
  LET found == Holding(Chain(t), Key(t))
  IN  /\ pc[t] = "update" => e[t] \in found
      /\ pc[t] \in {"insert", "link"} => found = {}
      /\ pc[t] = "link" => head[t] = table[Chain(t)] /\ val[At(t)] = t
      /\ pc[t] = "unlock" => found # {}
GetInv == \A t \in GetThread : pc[t] \notin {"update", "insert", "link"}

\* main creates a thread once, and destroys the mutexes when all have been joined.
MainInv ==
  /\ main.at = "create" => \A k \in main.k .. 2 * nthread - 1 : pc[Created(k)] = "new"
  /\ main.at = "join" => \A t \in Thread : t < main.k => pc[t] = "done"
  /\ main.at \in {"destroy", "end"} => \A t \in Thread : pc[t] = "done"

IInv == TypeOK /\ LoopInv /\ LockInv /\ PlaceInv /\ NoDuplicateKeys /\ PutInv
          /\ GetInv /\ NoLostPut /\ MainInv
=============================================================================
