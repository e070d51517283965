----------------------------- MODULE UThreadMutex -----------------------------
(***************************************************************************)
(* w5labs/uthreads4.c: two workers increment a counter under a mutex that  *)
(* waits by yielding, while main yields a fixed number of times.  Only the *)
(* steps that end in thread_yield or in the end of a function let another  *)
(* thread run, so a step is what a thread does between two of those.       *)
(***************************************************************************)
EXTENDS UThreadRR

CONSTANTS ITERATIONS, YIELDS    \* 1000 and 3000 in the code

\* There is room for main and its two workers.
CountsAssumption ==
  ITERATIONS \in Nat \ {0} /\ YIELDS \in Nat /\ MAX_THREAD > 2 /\ MaxCreate > 1

VARIABLES locked, shared_counter,
          i,       \* of each flow: its loop counter
          temp     \* of each worker: the counter it read, or None outside the critical section
vars == <<tableVars, locked, shared_counter, i, temp>>

None   == -1
Worker == {1, 2}
main   == 0

\* main has created the workers: each is in a slot of its own.
MutexInit ==
  /\ state = [s \in Slot |-> IF s = 0 THEN "RUNNING" ELSE IF s \in Worker THEN "RUNNABLE" ELSE "FREE"]
  /\ current_thread = 0
  /\ context = [s \in Slot |-> IF s \in Worker THEN s ELSE NoFlow]
  /\ running = main /\ created = 2 /\ dead = {} /\ exited = FALSE
  /\ locked = 0 /\ shared_counter = 0
  /\ i = [f \in Flow |-> 0]
  /\ temp = [f \in Worker |-> None]

\* Mutant: the lock is not tested.
LockAnyway(lock, count) ==
  /\ locked' = 1
  /\ temp' = [temp EXCEPT ![running] = count]
  /\ thread_yield

\* mutex_lock, and the iteration up to its yield: the test and set finds the lock
\* as lock says, and the counter is then count.
mutex_lock(lock, count) ==
  /\ locked' = 1
  /\ temp' = [temp EXCEPT ![running] = IF lock = 0 THEN count ELSE None]
  /\ thread_yield

\* A worker that waits for the lock, or begins.
TryLock ==
  /\ ~exited /\ running \in Worker /\ temp[running] = None
  /\ mutex_lock(locked, shared_counter)
  /\ UNCHANGED <<shared_counter, i>>

\* A worker that holds the lock comes back from its yield, writes, unlocks, and
\* goes on with the next iteration at once.
Write ==
  /\ ~exited /\ running \in Worker /\ temp[running] # None
  /\ shared_counter' = temp[running] + 1
  /\ i' = [i EXCEPT ![running] = @ + 1]
  /\ IF i'[running] < ITERATIONS THEN mutex_lock(0, shared_counter')
     ELSE locked' = 0 /\ temp' = [temp EXCEPT ![running] = None] /\ Finish

MainYield ==
  /\ ~exited /\ running = main /\ i[main] < YIELDS
  /\ i' = [i EXCEPT ![main] = @ + 1]
  /\ thread_yield
  /\ UNCHANGED <<locked, shared_counter, temp>>

\* main prints the counter and calls exit(0).
MainExit ==
  /\ ~exited /\ running = main /\ i[main] = YIELDS
  /\ exited' = TRUE
  /\ UNCHANGED <<state, current_thread, context, running, created, dead,
                 locked, shared_counter, i, temp>>

MutexNext == TryLock \/ Write \/ MainYield \/ MainExit \/ (Ended /\ UNCHANGED vars)
MutexSpec == MutexInit /\ [][MutexNext]_vars /\ WF_vars(MutexNext)
-----------------------------------------------------------------------------
MutexTypes ==
  /\ TableTypes({}) /\ locked \in {0, 1} /\ shared_counter \in 0 .. 2 * ITERATIONS
  /\ i \in [Flow -> Nat] /\ temp \in [Worker -> Nat \cup {None}]

\* No increment is lost although each worker yields between reading and writing: the
\* holder's copy is the counter, there is one holder, and the counter is the work that
\* is done.
NoLostIncrement ==
  /\ \A f \in Worker : temp[f] # None => temp[f] = shared_counter
  /\ \A f, g \in Worker : temp[f] # None /\ temp[g] # None => f = g
  /\ shared_counter = i[1] + i[2]

\* "Yield enough times for workers to finish" (line 83): the counter that main
\* prints is the work of both workers, "should be 2000" (line 85).
FinalCounter == exited => shared_counter = 2 * ITERATIONS /\ Worker \subseteq dead

\* How it comes to that: main and the workers take turns, and the first worker makes all
\* its iterations, one in each round, before the second one gets the lock.  After
\* 2 * ITERATIONS + 1 rounds both have ended.
Rounds(f)  == IF running \in 1 .. f THEN i[main] - 1 ELSE i[main]
Writes(f)  == Rounds(f) - 1 - (IF f = 1 THEN 0 ELSE ITERATIONS)
Holds(f)   == Writes(f) \in 0 .. ITERATIONS - 1
InTurn ==
  /\ MutexTypes /\ created = 2 /\ dead \subseteq Worker
  /\ current_thread = running /\ running \in ({main} \cup Worker) \ dead
  /\ i[main] <= YIELDS /\ (running # main => i[main] > 0)
  /\ exited => running = main /\ i[main] = YIELDS
  /\ \A s \in Slot : IF s \in dead \/ s > 2 THEN state[s] = "FREE"
                     ELSE state[s] = "RUNNABLE" \/ (s = running /\ state[s] = "RUNNING")
  /\ \A s \in ({main} \cup Worker) \ {running} : context[s] = s
  /\ \A f \in Worker :
       /\ f \in dead <=> Writes(f) >= ITERATIONS
       /\ i[f] = IF Writes(f) <= 0 THEN 0 ELSE IF f \in dead THEN ITERATIONS ELSE Writes(f)
       /\ temp[f] = IF Holds(f) THEN shared_counter ELSE None
  /\ shared_counter = i[1] + i[2]
  /\ locked = IF \E f \in Worker : Holds(f) THEN 1 ELSE 0

\* main comes to its print.
MainEnds == <>(exited /\ i[main] = YIELDS)
=============================================================================
