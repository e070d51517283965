--------------------------- MODULE MCPackages_proofs ---------------------------
(***************************************************************************)
(* The thread packages uthreads2.c to uthreads10.c for every size of the   *)
(* table and every number of threads.  First the mutex of uthreads4.c, for *)
(* every number of iterations and yields: the two workers lose no          *)
(* increment, and main prints all of them if it yields at least once more  *)
(* often than the workers iterate.  Then the others, one by one: the       *)
(* invariant of the package, its steps in terms of the table (which the    *)
(* lemmas of UThreads_proofs are about), and that they keep the invariant. *)
(* The theorems about all of them are at the end.                          *)
(***************************************************************************)
EXTENDS MCPackages, UThreads_proofs, WellFoundedInduction

USE DEF CountsAssumption, main, Worker

\* The slots and states of the table, and the counts, as numbers and sets.
LEMMA Facts ==
  ASSUME CountsAssumption, InTurn
  PROVE  /\ state \in [Slot -> {"FREE", "RUNNING", "RUNNABLE"}] /\ context \in [Slot -> Flow \cup {NoFlow}]
         /\ running \in {0, 1, 2} /\ current_thread = running /\ {0, 1, 2} \subseteq Slot /\ Slot \subseteq Nat
         /\ {0, 1, 2} \subseteq Flow /\ exited \in BOOLEAN
         /\ i \in [Flow -> Nat] /\ temp \in [Worker -> Nat \cup {None}] /\ shared_counter \in Nat /\ locked \in {0, 1}
<1>1. /\ state \in [Slot -> {"FREE", "RUNNING", "RUNNABLE"}] /\ context \in [Slot -> Flow \cup {NoFlow}]
      /\ exited \in BOOLEAN /\ i \in [Flow -> Nat] /\ temp \in [Worker -> Nat \cup {None}] /\ locked \in {0, 1}
      /\ shared_counter \in 0 .. 2 * ITERATIONS
  BY DEF InTurn, MutexTypes, TableTypes
<1>2. {0, 1, 2} \subseteq Slot /\ Slot \subseteq Nat /\ {0, 1, 2} \subseteq Flow
  BY ThreadsAssumption DEF Slot, Flow
<1> QED BY <1>1, <1>2 DEF InTurn

\* The first state is main's turn, with nothing done.
LEMMA InitInTurn ==
  ASSUME CountsAssumption, MutexInit
  PROVE  InTurn
<1>1. {0, 1, 2} \subseteq Slot /\ {0, 1, 2} \subseteq Flow /\ Slot \subseteq Nat /\ 2 \in 0 .. 2
  BY ThreadsAssumption DEF Slot, Flow
<1>2. MutexTypes
  <2>1. state \in [Slot -> {"FREE", "RUNNING", "RUNNABLE"}]
    BY DEF MutexInit
  <2>2. context \in [Slot -> Flow \cup {NoFlow}]
    BY <1>1 DEF MutexInit
  <2>3. 0 \in 0 .. 2 * ITERATIONS
    OBVIOUS
  <2>4. i \in [Flow -> Nat] /\ temp \in [Worker -> Nat \cup {None}]
    BY DEF MutexInit
  <2> QED BY <1>1, <2>1, <2>2, <2>3, <2>4 DEF MutexInit, MutexTypes, TableTypes
<1>3. \A f \in Worker : i[f] = 0 /\ temp[f] = None /\ f \notin dead
  <2>1. i[1] = 0 /\ i[2] = 0
    BY <1>1 DEF MutexInit
  <2>2. temp[1] = None /\ temp[2] = None /\ dead = {}
    BY DEF MutexInit
  <2> QED BY <2>1, <2>2
<1>4. \A f \in Worker : Writes(f) < 0 /\ ~(Writes(f) >= ITERATIONS) /\ ~Holds(f) /\ Writes(f) <= 0
  <2>1. i[main] = 0 /\ running = 0
    BY <1>1 DEF MutexInit
  <2>2. Writes(1) = 0 - 1 /\ Writes(2) = 0 - 1 - ITERATIONS
    BY <2>1 DEF Writes, Rounds
  <2> QED BY <2>2 DEF Holds
<1>5. \A s \in Slot : IF s \in dead \/ s > 2 THEN state[s] = "FREE"
                     ELSE state[s] = "RUNNABLE" \/ (s = running /\ state[s] = "RUNNING")
  BY <1>1 DEF MutexInit
<1>6. \A s \in {0, 1, 2} \ {running} : context[s] = s
  BY <1>1 DEF MutexInit
<1>7. /\ created = 2 /\ dead = {} /\ current_thread = 0 /\ running = 0 /\ i[0] = 0 /\ exited = FALSE
      /\ shared_counter = 0 /\ locked = 0
  BY <1>1 DEF MutexInit
<1> QED BY <1>2, <1>3, <1>4, <1>5, <1>6, <1>7 DEF InTurn

\* Who is next, when those in gone have ended.
After(t, gone) ==
  IF t = 0 /\ 1 \notin gone THEN 1 ELSE IF t # 2 /\ 2 \notin gone THEN 2 ELSE 0

\* The end of a turn: the next one of the three that has not ended goes on.
LEMMA TurnEnds ==
  ASSUME CountsAssumption, InTurn, ~exited, NEW x \in {"RUNNABLE", "FREE"}, RoundRobin(Set(x)),
         IF x = "FREE" THEN running # 0 /\ dead' = dead \cup {running} ELSE dead' = dead
  PROVE  /\ running' = After(running, dead') /\ current_thread' = running' /\ ~exited' /\ created' = 2
         /\ running' \in {0, 1, 2} \ dead' /\ dead' \subseteq Worker
         /\ \A s \in Slot : IF s \in dead' \/ s > 2 THEN state'[s] = "FREE"
                            ELSE state'[s] = "RUNNABLE" \/ (s = running' /\ state'[s] = "RUNNING")
         /\ \A s \in {0, 1, 2} \ {running'} : context'[s] = s
         /\ TableTypes({})'
<1> DEFINE st == Set(x)
<1>1. /\ st \in [Slot -> {"FREE", "RUNNING", "RUNNABLE"}] /\ st[running] = x
      /\ \A s \in Slot \ {running} : st[s] = state[s]
  BY Facts DEF Set
<1>2. \A s \in Slot : IF s \in dead' \/ s > 2 THEN st[s] = "FREE" ELSE st[s] = "RUNNABLE"
  BY <1>1, Facts DEF InTurn
<1> HIDE DEF st
<1>3. dead' \subseteq Worker /\ 0 \notin dead' /\ Ready(st) = {0, 1, 2} \ dead'
  <2>1. dead' \subseteq Worker
    <3>1. dead \subseteq Worker /\ running \in {0, 1, 2}
      BY DEF InTurn
    <3> QED BY <3>1
  <2>2. \A s \in Slot : s \notin {0, 1, 2} <=> s > 2
    BY Facts
  <2>3. \A s \in Slot : st[s] = "RUNNABLE" <=> s \in {0, 1, 2} \ dead'
    BY <2>2, <1>2
  <2>4. {0, 1, 2} \subseteq Slot
    BY Facts
  <2> QED BY <2>1, <2>3, <2>4 DEF Ready
<1>4. PICK next \in {0, 1, 2} \ dead' : /\ \A u \in {0, 1, 2} \ dead' : Dist(running, next) <= Dist(running, u)
                                       /\ SwitchTo(st, next)
  BY <1>3, Facts DEF RoundRobin, st
<1>5. next = After(running, dead')
  BY <1>3, <1>4, Facts, ThreadsAssumption DEF Dist, After
<1>6. exited' = exited /\ created' = created /\ current_thread' = next /\ running' = next
  <2>1. running # next => context[next] = next
    BY <1>4 DEF InTurn
  <2> QED BY <2>1, <1>4, Facts DEF SwitchTo
<1>7. context' \in [Slot -> Flow \cup {NoFlow}] /\ \A s \in {0, 1, 2} \ {next} : context'[s] = s
  BY <1>4, Facts DEF SwitchTo, InTurn
<1>8. /\ state' \in [Slot -> {"FREE", "RUNNING", "RUNNABLE"}]
      /\ \A s \in Slot : IF s \in dead' \/ s > 2 THEN state'[s] = "FREE"
                         ELSE state'[s] = "RUNNABLE" \/ (s = next /\ state'[s] = "RUNNING")
  BY <1>1, <1>2, <1>4, Facts DEF SwitchTo, st
<1>9. TableTypes({})'
  <2>1. dead' \subseteq 0 .. created' /\ created' \in Flow
    BY <1>3, <1>6, Facts DEF InTurn
  <2> QED BY <2>1, <1>4, <1>6, <1>7, <1>8, Facts DEF TableTypes
<1> QED BY <1>3, <1>4, <1>5, <1>6, <1>7, <1>8, <1>9 DEF InTurn

\* Where the workers stand, as numbers.
LEMMA Numbers ==
  ASSUME CountsAssumption, InTurn
  PROVE  /\ i[0] \in Nat /\ i[1] \in Nat /\ i[2] \in Nat
         /\ Writes(1) = (IF running = 1 THEN i[0] - 2 ELSE i[0] - 1)
         /\ Writes(2) = (IF running \in {1, 2} THEN i[0] - 2 ELSE i[0] - 1) - ITERATIONS
         /\ \A f \in {1, 2} : /\ f \in dead <=> Writes(f) >= ITERATIONS
                              /\ Holds(f) <=> Writes(f) >= 0 /\ f \notin dead
                              /\ i[f] = IF Writes(f) <= 0 THEN 0 ELSE IF f \in dead THEN ITERATIONS ELSE Writes(f)
                              /\ temp[f] = IF Holds(f) THEN shared_counter ELSE None
         /\ locked = IF Holds(1) \/ Holds(2) THEN 1 ELSE 0
         /\ shared_counter = i[1] + i[2]
<1>1. i[0] \in Nat /\ i[1] \in Nat /\ i[2] \in Nat
  BY Facts
<1>2. /\ Writes(1) = (IF running = 1 THEN i[0] - 2 ELSE i[0] - 1)
      /\ Writes(2) = (IF running \in {1, 2} THEN i[0] - 2 ELSE i[0] - 1) - ITERATIONS
  BY <1>1, Facts DEF Writes, Rounds
<1> QED BY <1>1, <1>2 DEF InTurn, Holds

\* The way back from the numbers to the invariant.
LEMMA FromNumbers ==
  ASSUME CountsAssumption, TableTypes({})', i' \in [Flow -> Nat], temp' \in [Worker -> Nat \cup {None}],
         created' = 2, dead' \subseteq Worker, current_thread' = running', running' \in {0, 1, 2} \ dead',
         i'[0] <= YIELDS, running' # 0 => i'[0] > 0, exited' => running' = 0 /\ i'[0] = YIELDS,
         \A s \in Slot : IF s \in dead' \/ s > 2 THEN state'[s] = "FREE"
                         ELSE state'[s] = "RUNNABLE" \/ (s = running' /\ state'[s] = "RUNNING"),
         \A s \in {0, 1, 2} \ {running'} : context'[s] = s,
         Writes(1)' \in Int, Writes(2)' \in Int,
         1 \in dead' <=> Writes(1)' >= ITERATIONS, 2 \in dead' <=> Writes(2)' >= ITERATIONS,
         i'[1] = IF Writes(1)' <= 0 THEN 0 ELSE IF 1 \in dead' THEN ITERATIONS ELSE Writes(1)',
         i'[2] = IF Writes(2)' <= 0 THEN 0 ELSE IF 2 \in dead' THEN ITERATIONS ELSE Writes(2)',
         temp'[1] = IF Writes(1)' >= 0 /\ 1 \notin dead' THEN shared_counter' ELSE None,
         temp'[2] = IF Writes(2)' >= 0 /\ 2 \notin dead' THEN shared_counter' ELSE None,
         locked' = IF (Writes(1)' >= 0 /\ 1 \notin dead') \/ (Writes(2)' >= 0 /\ 2 \notin dead') THEN 1 ELSE 0,
         shared_counter' = i'[1] + i'[2]
  PROVE  InTurn'
<1>1. (Holds(1)' <=> Writes(1)' >= 0 /\ 1 \notin dead') /\ (Holds(2)' <=> Writes(2)' >= 0 /\ 2 \notin dead')
  BY DEF Holds
<1>2. shared_counter' \in 0 .. 2 * ITERATIONS /\ locked' \in {0, 1}
  OBVIOUS
<1>3. MutexTypes'
  BY <1>2 DEF MutexTypes
<1>4. \A f \in Worker : /\ f \in dead' <=> Writes(f)' >= ITERATIONS
                        /\ i'[f] = IF Writes(f)' <= 0 THEN 0 ELSE IF f \in dead' THEN ITERATIONS ELSE Writes(f)'
                        /\ temp'[f] = IF Holds(f)' THEN shared_counter' ELSE None
  <2>1. \A f \in Worker : f = 1 \/ f = 2
    OBVIOUS
  <2> QED BY <2>1, <1>1
<1>5. locked' = IF \E f \in Worker : Holds(f)' THEN 1 ELSE 0
  BY <1>1
<1> QED BY <1>3, <1>4, <1>5 DEF InTurn

\* What the workers have done after a step, as numbers.
LEMMA NumbersAfter ==
  ASSUME CountsAssumption, i'[0] \in Nat, running' \in {0, 1, 2}
  PROVE  /\ Writes(1)' = (IF running' = 1 THEN i'[0] - 2 ELSE i'[0] - 1)
         /\ Writes(2)' = (IF running' \in {1, 2} THEN i'[0] - 2 ELSE i'[0] - 1) - ITERATIONS
BY DEF Writes, Rounds

\* main yields: another round, and nobody has written.
LEMMA MainYieldKeeps ==
  ASSUME CountsAssumption, InTurn, MainYield
  PROVE  InTurn'
<1>1. /\ ~exited /\ running = 0 /\ i[0] < YIELDS /\ i' = [i EXCEPT ![0] = @ + 1]
      /\ RoundRobin(Set("RUNNABLE")) /\ dead' = dead /\ UNCHANGED <<locked, shared_counter, temp>>
  BY DEF MainYield, thread_yield, thread_schedule
<1>2. i'[0] = i[0] + 1 /\ i'[1] = i[1] /\ i'[2] = i[2] /\ i' \in [Flow -> Nat]
  BY <1>1, Facts
<1>3. /\ running' = After(0, dead) /\ current_thread' = running' /\ ~exited' /\ created' = 2
      /\ running' \in {0, 1, 2} \ dead' /\ dead' \subseteq Worker
      /\ \A s \in Slot : IF s \in dead' \/ s > 2 THEN state'[s] = "FREE"
                         ELSE state'[s] = "RUNNABLE" \/ (s = running' /\ state'[s] = "RUNNING")
      /\ \A s \in {0, 1, 2} \ {running'} : context'[s] = s
      /\ TableTypes({})'
  BY <1>1, TurnEnds
<1>4. /\ Writes(1)' = (IF running' = 1 THEN i[0] - 1 ELSE i[0])
      /\ Writes(2)' = (IF running' \in {1, 2} THEN i[0] - 1 ELSE i[0]) - ITERATIONS
  <2>1. i[0] \in Nat
    BY Numbers
  <2> QED BY <2>1, <1>2, <1>3, NumbersAfter
<1>5. Writes(1) = i[0] - 1 /\ Writes(2) = i[0] - 1 - ITERATIONS
  BY <1>1, Numbers
<1>6. temp' \in [Worker -> Nat \cup {None}] /\ i[0] \in Nat
  BY <1>1, Facts
<1>7. /\ 1 \in dead' <=> Writes(1)' >= ITERATIONS
      /\ i'[1] = IF Writes(1)' <= 0 THEN 0 ELSE IF 1 \in dead' THEN ITERATIONS ELSE Writes(1)'
      /\ temp'[1] = IF Writes(1)' >= 0 /\ 1 \notin dead' THEN shared_counter' ELSE None
      /\ (Writes(1)' >= 0 /\ 1 \notin dead') <=> (Writes(1) >= 0 /\ 1 \notin dead)
  BY <1>1, <1>2, <1>3, <1>4, <1>5, <1>6, Numbers DEF After
<1>8. /\ 2 \in dead' <=> Writes(2)' >= ITERATIONS
      /\ i'[2] = IF Writes(2)' <= 0 THEN 0 ELSE IF 2 \in dead' THEN ITERATIONS ELSE Writes(2)'
      /\ temp'[2] = IF Writes(2)' >= 0 /\ 2 \notin dead' THEN shared_counter' ELSE None
      /\ (Writes(2)' >= 0 /\ 2 \notin dead') <=> (Writes(2) >= 0 /\ 2 \notin dead)
  BY <1>1, <1>2, <1>3, <1>4, <1>5, <1>6, Numbers DEF After
<1>9. /\ locked' = IF (Writes(1)' >= 0 /\ 1 \notin dead') \/ (Writes(2)' >= 0 /\ 2 \notin dead') THEN 1 ELSE 0
      /\ shared_counter' = i'[1] + i'[2]
  BY <1>1, <1>2, <1>7, <1>8, Numbers
<1>10. Writes(1)' \in Int /\ Writes(2)' \in Int /\ i'[0] <= YIELDS /\ i'[0] > 0
  BY <1>1, <1>2, <1>4, <1>6
<1> QED BY <1>2, <1>3, <1>6, <1>7, <1>8, <1>9, <1>10, FromNumbers

\* A worker tries the lock: the first one gets it in the first round, the second one in
\* the round in which the first has ended, and until then it waits.
LEMMA TryLockKeeps ==
  ASSUME CountsAssumption, InTurn, TryLock
  PROVE  InTurn'
<1>1. /\ ~exited /\ running \in {1, 2} /\ temp[running] = None /\ locked' = 1
      /\ temp' = [temp EXCEPT ![running] = IF locked = 0 THEN shared_counter ELSE None]
      /\ RoundRobin(Set("RUNNABLE")) /\ dead' = dead /\ UNCHANGED <<shared_counter, i>>
  BY DEF TryLock, mutex_lock, thread_yield, thread_schedule
<1>2. running \notin dead /\ i[0] <= YIELDS /\ i[0] > 0 /\ i[0] \in Nat
  BY <1>1, Numbers DEF InTurn
<1>3. /\ running' = After(running, dead') /\ current_thread' = running' /\ ~exited' /\ created' = 2
      /\ running' \in {0, 1, 2} \ dead' /\ dead' \subseteq Worker
      /\ \A s \in Slot : IF s \in dead' \/ s > 2 THEN state'[s] = "FREE"
                         ELSE state'[s] = "RUNNABLE" \/ (s = running' /\ state'[s] = "RUNNING")
      /\ \A s \in {0, 1, 2} \ {running'} : context'[s] = s
      /\ TableTypes({})'
  BY <1>1, TurnEnds
<1>4. None \notin Nat /\ shared_counter \in Nat
  BY Facts DEF None
<1>5. temp' \in [Worker -> Nat \cup {None}] /\ i' \in [Flow -> Nat]
  BY <1>1, <1>4, Facts
<1>6. /\ Writes(1)' = (IF running' = 1 THEN i[0] - 2 ELSE i[0] - 1)
      /\ Writes(2)' = (IF running' \in {1, 2} THEN i[0] - 2 ELSE i[0] - 1) - ITERATIONS
  BY <1>1, <1>2, <1>3, NumbersAfter
<1>7. CASE running = 1
  <2>1. Writes(1) = i[0] - 2 /\ Writes(2) = i[0] - 2 - ITERATIONS /\ Writes(1) < 0
    BY <1>1, <1>2, <1>4, <1>7, Numbers
  <2>2. i[0] = 1 /\ locked = 0 /\ dead = {}
    BY <2>1, <1>2, <1>3, <1>1, Numbers
  <2>3. running' = 2 /\ Writes(1)' = 0 /\ Writes(2)' = 0 - 1 - ITERATIONS
    BY <2>2, <1>1, <1>3, <1>6, <1>7 DEF After
  <2>4. temp'[1] = shared_counter /\ temp'[2] = None /\ i[1] = 0 /\ i[2] = 0
    BY <2>1, <2>2, <1>1, <1>7, Numbers, Facts
  <2>5. /\ 1 \in dead' <=> Writes(1)' >= ITERATIONS
        /\ 2 \in dead' <=> Writes(2)' >= ITERATIONS
        /\ i'[1] = IF Writes(1)' <= 0 THEN 0 ELSE IF 1 \in dead' THEN ITERATIONS ELSE Writes(1)'
        /\ i'[2] = IF Writes(2)' <= 0 THEN 0 ELSE IF 2 \in dead' THEN ITERATIONS ELSE Writes(2)'
        /\ temp'[1] = IF Writes(1)' >= 0 /\ 1 \notin dead' THEN shared_counter' ELSE None
        /\ temp'[2] = IF Writes(2)' >= 0 /\ 2 \notin dead' THEN shared_counter' ELSE None
        /\ locked' = IF (Writes(1)' >= 0 /\ 1 \notin dead') \/ (Writes(2)' >= 0 /\ 2 \notin dead') THEN 1 ELSE 0
        /\ shared_counter' = i'[1] + i'[2]
    BY <2>1, <2>2, <2>3, <2>4, <1>1, Numbers
  <2> QED BY <2>3, <2>5, <1>1, <1>2, <1>3, <1>5, FromNumbers
<1>8. CASE running = 2
  <2>1. Writes(1) = i[0] - 1 /\ Writes(2) = i[0] - 2 - ITERATIONS /\ Writes(2) < 0
    BY <1>1, <1>2, <1>4, <1>8, Numbers
  <2>2. running' = 0 /\ Writes(1)' = i[0] - 1 /\ Writes(2)' = i[0] - 1 - ITERATIONS
    BY <1>1, <1>3, <1>6, <1>8 DEF After
  <2>3. 2 \notin dead /\ i[2] = 0 /\ temp[2] = None /\ ~Holds(2)
    BY <2>1, <1>2, <1>8, Numbers
  <2>4. locked = 0 <=> Writes(2)' = 0
    BY <2>1, <2>2, <2>3, <1>2, Numbers
  <2>5. Writes(2)' <= 0 /\ (Writes(2)' >= 0 => 1 \in dead)
    BY <2>1, <2>2, <1>2, Numbers
  <2>6. temp'[1] = temp[1] /\ temp'[2] = IF locked = 0 THEN shared_counter ELSE None
    BY <1>1, <1>8, Facts
  <2>7. /\ 1 \in dead' <=> Writes(1)' >= ITERATIONS
        /\ 2 \in dead' <=> Writes(2)' >= ITERATIONS
        /\ i'[1] = IF Writes(1)' <= 0 THEN 0 ELSE IF 1 \in dead' THEN ITERATIONS ELSE Writes(1)'
        /\ i'[2] = IF Writes(2)' <= 0 THEN 0 ELSE IF 2 \in dead' THEN ITERATIONS ELSE Writes(2)'
        /\ temp'[1] = IF Writes(1)' >= 0 /\ 1 \notin dead' THEN shared_counter' ELSE None
        /\ temp'[2] = IF Writes(2)' >= 0 /\ 2 \notin dead' THEN shared_counter' ELSE None
        /\ locked' = IF (Writes(1)' >= 0 /\ 1 \notin dead') \/ (Writes(2)' >= 0 /\ 2 \notin dead') THEN 1 ELSE 0
        /\ shared_counter' = i'[1] + i'[2]
    BY <2>1, <2>2, <2>3, <2>4, <2>5, <2>6, <1>1, Numbers
  <2> QED BY <2>2, <2>7, <1>1, <1>2, <1>3, <1>5, FromNumbers
<1> QED BY <1>1, <1>7, <1>8

\* A worker that holds the lock writes: its copy is the counter, and it takes the lock
\* again, or ends and leaves it free.
LEMMA WriteKeeps ==
  ASSUME CountsAssumption, InTurn, Write
  PROVE  InTurn'
<1> DEFINE more == i[running] + 1 < ITERATIONS
<1>1. /\ ~exited /\ running \in {1, 2} /\ temp[running] # None /\ shared_counter' = temp[running] + 1
      /\ i' = [i EXCEPT ![running] = @ + 1]
  BY DEF Write
<1>2. running \notin dead /\ i[0] <= YIELDS /\ i[0] > 0 /\ i[0] \in Nat
  BY <1>1, Numbers DEF InTurn
<1>4. None \notin Nat /\ shared_counter \in Nat
  BY Facts DEF None
<1>5. Holds(running) /\ shared_counter' = shared_counter + 1 /\ i[running] = Writes(running) /\ Writes(running) >= 0
  BY <1>1, <1>2, Numbers
<1>6. /\ i' \in [Flow -> Nat] /\ i'[running] = i[running] + 1 /\ i'[0] = i[0]
      /\ \A f \in {1, 2} \ {running} : i'[f] = i[f]
  BY <1>1, Facts
<1>7. /\ locked' = IF more THEN 1 ELSE 0
      /\ temp' = [temp EXCEPT ![running] = IF more THEN shared_counter' ELSE None]
      /\ RoundRobin(Set(IF more THEN "RUNNABLE" ELSE "FREE"))
      /\ dead' = IF more THEN dead ELSE dead \cup {running}
  BY <1>6 DEF Write, mutex_lock, Finish, thread_yield, thread_schedule
<1>8. temp' \in [Worker -> Nat \cup {None}]
  <2>1. shared_counter' \in Nat /\ (IF more THEN shared_counter' ELSE None) \in Nat \cup {None}
    BY <1>4, <1>5
  <2>2. temp \in [Worker -> Nat \cup {None}]
    BY Facts
  <2> HIDE DEF more
  <2> QED BY <2>1, <2>2, <1>7
<1> HIDE DEF more
<1>3. /\ running' = After(running, dead') /\ current_thread' = running' /\ ~exited' /\ created' = 2
      /\ running' \in {0, 1, 2} \ dead' /\ dead' \subseteq Worker
      /\ \A s \in Slot : IF s \in dead' \/ s > 2 THEN state'[s] = "FREE"
                         ELSE state'[s] = "RUNNABLE" \/ (s = running' /\ state'[s] = "RUNNING")
      /\ \A s \in {0, 1, 2} \ {running'} : context'[s] = s
      /\ TableTypes({})'
  <2>1. CASE more
    BY <2>1, <1>1, <1>7, TurnEnds
  <2>2. CASE ~more
    BY <2>2, <1>1, <1>7, TurnEnds
  <2> QED BY <2>1, <2>2
<1>9. /\ Writes(1)' = (IF running' = 1 THEN i[0] - 2 ELSE i[0] - 1)
      /\ Writes(2)' = (IF running' \in {1, 2} THEN i[0] - 2 ELSE i[0] - 1) - ITERATIONS
  BY <1>2, <1>3, <1>6, NumbersAfter
<1>10. CASE running = 1
  <2>1. Writes(1) = i[0] - 2 /\ Writes(2) = i[0] - 2 - ITERATIONS /\ 1 \notin dead /\ Writes(1) < ITERATIONS
    BY <1>2, <1>10, Numbers
  <2>2. Writes(2) < 0 /\ 2 \notin dead /\ i[2] = 0 /\ temp[2] = None /\ ~Holds(2)
    BY <2>1, <1>2, Numbers
  <2>3. running' = 2
    BY <2>2, <1>3, <1>7, <1>10 DEF After
  <2>4. Writes(1)' = Writes(1) + 1 /\ Writes(2)' = Writes(2) /\ (more <=> Writes(1)' < ITERATIONS)
    BY <2>1, <2>3, <1>2, <1>5, <1>9, <1>10 DEF more
  <2>5. temp'[2] = None /\ temp'[1] = IF more THEN shared_counter' ELSE None
    BY <2>2, <1>7, <1>10, Facts
  <2>6. /\ 1 \in dead' <=> Writes(1)' >= ITERATIONS
        /\ 2 \in dead' <=> Writes(2)' >= ITERATIONS
        /\ i'[1] = IF Writes(1)' <= 0 THEN 0 ELSE IF 1 \in dead' THEN ITERATIONS ELSE Writes(1)'
        /\ i'[2] = IF Writes(2)' <= 0 THEN 0 ELSE IF 2 \in dead' THEN ITERATIONS ELSE Writes(2)'
        /\ temp'[1] = IF Writes(1)' >= 0 /\ 1 \notin dead' THEN shared_counter' ELSE None
        /\ temp'[2] = IF Writes(2)' >= 0 /\ 2 \notin dead' THEN shared_counter' ELSE None
        /\ locked' = IF (Writes(1)' >= 0 /\ 1 \notin dead') \/ (Writes(2)' >= 0 /\ 2 \notin dead') THEN 1 ELSE 0
        /\ shared_counter' = i'[1] + i'[2]
    BY <2>1, <2>2, <2>4, <2>5, <1>2, <1>5, <1>6, <1>7, <1>10, Numbers
  <2> QED BY <2>1, <2>4, <2>6, <1>2, <1>3, <1>6, <1>8, FromNumbers
<1>11. CASE running = 2
  <2>1. Writes(1) = i[0] - 1 /\ Writes(2) = i[0] - 2 - ITERATIONS /\ 2 \notin dead /\ Writes(2) < ITERATIONS
    BY <1>2, <1>11, Numbers
  <2>2. 1 \in dead /\ Writes(1) >= ITERATIONS /\ i[1] = ITERATIONS /\ temp[1] = None
    BY <2>1, <1>2, <1>5, <1>11, Numbers
  <2>3. running' = 0
    BY <1>3, <1>11 DEF After
  <2>4. Writes(1)' = Writes(1) /\ Writes(2)' = Writes(2) + 1 /\ (more <=> Writes(2)' < ITERATIONS)
    BY <2>1, <2>3, <1>2, <1>5, <1>9, <1>11 DEF more
  <2>5. temp'[1] = None /\ temp'[2] = IF more THEN shared_counter' ELSE None
    BY <2>2, <1>7, <1>11, Facts
  <2>6. /\ 1 \in dead' <=> Writes(1)' >= ITERATIONS
        /\ 2 \in dead' <=> Writes(2)' >= ITERATIONS
        /\ i'[1] = IF Writes(1)' <= 0 THEN 0 ELSE IF 1 \in dead' THEN ITERATIONS ELSE Writes(1)'
        /\ i'[2] = IF Writes(2)' <= 0 THEN 0 ELSE IF 2 \in dead' THEN ITERATIONS ELSE Writes(2)'
        /\ temp'[1] = IF Writes(1)' >= 0 /\ 1 \notin dead' THEN shared_counter' ELSE None
        /\ temp'[2] = IF Writes(2)' >= 0 /\ 2 \notin dead' THEN shared_counter' ELSE None
        /\ locked' = IF (Writes(1)' >= 0 /\ 1 \notin dead') \/ (Writes(2)' >= 0 /\ 2 \notin dead') THEN 1 ELSE 0
        /\ shared_counter' = i'[1] + i'[2]
    BY <2>1, <2>2, <2>4, <2>5, <1>2, <1>5, <1>6, <1>7, <1>11, Numbers
  <2> QED BY <2>1, <2>4, <2>6, <1>2, <1>3, <1>6, <1>8, FromNumbers
<1> QED BY <1>1, <1>10, <1>11

\* main has yielded often enough, or so it thinks.
LEMMA MainExitKeeps ==
  ASSUME CountsAssumption, InTurn, MainExit
  PROVE  InTurn'
<1>1. /\ running = 0 /\ i[0] = YIELDS /\ exited' = TRUE
      /\ UNCHANGED <<state, current_thread, context, running, created, dead, locked, shared_counter, i, temp>>
  BY DEF MainExit
<1>2. MutexTypes'
  BY <1>1 DEF InTurn, MutexTypes, TableTypes
<1>3. \A f \in Worker : Writes(f)' = Writes(f) /\ (Holds(f)' <=> Holds(f))
  BY <1>1 DEF Writes, Rounds, Holds
<1> QED BY <1>1, <1>2, <1>3 DEF InTurn

\* Every step keeps the invariant.
LEMMA StepInTurn ==
  ASSUME CountsAssumption, InTurn, [MutexNext]_vars
  PROVE  InTurn'
<1>1. CASE UNCHANGED vars
  <2>1. MutexTypes'
    BY <1>1 DEF InTurn, MutexTypes, TableTypes, vars, tableVars
  <2>2. \A f \in Worker : Writes(f)' = Writes(f) /\ (Holds(f)' <=> Holds(f))
    BY <1>1 DEF Writes, Rounds, Holds, vars, tableVars
  <2> QED BY <1>1, <2>1, <2>2 DEF InTurn, vars, tableVars
<1> QED BY <1>1, TryLockKeeps, WriteKeeps, MainYieldKeeps, MainExitKeeps DEF MutexNext

\* The turns of w5labs/uthreads4.c: main and the workers go round, the first worker makes
\* one iteration in each round and then the second one does.
THEOREM Invariance == ASSUME CountsAssumption PROVE MutexSpec => []InTurn
<1>1. MutexInit => InTurn
  BY InitInTurn
<1>2. InTurn /\ [MutexNext]_vars => InTurn'
  BY StepInTurn
<1> QED BY <1>1, <1>2, PTL DEF MutexSpec

\* Each of the three runs, is parked in its own slot, or has ended.
LEMMA TurnsKeepFlows ==
  ASSUME CountsAssumption, InTurn
  PROVE  FlowsKept
<1>1. Live = {0, 1, 2} \ dead /\ running \in Live
  BY DEF InTurn, Live
<1>2. Parked = ({0, 1, 2} \ dead) \ {running}
  BY Facts DEF InTurn, Parked
<1>3. state[current_thread] \in {"RUNNING", "RUNNABLE"}
  BY Facts DEF InTurn
<1>4. \A s \in Parked : context[s] = s /\ state[s] # "RUNNING"
  BY <1>2, Facts DEF InTurn
<1> QED BY <1>1, <1>2, <1>3, <1>4 DEF FlowsKept

\* The two workers never hold the lock together.
LEMMA TurnsCount ==
  ASSUME CountsAssumption, InTurn
  PROVE  NoLostIncrement
<1>1. ~(Holds(1) /\ Holds(2))
  BY Numbers, Facts
<1>2. \A f, g \in Worker : temp[f] # None /\ temp[g] # None => f = g
  BY <1>1, Numbers
<1> QED BY <1>2, Numbers DEF NoLostIncrement, InTurn

\* After enough rounds both workers have ended.
LEMMA TurnsPrintAll ==
  ASSUME CountsAssumption, YIELDS > 2 * ITERATIONS, InTurn
  PROVE  FinalCounter
<1> SUFFICES ASSUME exited
             PROVE  shared_counter = 2 * ITERATIONS /\ Worker \subseteq dead
  BY DEF FinalCounter
<1>1. running = 0 /\ i[0] = YIELDS
  BY DEF InTurn
<1>2. Writes(1) = YIELDS - 1 /\ Writes(2) = YIELDS - 1 - ITERATIONS
  BY <1>1, Numbers
<1>3. 1 \in dead /\ 2 \in dead
  BY <1>2, Numbers
<1> QED BY <1>2, <1>3, Numbers

\* "Yield enough times for workers to finish" (line 83) is right for more than
\* 2 * ITERATIONS yields: main then prints the work of both workers.
THEOREM PrintsAll == ASSUME CountsAssumption, YIELDS > 2 * ITERATIONS PROVE MutexSpec => []FinalCounter
<1>1. InTurn => FinalCounter
  BY TurnsPrintAll
<1> QED BY <1>1, Invariance, PTL
-----------------------------------------------------------------------------
(* uthreads2.c. *)

\* A call of thread_schedule: the state that the caller gives its slot, and whether it ends.
Calls(x) == ~exited /\ dead' = IF x = "FREE" THEN dead \cup {running} ELSE dead

\* best_priority starts at 9999, and main's threads have lower numbers.
LowNumbers == \A p \in Priorities : p < 9999

\* The table is kept for all priorities, and nobody is abandoned if they are low enough.
PriorityInv ==
  /\ TableTypes({}) /\ FlowsKept /\ priority \in [Slot -> Priorities \cup {0}]
  /\ LowNumbers => NoneAbandoned /\ (exited => With("RUNNABLE") = {})

\* The steps of the package.
LEMMA PrioritySteps ==
  ASSUME Priority!Next \/ UNCHANGED <<tableVars, priority>>
  PROVE  \/ \E s \in Slot, p \in Priorities : CreateIn(s) /\ priority' = [priority EXCEPT ![s] = p]
         \/ \E x \in {"RUNNABLE", "FREE"} :
              /\ Calls(x) /\ priority' = priority
              /\ \/ Priority!Eligible(Set(x)) = {} /\ ExitProcess(Set(x))
                 \/ \E next \in Priority!Eligible(Set(x)) :
                      (\A u \in Priority!Eligible(Set(x)) : Priority!Before(next, u)) /\ SwitchTo(Set(x), next)
         \/ UNCHANGED <<tableVars, priority>>
<1>1. Priority!thread_create => \E s \in Slot, p \in Priorities : CreateIn(s) /\ priority' = [priority EXCEPT ![s] = p]
  BY DEF Priority!thread_create, Priority!Slot, Slot, Priority!CreateIn, CreateIn, Priority!With, With
<1>2. \A x : Priority!Set(x) = Set(x)
  BY DEF Priority!Set, Set
<1>3. ASSUME NEW x, Priority!thread_schedule(Set(x))
      PROVE  \/ Priority!Eligible(Set(x)) = {} /\ ExitProcess(Set(x))
             \/ \E next \in Priority!Eligible(Set(x)) :
                  (\A u \in Priority!Eligible(Set(x)) : Priority!Before(next, u)) /\ SwitchTo(Set(x), next)
  BY <1>3 DEF Priority!thread_schedule, Priority!ExitProcess, ExitProcess, Priority!SwitchTo, SwitchTo
<1>4. CASE Priority!thread_yield
  BY <1>2, <1>3, <1>4 DEF Priority!thread_yield, Calls
<1>5. CASE Priority!Finish
  BY <1>2, <1>3, <1>5 DEF Priority!Finish, Calls
<1>6. CASE Priority!Ended /\ UNCHANGED priority
  BY <1>6 DEF Priority!Ended, Priority!tableVars, tableVars
<1> QED BY <1>1, <1>4, <1>5, <1>6 DEF Priority!Next

LEMMA PriorityInit ==
  ASSUME Priority!Init
  PROVE  PriorityInv
<1>1. TableInit /\ priority = [s \in Slot |-> 0]
  BY DEF Priority!Init, Priority!TableInit, TableInit, Priority!Slot, Slot, Priority!NoFlow, NoFlow
<1>2. PlainKept
  BY <1>1, PlainInit
<1> QED BY <1>1, <1>2 DEF PriorityInv, PlainKept, TableInit

\* Every step keeps the table, and leaves nobody with a lower number RUNNABLE.
LEMMA PriorityStep ==
  ASSUME PackagesAssumption, PriorityInv, Priority!Next \/ UNCHANGED <<tableVars, priority>>
  PROVE  PriorityInv' /\ Priority!LowestFirst
<1>0. TableTypes({}) /\ FlowsKept /\ priority \in [Slot -> Priorities \cup {0}]
  BY DEF PriorityInv
<1>a. ASSUME NEW s \in Slot
      PROVE  priority[s] \in Int
  <2>1. Priorities \cup {0} \subseteq Int
    BY DEF PackagesAssumption
  <2>2. priority[s] \in Priorities \cup {0}
    BY <1>0
  <2> QED BY <2>1, <2>2, Zenon
<1>b. ASSUME LowNumbers, NEW s \in Slot
      PROVE  priority[s] < 9999
  <2>1. CASE priority[s] \in Priorities
    BY <1>a, <1>b, <2>1 DEF LowNumbers
  <2>2. CASE priority[s] = 0
    BY <2>2
  <2> QED BY <1>0, <2>1, <2>2
<1>1. ASSUME NEW s \in Slot, NEW p \in Priorities, CreateIn(s), priority' = [priority EXCEPT ![s] = p]
      PROVE  PriorityInv' /\ Priority!LowestFirst
  <2>1. TableTypes({})' /\ FlowsKept' /\ ~exited' /\ current_thread' = current_thread
    BY <1>0, <1>1, CreateKeeps DEF CreateIn
  <2>2. priority' \in [Slot -> Priorities \cup {0}]
    BY <1>0, <1>1
  <2> QED BY <2>1, <2>2 DEF PriorityInv, NoneAbandoned, Priority!LowestFirst
<1>2. ASSUME NEW x \in {"RUNNABLE", "FREE"}, Calls(x), priority' = priority,
             Priority!Eligible(Set(x)) = {}, ExitProcess(Set(x))
      PROVE  PriorityInv' /\ Priority!LowestFirst
  <2>1. TableTypes({})' /\ FlowsKept'
    BY <1>0, <1>2, CallerPrepares, ScheduleKeeps DEF Calls, Gone
  <2>2. current_thread' = current_thread /\ state' = Set(x) /\ exited'
    BY <1>2 DEF ExitProcess
  <2>3. ASSUME LowNumbers
        PROVE  NoneAbandoned' /\ With("RUNNABLE")' = {}
    <3>1. Priority!Eligible(Set(x)) = Ready(Set(x))
      BY <1>b, <2>3 DEF Priority!Eligible, Priority!Ready, Priority!Slot, Ready, Slot
    <3>2. PlainKept
      BY <2>3 DEF PriorityInv, PlainKept
    <3>3. PlainKept'
      BY <1>2, <3>1, <3>2, PlainSchedule DEF Calls
    <3> QED BY <1>2, <2>2, <3>1, <3>3 DEF PlainKept, With, Ready
  <2> QED BY <1>0, <1>2, <2>1, <2>2, <2>3 DEF PriorityInv, Priority!LowestFirst
<1>3. ASSUME NEW x \in {"RUNNABLE", "FREE"}, Calls(x), priority' = priority,
             NEW next \in Priority!Eligible(Set(x)), SwitchTo(Set(x), next),
             \A u \in Priority!Eligible(Set(x)) : Priority!Before(next, u)
      PROVE  PriorityInv' /\ Priority!LowestFirst
  <2>1. next \in Ready(Set(x)) /\ next \in Slot /\ priority[next] < 9999
    BY DEF Priority!Eligible, Priority!Ready, Priority!Slot, Ready, Slot
  <2>2. TableTypes({})' /\ FlowsKept'
    BY <1>0, <1>3, <2>1, CallerPrepares, ScheduleKeeps DEF Calls, Gone
  <2>3. ~exited'
    BY <1>3 DEF SwitchTo, Calls
  <2>4. ASSUME current_thread' # current_thread, NEW s \in Slot, state'[s] = "RUNNABLE"
        PROVE  priority[current_thread'] <= priority[s]
    <3>1. current_thread' = next /\ state' = [Set(x) EXCEPT ![next] = "RUNNING"]
      BY <1>3, <2>4 DEF SwitchTo
    <3>2. s \in Ready(Set(x))
      BY <1>0, <2>1, <2>4, <3>1, TableFacts DEF Ready, Set
    <3>3. priority[s] \in Int /\ priority[next] \in Int
      BY <1>a, <2>1
    <3>4. CASE priority[s] < 9999
      <4>1. s \in Priority!Eligible(Set(x))
        BY <3>2, <3>4 DEF Priority!Eligible, Priority!Ready, Priority!Slot, Ready, Slot
      <4> QED BY <1>3, <3>1, <3>3, <4>1 DEF Priority!Before
    <3>5. CASE ~(priority[s] < 9999)
      BY <2>1, <3>1, <3>3, <3>5
    <3> QED BY <3>4, <3>5
  <2> QED BY <1>0, <1>3, <2>2, <2>3, <2>4 DEF PriorityInv, NoneAbandoned, Priority!LowestFirst, Priority!Slot, Slot
<1>4. CASE UNCHANGED <<tableVars, priority>>
  <2>1. TableTypes({})' /\ FlowsKept' /\ Live' = Live
    BY <1>0, <1>4, TableStands
  <2> QED BY <1>4, <2>1 DEF tableVars, PriorityInv, NoneAbandoned, With, Priority!LowestFirst
<1> QED BY <1>1, <1>2, <1>3, <1>4, PrioritySteps

\* With low numbers the steps are those of coroutines.
LEMMA PriorityRefines ==
  ASSUME LowNumbers, PriorityInv, Priority!Next \/ UNCHANGED <<tableVars, priority>>
  PROVE  Coroutines!Next \/ UNCHANGED Coroutines!coVars
<1>0. PlainKept /\ \A x : Priority!Eligible(Set(x)) = Ready(Set(x))
  <2>1. \A s \in Slot : priority[s] < 9999
    BY DEF LowNumbers, PriorityInv
  <2> QED BY <2>1 DEF PriorityInv, PlainKept, Priority!Eligible, Priority!Ready, Priority!Slot, Ready, Slot
<1>1. CASE UNCHANGED <<tableVars, priority>>
  BY <1>0, <1>1, PlainStands
<1> QED BY <1>0, <1>1, PrioritySteps, PlainCreate, PlainSchedule DEF Calls
-----------------------------------------------------------------------------
(* uthreads8.c. *)

\* Flow f has id f, and the slot of each flow that has not ended holds its id.
TidInv ==
  /\ PlainKept
  /\ next_tid = created + 1 /\ tid \in [Slot -> Flow] /\ handle \in [Flow -> Flow]
  /\ \A f \in 0 .. created : handle[f] = f
  /\ ~exited => \A s \in Parked \cup {current_thread} : tid[s] = Occupant(s)

LEMMA TidSteps ==
  ASSUME Tids!Next \/ UNCHANGED <<tableVars, tid, next_tid, handle>>
  PROVE  \/ \E s \in Slot :
              /\ CreateIn(s) /\ tid' = [tid EXCEPT ![s] = next_tid] /\ next_tid' = next_tid + 1
              /\ handle' = [handle EXCEPT ![created'] = tid'[s]]
         \/ \E x \in {"RUNNABLE", "FREE"} :
              Calls(x) /\ RoundRobin(Set(x)) /\ UNCHANGED <<tid, next_tid, handle>>
         \/ UNCHANGED <<tableVars, tid, next_tid, handle>>
<1>1. CASE Tids!thread_create
  BY <1>1 DEF Tids!thread_create, Tids!Slot, Slot, Tids!CreateIn, CreateIn, Tids!With, With
<1>2. \A x : Tids!Set(x) = Set(x)
  BY DEF Tids!Set, Set
<1>3. ASSUME NEW x, Tids!thread_schedule(Set(x))
      PROVE  RoundRobin(Set(x))
  BY <1>3 DEF Tids!thread_schedule, Tids!RoundRobin, RoundRobin, Tids!Ready, Ready, Tids!Slot, Slot,
              Tids!Dist, Dist, Tids!ExitProcess, ExitProcess, Tids!SwitchTo, SwitchTo
<1>4. CASE Tids!thread_yield
  BY <1>2, <1>3, <1>4 DEF Tids!thread_yield, Calls
<1>5. CASE Tids!Finish
  BY <1>2, <1>3, <1>5 DEF Tids!Finish, Calls
<1>6. CASE Tids!Ended /\ UNCHANGED Tids!vars
  BY <1>6 DEF Tids!Ended, Tids!vars, Tids!tableVars, tableVars
<1> QED BY <1>1, <1>4, <1>5, <1>6 DEF Tids!Next

LEMMA TidInit ==
  ASSUME Tids!Init
  PROVE  TidInv
<1>1. /\ TableInit /\ tid = [s \in Slot |-> 0] /\ next_tid = 1 /\ handle = [f \in Flow |-> 0]
  BY DEF Tids!Init, Tids!TableInit, TableInit, Tids!Slot, Slot, Tids!NoFlow, NoFlow, Tids!Flow, Flow
<1>2. PlainKept /\ 0 \in Flow /\ 0 .. 0 = {0}
  BY <1>1, PlainInit, ThreadsAssumption DEF Flow
<1>3. Parked = {} /\ current_thread \in Slot
  BY <1>1, <1>2, TableFacts DEF TableInit, Parked, PlainKept
<1> QED BY <1>1, <1>2, <1>3 DEF TidInv, Occupant, TableInit

LEMMA TidStep ==
  ASSUME TidInv, Tids!Next \/ UNCHANGED <<tableVars, tid, next_tid, handle>>
  PROVE  TidInv' /\ (Coroutines!Next \/ UNCHANGED Coroutines!coVars)
<1>0. PlainKept /\ TableTypes({}) /\ FlowsKept
  BY DEF TidInv, PlainKept
<1>1. ASSUME NEW s \in Slot, CreateIn(s), tid' = [tid EXCEPT ![s] = next_tid], next_tid' = next_tid + 1,
             handle' = [handle EXCEPT ![created'] = tid'[s]]
      PROVE  TidInv' /\ Coroutines!Next
  <2>1. PlainKept' /\ Coroutines!Next
    BY <1>0, <1>1, PlainCreate
  <2>2. /\ created' = created + 1 /\ created \in Nat /\ created' \in Flow /\ next_tid = created'
        /\ 0 .. created' = (0 .. created) \cup {created'} /\ created' \notin 0 .. created
        /\ 0 .. created \subseteq Flow
    <3>1. created' = created + 1 /\ created \in Nat /\ created < MaxCreate /\ MaxCreate \in Nat
      BY <1>0, <1>1, TableFacts, ThreadsAssumption DEF CreateIn
    <3>2. next_tid = created'
      BY <3>1 DEF TidInv
    <3> QED BY <3>1, <3>2 DEF Flow
  <2>3. tid' \in [Slot -> Flow] /\ handle' \in [Flow -> Flow] /\ \A f \in (0 .. created)' : handle'[f] = f
    BY <1>1, <2>2 DEF TidInv
  <2>4. Parked' \subseteq Parked \cup {s} /\ s # current_thread /\ current_thread' = current_thread /\ s \in Slot
    BY <1>0, <1>1, TableFacts DEF CreateIn, Parked, With, FlowsKept
  <2>5. \A u \in Parked' \cup {current_thread'} : tid'[u] = Occupant(u)'
    <3>1. \A u \in Slot : u # s => Occupant(u)' = Occupant(u) /\ tid'[u] = tid[u]
      BY <1>0, <1>1, TableFacts DEF CreateIn, Occupant, TidInv
    <3>2. Occupant(s)' = created' /\ tid'[s] = created'
      BY <1>0, <1>1, <2>2, <2>4, TableFacts DEF CreateIn, Occupant, TidInv
    <3>3. Parked \cup {current_thread} \subseteq Slot
      BY <1>0, TableFacts DEF Parked
    <3> QED BY <1>1, <2>4, <3>1, <3>2, <3>3 DEF TidInv, CreateIn
  <2> QED BY <1>1, <2>1, <2>2, <2>3, <2>5 DEF TidInv
<1>2. ASSUME NEW x \in {"RUNNABLE", "FREE"}, Calls(x), RoundRobin(Set(x)), UNCHANGED <<tid, next_tid, handle>>
      PROVE  TidInv' /\ (Coroutines!Next \/ UNCHANGED Coroutines!coVars)
  <2>1. PlainKept' /\ (Coroutines!Next \/ UNCHANGED Coroutines!coVars)
    BY <1>0, <1>2, PlainRoundRobin DEF Calls
  <2>2. ASSUME NEW next \in Ready(Set(x)), SwitchTo(Set(x), next)
        PROVE  TidInv'
    <3>1. \A s \in Slot : Occupant(s)' = Occupant(s)
      BY <1>0, <2>2, SwitchOccupants DEF Ready
    <3>2. Parked' \cup {current_thread'} \subseteq Parked \cup {current_thread} /\ Parked' \cup {current_thread'} \subseteq Slot
      BY <1>0, <1>2, <2>2, PlainCaller, TableFacts DEF Ready, SwitchTo, Parked, Calls
    <3> QED BY <1>2, <2>1, <2>2, <3>1, <3>2 DEF TidInv, SwitchTo, Calls
  <2>3. CASE ExitProcess(Set(x))
    BY <1>2, <2>1, <2>3 DEF TidInv, ExitProcess
  <2> QED BY <1>2, <2>1, <2>2, <2>3, RoundRobinCases
<1>3. CASE UNCHANGED <<tableVars, tid, next_tid, handle>>
  <2>1. PlainKept' /\ UNCHANGED Coroutines!coVars /\ Parked' = Parked
    BY <1>0, <1>3, PlainStands, TableStands
  <2> QED BY <1>3, <2>1 DEF TidInv, Occupant, tableVars
<1> QED BY <1>1, <1>2, <1>3, TidSteps

\* Each thread sees its own id, and no id is given twice.
LEMMA TidNames ==
  ASSUME TidInv
  PROVE  Tids!TypeOK /\ Tids!OwnTid /\ Tids!UniqueTids
<1>1. Tids!TypeOK
  <2>1. next_tid \in 1 .. MaxCreate + 1
    BY TableFacts, ThreadsAssumption DEF TidInv, PlainKept, Flow
  <2> QED BY <2>1 DEF TidInv, PlainKept, Tids!TypeOK, Tids!TableTypes, TableTypes, Tids!Slot, Slot,
                      Tids!Flow, Flow, Tids!NoFlow, NoFlow
<1>2. Tids!OwnTid
  <2>1. ASSUME ~exited
        PROVE  tid[current_thread] = running /\ running \in 0 .. created
    BY <2>1 DEF TidInv, Occupant, PlainKept, FlowsKept, Live
  <2> QED BY <2>1 DEF TidInv, Tids!OwnTid, Tids!get_tid
<1>3. Tids!UniqueTids
  BY DEF TidInv, Tids!UniqueTids
<1> QED BY <1>1, <1>2, <1>3
-----------------------------------------------------------------------------
(* uthreads9.c. *)

\* Nobody comes back to itself from a call, so the current thread is RUNNING.
YieldToInv == PlainKept /\ (~exited => state[current_thread] = "RUNNING")

\* A yield by name is a switch to a RUNNABLE thread, like any other.
LEMMA YieldToSteps ==
  ASSUME YieldToInv, YieldTo!Next \/ UNCHANGED tableVars
  PROVE  \/ \E s \in Slot : CreateIn(s)
         \/ Calls("FREE") /\ RoundRobin(Set("FREE"))
         \/ \E target \in Ready(Set("RUNNABLE")) \ {current_thread} :
              /\ Calls("RUNNABLE") /\ state[target] = "RUNNABLE"
              /\ SwitchTo(Set("RUNNABLE"), target)
         \/ UNCHANGED tableVars
<1>1. CASE YieldTo!thread_create
  BY <1>1 DEF YieldTo!thread_create, YieldTo!Slot, Slot, YieldTo!CreateIn, CreateIn, YieldTo!With, With
<1>2. CASE YieldTo!Finish
  BY <1>2 DEF YieldTo!Finish, YieldTo!Set, Set, YieldTo!thread_schedule, YieldTo!RoundRobin, RoundRobin,
              YieldTo!Ready, Ready, YieldTo!Slot, Slot, YieldTo!Dist, Dist,
              YieldTo!ExitProcess, ExitProcess, YieldTo!SwitchTo, SwitchTo, Calls
<1>3. ASSUME NEW target \in Slot, YieldTo!thread_yield_to(target)
      PROVE  /\ target \in Ready(Set("RUNNABLE")) \ {current_thread}
             /\ Calls("RUNNABLE") /\ state[target] = "RUNNABLE" /\ SwitchTo(Set("RUNNABLE"), target)
  <2>1. ~exited /\ state[target] = "RUNNABLE" /\ target # current_thread /\ current_thread \in Slot
    BY <1>3, TableFacts DEF YieldTo!thread_yield_to, YieldToInv, PlainKept
  <2>2. target \in Ready(Set("RUNNABLE"))
    BY <2>1, TableFacts DEF Ready, Set, YieldToInv, PlainKept
  <2>3. SwitchTo(Set("RUNNABLE"), target) /\ dead' = dead
    <3>1. [context EXCEPT ![current_thread] = running][target] = context[target]
      BY <2>1, TableFacts DEF YieldToInv, PlainKept
    <3> QED BY <1>3, <2>1, <3>1 DEF YieldTo!thread_yield_to, YieldTo!Set, Set, SwitchTo
  <2> QED BY <2>1, <2>2, <2>3 DEF Calls
<1>4. CASE YieldTo!Ended
  BY <1>4 DEF YieldTo!Ended, YieldTo!tableVars, tableVars
<1> QED BY <1>1, <1>2, <1>3, <1>4 DEF YieldTo!Next, YieldTo!Slot, Slot

LEMMA YieldToInit ==
  ASSUME YieldTo!Init
  PROVE  YieldToInv
<1>1. TableInit
  BY DEF YieldTo!Init, YieldTo!TableInit, TableInit, YieldTo!Slot, Slot, YieldTo!NoFlow, NoFlow
<1>2. PlainKept
  BY <1>1, PlainInit
<1> QED BY <1>1, <1>2, TableFacts DEF YieldToInv, TableInit, PlainKept

LEMMA YieldToStep ==
  ASSUME YieldToInv, YieldTo!Next \/ UNCHANGED tableVars
  PROVE  YieldToInv' /\ YieldTo!PassedOverByNameOnly /\ (Coroutines!Next \/ UNCHANGED Coroutines!coVars)
<1>0. PlainKept /\ TableTypes({})
  BY DEF YieldToInv, PlainKept
<1>1. ASSUME NEW s \in Slot, CreateIn(s)
      PROVE  YieldToInv' /\ YieldTo!PassedOverByNameOnly /\ Coroutines!Next
  <2>1. PlainKept' /\ Coroutines!Next
    BY <1>0, <1>1, PlainCreate
  <2>2. s # current_thread
    BY <1>0, <1>1 DEF PlainKept, FlowsKept, CreateIn, With
  <2> QED BY <1>0, <1>1, <2>1, <2>2, TableFacts DEF CreateIn, YieldToInv, YieldTo!PassedOverByNameOnly
<1>2. ASSUME Calls("FREE"), RoundRobin(Set("FREE"))
      PROVE  YieldToInv' /\ YieldTo!PassedOverByNameOnly /\ (Coroutines!Next \/ UNCHANGED Coroutines!coVars)
  <2>1. PlainKept' /\ (Coroutines!Next \/ UNCHANGED Coroutines!coVars)
    BY <1>0, <1>2, PlainRoundRobin DEF Calls
  <2>2. CASE ExitProcess(Set("FREE"))
    BY <2>1, <2>2 DEF ExitProcess, YieldToInv, YieldTo!PassedOverByNameOnly
  <2>3. ASSUME NEW next \in Ready(Set("FREE")), SwitchTo(Set("FREE"), next),
               \A u \in Ready(Set("FREE")) : Dist(current_thread, next) <= Dist(current_thread, u)
        PROVE  YieldToInv' /\ YieldTo!PassedOverByNameOnly
    <3>1. next # current_thread /\ next \in Slot
      BY <1>0, <1>2, PlainCaller, TableFacts DEF Calls, Ready
    <3>2. current_thread' = next /\ state'[next] = "RUNNING"
      BY <1>0, <2>3, <3>1, TableFacts DEF SwitchTo, Set
    <3>3. ASSUME NEW s \in Slot \ {current_thread}, state[s] = "RUNNABLE"
          PROVE  ~(Dist(current_thread, current_thread') > Dist(current_thread, s))
      <4>1. s \in Ready(Set("FREE"))
        BY <1>0, <3>3, TableFacts DEF Ready, Set
      <4>2. Dist(current_thread, next) \in Int /\ Dist(current_thread, s) \in Int
        BY <1>0, <3>1, TableFacts, ThreadsAssumption DEF Dist
      <4> QED BY <2>3, <3>2, <4>1, <4>2
    <3>4. YieldTo!PassedOverByNameOnly
      BY <3>3 DEF YieldTo!PassedOverByNameOnly, YieldTo!Slot, Slot, YieldTo!Dist, Dist
    <3> QED BY <2>1, <3>2, <3>4 DEF YieldToInv
  <2> QED BY <1>2, <2>1, <2>2, <2>3, RoundRobinCases
<1>3. ASSUME Calls("RUNNABLE"), NEW target \in Ready(Set("RUNNABLE")) \ {current_thread},
             state[target] = "RUNNABLE", SwitchTo(Set("RUNNABLE"), target)
      PROVE  YieldToInv' /\ YieldTo!PassedOverByNameOnly /\ (Coroutines!Next \/ UNCHANGED Coroutines!coVars)
  <2>1. PlainKept' /\ (Coroutines!Next \/ UNCHANGED Coroutines!coVars)
    BY <1>0, <1>3, PlainSchedule DEF Calls
  <2>2. /\ current_thread' = target /\ state'[target] = "RUNNING" /\ dead' = dead
        /\ state'[current_thread] = "RUNNABLE"
    BY <1>0, <1>3, TableFacts DEF SwitchTo, Set, Calls, Ready
  <2> QED BY <1>3, <2>1, <2>2 DEF YieldToInv, YieldTo!PassedOverByNameOnly
<1>4. CASE UNCHANGED tableVars
  BY <1>0, <1>4, PlainStands DEF tableVars, YieldToInv, YieldTo!PassedOverByNameOnly
<1> QED BY <1>1, <1>2, <1>3, <1>4, YieldToSteps
-----------------------------------------------------------------------------
(* uthreads10.c. *)

MLFQInv == PlainKept /\ queue_level \in [Slot -> {0, 1}]

\* The level of the caller after its own change: a yield drops it.
Level(x) == IF x = "FREE" THEN queue_level ELSE [queue_level EXCEPT ![current_thread] = 1]

LEMMA MLFQSteps ==
  ASSUME MLFQ!Next \/ UNCHANGED <<tableVars, queue_level>>
  PROVE  \/ \E s \in Slot : CreateIn(s) /\ queue_level' = [queue_level EXCEPT ![s] = 0]
         \/ \E x \in {"RUNNABLE", "FREE"} :
              /\ Calls(x) /\ queue_level' = Level(x)
              /\ \/ Ready(Set(x)) = {} /\ ExitProcess(Set(x))
                 \/ \E next \in Ready(Set(x)) :
                      /\ \A u \in Ready(Set(x)) :
                           \/ Level(x)[next] < Level(x)[u]
                           \/ Level(x)[next] = Level(x)[u] /\ next <= u
                      /\ SwitchTo(Set(x), next)
         \/ UNCHANGED <<tableVars, queue_level>>
<1>1. CASE MLFQ!thread_create
  BY <1>1 DEF MLFQ!thread_create, MLFQ!Slot, Slot, MLFQ!CreateIn, CreateIn, MLFQ!With, With
<1>2. \A x : MLFQ!Set(x) = Set(x)
  BY DEF MLFQ!Set, Set
<1>3. ASSUME NEW x, NEW level, MLFQ!thread_schedule(Set(x), level)
      PROVE  \/ Ready(Set(x)) = {} /\ ExitProcess(Set(x))
             \/ \E next \in Ready(Set(x)) :
                  /\ \A u \in Ready(Set(x)) : level[next] < level[u] \/ (level[next] = level[u] /\ next <= u)
                  /\ SwitchTo(Set(x), next)
  BY <1>3 DEF MLFQ!thread_schedule, MLFQ!Ready, Ready, MLFQ!Slot, Slot, MLFQ!ExitProcess, ExitProcess,
              MLFQ!SwitchTo, SwitchTo
<1>4. CASE MLFQ!thread_yield
  <2>1. queue_level' = Level("RUNNABLE") /\ MLFQ!thread_schedule(Set("RUNNABLE"), Level("RUNNABLE"))
    BY <1>2, <1>4 DEF MLFQ!thread_yield, Level
  <2> QED BY <1>3, <1>4, <2>1 DEF MLFQ!thread_yield, Calls
<1>5. CASE MLFQ!Finish
  <2>1. queue_level' = Level("FREE") /\ MLFQ!thread_schedule(Set("FREE"), Level("FREE"))
    BY <1>2, <1>5 DEF MLFQ!Finish, Level
  <2> QED BY <1>3, <1>5, <2>1 DEF MLFQ!Finish, Calls
<1>6. CASE MLFQ!Ended /\ UNCHANGED queue_level
  BY <1>6 DEF MLFQ!Ended, MLFQ!tableVars, tableVars
<1> QED BY <1>1, <1>4, <1>5, <1>6 DEF MLFQ!Next

LEMMA MLFQInit ==
  ASSUME MLFQ!Init
  PROVE  MLFQInv
<1>1. TableInit /\ queue_level = [s \in Slot |-> 0]
  BY DEF MLFQ!Init, MLFQ!TableInit, TableInit, MLFQ!Slot, Slot, MLFQ!NoFlow, NoFlow
<1> QED BY <1>1, PlainInit DEF MLFQInv

LEMMA MLFQStep ==
  ASSUME MLFQInv, MLFQ!Next \/ UNCHANGED <<tableVars, queue_level>>
  PROVE  MLFQInv' /\ MLFQ!YieldersWait /\ (Coroutines!Next \/ UNCHANGED Coroutines!coVars)
<1>0. PlainKept /\ TableTypes({}) /\ queue_level \in [Slot -> {0, 1}]
  BY DEF MLFQInv, PlainKept
<1>1. ASSUME NEW s \in Slot, CreateIn(s), queue_level' = [queue_level EXCEPT ![s] = 0]
      PROVE  MLFQInv' /\ MLFQ!YieldersWait /\ Coroutines!Next
  BY <1>0, <1>1, PlainCreate DEF CreateIn, MLFQInv, MLFQ!YieldersWait
<1>2. ASSUME NEW x \in {"RUNNABLE", "FREE"}, Calls(x), queue_level' = Level(x),
             Ready(Set(x)) = {}, ExitProcess(Set(x))
      PROVE  MLFQInv' /\ MLFQ!YieldersWait /\ (Coroutines!Next \/ UNCHANGED Coroutines!coVars)
  <2>1. PlainKept' /\ (Coroutines!Next \/ UNCHANGED Coroutines!coVars)
    BY <1>0, <1>2, PlainSchedule DEF Calls
  <2>2. queue_level' \in [Slot -> {0, 1}]
    BY <1>0, <1>2 DEF Level
  <2> QED BY <1>2, <2>1, <2>2 DEF ExitProcess, MLFQInv, MLFQ!YieldersWait
<1>3. ASSUME NEW x \in {"RUNNABLE", "FREE"}, Calls(x), queue_level' = Level(x),
             NEW next \in Ready(Set(x)), SwitchTo(Set(x), next),
             \A u \in Ready(Set(x)) :
               Level(x)[next] < Level(x)[u] \/ (Level(x)[next] = Level(x)[u] /\ next <= u)
      PROVE  MLFQInv' /\ MLFQ!YieldersWait /\ (Coroutines!Next \/ UNCHANGED Coroutines!coVars)
  <2>1. PlainKept' /\ (Coroutines!Next \/ UNCHANGED Coroutines!coVars)
    BY <1>0, <1>3, PlainSchedule DEF Calls
  <2>2. Level(x) \in [Slot -> {0, 1}] /\ \A s \in Slot \ {current_thread} : Level(x)[s] = queue_level[s]
    BY <1>0 DEF Level
  <2>3. ASSUME current_thread' # current_thread, queue_level[current_thread'] = 1,
               NEW s \in Slot \ {current_thread}, state[s] = "RUNNABLE"
        PROVE  queue_level[s] = 1
    <3>1. current_thread' = next /\ next \in Slot
      BY <1>3, <2>3 DEF SwitchTo, Ready
    <3>2. s \in Ready(Set(x)) /\ s \in Slot
      BY <1>0, <1>3, <2>3, PlainCaller DEF Calls, Ready
    <3>3. Level(x)[next] = 1 /\ Level(x)[s] = queue_level[s] /\ Level(x)[s] \in {0, 1}
      BY <2>2, <2>3, <3>1, <3>2
    <3> QED BY <1>3, <3>2, <3>3
  <2> QED BY <1>3, <2>1, <2>2, <2>3 DEF MLFQInv, MLFQ!YieldersWait, MLFQ!Slot, Slot
<1>4. CASE UNCHANGED <<tableVars, queue_level>>
  BY <1>0, <1>4, PlainStands DEF tableVars, MLFQInv, MLFQ!YieldersWait
<1> QED BY <1>1, <1>2, <1>3, <1>4, MLFQSteps
-----------------------------------------------------------------------------
(* uthreads5.c. *)

SleepInv ==
  /\ TableTypes({"SLEEPING"}) /\ FlowsKept /\ left \in [Slot -> 0 .. MaxTicks]
  /\ exited => PutAside({"SLEEPING"})

\* The table after the wake-up pass.
Awake(st, wait) == [s \in Slot |-> IF st[s] = "SLEEPING" /\ wait[s] - 1 <= 0 THEN "RUNNABLE" ELSE st[s]]

LEMMA SleepSteps ==
  ASSUME PackagesAssumption, SleepInv, Sleeps!Next \/ UNCHANGED <<tableVars, left>>
  PROVE  \/ \E s \in Slot : CreateIn(s) /\ left' = left
         \/ \E x \in {"RUNNABLE", "FREE", "SLEEPING"}, wait \in [Slot -> 0 .. MaxTicks] :
              Calls(x) /\ RoundRobin(Awake(Set(x), wait)) /\ left' \in [Slot -> 0 .. MaxTicks]
         \/ UNCHANGED <<tableVars, left>>
<1>0. current_thread \in Slot /\ left \in [Slot -> 0 .. MaxTicks] /\ MaxTicks \in Nat
  BY TableFacts DEF SleepInv, PackagesAssumption
<1>1. CASE Sleeps!thread_create
  BY <1>1 DEF Sleeps!thread_create, Sleeps!Slot, Slot, Sleeps!CreateIn, CreateIn, Sleeps!With, With
<1>2. \A x : Sleeps!Set(x) = Set(x)
  BY DEF Sleeps!Set, Set
<1>3. ASSUME NEW x, NEW wait \in [Slot -> 0 .. MaxTicks], Sleeps!thread_schedule(Set(x), wait)
      PROVE  RoundRobin(Awake(Set(x), wait)) /\ left' \in [Slot -> 0 .. MaxTicks]
  <2> DEFINE ticked == [s \in Slot |-> IF Set(x)[s] = "SLEEPING" THEN wait[s] - 1 ELSE 0]
             woken  == {s \in Slot : Set(x)[s] = "SLEEPING" /\ ticked[s] <= 0}
             up     == [s \in Slot |-> IF s \in woken THEN "RUNNABLE" ELSE Set(x)[s]]
  <2>1. Sleeps!RoundRobin(up) /\ left' = [s \in Slot |-> IF s \in woken THEN 0 ELSE ticked[s]]
    BY <1>3 DEF Sleeps!thread_schedule, Sleeps!Slot, Slot
  <2>2. up = Awake(Set(x), wait)
    BY DEF Awake
  <2>3. ASSUME NEW s \in Slot
        PROVE  (IF s \in woken THEN 0 ELSE ticked[s]) \in 0 .. MaxTicks
    <3>1. wait[s] \in 0 .. MaxTicks
      OBVIOUS
    <3> QED BY <1>0, <3>1
  <2> HIDE DEF up
  <2>4. RoundRobin(up)
    BY <2>1 DEF Sleeps!RoundRobin, RoundRobin, Sleeps!Ready, Ready, Sleeps!Slot, Slot,
                Sleeps!Dist, Dist, Sleeps!ExitProcess, ExitProcess, Sleeps!SwitchTo, SwitchTo
  <2> QED BY <2>1, <2>2, <2>3, <2>4
<1>4. CASE Sleeps!thread_yield
  BY <1>0, <1>2, <1>3, <1>4 DEF Sleeps!thread_yield, Calls
<1>5. CASE Sleeps!Finish
  BY <1>0, <1>2, <1>3, <1>5 DEF Sleeps!Finish, Calls
<1>6. CASE Sleeps!Sleep
  <2>1. PICK ticks \in 0 .. MaxTicks :
          ~exited /\ Sleeps!thread_schedule(Set("SLEEPING"), [left EXCEPT ![current_thread] = ticks]) /\ UNCHANGED dead
    BY <1>2, <1>6 DEF Sleeps!Sleep, Sleeps!thread_sleep
  <2>2. [left EXCEPT ![current_thread] = ticks] \in [Slot -> 0 .. MaxTicks]
    BY <1>0
  <2> QED BY <1>3, <2>1, <2>2 DEF Calls
<1>7. CASE Sleeps!Ended /\ UNCHANGED left
  BY <1>7 DEF Sleeps!Ended, Sleeps!tableVars, tableVars
<1> QED BY <1>1, <1>4, <1>5, <1>6, <1>7 DEF Sleeps!Next

LEMMA SleepInit ==
  ASSUME PackagesAssumption, Sleeps!Init
  PROVE  SleepInv
<1>1. TableInit /\ left = [s \in Slot |-> 0] /\ MaxTicks \in Nat
  BY DEF Sleeps!Init, Sleeps!TableInit, TableInit, Sleeps!Slot, Slot, Sleeps!NoFlow, NoFlow, PackagesAssumption
<1>2. TableTypes({"SLEEPING"}) /\ FlowsKept
  BY <1>1, InitKept
<1>3. left \in [Slot -> 0 .. MaxTicks] /\ ~exited
  BY <1>1 DEF TableInit
<1> QED BY <1>2, <1>3 DEF SleepInv

LEMMA SleepStep ==
  ASSUME PackagesAssumption, SleepInv, Sleeps!Next \/ UNCHANGED <<tableVars, left>>
  PROVE  SleepInv'
<1>0. TableTypes({"SLEEPING"}) /\ FlowsKept /\ left \in [Slot -> 0 .. MaxTicks]
  BY DEF SleepInv
<1>1. ASSUME NEW s \in Slot, CreateIn(s), left' = left
      PROVE  SleepInv'
  BY <1>0, <1>1, CreateKeeps DEF CreateIn, SleepInv
<1>2. ASSUME NEW x \in {"RUNNABLE", "FREE", "SLEEPING"}, NEW wait \in [Slot -> 0 .. MaxTicks],
             Calls(x), RoundRobin(Awake(Set(x), wait)), left' \in [Slot -> 0 .. MaxTicks]
      PROVE  SleepInv'
  <2>1. /\ Set(x) \in [Slot -> {"FREE", "RUNNING", "RUNNABLE"} \cup {"SLEEPING"}] /\ Prepared(Set(x))
        /\ Set(x)[current_thread] = x
    BY <1>0, <1>2, CallerPrepares DEF Calls, Gone
  <2>2. Awake(Set(x), wait) \in [Slot -> {"FREE", "RUNNING", "RUNNABLE"} \cup {"SLEEPING"}]
    BY <2>1 DEF Awake
  <2>3. Prepared(Awake(Set(x), wait))
    BY <1>0, <2>1, TableFacts DEF Prepared, Awake, Gone
  <2>4. ({"SLEEPING"} \ Gone) = {"SLEEPING"} /\ {"SLEEPING"} \cap {"FREE", "RUNNING", "RUNNABLE"} = {}
    BY DEF Gone
  <2> QED BY <1>0, <1>2, <2>2, <2>3, <2>4, RoundRobinKeeps DEF SleepInv, Calls
<1>3. CASE UNCHANGED <<tableVars, left>>
  BY <1>0, <1>3, TableStands DEF SleepInv, PutAside, Occupant, tableVars
<1> QED BY <1>1, <1>2, <1>3, SleepSteps

LEMMA SleepLeaves ==
  ASSUME SleepInv
  PROVE  Sleeps!TypeOK /\ Sleeps!OnlySleepersAbandoned
<1>1. Sleeps!TypeOK
  BY DEF SleepInv, Sleeps!TypeOK, Sleeps!TableTypes, TableTypes, Sleeps!Slot, Slot, Sleeps!Flow, Flow,
         Sleeps!NoFlow, NoFlow
<1>2. Sleeps!OnlySleepersAbandoned
  BY DEF SleepInv, PutAside, Occupant, Sleeps!OnlySleepersAbandoned, Sleeps!Live, Live, Sleeps!With,
         Sleeps!Slot, Slot
<1> QED BY <1>1, <1>2
-----------------------------------------------------------------------------
(* uthreads7.c. *)

SuspendInv ==
  TableTypes({"SUSPENDED"}) /\ FlowsKept /\ (exited => PutAside({"SUSPENDED"}))

LEMMA SuspendSteps ==
  ASSUME SuspendInv, Suspends!Next \/ UNCHANGED tableVars
  PROVE  \/ \E s \in Slot : CreateIn(s)
         \/ \E x \in {"RUNNABLE", "FREE", "SUSPENDED"} : Calls(x) /\ RoundRobin(Set(x))
         \/ \E target \in Slot \ {current_thread}, to \in {"RUNNABLE", "SUSPENDED"} :
              /\ ~exited /\ state[target] \in {"RUNNABLE", "SUSPENDED"}
              /\ state' = [state EXCEPT ![target] = to]
              /\ UNCHANGED <<current_thread, context, running, created, dead, exited>>
         \/ UNCHANGED tableVars
<1>1. CASE Suspends!thread_create
  BY <1>1 DEF Suspends!thread_create, Suspends!Slot, Slot, Suspends!CreateIn, CreateIn, Suspends!With, With
<1>2. \A x : Suspends!Set(x) = Set(x)
  BY DEF Suspends!Set, Set
<1>3. ASSUME NEW x, Suspends!thread_schedule(Set(x))
      PROVE  RoundRobin(Set(x))
  BY <1>3 DEF Suspends!thread_schedule, Suspends!RoundRobin, RoundRobin, Suspends!Ready, Ready, Suspends!Slot, Slot,
              Suspends!Dist, Dist, Suspends!ExitProcess, ExitProcess, Suspends!SwitchTo, SwitchTo
<1>4. CASE Suspends!thread_yield
  BY <1>2, <1>3, <1>4 DEF Suspends!thread_yield, Calls
<1>5. CASE Suspends!Finish
  BY <1>2, <1>3, <1>5 DEF Suspends!Finish, Calls
<1>6. CASE Suspends!Ended
  BY <1>6 DEF Suspends!Ended, Suspends!tableVars, tableVars
<1>7. ASSUME NEW target \in Slot, Suspends!thread_suspend(target)
      PROVE  \/ Calls("SUSPENDED") /\ RoundRobin(Set("SUSPENDED"))
             \/ /\ target # current_thread /\ ~exited /\ state[target] = "RUNNABLE"
                /\ state' = [state EXCEPT ![target] = "SUSPENDED"]
                /\ UNCHANGED <<current_thread, context, running, created, dead, exited>>
  BY <1>2, <1>3, <1>7 DEF Suspends!thread_suspend, Suspends!Mark, Calls
<1>8. ASSUME NEW target \in Slot, Suspends!thread_resume(target)
      PROVE  /\ target # current_thread /\ ~exited /\ state[target] = "SUSPENDED"
             /\ state' = [state EXCEPT ![target] = "RUNNABLE"]
             /\ UNCHANGED <<current_thread, context, running, created, dead, exited>>
  BY <1>8 DEF Suspends!thread_resume, Suspends!Mark, SuspendInv, FlowsKept
<1>9. CASE \E target \in Slot : Suspends!thread_suspend(target) \/ Suspends!thread_resume(target)
  BY <1>7, <1>8, <1>9
<1> QED BY <1>1, <1>4, <1>5, <1>6, <1>9 DEF Suspends!Next, Suspends!Slot, Slot

LEMMA SuspendInit ==
  ASSUME Suspends!Init
  PROVE  SuspendInv
<1>1. TableInit
  BY DEF Suspends!Init, Suspends!TableInit, TableInit, Suspends!Slot, Slot, Suspends!NoFlow, NoFlow
<1> QED BY <1>1, InitKept DEF SuspendInv, TableInit

\* A thread that is put aside, or comes back, stays parked with its stack.
LEMMA SuspendStep ==
  ASSUME SuspendInv, Suspends!Next \/ UNCHANGED tableVars
  PROVE  SuspendInv' /\ Suspends!SuspendedStays
<1>0. TableTypes({"SUSPENDED"}) /\ FlowsKept
  BY DEF SuspendInv
<1>s. SUFFICES /\ SuspendInv'
               /\ \A s \in Slot : state[s] = "SUSPENDED" /\ ~exited => current_thread' # s /\ context'[s] = context[s]
  BY DEF Suspends!SuspendedStays, Suspends!With, Suspends!Slot, Slot
<1>c. ~exited => state[current_thread] # "SUSPENDED" /\ current_thread \in Slot
  BY <1>0, TableFacts DEF FlowsKept
<1>1. ASSUME NEW s \in Slot, CreateIn(s)
      PROVE  SuspendInv' /\ \A u \in Slot : state[u] = "SUSPENDED" => current_thread' # u /\ context'[u] = context[u]
  <2>1. TableTypes({"SUSPENDED"})' /\ FlowsKept'
    BY <1>0, <1>1, CreateKeeps
  <2> QED BY <1>0, <1>1, <1>c, <2>1, TableFacts DEF CreateIn, With, SuspendInv
<1>2. ASSUME NEW x \in {"RUNNABLE", "FREE", "SUSPENDED"}, Calls(x), RoundRobin(Set(x))
      PROVE  SuspendInv' /\ \A u \in Slot : state[u] = "SUSPENDED" => current_thread' # u /\ context'[u] = context[u]
  <2>1. /\ Set(x) \in [Slot -> {"FREE", "RUNNING", "RUNNABLE"} \cup {"SUSPENDED"}] /\ Prepared(Set(x))
        /\ \A s \in Slot \ {current_thread} : Set(x)[s] = state[s]
    BY <1>0, <1>2, CallerPrepares DEF Calls, Gone
  <2>2. ({"SUSPENDED"} \ Gone) = {"SUSPENDED"} /\ {"SUSPENDED"} \cap {"FREE", "RUNNING", "RUNNABLE"} = {}
    BY DEF Gone
  <2>3. SuspendInv'
    BY <1>0, <1>2, <2>1, <2>2, RoundRobinKeeps DEF SuspendInv, Calls
  <2>4. ASSUME NEW u \in Slot, state[u] = "SUSPENDED"
        PROVE  current_thread' # u /\ context'[u] = context[u]
    <3>1. u # current_thread /\ Set(x)[u] = "SUSPENDED"
      BY <1>2, <1>c, <2>1, <2>4 DEF Calls
    <3>2. \A next \in Ready(Set(x)) : next # u
      BY <3>1 DEF Ready
    <3> QED BY <1>0, <1>2, <3>1, <3>2, RoundRobinCases, TableFacts DEF SwitchTo, ExitProcess
  <2> QED BY <2>3, <2>4
<1>3. ASSUME NEW target \in Slot \ {current_thread}, NEW to \in {"RUNNABLE", "SUSPENDED"},
             ~exited, state[target] \in {"RUNNABLE", "SUSPENDED"},
             state' = [state EXCEPT ![target] = to],
             UNCHANGED <<current_thread, context, running, created, dead, exited>>
      PROVE  SuspendInv' /\ current_thread' = current_thread /\ context' = context
  <2>1. TableTypes({"SUSPENDED"})'
    BY <1>0, <1>3 DEF TableTypes
  <2>2. Parked' = Parked /\ Live' = Live /\ \A s \in Parked : state'[s] # "RUNNING"
    BY <1>0, <1>3, TableFacts DEF Parked, Live, FlowsKept
  <2>3. state'[current_thread] = state[current_thread]
    BY <1>0, <1>3, TableFacts
  <2>4. FlowsKept'
    BY <1>0, <1>3, <2>2, <2>3 DEF FlowsKept
  <2> QED BY <1>3, <2>1, <2>4 DEF SuspendInv
<1>4. CASE UNCHANGED tableVars
  <2>1. SuspendInv'
    BY <1>0, <1>4, TableStands DEF SuspendInv, PutAside, Occupant, tableVars
  <2> QED BY <1>4, <1>c, <2>1 DEF tableVars
<1> QED BY <1>c, <1>1, <1>2, <1>3, <1>4, SuspendSteps

LEMMA SuspendLeaves ==
  ASSUME SuspendInv
  PROVE  Suspends!TypeOK /\ Suspends!OnlySuspendedAbandoned
<1>1. Suspends!TypeOK
  BY DEF SuspendInv, Suspends!TypeOK, Suspends!TableTypes, TableTypes, Suspends!Slot, Slot, Suspends!Flow, Flow,
         Suspends!NoFlow, NoFlow
<1>2. Suspends!OnlySuspendedAbandoned
  BY DEF SuspendInv, PutAside, Occupant, Suspends!OnlySuspendedAbandoned, Suspends!Live, Live, Suspends!With,
         Suspends!Slot, Slot
<1> QED BY <1>1, <1>2
-----------------------------------------------------------------------------
(* uthreads6.c. *)

\* A set of natural numbers has a least one, and so one can count from 0 to N.
Below == {ss \in Nat \X Nat : ss[1] < ss[2]}

LEMMA Least ==
  ASSUME NEW T, T \subseteq Nat, T # {}
  PROVE  \E n \in T : \A m \in T : n <= m
<1>1. OpToRel(<, Nat) = Below
  BY DEF OpToRel, Below
<1>2. IsWellFoundedOn(Below, Nat)
  BY NatLessThanWellFounded, <1>1
<1>3. PICK x \in T : \A y \in T : <<y, x>> \notin Below
  BY <1>2, WFMin
<1>4. ASSUME NEW m \in T
      PROVE  m \in Nat /\ x \in Nat /\ ~(m < x)
  <2>1. <<m, x>> \in Nat \X Nat
    OBVIOUS
  <2> QED BY <1>3, <2>1 DEF Below
<1> QED BY <1>4

LEMMA CountTo ==
  ASSUME NEW N \in Nat, NEW S, 0 \in S, \A n \in 0 .. N - 1 : n \in S => n + 1 \in S
  PROVE  0 .. N \subseteq S
<1> DEFINE T == (0 .. N) \ S
<1> SUFFICES ASSUME T # {}
             PROVE  FALSE
  OBVIOUS
<1>0. T \subseteq Nat
  OBVIOUS
<1>1. PICK n \in T : \A m \in T : n <= m
  <2> HIDE DEF T
  <2> QED BY <1>0, Least
<1>2. n # 0 /\ n - 1 \in 0 .. N - 1 /\ (n - 1) + 1 = n
  BY <1>1
<1>3. n - 1 \in S
  BY <1>1, <1>2
<1> QED BY <1>2, <1>3

\* The loops of thread_schedule count what they say.
Share(st, s)  == IF st[s] = "RUNNABLE" THEN tickets[s] ELSE 0
Counts(st, f) ==
  f = [n \in 0 .. MAX_THREAD |-> IF n = 0 THEN 0 ELSE f[n - 1] + Share(st, n - 1)]

\* There is such a count: up to slot n + 1 it goes on from the one up to n.
LEMMA CountExists ==
  ASSUME NEW st, tickets \in [Slot -> Nat]
  PROVE  \E f : Counts(st, f)
<1> DEFINE Upto(n, f) == /\ f \in [0 .. n -> Nat] /\ f[0] = 0
                         /\ \A m \in 1 .. n : f[m] = f[m - 1] + Share(st, m - 1)
           S == {n \in Nat : \E f : Upto(n, f)}
<1>1. 0 \in S
  <2>1. Upto(0, [m \in 0 .. 0 |-> 0])
    OBVIOUS
  <2> QED BY <2>1
<1>2. ASSUME NEW n \in 0 .. MAX_THREAD - 1, n \in S
      PROVE  n + 1 \in S
  <2>1. PICK f : Upto(n, f)
    BY <1>2
  <2>2. n \in Slot /\ Share(st, n) \in Nat
    BY ThreadsAssumption DEF Slot, Share
  <2> DEFINE g == [m \in 0 .. n + 1 |-> IF m = n + 1 THEN f[n] + Share(st, n) ELSE f[m]]
  <2>3. g \in [0 .. n + 1 -> Nat] /\ g[0] = 0
    BY <2>1, <2>2
  <2>4. ASSUME NEW m \in 1 .. n + 1
        PROVE  g[m] = g[m - 1] + Share(st, m - 1)
    <3>1. CASE m = n + 1
      BY <3>1
    <3>2. CASE m # n + 1
      BY <2>1, <3>2
    <3> QED BY <3>1, <3>2
  <2>5. Upto(n + 1, g)
    BY <2>3, <2>4
  <2> HIDE DEF g, Upto
  <2> QED BY <2>5
<1>3. MAX_THREAD \in S
  <2> HIDE DEF S
  <2> QED BY <1>1, <1>2, CountTo, ThreadsAssumption
<1>4. PICK f : Upto(MAX_THREAD, f)
  BY <1>3
<1>5. Counts(st, f)
  BY <1>4 DEF Counts
<1> QED BY <1>5

LEMMA CountIs ==
  ASSUME NEW st, tickets \in [Slot -> Nat]
  PROVE  /\ Lottery!Count(st)[0] = 0
         /\ \A s \in Slot : Lottery!Count(st)[s + 1] = Lottery!Count(st)[s] + Share(st, s)
<1>1. Lottery!Count(st) = CHOOSE f : Counts(st, f)
  BY DEF Lottery!Count, Counts, Share
<1>2. Counts(st, Lottery!Count(st))
  BY <1>1, CountExists
<1> HIDE DEF Lottery!Count
<1>3. \A n \in 0 .. MAX_THREAD :
        Lottery!Count(st)[n] = IF n = 0 THEN 0 ELSE Lottery!Count(st)[n - 1] + Share(st, n - 1)
  BY <1>2 DEF Counts
<1>4. ASSUME NEW s \in Slot
      PROVE  Lottery!Count(st)[s + 1] = Lottery!Count(st)[s] + Share(st, s)
  <2>1. s + 1 \in 0 .. MAX_THREAD /\ s + 1 # 0 /\ (s + 1) - 1 = s
    BY ThreadsAssumption DEF Slot
  <2> QED BY <1>3, <2>1
<1>5. 0 \in 0 .. MAX_THREAD
  BY ThreadsAssumption
<1> QED BY <1>3, <1>4, <1>5

\* The count never falls.
LEMMA CountRises ==
  ASSUME NEW st, tickets \in [Slot -> Nat], NEW n \in 0 .. MAX_THREAD, NEW m \in 0 .. n
  PROVE  Lottery!Count(st)[m] \in Nat /\ Lottery!Count(st)[n] \in Nat /\ Lottery!Count(st)[m] <= Lottery!Count(st)[n]
<1> DEFINE c(k) == Lottery!Count(st)[k]
           S == {k \in Nat : \A j \in 0 .. k : c(j) \in Nat /\ c(j) <= c(k)}
<1>1. c(0) = 0 /\ \A s \in Slot : c(s + 1) = c(s) + Share(st, s)
  BY CountIs
<1> HIDE DEF c
<1>2. 0 \in S
  BY <1>1
<1>3. ASSUME NEW k \in 0 .. MAX_THREAD - 1, k \in S
      PROVE  k + 1 \in S
  <2>1. k \in Slot /\ Share(st, k) \in Nat
    BY ThreadsAssumption DEF Slot, Share
  <2>2. c(k) \in Nat /\ c(k + 1) \in Nat /\ c(k) <= c(k + 1)
    BY <1>1, <1>3, <2>1
  <2>3. ASSUME NEW j \in 0 .. k + 1
        PROVE  c(j) \in Nat /\ c(j) <= c(k + 1)
    <3>1. CASE j = k + 1
      BY <2>2, <3>1
    <3>2. CASE j \in 0 .. k
      <4>1. c(j) \in Nat /\ c(j) <= c(k)
        BY <1>3, <3>2
      <4> QED BY <2>2, <4>1
    <3> QED BY <3>1, <3>2
  <2> QED BY <2>3
<1>4. 0 .. MAX_THREAD \subseteq S
  <2> HIDE DEF S
  <2> QED BY <1>2, <1>3, CountTo, ThreadsAssumption
<1>5. n \in S
  BY <1>4
<1>6. c(m) \in Nat /\ c(n) \in Nat /\ c(m) <= c(n)
  BY <1>5
<1> QED BY <1>6 DEF c

\* It is at most M for each slot, if nobody has more tickets than that.
LEMMA CountBound ==
  ASSUME NEW st, NEW M \in Nat, tickets \in [Slot -> 0 .. M]
  PROVE  Lottery!Total(st) <= MAX_THREAD * M
<1> DEFINE c(k) == Lottery!Count(st)[k]
           S == {k \in Nat : c(k) \in Nat /\ c(k) <= k * M}
<1>0. tickets \in [Slot -> Nat]
  OBVIOUS
<1>1. c(0) = 0 /\ \A s \in Slot : c(s + 1) = c(s) + Share(st, s)
  BY <1>0, CountIs
<1> HIDE DEF c
<1>2. 0 \in S
  <2>1. 0 * M = 0
    OBVIOUS
  <2> QED BY <1>1, <2>1
<1>3. ASSUME NEW k \in 0 .. MAX_THREAD - 1, k \in S
      PROVE  k + 1 \in S
  <2>1. k \in Slot /\ Share(st, k) \in 0 .. M
    BY ThreadsAssumption DEF Slot, Share
  <2>2. (k + 1) * M = k * M + M /\ k * M \in Nat
    OBVIOUS
  <2>3. c(k + 1) = c(k) + Share(st, k) /\ c(k) \in Nat /\ c(k) <= k * M
    BY <1>1, <1>3, <2>1
  <2> QED BY <2>1, <2>2, <2>3
<1>4. MAX_THREAD \in S
  <2> HIDE DEF S
  <2> QED BY <1>2, <1>3, CountTo, ThreadsAssumption
<1> QED BY <1>4 DEF Lottery!Total, c

\* Each ticket below the total is drawn by exactly one thread, the first that passes it.
LEMMA TicketWins ==
  ASSUME NEW st, tickets \in [Slot -> Nat], NEW ticket \in 0 .. Lottery!Total(st) - 1
  PROVE  \E s \in Slot : \A u \in Slot : Lottery!Wins(st, u, ticket) <=> u = s
<1> DEFINE c(k) == Lottery!Count(st)[k]
           T == {k \in 0 .. MAX_THREAD : c(k) > ticket}
<1>1. c(0) = 0 /\ \A s \in Slot : c(s + 1) = c(s) + Share(st, s)
  BY CountIs
<1>2. \A n \in 0 .. MAX_THREAD : \A m \in 0 .. n : c(m) \in Nat /\ c(n) \in Nat /\ c(m) <= c(n)
  BY CountRises
<1>3. ticket \in c(0) .. c(MAX_THREAD) - 1 /\ MAX_THREAD \in Nat
  BY <1>1, ThreadsAssumption DEF Lottery!Total
<1>w. \A s \in Slot : Lottery!Wins(st, s, ticket) <=> s \in Ready(st) /\ c(s) <= ticket /\ ticket < c(s + 1)
  BY DEF Lottery!Wins, Lottery!Ready, Lottery!Slot, Ready, Slot
<1> HIDE DEF c
<1>4. T \subseteq Nat /\ MAX_THREAD \in T /\ 0 \notin T
  BY <1>1, <1>2, <1>3
<1>5. PICK n \in T : \A m \in T : n <= m
  <2> HIDE DEF T
  <2> QED BY <1>4, Least
<1>6. n - 1 \in Slot /\ n - 1 \notin T /\ n \in 1 .. MAX_THREAD /\ c(n) > ticket
  <2>1. n \in 0 .. MAX_THREAD /\ c(n) > ticket /\ n # 0
    BY <1>4, <1>5
  <2>2. n \in 1 .. MAX_THREAD /\ n - 1 \in Slot
    BY <2>1, <1>3 DEF Slot
  <2>3. n - 1 \notin T
    <3> HIDE DEF T
    <3>1. n - 1 \in Nat /\ ~(n <= n - 1)
      BY <2>2
    <3> QED BY <1>5, <3>1
  <2> QED BY <2>1, <2>2, <2>3
<1>7. c(n - 1) <= ticket /\ c(n) = c(n - 1) + Share(st, n - 1)
  <2>1. n - 1 \in 0 .. MAX_THREAD /\ (n - 1) + 1 = n
    BY <1>3, <1>6
  <2>2. c(n - 1) \in Nat
    BY <1>2, <2>1
  <2> QED BY <1>1, <1>3, <1>6, <2>1, <2>2
<1>8. n - 1 \in Ready(st) /\ (n - 1) + 1 = n
  <2>1. Share(st, n - 1) # 0
    <3>1. c(n - 1) \in Nat /\ c(n) \in Nat
      BY <1>2, <1>6
    <3> QED BY <1>3, <1>6, <1>7, <3>1
  <2> QED BY <1>6, <2>1 DEF Ready, Share
<1>9. Lottery!Wins(st, n - 1, ticket)
  BY <1>6, <1>7, <1>8, <1>w
<1>10. ASSUME NEW u \in Slot, Lottery!Wins(st, u, ticket)
       PROVE  u = n - 1
  <2>0. n \in 1 .. MAX_THREAD /\ MAX_THREAD \in Nat
    BY <1>3, <1>6
  <2>1. c(u) <= ticket /\ ticket < c(u + 1) /\ u \in 0 .. MAX_THREAD /\ u + 1 \in 0 .. MAX_THREAD
    BY <1>10, <1>w, ThreadsAssumption DEF Slot
  <2>2. CASE u < n - 1
    <3>1. u + 1 \in 0 .. n - 1 /\ n - 1 \in 0 .. MAX_THREAD
      BY <2>0, <2>1, <2>2
    <3>2. c(u + 1) <= c(n - 1) /\ c(u + 1) \in Nat /\ c(n - 1) \in Nat
      BY <1>2, <3>1
    <3> QED BY <1>3, <1>7, <2>1, <3>2
  <2>3. CASE u > n - 1
    <3>1. n \in 0 .. u
      BY <2>0, <2>1, <2>3
    <3>2. c(n) <= c(u) /\ c(n) \in Nat /\ c(u) \in Nat
      BY <1>2, <2>1, <3>1
    <3> QED BY <1>3, <1>6, <2>1, <3>2
  <2> QED BY <2>0, <2>1, <2>2, <2>3
<1> QED BY <1>6, <1>9, <1>10

\* A thread without RUNNABLE competitors for its own tickets: the first of them wins it the CPU.
LEMMA HolderWins ==
  ASSUME NEW st, NEW M \in Nat, tickets \in [Slot -> 0 .. M], MAX_THREAD * M <= RAND, RAND \in Nat,
         NEW s \in Ready(st), tickets[s] > 0
  PROVE  \E ticket \in Lottery!pseudo_rand(Lottery!Total(st)) : Lottery!Wins(st, s, ticket)
<1> DEFINE c(k) == Lottery!Count(st)[k]
<1>0. tickets \in [Slot -> Nat] /\ s \in Slot /\ st[s] = "RUNNABLE"
  BY DEF Ready
<1>1. s \in 0 .. s + 1 /\ s + 1 \in 0 .. MAX_THREAD /\ MAX_THREAD \in 0 .. MAX_THREAD
  BY <1>0, ThreadsAssumption DEF Slot
<1>2. c(s + 1) = c(s) + tickets[s] /\ tickets[s] \in 0 .. M
  BY <1>0, CountIs DEF Share
<1>3. c(s) \in Nat /\ c(s + 1) \in Nat /\ c(s + 1) <= c(MAX_THREAD) /\ c(MAX_THREAD) \in Nat
  BY <1>0, <1>1, CountRises
<1>4. c(MAX_THREAD) <= MAX_THREAD * M
  BY CountBound DEF Lottery!Total
<1>w. Lottery!Wins(st, s, c(s)) <=> c(s) <= c(s) /\ c(s) < c(s + 1)
  BY <1>0 DEF Lottery!Wins, Lottery!Ready, Lottery!Slot, Ready, Slot
<1>p. Lottery!pseudo_rand(Lottery!Total(st)) = {w \in 0 .. c(MAX_THREAD) - 1 : w < RAND}
  BY DEF Lottery!pseudo_rand, Lottery!Total
<1> HIDE DEF c
<1>5. MAX_THREAD * M \in Nat
  BY ThreadsAssumption
<1>6. c(s) < c(s + 1) /\ c(s) \in 0 .. c(MAX_THREAD) - 1 /\ c(s) < RAND
  BY <1>2, <1>3, <1>4, <1>5
<1> QED BY <1>3, <1>6, <1>w, <1>p

LotteryInv ==
  /\ TableTypes({}) /\ FlowsKept /\ tickets \in [Slot -> Tickets \cup {0}]
  /\ exited => \A f \in Live : \E s \in Slot : tickets[s] = 0 /\ Occupant(s) = f

LEMMA LotterySteps ==
  ASSUME Lottery!Next \/ UNCHANGED <<tableVars, tickets>>
  PROVE  \/ \E s \in Slot, n \in Tickets : CreateIn(s) /\ tickets' = [tickets EXCEPT ![s] = n]
         \/ \E x \in {"RUNNABLE", "FREE"} :
              /\ Calls(x) /\ tickets' = tickets
              /\ \/ Lottery!Total(Set(x)) = 0 /\ ExitProcess(Set(x))
                 \/ \E next \in Ready(Set(x)) : SwitchTo(Set(x), next)
         \/ UNCHANGED <<tableVars, tickets>>
<1>1. CASE Lottery!thread_create
  BY <1>1 DEF Lottery!thread_create, Lottery!Slot, Slot, Lottery!CreateIn, CreateIn, Lottery!With, With
<1>2. \A x : Lottery!Set(x) = Set(x)
  BY DEF Lottery!Set, Set
<1>3. ASSUME NEW x, Lottery!thread_schedule(Set(x))
      PROVE  \/ Lottery!Total(Set(x)) = 0 /\ ExitProcess(Set(x))
             \/ \E next \in Ready(Set(x)) : SwitchTo(Set(x), next)
  BY <1>3 DEF Lottery!thread_schedule, Lottery!Wins, Lottery!Ready, Ready, Lottery!Slot, Slot,
              Lottery!ExitProcess, ExitProcess, Lottery!SwitchTo, SwitchTo
<1>4. CASE Lottery!thread_yield
  BY <1>2, <1>3, <1>4 DEF Lottery!thread_yield, Calls
<1>5. CASE Lottery!Finish
  BY <1>2, <1>3, <1>5 DEF Lottery!Finish, Calls
<1>6. CASE Lottery!Ended /\ UNCHANGED tickets
  BY <1>6 DEF Lottery!Ended, Lottery!tableVars, tableVars
<1> QED BY <1>1, <1>4, <1>5, <1>6 DEF Lottery!Next

LEMMA LotteryInit ==
  ASSUME Lottery!Init
  PROVE  LotteryInv
<1>1. TableInit /\ tickets = [s \in Slot |-> 0]
  BY DEF Lottery!Init, Lottery!TableInit, TableInit, Lottery!Slot, Slot, Lottery!NoFlow, NoFlow
<1>2. TableTypes({}) /\ FlowsKept
  BY <1>1, InitKept
<1> QED BY <1>1, <1>2 DEF LotteryInv, TableInit

\* If all the RUNNABLE threads together have no ticket, none of them has one.
LEMMA LotteryStep ==
  ASSUME PackagesAssumption, LotteryInv, Lottery!Next \/ UNCHANGED <<tableVars, tickets>>
  PROVE  LotteryInv'
<1>0. TableTypes({}) /\ FlowsKept /\ tickets \in [Slot -> Tickets \cup {0}] /\ tickets \in [Slot -> Nat]
  <2>1. Tickets \cup {0} \subseteq Nat
    BY DEF PackagesAssumption
  <2> QED BY <2>1 DEF LotteryInv
<1>1. ASSUME NEW s \in Slot, NEW n \in Tickets, CreateIn(s), tickets' = [tickets EXCEPT ![s] = n]
      PROVE  LotteryInv'
  <2>1. TableTypes({})' /\ FlowsKept'
    BY <1>0, <1>1, CreateKeeps
  <2>2. tickets' \in [Slot -> Tickets \cup {0}]
    BY <1>0, <1>1
  <2> QED BY <1>1, <2>1, <2>2 DEF CreateIn, LotteryInv
<1>2. ASSUME NEW x \in {"RUNNABLE", "FREE"}, Calls(x), tickets' = tickets,
             \/ Lottery!Total(Set(x)) = 0 /\ ExitProcess(Set(x))
             \/ \E next \in Ready(Set(x)) : SwitchTo(Set(x), next)
      PROVE  LotteryInv'
  <2>1. /\ Set(x) \in [Slot -> {"FREE", "RUNNING", "RUNNABLE"} \cup {}] /\ Prepared(Set(x))
        /\ Set(x)[current_thread] = x /\ \A s \in Slot \ {current_thread} : Set(x)[s] = state[s]
    BY <1>0, <1>2, CallerPrepares DEF Calls, Gone
  <2>2. TableTypes({})' /\ FlowsKept'
    BY <1>0, <1>2, <2>1, ScheduleKeeps DEF Calls
  <2>3. CASE \E next \in Ready(Set(x)) : SwitchTo(Set(x), next)
    BY <1>0, <1>2, <2>2, <2>3 DEF SwitchTo, LotteryInv, Calls
  <2>4. CASE Lottery!Total(Set(x)) = 0 /\ ExitProcess(Set(x))
    <3>1. \A f \in Live' : \E s \in Slot : state'[s] \notin Gone /\ Occupant(s)' = f
      BY <1>0, <1>2, <2>1, <2>4, ExitKeeps DEF Calls
    <3>2. ASSUME NEW s \in Slot, state'[s] \notin Gone
          PROVE  tickets[s] = 0
      <4>1. Set(x)[s] = "RUNNABLE"
        BY <1>0, <1>2, <2>1, <2>4, <3>2, TableFacts DEF ExitProcess, Gone, FlowsKept, Parked, Calls
      <4>2. Lottery!Count(Set(x))[s + 1] = Lottery!Count(Set(x))[s] + tickets[s]
        BY <1>0, <4>1, CountIs DEF Share
      <4>3. s \in 0 .. s + 1 /\ s + 1 \in 0 .. MAX_THREAD /\ MAX_THREAD \in 0 .. MAX_THREAD
        BY ThreadsAssumption DEF Slot
      <4>4. /\ Lottery!Count(Set(x))[s] \in Nat /\ Lottery!Count(Set(x))[s + 1] \in Nat
            /\ Lottery!Count(Set(x))[s + 1] <= Lottery!Total(Set(x))
        BY <1>0, <4>3, CountRises DEF Lottery!Total
      <4>5. tickets[s] \in Nat
        BY <1>0
      <4> QED BY <2>4, <4>2, <4>4, <4>5
    <3> QED BY <1>0, <1>2, <2>2, <3>1, <3>2 DEF LotteryInv
  <2> QED BY <1>2, <2>3, <2>4
<1>3. CASE UNCHANGED <<tableVars, tickets>>
  BY <1>0, <1>3, TableStands DEF LotteryInv, Occupant, tableVars
<1> QED BY <1>1, <1>2, <1>3, LotterySteps

LEMMA LotteryDraws ==
  ASSUME PackagesAssumption, LotteryInv
  PROVE  /\ Lottery!TypeOK /\ Lottery!OnlyTicketlessAbandoned /\ Lottery!OneWinner
         /\ \A M \in Nat : Tickets \subseteq 0 .. M /\ MAX_THREAD * M <= RAND => Lottery!EveryHolderCanWin
<1>0. tickets \in [Slot -> Tickets \cup {0}] /\ tickets \in [Slot -> Nat] /\ RAND \in Nat
  <2>1. Tickets \cup {0} \subseteq Nat /\ RAND \in Nat
    BY DEF PackagesAssumption
  <2> QED BY <2>1 DEF LotteryInv
<1>1. Lottery!TypeOK
  BY DEF LotteryInv, Lottery!TypeOK, Lottery!TableTypes, TableTypes, Lottery!Slot, Slot, Lottery!Flow, Flow,
         Lottery!NoFlow, NoFlow
<1>2. Lottery!OnlyTicketlessAbandoned
  BY DEF LotteryInv, Lottery!OnlyTicketlessAbandoned, Occupant, Lottery!Live, Live, Lottery!Slot, Slot
<1>3. Lottery!OneWinner
  <2>1. ASSUME NEW ticket \in 0 .. Lottery!Total(state) - 1
        PROVE  \E winner \in Slot : {s \in Slot : Lottery!Wins(state, s, ticket)} = {winner}
    <3>1. PICK winner \in Slot : \A s \in Slot : Lottery!Wins(state, s, ticket) <=> s = winner
      BY <1>0, TicketWins
    <3> QED BY <3>1
  <2> QED BY <2>1 DEF Lottery!OneWinner, Lottery!Slot, Slot
<1>4. ASSUME NEW M \in Nat, Tickets \subseteq 0 .. M, MAX_THREAD * M <= RAND
      PROVE  Lottery!EveryHolderCanWin
  <2>1. tickets \in [Slot -> 0 .. M]
    BY <1>0, <1>4
  <2>2. \A s \in Slot : s \in Lottery!With("RUNNABLE") => s \in Ready(state)
    BY DEF Lottery!With, Lottery!Slot, Slot, Ready
  <2> QED BY <1>0, <1>4, <2>1, <2>2, HolderWins DEF Lottery!EveryHolderCanWin, Lottery!With, Lottery!Slot, Slot
<1> QED BY <1>1, <1>2, <1>3, <1>4
-----------------------------------------------------------------------------
(* uthreads3.c. *)

\* The handles of a flow: those it has not used, and the one it waits for.
Held(g) == handles[g] \cup ({joining[g]} \ {Joins!NoHandle})

\* Each handle is held by one flow, and its slot by its thread, dead or not.
Named(h) ==
  /\ h.flow \in 1 .. created
  /\ IF h.flow \in dead THEN state[h.slot] = "ZOMBIE" /\ exit_status[h.slot] = h.flow
     ELSE h.slot \in Parked \cup {current_thread} /\ Occupant(h.slot) = h.flow
JoinTypes ==
  /\ TableTypes({"ZOMBIE"}) /\ exit_status \in [Slot -> Flow]
  /\ handles \in [Flow -> SUBSET [slot : Slot, flow : Flow]]
  /\ joining \in [Flow -> [slot : Slot, flow : Flow] \cup {Joins!NoHandle}]
OneHolder ==
  /\ \A g \in Flow : joining[g] \notin handles[g]
  /\ \A g1, g2 \in Flow : \A h1 \in Held(g1), h2 \in Held(g2) : h1.flow = h2.flow => g1 = g2 /\ h1 = h2
AllHeld == \A f \in Live \ {0} : \E g \in Flow : \E h \in Held(g) : h.flow = f
JoinInv ==
  /\ JoinTypes /\ FlowsKept /\ OneHolder /\ AllHeld /\ (exited => 0 \notin Live)
  /\ \A g \in Flow : \A h \in Held(g) : Named(h)

LEMMA JoinFacts ==
  ASSUME JoinTypes
  PROVE  /\ TableTypes({"ZOMBIE"}) /\ running \in Flow
         /\ Joins!NoHandle \notin [slot : Slot, flow : Flow]
         /\ \A g \in Flow : \A h \in Held(g) : h \in [slot : Slot, flow : Flow] /\ h.slot \in Slot /\ h.flow \in Flow
<1>1. Joins!NoHandle \notin [slot : Slot, flow : Flow]
  <2>1. Joins!NoHandle.flow = -1 /\ -1 \notin Flow
    BY DEF Joins!NoHandle, Joins!NoFlow, Flow
  <2> QED BY <2>1
<1>2. ASSUME NEW g \in Flow, NEW h \in Held(g)
      PROVE  h \in [slot : Slot, flow : Flow]
  BY DEF JoinTypes, Held
<1> QED BY <1>1, <1>2, TableFacts DEF JoinTypes

\* A call of the library in this package: thread_exit leaves a zombie.
Exits(x) ==
  /\ ~exited /\ dead' = IF x = "ZOMBIE" THEN dead \cup {running} ELSE dead
  /\ exit_status' = IF x = "ZOMBIE" THEN [exit_status EXCEPT ![current_thread] = running] ELSE exit_status

LEMMA JoinSteps ==
  ASSUME Joins!Next \/ UNCHANGED <<tableVars, exit_status, handles, joining>>
  PROVE  \/ /\ joining[running] = Joins!NoHandle
            /\ \E s \in Slot :
                 /\ CreateIn(s)
                 /\ handles' = [handles EXCEPT ![running] = @ \cup {[slot |-> s, flow |-> created']}]
            /\ UNCHANGED <<exit_status, joining>>
         \/ \E x \in {"RUNNABLE", "ZOMBIE"} : Exits(x) /\ RoundRobin(Set(x)) /\ UNCHANGED <<handles, joining>>
         \/ /\ ~exited /\ joining[running] = Joins!NoHandle
            /\ \E h \in handles[running] :
                 /\ joining' = [joining EXCEPT ![running] = h]
                 /\ handles' = [handles EXCEPT ![running] = @ \ {h}]
            /\ UNCHANGED <<tableVars, exit_status>>
         \/ /\ ~exited /\ joining[running] # Joins!NoHandle
            /\ state[joining[running].slot] \in {"ZOMBIE", "FREE"}
            /\ state' = IF state[joining[running].slot] = "ZOMBIE"
                        THEN [state EXCEPT ![joining[running].slot] = "FREE"] ELSE state
            /\ joining' = [joining EXCEPT ![running] = Joins!NoHandle]
            /\ UNCHANGED <<current_thread, context, running, created, exited, dead, exit_status, handles>>
         \/ /\ ~exited /\ running = 0 /\ exited' = TRUE /\ dead' = dead \cup {0}
            /\ UNCHANGED <<state, current_thread, context, running, created, exit_status, handles, joining>>
         \/ UNCHANGED <<tableVars, exit_status, handles, joining>>
<1>1. CASE Joins!thread_create
  BY <1>1 DEF Joins!thread_create, Joins!Waiting, Joins!Slot, Slot, Joins!CreateIn, CreateIn, Joins!With, With
<1>2. \A x : Joins!Set(x) = Set(x)
  BY DEF Joins!Set, Set
<1>3. ASSUME NEW x, Joins!thread_schedule(Set(x))
      PROVE  RoundRobin(Set(x))
  BY <1>3 DEF Joins!thread_schedule, Joins!RoundRobin, RoundRobin, Joins!Ready, Ready, Joins!Slot, Slot,
              Joins!Dist, Dist, Joins!ExitProcess, ExitProcess, Joins!SwitchTo, SwitchTo
<1>4. CASE Joins!thread_yield
  BY <1>2, <1>3, <1>4 DEF Joins!thread_yield, Exits
<1>5. CASE Joins!thread_exit
  BY <1>2, <1>3, <1>5 DEF Joins!thread_exit, Exits
<1>6. CASE Joins!CallJoin
  BY <1>6 DEF Joins!CallJoin, Joins!Waiting, Joins!tableVars, tableVars
<1>7. CASE Joins!thread_join
  <2>1. CASE state[joining[running].slot] \notin {"ZOMBIE", "FREE"}
    <3>1. ~exited /\ RoundRobin(Set("RUNNABLE")) /\ UNCHANGED <<dead, exit_status, handles, joining>>
      BY <1>2, <1>3, <1>7, <2>1 DEF Joins!thread_join
    <3> QED BY <3>1 DEF Exits
  <2>2. CASE state[joining[running].slot] \in {"ZOMBIE", "FREE"}
    BY <1>7, <2>2 DEF Joins!thread_join, Joins!Waiting
  <2> QED BY <2>1, <2>2
<1>8. CASE Joins!MainExit
  BY <1>8 DEF Joins!MainExit
<1>9. CASE Joins!Ended /\ UNCHANGED Joins!vars
  BY <1>9 DEF Joins!Ended, Joins!vars, Joins!tableVars, tableVars
<1> QED BY <1>1, <1>4, <1>5, <1>6, <1>7, <1>8, <1>9 DEF Joins!Next

LEMMA JoinInit ==
  ASSUME Joins!Init
  PROVE  JoinInv
<1>1. /\ TableInit /\ exit_status = [s \in Slot |-> 0]
      /\ handles = [f \in Flow |-> {}] /\ joining = [f \in Flow |-> Joins!NoHandle]
  BY DEF Joins!Init, Joins!TableInit, TableInit, Joins!Slot, Slot, Joins!NoFlow, NoFlow, Joins!Flow, Flow
<1>2. TableTypes({"ZOMBIE"}) /\ FlowsKept
  BY <1>1, InitKept
<1>3. JoinTypes
  BY <1>1, <1>2, ThreadsAssumption DEF JoinTypes, Flow
<1>4. \A g \in Flow : Held(g) = {} /\ handles[g] = {}
  BY <1>1 DEF Held
<1>5. Live = {0} /\ ~exited
  BY <1>1 DEF TableInit, Live
<1> QED BY <1>2, <1>3, <1>4, <1>5 DEF JoinInv, OneHolder, AllHeld

\* What a call of thread_schedule does to the slots that handles may name.
LEMMA JoinSchedule ==
  ASSUME JoinTypes, FlowsKept, NEW x \in {"RUNNABLE", "ZOMBIE"}, Exits(x), RoundRobin(Set(x))
  PROVE  /\ TableTypes({"ZOMBIE"})' /\ FlowsKept' /\ (exited' => Live' = {})
         /\ created' = created /\ Live' = IF x = "ZOMBIE" THEN Live \ {running} ELSE Live
         /\ \A s \in Slot : Occupant(s)' = Occupant(s)
         /\ \A s \in Parked \cup {current_thread} :
              (x = "ZOMBIE" /\ s = current_thread) \/ s \in Parked' \cup {current_thread'}
         /\ \A s \in Slot : state[s] = "ZOMBIE" => state'[s] = "ZOMBIE" /\ s # current_thread
         /\ x = "ZOMBIE" => state'[current_thread] = "ZOMBIE"
<1>0. TableTypes({"ZOMBIE"}) /\ current_thread \in Slot /\ state[current_thread] # "ZOMBIE"
  BY TableFacts DEF JoinTypes, FlowsKept, Exits
<1>1. /\ Set(x) \in [Slot -> {"FREE", "RUNNING", "RUNNABLE"} \cup {"ZOMBIE"}] /\ Prepared(Set(x))
      /\ Set(x)[current_thread] = x /\ \A s \in Slot \ {current_thread} : Set(x)[s] = state[s]
  BY <1>0, CallerPrepares DEF Exits, Gone
<1>2. {"ZOMBIE"} \ Gone = {} /\ {"ZOMBIE"} \cap {"FREE", "RUNNING", "RUNNABLE"} = {}
  BY DEF Gone
<1>3. TableTypes({"ZOMBIE"})' /\ FlowsKept' /\ (exited' => Live' = {})
  BY <1>0, <1>1, <1>2, RoundRobinKeeps DEF Exits, PutAside
<1>4. CASE ExitProcess(Set(x))
  <2>1. state' = Set(x) /\ UNCHANGED <<current_thread, context, running, created>>
    BY <1>4 DEF ExitProcess
  <2>2. \A s \in Slot : Occupant(s)' = Occupant(s)
    BY <2>1 DEF Occupant
  <2>3. Live' = IF x = "ZOMBIE" THEN Live \ {running} ELSE Live
    BY <2>1 DEF Exits, Live
  <2>4. Parked' = Parked
    BY <1>1, <2>1 DEF Parked
  <2> QED BY <1>0, <1>1, <1>3, <2>1, <2>2, <2>3, <2>4
<1>5. ASSUME NEW next \in Ready(Set(x)), SwitchTo(Set(x), next)
      PROVE  /\ created' = created /\ Live' = IF x = "ZOMBIE" THEN Live \ {running} ELSE Live
             /\ \A s \in Slot : Occupant(s)' = Occupant(s)
             /\ \A s \in Parked \cup {current_thread} :
                  (x = "ZOMBIE" /\ s = current_thread) \/ s \in Parked' \cup {current_thread'}
             /\ \A s \in Slot : state[s] = "ZOMBIE" => state'[s] = "ZOMBIE" /\ s # current_thread
             /\ x = "ZOMBIE" => state'[current_thread] = "ZOMBIE"
  <2>0. next \in Slot /\ Set(x)[next] = "RUNNABLE"
    BY <1>5 DEF Ready
  <2>1. \A s \in Slot : Occupant(s)' = Occupant(s)
    BY <1>0, <1>5, <2>0, SwitchOccupants
  <2>2. created' = created /\ Live' = IF x = "ZOMBIE" THEN Live \ {running} ELSE Live
    BY <1>5 DEF SwitchTo, Exits, Live
  <2>3. \A s \in Slot : state'[s] = IF s = next /\ s # current_thread THEN "RUNNING" ELSE Set(x)[s]
    BY <1>1, <1>5, <2>0 DEF SwitchTo
  <2>4. current_thread' = next
    BY <1>5 DEF SwitchTo
  <2>5. ASSUME NEW s \in Parked \cup {current_thread}, ~(x = "ZOMBIE" /\ s = current_thread)
        PROVE  s \in Parked' \cup {current_thread'}
    BY <1>0, <1>1, <2>0, <2>3, <2>4, <2>5 DEF Parked
  <2>6. ASSUME NEW s \in Slot, state[s] = "ZOMBIE"
        PROVE  state'[s] = "ZOMBIE" /\ s # current_thread
    BY <1>0, <1>1, <2>0, <2>3, <2>6
  <2>7. x = "ZOMBIE" => state'[current_thread] = "ZOMBIE"
    BY <1>0, <1>1, <2>0, <2>3
  <2> QED BY <2>1, <2>2, <2>5, <2>6, <2>7
<1> QED BY <1>3, <1>4, <1>5, RoundRobinCases

\* The creator holds the handle of the new thread.
LEMMA JoinCreates ==
  ASSUME JoinInv, joining[running] = Joins!NoHandle, NEW s \in Slot, CreateIn(s),
         handles' = [handles EXCEPT ![running] = @ \cup {[slot |-> s, flow |-> created']}],
         UNCHANGED <<exit_status, joining>>
  PROVE  JoinInv'
<1>0. /\ JoinTypes /\ TableTypes({"ZOMBIE"}) /\ FlowsKept /\ running \in Flow /\ current_thread \in Slot
      /\ created \in Nat /\ dead \subseteq 0 .. created /\ OneHolder /\ AllHeld
      /\ \A g \in Flow : \A h \in Held(g) : Named(h) /\ h \in [slot : Slot, flow : Flow] /\ h.slot \in Slot
  BY JoinFacts, TableFacts DEF JoinInv
<1> DEFINE new == [slot |-> s, flow |-> created']
<1>1. /\ created' = created + 1 /\ created' \in Flow /\ ~exited /\ ~exited' /\ dead' = dead
      /\ s # current_thread /\ UNCHANGED <<current_thread, running>> /\ state[s] = "FREE"
      /\ state' = [state EXCEPT ![s] = "RUNNABLE"] /\ context' = [context EXCEPT ![s] = created']
  <2>1. s # current_thread
    BY <1>0 DEF CreateIn, With, FlowsKept
  <2> QED BY <1>0, <2>1, ThreadsAssumption DEF CreateIn, Flow, With
<1>2. TableTypes({"ZOMBIE"})' /\ FlowsKept'
  BY <1>0, CreateKeeps
<1>3. JoinTypes'
  BY <1>0, <1>1, <1>2 DEF JoinTypes
<1>4. /\ Held(running)' = Held(running) \cup {new} /\ \A g \in Flow \ {running} : Held(g)' = Held(g)
      /\ handles'[running] = handles[running] \cup {new} /\ \A g \in Flow \ {running} : handles'[g] = handles[g]
  <2>1. handles'[running] = handles[running] \cup {new} /\ \A g \in Flow \ {running} : handles'[g] = handles[g]
    BY <1>0 DEF JoinTypes
  <2> HIDE DEF new
  <2> QED BY <1>1, <2>1 DEF Held
<1>s. state \in [Slot -> {"FREE", "RUNNING", "RUNNABLE"} \cup {"ZOMBIE"}] /\ context \in [Slot -> Flow \cup {NoFlow}]
  BY <1>0, TableFacts
<1>5. new.flow = created' /\ new.slot = s /\ \A g \in Flow : \A h \in Held(g) : h.flow # created' /\ h.slot # s
  <2>1. ASSUME NEW g \in Flow, NEW h \in Held(g)
        PROVE  h.flow # created' /\ h.slot # s
    <3>1. h.flow \in 1 .. created
      BY <1>0 DEF Named
    <3>2. h.slot # s
      <4>1. CASE h.flow \in dead
        BY <1>0, <1>1, <4>1 DEF Named
      <4>2. CASE h.flow \notin dead
        BY <1>0, <1>1, <4>2 DEF Named, Parked
      <4> QED BY <4>1, <4>2
    <3> QED BY <1>0, <1>1, <3>1, <3>2
  <2> QED BY <2>1
<1>6. OneHolder'
  <2>1. \A g \in Flow : joining'[g] \notin handles'[g]
    <3>1. joining[running] # new
      <4>1. new \in [slot : Slot, flow : Flow]
        BY <1>1
      <4> QED BY <1>0, <4>1, JoinFacts
    <3> HIDE DEF new
    <3> QED BY <1>0, <1>4, <3>1 DEF OneHolder
  <2>2. ASSUME NEW g1 \in Flow, NEW g2 \in Flow, NEW h1 \in Held(g1)', NEW h2 \in Held(g2)', h1.flow = h2.flow
        PROVE  g1 = g2 /\ h1 = h2
    <3> HIDE DEF new
    <3>1. \A g \in Flow : \A h \in Held(g)' : h \in Held(g) \/ (h = new /\ g = running)
      BY <1>1, <1>4
    <3>2. CASE h1 = new \/ h2 = new
      BY <1>5, <2>2, <3>1, <3>2
    <3>3. CASE h1 \in Held(g1) /\ h2 \in Held(g2)
      BY <1>0, <2>2, <3>3 DEF OneHolder
    <3> QED BY <3>1, <3>2, <3>3
  <2> QED BY <2>1, <2>2 DEF OneHolder
<1>7. Live' = Live \cup {created'}
  BY <1>0, <1>1 DEF Live
<1>8. AllHeld' /\ (exited' => 0 \notin Live')
  <2> HIDE DEF new
  <2>1. \A f \in Live' \ {0} : \E g \in Flow : \E h \in Held(g)' : h.flow = f
    BY <1>0, <1>1, <1>4, <1>5, <1>7 DEF AllHeld
  <2> QED BY <1>1, <2>1 DEF AllHeld
<1>9. ASSUME NEW g \in Flow, NEW h \in Held(g)'
      PROVE  Named(h)'
  <2>1. CASE h = new
    <3>1. s \in Parked' /\ Occupant(s)' = created'
      BY <1>0, <1>1, TableFacts DEF Parked, Occupant
    <3>2. created' \in (1 .. created)' /\ created' \notin dead'
      BY <1>0, <1>1
    <3> QED BY <1>5, <2>1, <3>1, <3>2 DEF Named
  <2>2. CASE h \in Held(g)
    <3>1. Named(h) /\ h.slot \in Slot /\ h.slot # s
      BY <1>0, <1>5, <2>2
    <3>2. h.flow \in (1 .. created)'
      BY <1>0, <1>1, <3>1 DEF Named
    <3>s. state'[h.slot] = state[h.slot] /\ context'[h.slot] = context[h.slot]
      BY <1>1, <1>s, <3>1
    <3>3. CASE h.flow \in dead
      BY <1>1, <3>1, <3>2, <3>3, <3>s DEF Named
    <3>4. CASE h.flow \notin dead
      <4>1. h.slot \in Parked' \cup {current_thread'} /\ Occupant(h.slot)' = Occupant(h.slot)
        BY <1>1, <3>1, <3>4, <3>s DEF Named, Parked, Occupant
      <4> QED BY <1>1, <3>1, <3>2, <3>4, <4>1 DEF Named
    <3> QED BY <3>3, <3>4
  <2> HIDE DEF new
  <2> QED BY <1>1, <1>4, <2>1, <2>2
<1> QED BY <1>2, <1>3, <1>6, <1>8, <1>9 DEF JoinInv

\* The scheduler moves no thread to another slot, and a thread that ends leaves its zombie there.
LEMMA JoinSchedules ==
  ASSUME JoinInv, NEW x \in {"RUNNABLE", "ZOMBIE"}, Exits(x), RoundRobin(Set(x)), UNCHANGED <<handles, joining>>
  PROVE  JoinInv'
<1>0. JoinTypes /\ TableTypes({"ZOMBIE"}) /\ FlowsKept /\ OneHolder /\ AllHeld /\ running \in Flow
  BY JoinFacts DEF JoinInv
<1>1. /\ TableTypes({"ZOMBIE"})' /\ FlowsKept' /\ (exited' => Live' = {})
      /\ created' = created /\ Live' = IF x = "ZOMBIE" THEN Live \ {running} ELSE Live
      /\ \A s \in Slot : Occupant(s)' = Occupant(s)
      /\ \A s \in Parked \cup {current_thread} :
           (x = "ZOMBIE" /\ s = current_thread) \/ s \in Parked' \cup {current_thread'}
      /\ \A s \in Slot : state[s] = "ZOMBIE" => state'[s] = "ZOMBIE" /\ s # current_thread
      /\ x = "ZOMBIE" => state'[current_thread] = "ZOMBIE"
  BY <1>0, JoinSchedule
<1>2. \A g \in Flow : Held(g)' = Held(g)
  BY DEF Held
<1>3. JoinTypes'
  BY <1>0, <1>1, TableFacts DEF JoinTypes, Exits
<1>4. OneHolder'
  BY <1>0, <1>2 DEF OneHolder
<1>5. AllHeld'
  BY <1>0, <1>1, <1>2 DEF AllHeld
<1>6. ASSUME NEW g \in Flow, NEW h \in Held(g)
      PROVE  Named(h)'
  <2>0. Named(h) /\ h.slot \in Slot /\ h.flow \in (1 .. created)' /\ current_thread \in Slot
    BY <1>0, <1>1, JoinFacts, TableFacts DEF JoinInv, Named
  <2>1. CASE h.flow \in dead
    <3>1. state[h.slot] = "ZOMBIE" /\ exit_status[h.slot] = h.flow
      BY <2>0, <2>1 DEF Named
    <3>2. state'[h.slot] = "ZOMBIE" /\ h.slot # current_thread
      BY <1>1, <2>0, <3>1
    <3>3. exit_status'[h.slot] = h.flow /\ h.flow \in dead'
      BY <1>0, <2>0, <2>1, <3>1, <3>2 DEF Exits, JoinTypes
    <3> QED BY <2>0, <3>2, <3>3 DEF Named
  <2>2. CASE h.flow \notin dead /\ x = "ZOMBIE" /\ h.flow = running
    <3>1. h.slot = current_thread
      <4>1. h.slot \in Parked \cup {current_thread} /\ Occupant(h.slot) = running
        BY <2>0, <2>2 DEF Named
      <4>2. \A s \in Parked : context[s] # running /\ s # current_thread
        BY <1>0 DEF FlowsKept, Exits, Parked
      <4> QED BY <4>1, <4>2 DEF Occupant
    <3>2. state'[h.slot] = "ZOMBIE"
      BY <1>1, <2>2, <3>1
    <3>3. exit_status'[h.slot] = h.flow /\ h.flow \in dead'
      BY <1>0, <2>0, <2>2, <3>1 DEF Exits, JoinTypes
    <3> QED BY <2>0, <3>2, <3>3 DEF Named
  <2>3. CASE h.flow \notin dead /\ ~(x = "ZOMBIE" /\ h.flow = running)
    <3>1. h.flow \notin dead'
      BY <2>3 DEF Exits
    <3>2. h.slot \in Parked \cup {current_thread} /\ Occupant(h.slot) = h.flow
      BY <2>0, <2>3 DEF Named
    <3>3. ~(x = "ZOMBIE" /\ h.slot = current_thread)
      BY <2>3, <3>2 DEF Occupant
    <3>4. h.slot \in Parked' \cup {current_thread'} /\ Occupant(h.slot)' = h.flow
      BY <1>1, <2>0, <3>2, <3>3
    <3> QED BY <2>0, <3>1, <3>4 DEF Named
  <2> QED BY <2>1, <2>2, <2>3
<1> QED BY <1>1, <1>2, <1>3, <1>4, <1>5, <1>6 DEF JoinInv

\* A caller of thread_join has the handle until it returns.
LEMMA JoinAsks ==
  ASSUME JoinInv, joining[running] = Joins!NoHandle, NEW h \in handles[running],
         joining' = [joining EXCEPT ![running] = h], handles' = [handles EXCEPT ![running] = @ \ {h}],
         UNCHANGED <<tableVars, exit_status>>
  PROVE  JoinInv' /\ h # Joins!NoHandle
<1>0. /\ JoinTypes /\ TableTypes({"ZOMBIE"}) /\ FlowsKept /\ OneHolder /\ AllHeld /\ running \in Flow
      /\ h \in [slot : Slot, flow : Flow] /\ h # Joins!NoHandle
  BY JoinFacts DEF JoinInv, JoinTypes
<1>1. TableTypes({"ZOMBIE"})' /\ FlowsKept' /\ Live' = Live /\ Parked' = Parked
  BY <1>0, TableStands
<1>2. \A g \in Flow : Held(g)' = Held(g)
  BY <1>0 DEF Held, JoinTypes
<1>3. JoinTypes'
  BY <1>0, <1>1 DEF JoinTypes
<1>4. OneHolder'
  <2>1. \A g \in Flow : joining'[g] \notin handles'[g]
    BY <1>0 DEF JoinTypes, OneHolder
  <2> QED BY <1>0, <1>2, <2>1 DEF OneHolder
<1>5. AllHeld' /\ \A g \in Flow : \A k \in Held(g)' : Named(k)'
  BY <1>0, <1>1, <1>2 DEF JoinInv, AllHeld, Named, Occupant, tableVars
<1> QED BY <1>0, <1>1, <1>3, <1>4, <1>5 DEF JoinInv, tableVars

\* It returns with its own target's zombie, and nobody else has a handle to that slot.
LEMMA JoinReturned ==
  ASSUME JoinInv, ~exited, joining[running] # Joins!NoHandle,
         state[joining[running].slot] \in {"ZOMBIE", "FREE"},
         state' = IF state[joining[running].slot] = "ZOMBIE"
                  THEN [state EXCEPT ![joining[running].slot] = "FREE"] ELSE state,
         joining' = [joining EXCEPT ![running] = Joins!NoHandle],
         UNCHANGED <<current_thread, context, running, created, exited, dead, exit_status, handles>>
  PROVE  JoinInv' /\ joining[running].flow \in dead /\ state'[joining[running].slot] = "FREE"
<1> DEFINE h == joining[running]
<1>0. /\ JoinTypes /\ TableTypes({"ZOMBIE"}) /\ FlowsKept /\ OneHolder /\ AllHeld /\ running \in Flow
      /\ h \in Held(running) /\ h.slot \in Slot /\ current_thread \in Slot
      /\ state[current_thread] \in {"RUNNING", "RUNNABLE"}
  BY JoinFacts, TableFacts DEF JoinInv, Held, FlowsKept
<1>1. h.flow \in dead /\ state[h.slot] = "ZOMBIE" /\ exit_status[h.slot] = h.flow
  BY <1>0 DEF JoinInv, Named, Parked
<1> HIDE DEF h
<1>2. state' = [state EXCEPT ![h.slot] = "FREE"] /\ state'[h.slot] = "FREE"
  BY <1>0, <1>1, TableFacts DEF h
<1>3. Parked' = Parked /\ Live' = Live /\ \A s \in Parked \cup {current_thread} : s # h.slot /\ state'[s] = state[s]
  BY <1>0, <1>1, <1>2, TableFacts DEF Parked, Live
<1>4. TableTypes({"ZOMBIE"})'
  BY <1>0, <1>2 DEF TableTypes
<1>5. FlowsKept'
  BY <1>0, <1>3 DEF FlowsKept
<1>6. Held(running)' = Held(running) \ {h} /\ \A g \in Flow \ {running} : Held(g)' = Held(g)
  BY <1>0 DEF Held, JoinTypes, OneHolder, h
<1>7. JoinTypes'
  BY <1>0, <1>4 DEF JoinTypes
<1>8. OneHolder'
  <2>1. \A g \in Flow : joining'[g] \notin handles'[g]
    <3>1. Joins!NoHandle \notin handles[running]
      BY <1>0, JoinFacts DEF JoinTypes
    <3> QED BY <1>0, <3>1 DEF JoinTypes, OneHolder
  <2> QED BY <1>0, <1>6, <2>1 DEF OneHolder
<1>9. AllHeld'
  <2>1. \A f \in Live : f # h.flow
    BY <1>1 DEF Live
  <2> QED BY <1>0, <1>3, <1>6, <2>1 DEF AllHeld
<1>10. ASSUME NEW g \in Flow, NEW k \in Held(g)'
       PROVE  Named(k)'
  <2>1. k \in Held(g) /\ (k # h \/ g # running) /\ Named(k) /\ k.slot \in Slot
    BY <1>0, <1>6, JoinFacts DEF JoinInv
  <2>2. k.flow # h.flow
    BY <1>0, <2>1 DEF OneHolder
  <2>3. CASE k.flow \in dead
    BY <1>0, <1>1, <1>2, <2>1, <2>2, <2>3, TableFacts DEF Named
  <2>4. CASE k.flow \notin dead
    BY <1>3, <2>1, <2>4 DEF Named, Occupant
  <2> QED BY <2>3, <2>4
<1> QED BY <1>1, <1>2, <1>4, <1>5, <1>7, <1>8, <1>9, <1>10 DEF JoinInv, h

LEMMA JoinStep ==
  ASSUME JoinInv, Joins!Next \/ UNCHANGED <<tableVars, exit_status, handles, joining>>
  PROVE  JoinInv' /\ Joins!JoinWaits
<1>0. JoinTypes /\ TableTypes({"ZOMBIE"}) /\ FlowsKept /\ running \in Flow /\ joining \in [Flow -> [slot : Slot, flow : Flow] \cup {Joins!NoHandle}]
  BY JoinFacts DEF JoinInv, JoinTypes
<1>w. SUFFICES /\ JoinInv'
               /\ \A f \in Flow : joining[f] # Joins!NoHandle /\ joining'[f] = Joins!NoHandle =>
                    joining[f].flow \in dead /\ state'[joining[f].slot] = "FREE"
  BY DEF Joins!JoinWaits, Joins!Flow, Flow
<1>1. CASE /\ joining[running] = Joins!NoHandle
           /\ \E s \in Slot :
                /\ CreateIn(s)
                /\ handles' = [handles EXCEPT ![running] = @ \cup {[slot |-> s, flow |-> created']}]
           /\ UNCHANGED <<exit_status, joining>>
  BY <1>1, JoinCreates
<1>2. ASSUME NEW x \in {"RUNNABLE", "ZOMBIE"}, Exits(x), RoundRobin(Set(x)), UNCHANGED <<handles, joining>>
      PROVE  JoinInv' /\ joining' = joining
  BY <1>2, JoinSchedules
<1>3. ASSUME joining[running] = Joins!NoHandle, NEW h \in handles[running],
             joining' = [joining EXCEPT ![running] = h], handles' = [handles EXCEPT ![running] = @ \ {h}],
             UNCHANGED <<tableVars, exit_status>>
      PROVE  JoinInv' /\ \A f \in Flow : joining'[f] = joining[f] \/ joining'[f] # Joins!NoHandle
  BY <1>0, <1>3, JoinAsks
<1>4. ASSUME ~exited, joining[running] # Joins!NoHandle,
             state[joining[running].slot] \in {"ZOMBIE", "FREE"},
             state' = IF state[joining[running].slot] = "ZOMBIE"
                      THEN [state EXCEPT ![joining[running].slot] = "FREE"] ELSE state,
             joining' = [joining EXCEPT ![running] = Joins!NoHandle],
             UNCHANGED <<current_thread, context, running, created, exited, dead, exit_status, handles>>
      PROVE  /\ JoinInv' /\ joining[running].flow \in dead /\ state'[joining[running].slot] = "FREE"
             /\ \A f \in Flow \ {running} : joining'[f] = joining[f]
  BY <1>0, <1>4, JoinReturned
<1>5. ASSUME ~exited, running = 0, exited' = TRUE, dead' = dead \cup {0},
             UNCHANGED <<state, current_thread, context, running, created, exit_status, handles, joining>>
      PROVE  JoinInv' /\ joining' = joining
  <2>1. Live' = Live \ {0} /\ 0 \in Live
    BY <1>0, <1>5 DEF Live, FlowsKept
  <2>2. TableTypes({"ZOMBIE"})'
    BY <1>0, <1>5, <2>1 DEF TableTypes, Live
  <2>3. JoinTypes' /\ FlowsKept' /\ \A g \in Flow : Held(g)' = Held(g)
    BY <1>0, <1>5, <2>2 DEF JoinTypes, FlowsKept, Held
  <2>4. OneHolder' /\ AllHeld'
    BY <1>5, <2>1, <2>3 DEF JoinInv, OneHolder, AllHeld
  <2>5. ASSUME NEW g \in Flow, NEW h \in Held(g)
        PROVE  Named(h)'
    <3>1. Named(h) /\ h.flow # 0
      BY DEF JoinInv, Named
    <3> QED BY <1>5, <3>1 DEF Named, Parked, Occupant
  <2> QED BY <1>5, <2>1, <2>3, <2>4, <2>5 DEF JoinInv
<1>6. CASE UNCHANGED <<tableVars, exit_status, handles, joining>>
  <2>1. TableTypes({"ZOMBIE"})' /\ FlowsKept' /\ Live' = Live /\ Parked' = Parked
    BY <1>0, <1>6, TableStands
  <2>2. JoinTypes' /\ \A g \in Flow : Held(g)' = Held(g)
    BY <1>0, <1>6, <2>1 DEF JoinTypes, Held
  <2>3. OneHolder' /\ AllHeld' /\ \A g \in Flow : \A h \in Held(g)' : Named(h)'
    BY <1>6, <2>1, <2>2 DEF JoinInv, OneHolder, AllHeld, Named, Occupant, tableVars
  <2> QED BY <1>6, <2>1, <2>2, <2>3 DEF JoinInv, tableVars
<1> QED BY <1>1, <1>2, <1>3, <1>4, <1>5, <1>6, JoinSteps

LEMMA JoinNames ==
  ASSUME JoinInv
  PROVE  Joins!TypeOK /\ Joins!HandlesValid /\ Joins!OnlyUnjoinedAbandoned
<1>1. Joins!TypeOK
  BY DEF JoinInv, JoinTypes, Joins!TypeOK, Joins!Handle, Joins!TableTypes, TableTypes, Joins!Slot, Slot,
         Joins!Flow, Flow, Joins!NoFlow, NoFlow
<1>2. Joins!HandlesValid
  <2>1. ASSUME NEW g \in Flow, NEW h \in Held(g)
        PROVE  IF h.flow \in dead
               THEN state[h.slot] = "ZOMBIE" /\ exit_status[h.slot] = h.flow
               ELSE (running = h.flow /\ current_thread = h.slot) \/ (h.slot \in Parked /\ context[h.slot] = h.flow)
    BY DEF JoinInv, Named, Occupant, Parked
  <2>2. Joins!Parked = Parked /\ Joins!Flow = Flow
    BY DEF Joins!Parked, Parked, Joins!Slot, Slot, Joins!Flow, Flow
  <2> QED BY <2>1, <2>2 DEF Joins!HandlesValid, Held
<1>3. Joins!OnlyUnjoinedAbandoned
  BY DEF JoinInv, AllHeld, Held, Joins!OnlyUnjoinedAbandoned, Joins!Live, Live, Joins!Flow, Flow
<1> QED BY <1>1, <1>2, <1>3
-----------------------------------------------------------------------------
(* All the packages. *)

PackagesInv ==
  /\ package = "uthreads2.c"  => PriorityInv
  /\ package = "uthreads3.c"  => JoinInv
  /\ package = "uthreads4.c"  => InTurn
  /\ package = "uthreads5.c"  => SleepInv
  /\ package = "uthreads6.c"  => LotteryInv
  /\ package = "uthreads7.c"  => SuspendInv
  /\ package = "uthreads8.c"  => TidInv
  /\ package = "uthreads9.c"  => YieldToInv
  /\ package = "uthreads10.c" => MLFQInv
  /\ package # "uthreads4.c"  => NoMutex
  /\ package \in {"uthreads2.c", "uthreads3.c", "uthreads4.c", "uthreads5.c", "uthreads6.c", "uthreads7.c",
                  "uthreads8.c", "uthreads9.c", "uthreads10.c"}

LEMMA InitPackages ==
  ASSUME PackagesAssumption, PackagesInit
  PROVE  PackagesInv
<1>1. CountsAssumption
  BY DEF PackagesAssumption
<1> QED BY <1>1, PriorityInit, JoinInit, InitInTurn, SleepInit, LotteryInit, SuspendInit, TidInit, YieldToInit,
           MLFQInit DEF PackagesInit, PackagesInv

\* Each step is one of the package that runs, which leaves the variables of the others alone.
LEMMA PackagesCases ==
  ASSUME [PackagesNext]_allVars
  PROVE  /\ package' = package
         /\ package # "uthreads4.c" => UNCHANGED mutexVars
         /\ package = "uthreads2.c"  => Priority!Next \/ UNCHANGED <<tableVars, priority>>
         /\ package = "uthreads3.c"  => Joins!Next \/ UNCHANGED <<tableVars, exit_status, handles, joining>>
         /\ package = "uthreads4.c"  => [MutexNext]_vars
         /\ package = "uthreads5.c"  => Sleeps!Next \/ UNCHANGED <<tableVars, left>>
         /\ package = "uthreads6.c"  => Lottery!Next \/ UNCHANGED <<tableVars, tickets>>
         /\ package = "uthreads7.c"  => Suspends!Next \/ UNCHANGED tableVars
         /\ package = "uthreads8.c"  => Tids!Next \/ UNCHANGED <<tableVars, tid, next_tid, handle>>
         /\ package = "uthreads9.c"  => YieldTo!Next \/ UNCHANGED tableVars
         /\ package = "uthreads10.c" => MLFQ!Next \/ UNCHANGED <<tableVars, queue_level>>
<1>1. CASE UNCHANGED allVars
  BY <1>1 DEF allVars, vars, tableVars, mutexVars
<1>2. CASE PackagesNext
  BY <1>2 DEF PackagesNext, Other, In
<1> QED BY <1>1, <1>2

LEMMA StepPackages ==
  ASSUME PackagesAssumption, PackagesInv, [PackagesNext]_allVars
  PROVE  PackagesInv'
<1>1. CountsAssumption
  BY DEF PackagesAssumption
<1>2. package # "uthreads4.c" => NoMutex'
  BY PackagesCases DEF PackagesInv, NoMutex, mutexVars
<1>3. CASE package = "uthreads2.c"
  BY <1>2, <1>3, PackagesCases, PriorityStep DEF PackagesInv
<1>4. CASE package = "uthreads3.c"
  BY <1>2, <1>4, PackagesCases, JoinStep DEF PackagesInv
<1>5. CASE package = "uthreads4.c"
  BY <1>1, <1>5, PackagesCases, StepInTurn DEF PackagesInv
<1>6. CASE package = "uthreads5.c"
  BY <1>2, <1>6, PackagesCases, SleepStep DEF PackagesInv
<1>7. CASE package = "uthreads6.c"
  BY <1>2, <1>7, PackagesCases, LotteryStep DEF PackagesInv
<1>8. CASE package = "uthreads7.c"
  BY <1>2, <1>8, PackagesCases, SuspendStep DEF PackagesInv
<1>9. CASE package = "uthreads8.c"
  BY <1>2, <1>9, PackagesCases, TidStep DEF PackagesInv
<1>10. CASE package = "uthreads9.c"
  BY <1>2, <1>10, PackagesCases, YieldToStep DEF PackagesInv
<1>11. CASE package = "uthreads10.c"
  BY <1>2, <1>11, PackagesCases, MLFQStep DEF PackagesInv
<1> QED BY <1>3, <1>4, <1>5, <1>6, <1>7, <1>8, <1>9, <1>10, <1>11 DEF PackagesInv

\* The inductive invariant of all the packages.
THEOREM PackagesStand == ASSUME PackagesAssumption PROVE PackagesSpec => []PackagesInv
<1>1. PackagesInit => PackagesInv
  BY InitPackages
<1>2. PackagesInv /\ [PackagesNext]_allVars => PackagesInv'
  BY StepPackages
<1> QED BY <1>1, <1>2, PTL DEF PackagesSpec

LEMMA PackagesTypes ==
  ASSUME PackagesAssumption, PackagesInv
  PROVE  StacksKept
<1>1. CountsAssumption
  BY DEF PackagesAssumption
<1>2. ASSUME PriorityInv
      PROVE  Priority!TypeOK /\ FlowsKept
  BY <1>2 DEF PriorityInv, Priority!TypeOK, Priority!TableTypes, TableTypes, Priority!Slot, Slot,
              Priority!Flow, Flow, Priority!NoFlow, NoFlow
<1>3. ASSUME YieldToInv
      PROVE  YieldTo!TypeOK /\ FlowsKept
  BY <1>3 DEF YieldToInv, PlainKept, YieldTo!TypeOK, YieldTo!TableTypes, TableTypes, YieldTo!Slot, Slot,
              YieldTo!Flow, Flow, YieldTo!NoFlow, NoFlow
<1>4. ASSUME MLFQInv
      PROVE  MLFQ!TypeOK /\ FlowsKept
  BY <1>4 DEF MLFQInv, PlainKept, MLFQ!TypeOK, MLFQ!TableTypes, TableTypes, MLFQ!Slot, Slot,
              MLFQ!Flow, Flow, MLFQ!NoFlow, NoFlow
<1>5. /\ JoinInv => Joins!TypeOK /\ FlowsKept
      /\ SleepInv => Sleeps!TypeOK /\ FlowsKept
      /\ LotteryInv => Lottery!TypeOK /\ FlowsKept
      /\ SuspendInv => Suspends!TypeOK /\ FlowsKept
      /\ TidInv => Tids!TypeOK /\ FlowsKept
      /\ InTurn => FlowsKept
  BY <1>1, JoinNames, SleepLeaves, LotteryDraws, SuspendLeaves, TidNames, TurnsKeepFlows
     DEF JoinInv, SleepInv, LotteryInv, SuspendInv, TidInv, PlainKept
<1> QED BY <1>2, <1>3, <1>4, <1>5 DEF PackagesInv, StacksKept, TypesOK

\* In every package, for every table and every number of threads, each flow that has not
\* ended runs or is parked in one slot of its own: no stack is lost, shared, or run again.
THEOREM PackagesKeepStacks == ASSUME PackagesAssumption PROVE PackagesSpec => []StacksKept
<1>1. PackagesInv => StacksKept
  BY PackagesTypes
<1> QED BY <1>1, PackagesStand, PTL

LEMMA PackagesLeave ==
  ASSUME PackagesAssumption, LowNumbers, YIELDS > 2 * ITERATIONS, PackagesInv
  PROVE  AbandonsOnly
<1>1. CountsAssumption
  BY DEF PackagesAssumption
<1>2. PriorityInv => NoneAbandoned /\ Priority!ExitMeansNoRunnable
  BY DEF PriorityInv, Priority!ExitMeansNoRunnable, Priority!With, With, Priority!Slot, Slot
<1>3. package \in Plain => NoneAbandoned
  BY <1>2 DEF PackagesInv, Plain, TidInv, YieldToInv, MLFQInv, PlainKept
<1> QED BY <1>1, <1>2, <1>3, JoinNames, SleepLeaves, LotteryDraws, SuspendLeaves, TurnsPrintAll
        DEF PackagesInv, AbandonsOnly

\* exit(0) abandons nobody in the plain packages, and otherwise only those whom the package's
\* own calls have put aside.  Priorities are below 9999 as in main of uthreads2.c, and main of
\* uthreads4.c yields more often than the two workers iterate.
THEOREM PackagesAbandonOnly ==
  ASSUME PackagesAssumption, LowNumbers, YIELDS > 2 * ITERATIONS
  PROVE  PackagesSpec => []AbandonsOnly
<1>1. PackagesInv => AbandonsOnly
  BY PackagesLeave
<1> QED BY <1>1, PackagesStand, PTL

\* The workers of uthreads4.c lose no increment.
THEOREM PackagesKeepIncrements == ASSUME PackagesAssumption PROVE PackagesSpec => []NoLostIncrement
<1>1. CountsAssumption
  BY DEF PackagesAssumption
<1>2. NoMutex => NoLostIncrement
  <2>1. 1 \in Flow /\ 2 \in Flow
    BY <1>1, ThreadsAssumption DEF Flow
  <2> QED BY <2>1 DEF NoMutex, NoLostIncrement
<1>3. PackagesInv => NoLostIncrement
  BY <1>1, <1>2, TurnsCount DEF PackagesInv
<1> QED BY <1>3, PackagesStand, PTL

\* A handle names its thread until it is joined, each thread sees its own id and no id is given
\* twice, each ticket has one winner.  Each holder of tickets may win if all the tickets
\* together are fewer than the generator has values.
THEOREM PackagesName ==
  ASSUME PackagesAssumption, NEW M \in Nat, Tickets \subseteq 0 .. M, MAX_THREAD * M <= RAND
  PROVE  PackagesSpec => []NamesAndLotsRight
<1>1. PackagesInv => NamesAndLotsRight
  BY JoinNames, TidNames, LotteryDraws DEF PackagesInv, NamesAndLotsRight
<1> QED BY <1>1, PackagesStand, PTL

\* Nobody with a higher number, and nobody who has yielded, gets the CPU from one who should
\* have it, and only a yield by name passes a thread over.
THEOREM PackagesChoose == ASSUME PackagesAssumption PROVE PackagesSpec => RightNext
<1>1. ASSUME PackagesInv, [PackagesNext]_allVars
      PROVE  [/\ package = "uthreads2.c" => Priority!LowestFirst
              /\ package = "uthreads10.c" => MLFQ!YieldersWait
              /\ package = "uthreads9.c" => YieldTo!PassedOverByNameOnly]_allVars
  BY <1>1, PackagesCases, PriorityStep, MLFQStep, YieldToStep DEF PackagesInv
<1> QED BY <1>1, PackagesStand, PTL DEF PackagesSpec, RightNext

\* thread_join returns only after its own target has ended, and a suspended thread keeps its
\* stack and does not run until it is resumed.
THEOREM PackagesMakeWait == ASSUME PackagesAssumption PROVE PackagesSpec => WaitersWait
<1>1. ASSUME PackagesInv, [PackagesNext]_allVars
      PROVE  [/\ package = "uthreads3.c" => Joins!JoinWaits
              /\ package = "uthreads7.c" => Suspends!SuspendedStays]_allVars
  BY <1>1, PackagesCases, JoinStep, SuspendStep DEF PackagesInv
<1> QED BY <1>1, PackagesStand, PTL DEF PackagesSpec, WaitersWait

\* The plain packages implement coroutines, step by step.
THEOREM PackagesImplement ==
  ASSUME PackagesAssumption, LowNumbers
  PROVE  PackagesSpec => PlainImplement
<1>1. ASSUME PackagesInv, [PackagesNext]_allVars
      PROVE  [(package \in Plain) => (Coroutines!Next \/ UNCHANGED Coroutines!coVars)]_allVars
  BY <1>1, PackagesCases, PriorityRefines, TidStep, YieldToStep, MLFQStep DEF PackagesInv, Plain
<1> QED BY <1>1, PackagesStand, PTL DEF PackagesSpec, PlainImplement
=============================================================================
