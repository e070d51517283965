------------------------------ MODULE MCPackages ------------------------------
(***************************************************************************)
(* The thread packages that choose the next thread differently or have     *)
(* calls of their own, for TLC, one at a time: package says which.         *)
(* A variable that the package does not have is Unused, or says that nobody*)
(* joins, is new or counts, where a property looks at it in every package. *)
(* uthreads4.c comes by EXTENDS, the others by INSTANCE.                   *)
(***************************************************************************)
EXTENDS UThreadMutex

CONSTANTS Priorities, Tickets, RAND, MaxTicks

VARIABLES package, priority, exit_status, handles, joining, left, tickets,
          tid, next_tid, handle, queue_level
mutexVars == <<locked, shared_counter, i, temp>>
allVars == <<tableVars, package, priority, exit_status, handles, joining, left, tickets,
          tid, next_tid, handle, queue_level, mutexVars>>

Priority == INSTANCE UThreadPriority
Joins    == INSTANCE UThreadJoin
Sleeps   == INSTANCE UThreadSleep
Lottery  == INSTANCE UThreadLottery
Suspends == INSTANCE UThreadSuspend
Tids     == INSTANCE UThreadTid
YieldTo  == INSTANCE UThreadYieldTo
MLFQ     == INSTANCE UThreadMLFQ

ASSUME PackagesAssumption ==
  /\ Priorities \subseteq Int /\ Tickets \subseteq Nat
  /\ RAND \in Nat \ {0} /\ MaxTicks \in Nat /\ CountsAssumption

Unused == "unused"
NoJoin   == exit_status = Unused /\ handles = Unused /\ joining = [f \in Flow |-> Joins!NoHandle]
NoTid    == tid = Unused /\ next_tid = Unused /\ handle = Unused
NoLevel  == queue_level = [s \in Slot |-> 1]
NoChoice == priority = Unused /\ tickets = Unused /\ NoLevel
NoMutex  == locked = 0 /\ shared_counter = 0 /\ i = [f \in Flow |-> 0] /\ temp = [f \in Worker |-> None]

PackagesInit ==
  \/ /\ package = "uthreads2.c" /\ Priority!Init
     /\ NoJoin /\ NoTid /\ NoMutex /\ left = Unused /\ tickets = Unused /\ NoLevel
  \/ package = "uthreads3.c" /\ Joins!Init /\ NoTid /\ NoMutex /\ NoChoice /\ left = Unused
  \/ package = "uthreads4.c" /\ MutexInit /\ NoJoin /\ NoTid /\ NoChoice /\ left = Unused
  \/ package = "uthreads5.c" /\ Sleeps!Init /\ NoJoin /\ NoTid /\ NoMutex /\ NoChoice
  \/ /\ package = "uthreads6.c" /\ Lottery!Init
     /\ NoJoin /\ NoTid /\ NoMutex /\ left = Unused /\ priority = Unused /\ NoLevel
  \/ package = "uthreads7.c" /\ Suspends!Init /\ NoJoin /\ NoTid /\ NoMutex /\ NoChoice /\ left = Unused
  \/ package = "uthreads8.c" /\ Tids!Init /\ NoJoin /\ NoMutex /\ NoChoice /\ left = Unused
  \/ package = "uthreads9.c" /\ YieldTo!Init /\ NoJoin /\ NoTid /\ NoMutex /\ NoChoice /\ left = Unused
  \/ /\ package = "uthreads10.c" /\ MLFQ!Init
     /\ NoJoin /\ NoTid /\ NoMutex /\ left = Unused /\ priority = Unused /\ tickets = Unused

\* What a step of each package leaves alone.
In(p)   == package = p /\ UNCHANGED package
KeepJoin   == UNCHANGED <<exit_status, handles, joining>>
KeepTid    == UNCHANGED <<tid, next_tid, handle>>
KeepChoice == UNCHANGED <<priority, tickets, queue_level>>

Other(p) == In(p) /\ UNCHANGED mutexVars
PackagesNext ==
  \/ Other("uthreads2.c") /\ Priority!Next /\ KeepJoin /\ KeepTid /\ UNCHANGED <<left, tickets, queue_level>>
  \/ Other("uthreads3.c") /\ Joins!Next /\ KeepTid /\ KeepChoice /\ UNCHANGED left
  \/ In("uthreads4.c") /\ MutexNext /\ KeepJoin /\ KeepTid /\ KeepChoice /\ UNCHANGED left
  \/ Other("uthreads5.c") /\ Sleeps!Next /\ KeepJoin /\ KeepTid /\ KeepChoice
  \/ Other("uthreads6.c") /\ Lottery!Next /\ KeepJoin /\ KeepTid /\ UNCHANGED <<left, priority, queue_level>>
  \/ Other("uthreads7.c") /\ Suspends!Next /\ KeepJoin /\ KeepTid /\ KeepChoice /\ UNCHANGED left
  \/ Other("uthreads8.c") /\ Tids!Next /\ KeepJoin /\ KeepChoice /\ UNCHANGED left
  \/ Other("uthreads9.c") /\ YieldTo!Next /\ KeepJoin /\ KeepTid /\ KeepChoice /\ UNCHANGED left
  \/ Other("uthreads10.c") /\ MLFQ!Next /\ KeepJoin /\ KeepTid /\ UNCHANGED <<left, priority, tickets>>

PackagesSpec == PackagesInit /\ [][PackagesNext]_allVars
\* Each flow calls the library again and again until it ends, and not only to create.
PackagesFair == PackagesSpec /\ WF_allVars(PackagesNext /\ created' = created)
-----------------------------------------------------------------------------
TypesOK ==
  /\ package = "uthreads2.c"  => Priority!TypeOK
  /\ package = "uthreads3.c"  => Joins!TypeOK
  /\ package = "uthreads4.c"  => InTurn
  /\ package = "uthreads5.c"  => Sleeps!TypeOK
  /\ package = "uthreads6.c"  => Lottery!TypeOK
  /\ package = "uthreads7.c"  => Suspends!TypeOK
  /\ package = "uthreads8.c"  => Tids!TypeOK
  /\ package = "uthreads9.c"  => YieldTo!TypeOK
  /\ package = "uthreads10.c" => MLFQ!TypeOK

\* In every package each flow that has not ended runs or is parked in one slot of its own.
StacksKept == TypesOK /\ FlowsKept

\* The packages without join, sleep, lots or suspension, and whose main does not exit.
Plain == {"uthreads2.c", "uthreads8.c", "uthreads9.c", "uthreads10.c"}

\* exit(0) abandons nobody in the plain packages, and otherwise only those that the
\* package's own calls have put aside: threads nobody has joined, sleepers, threads
\* without tickets, suspended threads.  main of uthreads4.c leaves no worker behind.
AbandonsOnly ==
  /\ package \in Plain => NoneAbandoned
  /\ package = "uthreads2.c" => Priority!ExitMeansNoRunnable
  /\ package = "uthreads3.c" => Joins!OnlyUnjoinedAbandoned
  /\ package = "uthreads4.c" => FinalCounter
  /\ package = "uthreads5.c" => Sleeps!OnlySleepersAbandoned
  /\ package = "uthreads6.c" => Lottery!OnlyTicketlessAbandoned
  /\ package = "uthreads7.c" => Suspends!OnlySuspendedAbandoned

\* Who gets the CPU.  uthreads2.c: nobody while a thread with a lower number is RUNNABLE.
\* uthreads10.c: nobody who has yielded from one who has not.  uthreads9.c: the scheduler
\* goes round, and only a yield by name passes a thread over.
RightNext ==
  [][/\ package = "uthreads2.c" => Priority!LowestFirst
     /\ package = "uthreads10.c" => MLFQ!YieldersWait
     /\ package = "uthreads9.c" => YieldTo!PassedOverByNameOnly]_allVars

\* Names and lots stay right although slots are reused.  uthreads3.c: a handle names its
\* thread until it is joined.  uthreads8.c: ids are unique, and each thread sees its own.
\* uthreads6.c: each ticket has exactly one winner, and each holder of tickets may win.
NamesAndLotsRight ==
  /\ package = "uthreads3.c" => Joins!HandlesValid
  /\ package = "uthreads8.c" => Tids!OwnTid /\ Tids!UniqueTids
  /\ package = "uthreads6.c" => Lottery!OneWinner /\ Lottery!EveryHolderCanWin

\* Who waits, waits.  uthreads3.c: thread_join returns only after its own target has ended.
\* uthreads7.c: a suspended thread keeps its stack and does not run until it is resumed.
WaitersWait ==
  [][/\ package = "uthreads3.c" => Joins!JoinWaits
     /\ package = "uthreads7.c" => Suspends!SuspendedStays]_allVars

\* The plain packages implement coroutines, step by step.
PlainImplement ==
  [][(package \in Plain) => (Coroutines!Next \/ UNCHANGED Coroutines!coVars)]_allVars

\* What each package owes its threads comes: a sleeper runs again, a join of an ended
\* thread returns, a new thread of uthreads10.c gets the CPU unless the slots before its
\* own never stop to be filled anew, and main of uthreads4.c comes to its print.
DuesPaid ==
  /\ Joins!JoinReturns /\ Sleeps!SleepersRun /\ MLFQ!NewcomersRun
  /\ package = "uthreads4.c" => MainEnds
=============================================================================
