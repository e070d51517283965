------------------------------- MODULE UThreads -------------------------------
(***************************************************************************)
(* What the cooperative thread packages w5labs/uthreads1.c to uthreads10.c *)
(* share: the thread table, creation in the first free slot, and the       *)
(* switch at the end of thread_schedule.  Each package adds its own way to *)
(* choose the next thread, and its own calls, in a module that EXTENDS     *)
(* this one.                                                               *)
(*                                                                         *)
(* A flow is one run of a thread function; main is flow 0 and the others   *)
(* are numbered as they are created.  A slot of all_thread is reused, a    *)
(* flow is not: context[s] is the flow whose registers and stack the slot  *)
(* holds, and running is the flow that the CPU is really executing.        *)
(***************************************************************************)
EXTENDS Integers, FiniteSets

CONSTANTS MAX_THREAD,
          MaxCreate    \* bound: thread_create is called at most so often

ASSUME ThreadsAssumption == MAX_THREAD \in Nat \ {0} /\ MaxCreate \in Nat

VARIABLES state, current_thread,
          context, running, created,
          dead,    \* the flows that have ended
          exited   \* the process has called exit(0)
tableVars == <<state, current_thread, context, running, created, dead, exited>>

Slot   == 0 .. MAX_THREAD - 1
Flow   == 0 .. MaxCreate
NoFlow == -1

With(st)  == {s \in Slot : state[s] = st}
Ready(st) == {s \in Slot : st[s] = "RUNNABLE"}
Set(st)   == [state EXCEPT ![current_thread] = st]

\* thread_init: main is in slot 0.
TableInit ==
  /\ state = [s \in Slot |-> IF s = 0 THEN "RUNNING" ELSE "FREE"]
  /\ current_thread = 0
  /\ context = [s \in Slot |-> NoFlow]
  /\ running = 0 /\ created = 0 /\ dead = {} /\ exited = FALSE

\* Mutant: thread_create takes the first slot that is not running.
CreateOver(s) ==
  /\ ~exited /\ created < MaxCreate
  /\ s \notin With("RUNNING") /\ \A u \in Slot \ With("RUNNING") : s <= u
  /\ state' = [state EXCEPT ![s] = "RUNNABLE"]
  /\ context' = [context EXCEPT ![s] = created + 1]
  /\ created' = created + 1
  /\ UNCHANGED <<current_thread, running, dead, exited>>

\* thread_create takes the first free slot.  With no free slot it would write
\* past all_thread: callers may not create then.
CreateIn(s) ==
  /\ ~exited /\ created < MaxCreate
  /\ s \in With("FREE") /\ \A u \in With("FREE") : s <= u
  /\ state' = [state EXCEPT ![s] = "RUNNABLE"]
  /\ context' = [context EXCEPT ![s] = created + 1]
  /\ created' = created + 1
  /\ UNCHANGED <<current_thread, running, dead, exited>>

\* Mutant: thread_switch does not save the registers of the thread it leaves.
SwitchUnsaved(st, next) ==
  /\ IF next = current_thread THEN state' = st /\ UNCHANGED <<current_thread, running>>
     ELSE state' = [st EXCEPT ![next] = "RUNNING"] /\ current_thread' = next /\ running' = context[next]
  /\ UNCHANGED <<context, created, exited>>

\* The end of thread_schedule: st is the table as the caller left it.  A thread
\* that is chosen by its own yield goes on without a switch, still RUNNABLE.
SwitchTo(st, next) ==
  /\ IF next = current_thread THEN state' = st /\ UNCHANGED <<current_thread, context, running>>
     ELSE /\ state' = [st EXCEPT ![next] = "RUNNING"]
          /\ current_thread' = next
          /\ context' = [context EXCEPT ![current_thread] = running]
          /\ running' = context[next]
  /\ UNCHANGED <<created, exited>>

\* ... or nobody can run.
ExitProcess(st) ==
  /\ state' = st /\ exited' = TRUE
  /\ UNCHANGED <<current_thread, context, running, created>>

\* The circular scan of thread_schedule starts after the current thread, and
\* comes to the current thread last.
Dist(from, s) == IF s > from THEN s - from ELSE s - from + MAX_THREAD
\* Mutant: the scan ends before it comes back to the current thread.
ScanOthers(st) ==
  IF Ready(st) \subseteq {current_thread} THEN ExitProcess(st)
  ELSE \E next \in Ready(st) \ {current_thread} :
         /\ \A u \in Ready(st) : Dist(current_thread, next) <= Dist(current_thread, u)
         /\ SwitchTo(st, next)
\* Mutant: the scan starts at slot 0.
ScanFromTop(st) ==
  IF Ready(st) = {} THEN ExitProcess(st)
  ELSE \E next \in Ready(st) : (\A u \in Ready(st) : next <= u) /\ SwitchTo(st, next)
\* Mutant: the scan starts at slot 0, and skips the current thread.
ScanLowOther(st) ==
  IF Ready(st) \subseteq {current_thread} THEN SwitchTo(st, current_thread)
  ELSE \E next \in Ready(st) \ {current_thread} :
         (\A u \in Ready(st) \ {current_thread} : next <= u) /\ SwitchTo(st, next)
\* Mutant: the scan does not wrap around at the end of the table.
ScanUpwards(st) ==
  LET above == {s \in Ready(st) : s > current_thread}
  IN  IF above = {} THEN ExitProcess(st)
      ELSE \E next \in above : (\A u \in above : next <= u) /\ SwitchTo(st, next)

RoundRobin(st) ==
  IF Ready(st) = {} THEN ExitProcess(st)
  ELSE \E next \in Ready(st) :
         /\ \A u \in Ready(st) : Dist(current_thread, next) <= Dist(current_thread, u)
         /\ SwitchTo(st, next)

\* The process has ended.
Ended == exited /\ UNCHANGED tableVars
-----------------------------------------------------------------------------
\* The flows that have not ended, and the slots that hold one that is not running.
Live   == (0 .. created) \ dead
Parked == {s \in Slot \ {current_thread} : state[s] \notin {"FREE", "ZOMBIE"}}

\* The types of the variables; more says which states a package adds.
TableTypes(more) ==
  /\ state \in [Slot -> {"FREE", "RUNNING", "RUNNABLE"} \cup more]
  /\ current_thread \in Slot
  /\ context \in [Slot -> Flow \cup {NoFlow}]
  /\ running \in Flow /\ created \in Flow /\ dead \subseteq 0 .. created /\ exited \in BOOLEAN

\* While the process lives, the CPU executes a flow that has not ended, only the
\* current thread is in state RUNNING, and every other flow that has not ended
\* is parked in exactly one slot: no stack is lost, shared or run after its end.
FlowsKept ==
  ~exited =>
    /\ running \in Live
    /\ state[current_thread] \in {"RUNNING", "RUNNABLE"}
    /\ \A s \in Parked : context[s] \in Live \ {running} /\ state[s] # "RUNNING"
    /\ \A f \in Live \ {running} : \E s \in Parked : context[s] = f
    /\ \A s1, s2 \in Parked : context[s1] = context[s2] => s1 = s2

\* The process exits only when every flow has ended: exit(0) in thread_schedule
\* abandons nobody.
NoneAbandoned == exited => Live = {}

\* What the callers see: coroutines.
Coroutines == INSTANCE Coroutine WITH flows <- Live
=============================================================================
