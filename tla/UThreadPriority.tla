--------------------------- MODULE UThreadPriority ---------------------------
(***************************************************************************)
(* w5labs/uthreads2.c: the thread with the lowest priority number runs.    *)
(***************************************************************************)
EXTENDS UThreads

CONSTANT Priorities    \* the priorities that callers give their threads

VARIABLE priority
vars == <<tableVars, priority>>

\* The static table is zero: main has priority 0.
Init == TableInit /\ priority = [s \in Slot |-> 0]

thread_create ==
  \E s \in Slot, p \in Priorities : CreateIn(s) /\ priority' = [priority EXCEPT ![s] = p]

\* Mutant: best_priority starts at 10.
BelowTen(st) == {s \in Ready(st) : priority[s] < 10}
\* best_priority starts at 9999: a thread whose number is not below it is not seen.
Eligible(st)      == {s \in Ready(st) : priority[s] < 9999}
Before(s, u)      == priority[s] < priority[u] \/ (priority[s] = priority[u] /\ s <= u)
thread_schedule(st) ==
  IF Eligible(st) = {} THEN ExitProcess(st)
  ELSE \E next \in Eligible(st) : (\A u \in Eligible(st) : Before(next, u)) /\ SwitchTo(st, next)

thread_yield == ~exited /\ thread_schedule(Set("RUNNABLE")) /\ UNCHANGED <<dead, priority>>
Finish == /\ ~exited /\ dead' = dead \cup {running} /\ thread_schedule(Set("FREE"))
          /\ UNCHANGED priority

Next == thread_create \/ thread_yield \/ Finish \/ (Ended /\ UNCHANGED priority)
Spec == Init /\ [][Next]_vars
-----------------------------------------------------------------------------
TypeOK == TableTypes({}) /\ priority \in [Slot -> Priorities \cup {0}]

\* Of each step: "Lower priority numbers execute first" (line 12), whoever gets the CPU leaves
\* no thread RUNNABLE that has a lower number, whatever was created meanwhile.
LowestFirst ==
  current_thread' # current_thread =>
    \A s \in Slot : state'[s] = "RUNNABLE" => priority[current_thread'] <= priority[s]

\* The message before exit(0) is "thread_schedule: no runnable threads" (line 52).
ExitMeansNoRunnable == exited => With("RUNNABLE") = {}
=============================================================================
