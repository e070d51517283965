----------------------------- MODULE UThreadMLFQ -----------------------------
(***************************************************************************)
(* w5labs/uthreads10.c: two levels; a thread that yields drops to level 1. *)
(***************************************************************************)
EXTENDS UThreads

VARIABLE queue_level
vars == <<tableVars, queue_level>>

Init == TableInit /\ queue_level = [s \in Slot |-> 0]

thread_create ==
  \E s \in Slot : CreateIn(s) /\ queue_level' = [queue_level EXCEPT ![s] = 0]

\* Mutant: the level is not looked at, and another thread is preferred.
AnyLevel(st, level) ==
  IF Ready(st) = {} THEN ExitProcess(st)
  ELSE LET S == IF Ready(st) = {current_thread} THEN Ready(st) ELSE Ready(st) \ {current_thread}
       IN  \E next \in S : (\A u \in S : next <= u) /\ SwitchTo(st, next)

\* The first RUNNABLE thread of level 0, or else of level 1, as level stands
\* after the caller's change.
thread_schedule(st, level) ==
  IF Ready(st) = {} THEN ExitProcess(st)
  ELSE \E next \in Ready(st) :
         /\ \A u \in Ready(st) : level[next] < level[u] \/ (level[next] = level[u] /\ next <= u)
         /\ SwitchTo(st, next)

thread_yield ==
  /\ ~exited
  /\ queue_level' = [queue_level EXCEPT ![current_thread] = 1]
  /\ thread_schedule(Set("RUNNABLE"), queue_level')
  /\ UNCHANGED dead
Finish == /\ ~exited /\ dead' = dead \cup {running} /\ thread_schedule(Set("FREE"), queue_level)
          /\ UNCHANGED queue_level

Next == thread_create \/ thread_yield \/ Finish \/ (Ended /\ UNCHANGED queue_level)
Spec == Init /\ [][Next]_vars
-----------------------------------------------------------------------------
TypeOK == TableTypes({}) /\ queue_level \in [Slot -> {0, 1}]

\* Of each step: a thread that has yielded never gets the CPU from a thread that has not.
YieldersWait ==
  current_thread' # current_thread /\ queue_level[current_thread'] = 1 =>
    \A s \in Slot \ {current_thread} : state[s] = "RUNNABLE" => queue_level[s] = 1

\* A thread is created in a slot before s.
CreatedBelow(s) == \E u \in Slot : u < s /\ state[u] = "FREE" /\ state'[u] = "RUNNABLE"

\* "Everyone starts at High priority" (line 68): a new thread gets the CPU, although those of
\* level 1 may wait for ever - unless threads are created in the slots before its own again
\* and again: the scan begins at slot 0 each time (line 41), so that threads there that each
\* create a successor before they end keep all others waiting.
NewcomersRun ==
  \A s \in Slot :
    \/ (state[s] = "RUNNABLE" /\ queue_level[s] = 0) ~> (current_thread = s \/ exited)
    \/ []<><<CreatedBelow(s)>>_vars
=============================================================================
