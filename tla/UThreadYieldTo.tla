---------------------------- MODULE UThreadYieldTo ----------------------------
(***************************************************************************)
(* w5labs/uthreads9.c: round robin when a thread ends, and                 *)
(* thread_yield_to, which gives the CPU to one thread past the scheduler;  *)
(* there is no other yield.  ping and pong are such threads.               *)
(***************************************************************************)
EXTENDS UThreads

Init == TableInit

thread_create == \E s \in Slot : CreateIn(s)

thread_schedule(st) == RoundRobin(st)

Finish == ~exited /\ dead' = dead \cup {running} /\ thread_schedule(Set("FREE"))

\* Mutant: the target's state is not tested.
YieldToAnyone(target) ==
  /\ ~exited
  /\ state' = [Set("RUNNABLE") EXCEPT ![target] = "RUNNING"]
  /\ current_thread' = target
  /\ LET saved == [context EXCEPT ![current_thread] = running]
     IN  context' = saved /\ running' = saved[target]
  /\ UNCHANGED <<created, dead, exited>>

\* It returns at once unless target is RUNNABLE (the caller itself is RUNNING).
thread_yield_to(target) ==
  /\ ~exited /\ state[target] = "RUNNABLE"
  /\ state' = [Set("RUNNABLE") EXCEPT ![target] = "RUNNING"]
  /\ current_thread' = target
  /\ LET saved == [context EXCEPT ![current_thread] = running]
     IN  context' = saved /\ running' = saved[target]
  /\ UNCHANGED <<created, dead, exited>>

Next == thread_create \/ Finish \/ Ended \/ \E s \in Slot : thread_yield_to(s)
Spec == Init /\ [][Next]_tableVars
-----------------------------------------------------------------------------
TypeOK == TableTypes({})

\* Of each step: whatever thread_yield_to skips, the scheduler still serves the threads in a
\* circle: a thread is passed over only by a yield that names another thread.
PassedOverByNameOnly ==
  \A s \in Slot \ {current_thread, current_thread'} :
    /\ state[s] = "RUNNABLE" /\ current_thread' # current_thread
    /\ Dist(current_thread, current_thread') > Dist(current_thread, s)
    => dead' = dead /\ state'[current_thread] = "RUNNABLE" /\ state[current_thread'] = "RUNNABLE"
=============================================================================
