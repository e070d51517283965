---------------------------- MODULE UThreadSuspend ----------------------------
(***************************************************************************)
(* w5labs/uthreads7.c: round robin; a thread may suspend itself or a       *)
(* RUNNABLE thread, and resume a suspended one.                            *)
(***************************************************************************)
EXTENDS UThreads

Init == TableInit

thread_create == \E s \in Slot : CreateIn(s)

thread_schedule(st) == RoundRobin(st)

thread_yield == ~exited /\ thread_schedule(Set("RUNNABLE")) /\ UNCHANGED dead
Finish == ~exited /\ dead' = dead \cup {running} /\ thread_schedule(Set("FREE"))

\* Mark a thread that is not running.
Mark(target, from, to) ==
  /\ ~exited /\ state[target] = from
  /\ state' = [state EXCEPT ![target] = to]
  /\ UNCHANGED <<current_thread, context, running, created, dead, exited>>

thread_suspend(target) ==
  \/ target = current_thread /\ ~exited /\ thread_schedule(Set("SUSPENDED")) /\ UNCHANGED dead
  \/ target # current_thread /\ Mark(target, "RUNNABLE", "SUSPENDED")

thread_resume(target) == Mark(target, "SUSPENDED", "RUNNABLE")

Next == \/ thread_create \/ thread_yield \/ Finish \/ Ended
        \/ \E target \in Slot : thread_suspend(target) \/ thread_resume(target)
Spec == Init /\ [][Next]_tableVars
-----------------------------------------------------------------------------
TypeOK == TableTypes({"SUSPENDED"})

\* Of each step: a suspended thread does not run ("it shouldn't run", line 78) until another
\* thread has resumed it, however often the scheduler is called.
SuspendedStays ==
  \A s \in With("SUSPENDED") : ~exited => current_thread' # s /\ context'[s] = context[s]

\* The process exits when nobody can run, and then only suspended flows are abandoned.
OnlySuspendedAbandoned ==
  exited => Live \subseteq {IF s = current_thread THEN running ELSE context[s] : s \in With("SUSPENDED")}
=============================================================================
