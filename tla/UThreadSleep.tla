----------------------------- MODULE UThreadSleep -----------------------------
(***************************************************************************)
(* w5labs/uthreads5.c: round robin with a clock that advances by one tick  *)
(* at each call of thread_schedule; a thread may sleep for some ticks.     *)
(*                                                                         *)
(* The clock itself grows without bound, and only wakeup_tick -            *)
(* current_tick is ever compared: left[s] is that difference.              *)
(***************************************************************************)
EXTENDS UThreads

CONSTANT MaxTicks    \* bound: the argument of thread_sleep is at most this

VARIABLE left
vars == <<tableVars, left>>

Init == TableInit /\ left = [s \in Slot |-> 0]

thread_create == (\E s \in Slot : CreateIn(s)) /\ UNCHANGED left

\* Mutant: the clock stands.
NoTick(st, wait) ==
  LET woken  == {s \in Slot : st[s] = "SLEEPING" /\ wait[s] <= 0}
  IN  /\ RoundRobin([s \in Slot |-> IF s \in woken THEN "RUNNABLE" ELSE st[s]])
      /\ left' = wait

\* current_tick++, the wake-up pass, and then the circular scan.  wait is left as
\* the caller has set it.
thread_schedule(st, wait) ==
  LET ticked == [s \in Slot |-> IF st[s] = "SLEEPING" THEN wait[s] - 1 ELSE 0]
      woken  == {s \in Slot : st[s] = "SLEEPING" /\ ticked[s] <= 0}
  IN  /\ RoundRobin([s \in Slot |-> IF s \in woken THEN "RUNNABLE" ELSE st[s]])
      /\ left' = [s \in Slot |-> IF s \in woken THEN 0 ELSE ticked[s]]

thread_yield == ~exited /\ thread_schedule(Set("RUNNABLE"), left) /\ UNCHANGED dead
Finish == ~exited /\ dead' = dead \cup {running} /\ thread_schedule(Set("FREE"), left)

thread_sleep(ticks) ==
  /\ ~exited
  /\ thread_schedule(Set("SLEEPING"), [left EXCEPT ![current_thread] = ticks])
  /\ UNCHANGED dead

Sleep == \E ticks \in 0 .. MaxTicks : thread_sleep(ticks)

Next == thread_create \/ thread_yield \/ Finish \/ Sleep \/ (Ended /\ UNCHANGED left)
Spec == Init /\ [][Next]_vars
-----------------------------------------------------------------------------
TypeOK == TableTypes({"SLEEPING"}) /\ left \in [Slot -> 0 .. MaxTicks]

\* Sleeping and the clock lose no other thread: when the process exits, only
\* flows that are asleep are abandoned.
OnlySleepersAbandoned ==
  exited => Live \subseteq {IF s = current_thread THEN running ELSE context[s] : s \in With("SLEEPING")}

\* Once awake, a thread gets the CPU as any other does: while the process lives,
\* a sleeper runs again.
SleepersRun == \A s \in Slot : state[s] = "SLEEPING" ~> (current_thread = s \/ exited)

\* thread_sleep pauses a thread "for a specified number of ticks" (line 13):
\* no thread is still asleep when the process exits.
NobodyLeftAsleep == exited => With("SLEEPING") = {}
=============================================================================
