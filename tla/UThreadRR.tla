------------------------------ MODULE UThreadRR ------------------------------
(***************************************************************************)
(* w5labs/uthreads1.c: round robin.  Each thread may create threads, yield *)
(* and end, in any order: main and thread_worker are one such program.     *)
(***************************************************************************)
EXTENDS UThreads

RRInit == TableInit

thread_create == \E s \in Slot : CreateIn(s)

thread_schedule(st) == RoundRobin(st)

thread_yield == ~exited /\ thread_schedule(Set("RUNNABLE")) /\ UNCHANGED dead

\* The end of a thread function, or of main: state = FREE; thread_schedule().
Finish == ~exited /\ dead' = dead \cup {running} /\ thread_schedule(Set("FREE"))

RRNext == thread_create \/ thread_yield \/ Finish \/ Ended
  
RRSpec == RRInit /\ [][RRNext]_tableVars
\* The threads of uthreads1.c work for a while and then yield or end.
RRFair == RRSpec /\ WF_tableVars(thread_yield \/ Finish)
-----------------------------------------------------------------------------
RRTypeOK == TableTypes({})

\* Every stack is kept, and exit(0) abandons nobody: the inductive invariant.
IInv == RRTypeOK /\ FlowsKept /\ NoneAbandoned
  
\* A thread that waits is never overtaken twice: each switch to another thread
\* brings the circular scan nearer to it.
NoOvertaking ==
  [][\A s \in Slot : s # current_thread /\ state[s] = "RUNNABLE" /\ current_thread' \notin {current_thread, s}
        => Dist(current_thread', s) < Dist(current_thread, s)]_tableVars

\* A slot's flow is replaced only after the flow has ended: creating a thread
\* never takes the stack of one that still needs it.
NoStolenStack ==
  [][\A s \in Parked : context'[s] = context[s]]_tableVars

\* Every thread that can run does run.
NobodyStarves == \A s \in Slot : state[s] = "RUNNABLE" ~> (current_thread = s \/ exited)

\* Round robin threads are coroutines.
Implements == Coroutines!Spec
=============================================================================
