------------------------------ MODULE UThreadTid ------------------------------
(***************************************************************************)
(* w5labs/uthreads8.c: round robin with thread ids in the table.           *)
(***************************************************************************)
EXTENDS UThreads

VARIABLES tid, next_tid,
          handle    \* of each flow: the id that thread_create returned for it
vars == <<tableVars, tid, next_tid, handle>>

\* thread_init: main is 0.
Init == /\ TableInit /\ tid = [s \in Slot |-> 0] /\ next_tid = 1
        /\ handle = [f \in Flow |-> 0]

\* Mutant: the slot is the id.
SlotAsTid ==
  \E s \in Slot :
    /\ CreateIn(s)
    /\ tid' = [tid EXCEPT ![s] = s]
    /\ handle' = [handle EXCEPT ![created'] = s]
    /\ UNCHANGED next_tid

thread_create ==
  \E s \in Slot :
    /\ CreateIn(s)
    /\ tid' = [tid EXCEPT ![s] = next_tid]
    /\ next_tid' = next_tid + 1
    /\ handle' = [handle EXCEPT ![created'] = tid'[s]]

get_tid == tid[current_thread]

thread_schedule(st) == RoundRobin(st)
thread_yield == /\ ~exited /\ thread_schedule(Set("RUNNABLE"))
                /\ UNCHANGED <<dead, tid, next_tid, handle>>
Finish == /\ ~exited /\ dead' = dead \cup {running} /\ thread_schedule(Set("FREE"))
          /\ UNCHANGED <<tid, next_tid, handle>>

Next == thread_create \/ thread_yield \/ Finish \/ (Ended /\ UNCHANGED vars)
Spec == Init /\ [][Next]_vars
-----------------------------------------------------------------------------
TypeOK == /\ TableTypes({}) /\ next_tid \in 1 .. MaxCreate + 1
          /\ tid \in [Slot -> Flow] /\ handle \in [Flow -> Flow]

\* A thread that asks for its id gets the one its creator was given, although the
\* id is stored in a slot that other threads had before and will have after it.
OwnTid == ~exited => get_tid = handle[running]

\* No two threads of the process ever get the same id: ids are "unique handles"
\* (line 12), slots are not.
UniqueTids == \A f1, f2 \in 0 .. created : handle[f1] = handle[f2] => f1 = f2
=============================================================================
