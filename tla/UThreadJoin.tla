----------------------------- MODULE UThreadJoin -----------------------------
(***************************************************************************)
(* w5labs/uthreads3.c: round robin, thread_exit and thread_join.  The      *)
(* handle that thread_create returns is a slot of the table; as in main,   *)
(* the creator joins each of its threads at most once.                     *)
(***************************************************************************)
EXTENDS UThreads

VARIABLES exit_status,   \* a flow's status is its own number
          handles,       \* of each flow: the threads it created and has not joined
          joining        \* of each flow: the handle it waits for, or NoHandle
vars == <<tableVars, exit_status, handles, joining>>

Handle   == [slot : Slot, flow : Flow]
NoHandle == [slot |-> 0, flow |-> NoFlow]
Waiting  == joining[running] # NoHandle

Init == /\ TableInit /\ exit_status = [s \in Slot |-> 0]
        /\ handles = [f \in Flow |-> {}] /\ joining = [f \in Flow |-> NoHandle]

thread_create ==
  /\ ~Waiting
  /\ \E s \in Slot :
       /\ CreateIn(s)
       /\ handles' = [handles EXCEPT ![running] = @ \cup {[slot |-> s, flow |-> created']}]
  /\ UNCHANGED <<exit_status, joining>>

thread_schedule(st) == RoundRobin(st)

thread_yield == /\ ~exited /\ ~Waiting /\ thread_schedule(Set("RUNNABLE"))
                /\ UNCHANGED <<dead, exit_status, handles, joining>>

thread_exit ==
  /\ ~exited /\ ~Waiting
  /\ exit_status' = [exit_status EXCEPT ![current_thread] = running]
  /\ dead' = dead \cup {running}
  /\ thread_schedule(Set("ZOMBIE"))
  /\ UNCHANGED <<handles, joining>>

\* A call of thread_join, up to its first test of the target's state.
CallJoin ==
  /\ ~exited /\ ~Waiting
  /\ \E h \in handles[running] :
       /\ joining' = [joining EXCEPT ![running] = h]
       /\ handles' = [handles EXCEPT ![running] = @ \ {h}]
  /\ UNCHANGED <<tableVars, exit_status>>

\* Mutant: thread_join waits while its target runs.
JoinRunning ==
  /\ ~exited /\ Waiting
  /\ LET target == joining[running].slot
     IN  IF state[target] = "RUNNING"
         THEN thread_schedule(Set("RUNNABLE")) /\ UNCHANGED joining
         ELSE /\ state' = IF state[target] = "ZOMBIE" THEN [state EXCEPT ![target] = "FREE"] ELSE state
              /\ joining' = [joining EXCEPT ![running] = NoHandle]
              /\ UNCHANGED <<current_thread, context, running, created, exited>>
  /\ UNCHANGED <<dead, exit_status, handles>>

\* One test in the loop: yield while the target is neither ZOMBIE nor FREE,
\* otherwise harvest it and return.
thread_join ==
  /\ ~exited /\ Waiting
  /\ LET target == joining[running].slot
     IN  IF state[target] \notin {"ZOMBIE", "FREE"}
         THEN thread_schedule(Set("RUNNABLE")) /\ UNCHANGED joining
         ELSE /\ state' = IF state[target] = "ZOMBIE" THEN [state EXCEPT ![target] = "FREE"] ELSE state
              /\ joining' = [joining EXCEPT ![running] = NoHandle]
              /\ UNCHANGED <<current_thread, context, running, created, exited>>
  /\ UNCHANGED <<dead, exit_status, handles>>

\* main ends with exit(0), after it has joined its threads.
MainExit ==
  /\ ~exited /\ running = 0 /\ ~Waiting /\ handles[0] = {}
  /\ exited' = TRUE /\ dead' = dead \cup {0}
  /\ UNCHANGED <<state, current_thread, context, running, created, exit_status, handles, joining>>

Next == \/ thread_create \/ thread_yield \/ thread_exit \/ CallJoin \/ thread_join \/ MainExit
        \/ (Ended /\ UNCHANGED vars)
Spec == Init /\ [][Next]_vars
-----------------------------------------------------------------------------
TypeOK ==
  /\ TableTypes({"ZOMBIE"}) /\ exit_status \in [Slot -> Flow]
  /\ handles \in [Flow -> SUBSET Handle] /\ joining \in [Flow -> Handle \cup {NoHandle}]

\* A handle names its thread until it is joined: the slot holds that thread, or its
\* zombie with that thread's status, and is not reused for another.
HandlesValid ==
  \A f \in Flow : \A h \in handles[f] \cup ({joining[f]} \ {NoHandle}) :
    IF h.flow \in dead
    THEN state[h.slot] = "ZOMBIE" /\ exit_status[h.slot] = h.flow
    ELSE (running = h.flow /\ current_thread = h.slot) \/ (h.slot \in Parked /\ context[h.slot] = h.flow)

\* exit(0), of main or of the scheduler, abandons only threads that nobody has
\* joined: the creator still has the handle, or waits for it.
OnlyUnjoinedAbandoned ==
  exited => \A f \in Live : \E g \in Flow : \E h \in handles[g] \cup {joining[g]} : h.flow = f

\* Of each step: thread_join returns only after its own target has ended, and then the slot is free.
JoinWaits ==
  \A f \in Flow : joining[f] # NoHandle /\ joining'[f] = NoHandle =>
    joining[f].flow \in dead /\ state'[joining[f].slot] = "FREE"

\* Once its target has ended, a thread_join returns: the loop is scheduled again.
JoinReturns ==
  \A f \in Flow : (joining[f] # NoHandle /\ joining[f].flow \in dead) ~> (joining[f] = NoHandle \/ exited)
=============================================================================
