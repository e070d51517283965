------------------------------ MODULE Coroutine ------------------------------
(***************************************************************************)
(* What a cooperative thread package promises: one flow runs at a time,    *)
(* each of the others waits until the running one gives up the CPU, and    *)
(* the process exits when the last flow has ended.                         *)
(***************************************************************************)
EXTENDS Integers

VARIABLES flows,     \* the flows that have not ended
          running,   \* the one that the CPU executes
          created, exited
coVars == <<flows, running, created, exited>>

Init == flows = {0} /\ running = 0 /\ created = 0 /\ exited = FALSE

Create ==
  /\ ~exited
  /\ created' = created + 1
  /\ flows' = flows \cup {created'}
  /\ UNCHANGED <<running, exited>>

\* The running flow waits and another one is resumed.
Yield == ~exited /\ running' \in flows \ {running} /\ UNCHANGED <<flows, created, exited>>

\* The running flow ends, and another one is resumed.
Finish ==
  /\ ~exited
  /\ flows' = flows \ {running} /\ running' \in flows'
  /\ UNCHANGED <<created, exited>>

\* The last flow ends.
Exit == ~exited /\ flows = {running} /\ flows' = {} /\ exited' = TRUE /\ UNCHANGED <<running, created>>

Next == Create \/ Yield \/ Finish \/ Exit
Spec == Init /\ [][Next]_coVars
=============================================================================
