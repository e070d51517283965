------------------------------- MODULE MCLocks -------------------------------
(***************************************************************************)
(* The three programs whose threads wait for one another in their own ways,*)
(* for TLC, one at a time: swap threads on three buckets (mutex4.c, whose  *)
(* variables this module has by EXTENDS), getters and putters of keys that *)
(* share buckets (mutex8.c), and puts on one chain (mutex7.c).  The        *)
(* programs that do not run have finished, or have not begun.              *)
(***************************************************************************)
EXTENDS LockOrder

CONSTANTS WaitBuckets, Getter, Putter, MaxSpurious,   \* of mutex8.c
          ChainBuckets, Caller, MaxPuts               \* of mutex7.c

VARIABLES program,
          ckey, ctable, clocks, cpc, cmain, spurious,
          table, bucket_locks, key, value, curr, hpc, calls, latest
waitVars == <<ckey, ctable, clocks, cpc, cmain, spurious>>
crabVars == <<table, bucket_locks, key, value, curr, hpc, calls, latest>>
allVars  == <<program, vars, waitVars, crabVars>>

Waits == INSTANCE CondVar WITH NBUCKET <- WaitBuckets, key <- ckey, table <- ctable, locks <- clocks, pc <- cpc, main <- cmain
Crab  == INSTANCE HandOverHand WITH NBUCKET <- ChainBuckets, Thread <- Caller, pc <- hpc

ASSUME WaitsAssumption == Waits!CondAssumption
ASSUME CrabAssumption  == Crab!CrabAssumption

MCKeySpace == 0 .. 2

\* (A key that nobody uses is some key.)
SwapDone ==
  /\ keys = [n \in Index |-> Crab!NoKey] /\ locks = [bucket \in BucketNo |-> None]
  /\ pc = [t \in Thread |-> "done"] /\ i = [t \in Thread |-> 0] /\ main = "end"
WaitsDone ==
  /\ ckey = [t \in Getter \cup Putter |-> Crab!NoKey] /\ ctable = {Crab!NoKey} /\ clocks = [n \in Waits!BucketNo |-> Waits!Nobody]
  /\ cpc = [t \in Getter \cup Putter |-> "done"] /\ cmain = "end" /\ spurious = 0

LocksInit ==
  \/ program = "mutex4.c" /\ Init /\ WaitsDone /\ Crab!Init
  \/ program = "mutex8.c" /\ SwapDone /\ Waits!Init /\ Crab!Init
  \/ program = "mutex7.c" /\ SwapDone /\ WaitsDone /\ Crab!Init

Swaps   == program = "mutex4.c" /\ Next /\ UNCHANGED <<program, waitVars, crabVars>>
WaitFor == program = "mutex8.c" /\ Waits!Next /\ UNCHANGED <<program, vars, crabVars>>
Puts    == program = "mutex7.c" /\ Crab!Next /\ UNCHANGED <<program, vars, waitVars>>
LocksNext == Swaps \/ WaitFor \/ Puts

\* The kernel schedules each thread again and again, as each module says.
LocksSpec ==
  /\ LocksInit /\ [][LocksNext]_allVars
  /\ WF_allVars(program = "mutex4.c" /\ Join /\ UNCHANGED <<program, waitVars, crabVars>>)
  /\ WF_allVars(program = "mutex8.c" /\ Waits!Join /\ UNCHANGED <<program, vars, crabVars>>)
  /\ \A t \in Thread : WF_allVars(program = "mutex4.c" /\ swap_values(t) /\ UNCHANGED <<program, waitVars, crabVars>>)
  /\ \A t \in Putter : WF_allVars(program = "mutex8.c" /\ Waits!put(t) /\ UNCHANGED <<program, vars, crabVars>>)
  /\ \A t \in Getter : WF_allVars(program = "mutex8.c" /\ Waits!get_wait(t) /\ UNCHANGED <<program, vars, crabVars>>)
  /\ \A t \in Caller : WF_allVars(program = "mutex7.c" /\ Crab!put(t) /\ UNCHANGED <<program, vars, waitVars>>)
-----------------------------------------------------------------------------
\* mutex8.c: no getter sleeps through the put it waits for, or returns without its key.
WaitInv == Waits!WaitInv

\* mutex7.c: no key is in the chain twice, and each has the value of the put that
\* locked the bucket last.
ChainKept == Crab!ChainKept

\* mutex7.c: nobody overtakes in the chain.
NeverPassed == Crab!NeverPassed

\* Every swap, every get_wait and every put returns.
AllReturn == Termination /\ Waits!GettersReturn /\ Crab!PutsReturn
=============================================================================
