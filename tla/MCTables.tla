------------------------------- MODULE MCTables -------------------------------
(***************************************************************************)
(* Six of the table programs for TLC, one at a time: program says which.  *)
(* A variable that the program does not have is Unused.                    *)
(***************************************************************************)
EXTENDS Chains

VARIABLES program, phase, global_lock, rwlocks, locks, found, missing, total_inserts, base
vars == <<tableVars, program, phase, global_lock, rwlocks, locks, found, missing, total_inserts, base>>

Global == INSTANCE PhasedTable
RW     == INSTANCE RWTable
Spin   == INSTANCE SpinTable
Poll   == INSTANCE PollTable
Padded == INSTANCE PaddedTable
Count  == INSTANCE InsertCount

MCKeySpace == 0 .. 2
Unused     == "unused"

Init ==
  \/ /\ program = "mutex1.c" /\ Global!Init
     /\ rwlocks = Unused /\ locks = Unused /\ found = Unused /\ total_inserts = Unused /\ base = Unused
  \/ /\ program = "mutex3.c" /\ RW!Init
     /\ global_lock = Unused /\ locks = Unused /\ total_inserts = Unused /\ base = Unused
  \/ /\ program = "mutex5.c" /\ Spin!Init /\ base = Unused
     /\ global_lock = Unused /\ rwlocks = Unused /\ found = Unused /\ missing = Unused /\ total_inserts = Unused
  \/ /\ program = "mutex6.c" /\ Poll!Init /\ base = Unused
     /\ global_lock = Unused /\ rwlocks = Unused /\ found = Unused /\ missing = Unused /\ total_inserts = Unused
  \/ /\ program = "mutex9.c" /\ Padded!PaddedInit
     /\ global_lock = Unused /\ rwlocks = Unused /\ found = Unused /\ missing = Unused /\ total_inserts = Unused
  \/ /\ program = "mutex10.c" /\ Count!Init /\ base = Unused
     /\ global_lock = Unused /\ rwlocks = Unused /\ found = Unused /\ missing = Unused

\* What a step of each program leaves alone.
In1  == program = "mutex1.c" /\ UNCHANGED <<program, rwlocks, locks, found, total_inserts, base>>
In3  == program = "mutex3.c" /\ UNCHANGED <<program, global_lock, locks, total_inserts, base>>
InL  == UNCHANGED <<program, global_lock, rwlocks, found, missing, total_inserts>>
In10 == program = "mutex10.c" /\ UNCHANGED <<program, global_lock, rwlocks, found, missing, base>>

Main ==
  \/ In1 /\ Global!Main
  \/ In3 /\ RW!Main
  \/ InL /\ program = "mutex5.c" /\ Spin!Main /\ UNCHANGED base
  \/ InL /\ program = "mutex6.c" /\ Poll!Main /\ UNCHANGED base
  \/ InL /\ program = "mutex9.c" /\ Padded!PaddedMain
  \/ In10 /\ Count!Main

Step(t) ==
  \/ In1 /\ Global!Step(t)
  \/ In3 /\ RW!Step(t)
  \/ InL /\ program = "mutex5.c" /\ Spin!Step(t) /\ UNCHANGED base
  \/ InL /\ program = "mutex6.c" /\ Poll!Step(t) /\ UNCHANGED base
  \/ InL /\ program = "mutex9.c" /\ Padded!PaddedStep(t)
  \/ In10 /\ Count!Step(t)

Ended == phase \in {"end", "aborted"} /\ UNCHANGED vars

Next == Main \/ Ended \/ \E t \in Thread : Step(t)
Spec == Init /\ [][Next]_vars
\* The kernel schedules main and each thread again and again; sched_yield lets
\* the others run.
FairSpec == Spec /\ WF_vars(Main) /\ \A t \in AnyThread : WF_vars(t \in Thread /\ Step(t))
-----------------------------------------------------------------------------
\* The types of the program's variables.
TypeOK ==
  /\ program = "mutex1.c" => Global!TypeOK
  /\ program = "mutex3.c" => RW!TypeOK
  /\ program = "mutex5.c" => Spin!TypeOK
  /\ program = "mutex6.c" => Poll!TypeOK
  /\ program = "mutex9.c" => Padded!PaddedTypeOK
  /\ program = "mutex10.c" => Count!TypeOK

\* When main destroys the locks they are idle, and readers have nobody to wait for.
LocksIdle ==
  /\ program = "mutex1.c" => Global!DestroyedIdle
  /\ program = "mutex3.c" => RW!DestroyedIdle /\ RW!ReadersNeverWait
  /\ program \in {"mutex5.c", "mutex9.c"} => Spin!DestroyedIdle
  /\ program = "mutex6.c" => Poll!DestroyedIdle

\* Under each kind of lock: no key is in its chain twice, none whose put has
\* returned is lost, no put stores what an outdated search told it, and the locks
\* are idle at the end.
PutsKept == TypeOK /\ NoDuplicateKeys /\ NoLostPut /\ FreshSearch /\ LocksIdle

\* The gets of mutex1.c need no lock: nothing changes the table while one walks it.
QuietReads == [][program = "mutex1.c" => Global!QuietReads]_vars

\* What the programs count.  Each get thread misses exactly the keys that no put thread
\* was given: none in mutex1.c, whose assertion sees to it, and those at the end of
\* keys[] in mutex3.c.  The counter of mutex10.c is the number of entries, up to those
\* just being counted, and at the end the number of different keys.
CountsExact ==
  /\ program = "mutex1.c" => Global!NothingMissing
  /\ program = "mutex3.c" => RW!MissingExact
  /\ program = "mutex10.c" => Count!CountsEntries /\ Count!FinalCount

\* Every program comes to its end, or its assertion fails: no lock is left locked,
\* and polling ends ("Trylock + yield completed successfully!", mutex6.c line 71).
Termination == <>(phase \in {"end", "aborted"})
=============================================================================
