------------------------------ MODULE MCPrograms ------------------------------
(***************************************************************************)
(* Three families of user programs of xv6 for TLC, one at a time: the      *)
(* round-robin threads of uthreads1.c, the handshakes, and the monitor     *)
(* programs.  family says which; the others have ended, or never begin.    *)
(***************************************************************************)
EXTENDS UThreadRR, MCHandshake, Monitor

VARIABLE family
programVars == <<family, tableVars, vars, monitorVars>>

\* Command lines of up to six words, and the masks whose parsing has something to tell.
MCWord     == <<"monitor", "mask", "grep", "hello", "README", "-i">>
MCDecimals == {{SYS.read}, {SYS.exec, SYS.fork, SYS.write, SYS.wait}}
\* 0x20, 0xa0z3, 0x0, nine digits of which the first is lost, and 0xffffffff.
MCHexes    == {<<2, 0>>, <<10, 0, NoDigit, 3>>, <<>>, <<2, 0, 0, 0, 0, 0, 0, 8, 0>>, [i \in 1 .. 8 |-> 15]}
MCLists    == {<<"read", "", "frok", "read", "fork">>, <<"exit">>, <<>>}

NoThreads == RRInit
NoProcess ==
  /\ program = 1 /\ args = <<7, 2>> /\ pipe = [x \in Pipe |-> <<>>] /\ open = {} /\ reaped = {}
  /\ status = [p \in Process |-> "none"] /\ pc = [p \in Process |-> 1] /\ moved = [p \in Process |-> 0]
  /\ got = <<>> /\ faults = 0
NoMonitor == variant = 1 /\ kernel = "monitor9.c" /\ text = [kind |-> "decimal", value |-> {SYS.read}]
               /\ shmask = {} /\ argv = <<"monitor">> /\ MonitorInit

ProgramsInit ==
  \/ family = "uthreads1" /\ RRInit /\ NoProcess /\ NoMonitor
  \/ family = "handshake" /\ NoThreads /\ Init /\ NoMonitor
  \/ family = "monitor" /\ NoThreads /\ NoProcess /\ MonitorInit

Threads    == family = "uthreads1" /\ RRNext /\ UNCHANGED <<family, vars, monitorVars>>
Handshakes == family = "handshake" /\ Next /\ UNCHANGED <<family, tableVars, monitorVars>>
Monitors   == family = "monitor" /\ MonitorNext /\ UNCHANGED <<family, tableVars, vars>>
\* The processes of a handshake end, or wait for one another for ever.
Stop       == family = "handshake" /\ UNCHANGED programVars

ProgramsNext == Threads \/ Handshakes \/ Monitors \/ Stop

\* The fairness of RRFair and of FairSpec.
ProgramsSpec ==
  /\ ProgramsInit /\ [][ProgramsNext]_programVars
  /\ WF_programVars(family = "uthreads1" /\ (thread_yield \/ Finish) /\ UNCHANGED <<family, vars, monitorVars>>)
  /\ \A p \in Process : WF_programVars(family = "handshake" /\ Step(p) /\ UNCHANGED <<family, tableVars, monitorVars>>)
=============================================================================
