-------------------------------- MODULE Monitor --------------------------------
(***************************************************************************)
(* w3labs/monitor1.c to monitor7.c, the programs that have system calls    *)
(* printed, and the kernel fragments monitor8.c to monitor10.c, which say  *)
(* when syscall() prints.  The shell has started one of the programs; the  *)
(* command it runs reads, and may fork once.  A mask is the set of its     *)
(* bits, an argument a word of Word, and a mask as text one of the records *)
(* [kind, value].  fork, exec, wait and the numbers of the calls are       *)
(* those of the kernel outside the repository.                             *)
(***************************************************************************)
EXTENDS Integers, Sequences, FiniteSetsExt, SequencesExt

CONSTANTS Word,       \* the words of a command line: at most MAXARG of them
          Decimals, Hexes, Lists,    \* the masks that are typed
          Limit,      \* 100 in the code, -1 for no limit
          MaxCalls    \* bound: the reads and writes of all processes

\* The characters of a hexadecimal mask are its digits; 16 is one that is no digit.
NoDigit == 16
ASSUME MonitorAssumption ==
  /\ Word \in Seq(STRING) /\ Len(Word) >= 2
  /\ Limit \in Nat \cup {-1} /\ MaxCalls \in Nat
  /\ Decimals \subseteq SUBSET (0 .. 31) /\ Hexes \subseteq Seq(0 .. NoDigit) /\ Lists \subseteq Seq(STRING)

VARIABLES variant, kernel, text, argv, shmask,
          at,
          proc,         \* of each process: its mask, its count, and as history how many
                        \* lines it and, before its birth, its ancestors have printed
          ran,          \* of each process: the arguments with which it called exec
          monitored,    \* monitor() has returned 0
          made, shown,  \* history, of each process: its calls, and those printed
          calls
inputs == <<variant, kernel, text, argv, shmask>>
monitorVars == <<inputs, at, proc, ran, monitored, made, shown, calls>>

Callers == {"sh", "monitor", "cmd1", "cmd2", "sub"}
SYS == [fork |-> 1, exit |-> 2, wait |-> 3, read |-> 5, exec |-> 7,
        open |-> 15, write |-> 16, close |-> 21, monitor |-> 22]
NoProc  == [monitor_mask |-> {}, monitor_left |-> 0, lines |-> 0]
Named   == {"read", "write", "open", "close", "fork", "exec", "exit", "wait"}
MAXARG  == Len(Word)
argc    == Len(argv)

\* The digits of a hexadecimal mask, up to a character that is none.
Digits(s) == IF NoDigit \in ToSet(s) THEN SubSeq(s, 1, Min({i \in DOMAIN s : s[i] = NoDigit}) - 1) ELSE s
BitsOf(v) == {k \in 0 .. 3 : (v \div 2^k) % 2 = 1}
\* mask = (mask << 4) | v in 32 bits.
AddDigit(m, v) == ({k + 4 : k \in m} \cap 0 .. 31) \cup BitsOf(v)
parse_mask(s) ==
  LET d == Digits(s)
      mask[i \in 0 .. Len(d)] == IF i = 0 THEN {} ELSE AddDigit(mask[i - 1], d[i])
  IN  mask[Len(d)]

sysno_from_name(s) == IF s \in Named THEN SYS[s] ELSE -1
parse_list_to_mask(list) == {sysno_from_name(list[i]) : i \in DOMAIN list} \ {-1}

\* The mask that the program makes of argv[1]; atoi is external.
Mask == CASE text.kind = "decimal" -> text.value
          [] text.kind = "hex"     -> parse_mask(text.value)
          [] text.kind = "list"    -> parse_list_to_mask(text.value)
          [] text.kind = "off"     -> {}

Text(kind, values) == {[kind |-> kind, value |-> v] : v \in values}
TextsOf == [p \in 1 .. 7 |->
  CASE p = 2 -> Text("decimal", Decimals) \cup Text("hex", Hexes)
    [] p = 3 -> Text("list", Lists)
    [] p = 5 -> Text("decimal", Decimals) \cup Text("off", {{}})
    [] OTHER -> Text("decimal", Decimals)]

\* The usage of each program.
ArgsRight == CASE variant = 4 -> argc = 2 [] variant = 5 -> argc >= 2 [] OTHER -> argc >= 3

Separators == {i \in 3 .. argc : argv[i] = "--"}
\* argv[2..] becomes nargv[0..], with room for the 0 at its end; or cmd1 and cmd2.
nargv      == SubSeq(argv, 3, Min({argc, MAXARG}))
cmd1       == SubSeq(argv, 3, Min({Min(Separators) - 1, MAXARG + 1}))
cmd2       == SubSeq(argv, Min(Separators) + 1, Min({argc, Min(Separators) + MAXARG - 1}))
Command(p) == IF variant # 7 THEN nargv ELSE IF p = "cmd1" THEN cmd1 ELSE cmd2
-----------------------------------------------------------------------------
MonitorInit ==
  /\ variant \in 1 .. 7 /\ kernel \in {"monitor8.c", "monitor9.c", "monitor10.c"}
  /\ text \in TextsOf[variant]
  /\ \E n \in 1 .. MAXARG : argv \in {a \in [1 .. n -> {"--"} \cup ToSet(Word)] :
       \A i \in 1 .. n : a[i] = Word[i] \/ (a[i] = "--" /\ i > 2 /\ variant = 7)}
  /\ shmask \in {{}, {SYS.read}}
  /\ at = [p \in Callers |-> CASE p = "sh" -> "wait" [] p = "monitor" -> "start" [] OTHER -> "unborn"]
  /\ LET inherited == [monitor_mask |-> shmask, monitor_left |-> IF shmask = {} THEN 0 ELSE Limit, lines |-> 0]
     IN  proc = [p \in Callers |-> IF p \in {"sh", "monitor"} THEN inherited ELSE NoProc]
  /\ ran = [p \in Callers |-> <<>>] /\ monitored = FALSE
  /\ made = [p \in Callers |-> {}] /\ shown = made /\ calls = 0

Goto(p, from, to) == at[p] = from /\ at' = [at EXCEPT ![p] = to]

\* The end of syscall(): monitor9.c prints each call that is in the mask, monitor8.c
\* only those that succeed, and monitor10.c as long as some prints are left.
Prints(q, call, ok) ==
  /\ SYS[call] \in q.monitor_mask
  /\ kernel = "monitor8.c" => ok
  /\ kernel = "monitor10.c" => q.monitor_left # 0
Printed(q) == [q EXCEPT !.lines = @ + 1,
                        !.monitor_left = IF kernel = "monitor10.c" /\ @ > 0 THEN @ - 1 ELSE @]

\* p's call returns, with a result of at least 0 or with -1; procs is what it made of proc.
syscall(p, call, ok, procs) ==
  LET line == [call |-> call, ok |-> ok, after |-> monitored']
  IN  /\ made' = [made EXCEPT ![p] = @ \cup {line}]
      /\ IF Prints(procs[p], call, ok)
         THEN proc' = [procs EXCEPT ![p] = Printed(@)] /\ shown' = [shown EXCEPT ![p] = @ \cup {line}]
         ELSE proc' = procs /\ UNCHANGED shown
      /\ UNCHANGED inputs

\* A call that changes nothing here.
Plain(p, call, ok) == monitored' = monitored /\ syscall(p, call, ok, proc) /\ UNCHANGED ran
Counted == calls < MaxCalls /\ calls' = calls + 1

\* The program's message on the way to exit(1), character by character.
Complain(p) ==
  /\ \/ Goto(p, "complain", "complain") /\ Counted
     \/ Goto(p, "complain", "exit") /\ UNCHANGED calls
  /\ Plain(p, "write", TRUE)

Usage ==
  /\ ~ArgsRight /\ Goto("monitor", "start", "complain")
  /\ UNCHANGED <<inputs, proc, ran, monitored, made, shown, calls>>

\* After monitor(): what each program does next.
AfterMonitor ==
  CASE variant \in {1, 2, 3} -> "exec"
    [] variant = 4           -> "exit"
    [] variant = 5           -> IF argc = 2 THEN "exit" ELSE "exec"
    [] variant = 6           -> "fork1"
    [] variant = 7           -> IF Separators = {} THEN "complain" ELSE "fork1"

\* sys_monitor sets the caller's mask, and its count.
CallMonitor ==
  /\ ArgsRight /\ Goto("monitor", "start", AfterMonitor)
  /\ monitored' = TRUE
  /\ syscall("monitor", "monitor", TRUE,
       [proc EXCEPT !["monitor"] = [monitor_mask |-> Mask, monitor_left |-> Limit, lines |-> 0]])
  /\ UNCHANGED <<ran, calls>>
MonitorFails ==
  /\ ArgsRight /\ Goto("monitor", "start", "complain")
  /\ Plain("monitor", "monitor", FALSE) /\ UNCHANGED calls

\* exec replaces the program, and leaves the mask and the count alone.
Exec(p) ==
  /\ Goto(p, "exec", "run") /\ Command(p) # <<>>
  /\ ran' = [ran EXCEPT ![p] = Command(p)]
  /\ monitored' = monitored /\ syscall(p, "exec", TRUE, proc) /\ UNCHANGED calls
\* cmd1 and cmd2 of monitor7.c end without a message.
ExecFails(p) ==
  /\ Goto(p, "exec", IF variant = 7 THEN "exit" ELSE "complain")
  /\ Plain(p, "exec", FALSE) /\ UNCHANGED calls
-----------------------------------------------------------------------------
\* Mutant: the child begins with a mask and a count of its own.
Unmonitored(p) == NoProc
\* Mutant: the child's count begins anew.
Recounted(p) == [proc[p] EXCEPT !.monitor_left = Limit]

\* What fork() copies to the child.
Inherited(p) == proc[p]

\* The child's own return from fork does not pass through syscall().
sys_fork(p, child, to, start) ==
  /\ at' = [at EXCEPT ![p] = to, ![child] = start]
  /\ monitored' = monitored
  /\ syscall(p, "fork", TRUE, [proc EXCEPT ![child] = Inherited(p)])
  /\ UNCHANGED <<ran, calls>>

\* monitor6.c, and monitor7.c for each command.
ForkFirst  == at["monitor"] = "fork1" /\ sys_fork("monitor", "cmd1", "wait1", "exec")
ForkSecond == at["monitor"] = "fork2" /\ sys_fork("monitor", "cmd2", "wait2", "exec")
\* monitor7.c does not test for -1, and goes on to wait.
ForkError ==
  /\ \/ Goto("monitor", "fork1", IF variant = 6 THEN "complain" ELSE "wait1")
     \/ Goto("monitor", "fork2", "wait2")
  /\ Plain("monitor", "fork", FALSE) /\ UNCHANGED calls

\* Mutant: monitor7.c does not wait between the commands.
WaitLast == {}
\* The child that wait() waits for: each is waited for before the next one is born.
Awaited == CASE at["monitor"] = "wait1" -> {"cmd1"} [] at["monitor"] = "wait2" -> {"cmd2"} [] OTHER -> {}
\* wait(0) returns the child's pid, or -1 when there is none.
Reap ==
  /\ \/ Goto("monitor", "wait1", IF variant = 6 THEN "exit" ELSE "fork2")
     \/ Goto("monitor", "wait2", "exit")
  /\ \A p \in Awaited : at[p] \in {"unborn", "ended"}
  /\ Plain("monitor", "wait", \E p \in Awaited : at[p] = "ended") /\ UNCHANGED calls

\* exit does not return, so it is never printed.
Quit(p) ==
  /\ Goto(p, "exit", "ended")
  /\ UNCHANGED <<inputs, proc, ran, monitored, made, shown, calls>>

\* The command reads, forks once, and comes to its end.
Reads(p) ==
  /\ at[p] = "run" /\ UNCHANGED at
  /\ \E ok \in BOOLEAN : Plain(p, "read", ok) /\ Counted
Spawn(p) == p # "sh" /\ at[p] = "run" /\ at["sub"] = "unborn" /\ sys_fork(p, "sub", "run", "run")
Ends(p) ==
  /\ p # "sh" /\ Goto(p, "run", "exit")
  /\ UNCHANGED <<inputs, proc, ran, monitored, made, shown, calls>>

\* The shell gets its program's end, and goes on.
ShellWait == /\ at["monitor"] = "ended" /\ Goto("sh", "wait", "run")
             /\ Plain("sh", "wait", TRUE) /\ UNCHANGED calls

Idle == /\ at["sh"] = "run" /\ \A p \in Callers \ {"sh"} : at[p] \in {"unborn", "ended"}
        /\ UNCHANGED monitorVars

MonitorNext ==
  \/ Usage \/ CallMonitor \/ MonitorFails \/ ForkFirst \/ ForkSecond \/ ForkError \/ Reap \/ ShellWait \/ Idle
  \/ \E p \in Callers : Complain(p) \/ Exec(p) \/ ExecFails(p) \/ Quit(p) \/ Reads(p) \/ Spawn(p) \/ Ends(p)
MonitorSpec == MonitorInit /\ [][MonitorNext]_monitorVars
-----------------------------------------------------------------------------
MonitorTypeOK ==
  /\ variant \in 1 .. 7 /\ text \in TextsOf[variant] /\ argc \in 1 .. MAXARG
  /\ at \in [Callers -> {"unborn", "start", "exec", "fork1", "wait1", "fork2", "wait2",
                          "wait", "complain", "exit", "run", "ended"}]
  /\ \A p \in Callers : /\ proc[p].monitor_mask \subseteq 0 .. 31
                        /\ proc[p].monitor_left \in {-1, 0} \cup 0 .. Limit /\ proc[p].lines \in Nat
  /\ monitored \in BOOLEAN /\ calls \in 0 .. MaxCalls

\* The bits of the mask that was typed: of a hexadecimal one each digit has its own four,
\* counted from the last digit, and those past 31 are lost; of a list each name has one.
AskedBits ==
  CASE text.kind = "decimal" -> text.value
    [] text.kind = "hex"     -> LET d == Digits(text.value)
                                IN  {b \in 0 .. 31 : \E i \in DOMAIN d : b - 4 * (Len(d) - i) \in BitsOf(d[i])}
    [] text.kind = "list"    -> {SYS[n] : n \in ToSet(text.value) \cap Named}
    [] text.kind = "off"     -> {}
AskedOf(p, line) == IF p # "sh" /\ line.after THEN AskedBits ELSE shmask

\* Exactly the calls that were asked for are printed: those of the program from monitor()
\* on, across exec and fork, whatever the shell's own mask is (monitor5.c turns it off for
\* its command); and of the shell those of its own mask: "it won't affect sh unless sh
\* itself calls it" (monitor4.c:24).  monitor8.c leaves out the failures, and monitor10.c
\* those past its limit.
ShownAsAsked ==
  /\ MonitorTypeOK
  /\ \A p \in Callers :
       LET asked == {line \in made[p] : SYS[line.call] \in AskedOf(p, line)}
       IN  CASE kernel = "monitor8.c" -> shown[p] = {line \in asked : line.ok}
             [] kernel = "monitor9.c" -> shown[p] = asked
             [] OTHER -> shown[p] \subseteq asked /\ (proc[p].monitor_left # 0 => shown[p] = asked)

\* "print next 100 monitored syscalls then stop" (monitor10.c:16) holds along each line of
\* descent: exec does not begin a new count, nor does fork, but each child goes on from
\* its parent's count by itself.
LimitAlongForks ==
  kernel = "monitor10.c" /\ Limit >= 0 => \A p \in Callers : proc[p].lines <= Limit

\* The commands get exactly the words that were typed for them, in order; the programs
\* that fork run one command at a time, and outlive it (monitor7.c: "run two commands
\* sequentially", monitor6.c: "Parent can wait & exit cleanly").
CommandsRight ==
  LET typed == SubSeq(argv, 3, argc)
      over(p) == at[p] \in {"unborn", "ended"}
  IN  /\ variant # 7 => \A p \in Callers : ran[p] \in {<<>>, typed}
      /\ variant = 7 =>
           /\ "--" \notin ToSet(ran["cmd1"])
           /\ ran["cmd1"] # <<>> => IsPrefix(Append(ran["cmd1"], "--"), typed)
           /\ ran["cmd2"] # <<>> => \E n \in DOMAIN typed :
                /\ typed = SubSeq(typed, 1, n) \o ran["cmd2"] /\ typed[n] = "--"
                /\ "--" \notin ToSet(SubSeq(typed, 1, n - 1))
      /\ at["cmd2"] # "unborn" => over("cmd1")
      /\ at["monitor"] = "ended" => over("cmd1") /\ over("cmd2")
=============================================================================
