------------------------------ MODULE Handshake ------------------------------
(***************************************************************************)
(* w3labs/handshake1.c to handshake10.c.  Each program is a table: what    *)
(* main and its children do one after the other.  Reading it as a program, *)
(* an entry is a call of close, fork, readn, writen or wait, and the end   *)
(* of the table is exit(0).                                                *)
(*                                                                         *)
(* Process 1 is the parent, 2 and 3 are its children.  What a process has  *)
(* read is in got, in the order of the reads; printing is left out.        *)
(***************************************************************************)
EXTENDS Pipes, SequencesExt

CONSTANTS Args,         \* argv[1] and argv[2] of the runs, as <<a1, a2>>
          Junk,         \* what a byte may hold that was never written
          MaxFaults     \* bound: so many forks fail and processes are killed

ASSUME HandshakeAssumption ==
  /\ Process = 1 .. 3 /\ Pipe = {"p2c", "c2p", "p2c2", "c2p2", "p_c1", "c1_c2", "c2_p"}
  /\ Args \subseteq Int \X Int /\ Junk \subseteq 0 .. 255 /\ MaxFaults \in Nat

VARIABLES program, args,
          pc,       \* of each process: its place in the table
          moved,    \* of each process: the bytes that its call of readn or writen has moved
          got,      \* history: the bytes read, as <<process, byte>>
          faults
vars == <<kernelVars, program, args, pc, moved, got, faults>>

Child1 == 2
Child2 == 3
Byte(x) == x % 256
b == Byte(args[1])

By(p, s) == {i \in DOMAIN s : s[i][1] = p}
\* A local variable of p: the first byte it has read, and the last one.
First(p) == IF By(p, got) = {} THEN b ELSE got[Min(By(p, got))][2]
Cur(p)   == IF By(p, got) = {} THEN b ELSE got[Max(By(p, got))][2]

(* The calls.  fail says what happens if the call fails: "exit" is exit(1),  *)
(* "ignore" goes on, with a byte that is not read keeping an undefined       *)
(* ("junk") or its old ("keep") value.                                       *)
Close(ends)         == [op |-> "close", ends |-> ends]
Fork(c, fail)       == [op |-> "fork", child |-> c, fail |-> fail]
Read(x, n, fail)    == [op |-> "read", pipe |-> x, n |-> n, fail |-> fail]
Write(x, bs, fail)  == [op |-> "write", pipe |-> x, bytes |-> bs, fail |-> fail]
ReadUntilEof(x)     == [op |-> "drain", pipe |-> x, n |-> 1, fail |-> "ignore"]
Wait                == [op |-> "wait"]

\* The parent's and the child's ends of the two pipes p2c and c2p.
ParentEnds == {W("p2c"), R("c2p")}
ChildEnds  == {R("p2c"), W("c2p")}
TwoPipes   == {"p2c", "c2p"}
\* Mutant: the parent does not wait for its child.
NoWait(fail, calls) == <<Fork(Child1, fail), Close(ChildEnds)>> \o calls \o <<Close(ParentEnds)>>
Parent(fail, calls) == <<Fork(Child1, fail), Close(ChildEnds)>> \o calls \o <<Close(ParentEnds), Wait>>
Child(calls)        == <<Close(ParentEnds)>> \o calls \o <<Close(ChildEnds)>>

hs_basic ==
  << Parent("exit", <<Write("p2c", <<b>>, "exit"), Read("c2p", 1, "exit")>>),
     Child(<<Read("p2c", 1, "exit"), Write("c2p", <<Cur(Child1)>>, "exit")>>), <<>> >>

ACK == 75
\* Mutant: the parent does not look at the result of readn.
BelieveAnyway ==
  << Parent("ignore", <<Write("p2c", <<b>>, "ignore"), Read("c2p", 1, "junk")>>),
     Child(<<Read("p2c", 1, "exit"), Write("c2p", <<ACK>>, "exit")>>), <<>> >>
hs_ack ==
  << Parent("ignore", <<Write("p2c", <<b>>, "ignore"), Read("c2p", 1, "exit")>>),
     Child(<<Read("p2c", 1, "exit"), Write("c2p", <<ACK>>, "exit")>>), <<>> >>

hs_packet2 ==
  << Parent("ignore", <<Write("p2c", <<b, Byte(args[2])>>, "ignore"), Read("c2p", 1, "exit")>>),
     Child(<<Read("p2c", 2, "exit"), Write("c2p", <<First(Child1)>>, "exit")>>), <<>> >>

\* count times around a loop of two calls.
Rounds(calls) == [k \in 1 .. 2 * args[2] |-> calls[1 + ((k - 1) % 2)]]
hs_pingpong ==
  << Parent("ignore", Rounds(<<Write("p2c", <<Cur(Main)>>, "ignore"), Read("c2p", 1, "keep")>>)),
     Child(Rounds(<<Read("p2c", 1, "exit"), Write("c2p", <<Byte(Cur(Child1) + 1)>>, "exit")>>)), <<>> >>

READY == 82
\* Mutant: the parent sends before it waits for READY.
SendFirst ==
  << Parent("ignore", <<Write("p2c", <<b>>, "ignore"), Read("c2p", 1, "junk")>>),
     Child(<<Write("c2p", <<READY>>, "ignore"), Read("p2c", 1, "junk")>>), <<>> >>
hs_ready_first ==
  << Parent("ignore", <<Read("c2p", 1, "junk"), Write("p2c", <<b>>, "ignore")>>),
     Child(<<Write("c2p", <<READY>>, "ignore"), Read("p2c", 1, "junk")>>), <<>> >>

\* p2c1 and c2p1 are called p2c and c2p here.  Each child closes its own pair only,
\* and keeps the ends of the other pair.
spawn_child(c, down, up) ==
  <<Close({W(down), R(up)}), Read(down, 1, "exit"), Write(up, <<Cur(c)>>, "exit"), Close({R(down), W(up)})>>
hs_two_children ==
  << <<Fork(Child1, "ignore"), Fork(Child2, "ignore"),
       Close({R("p2c"), W("c2p"), R("p2c2"), W("c2p2")}),
       Write("p2c", <<b>>, "ignore"), Write("p2c2", <<b>>, "ignore"),
       Read("c2p", 1, "junk"), Read("c2p2", 1, "junk"),
       Close({W("p2c"), R("c2p"), W("p2c2"), R("c2p2")}), Wait, Wait>>,
     spawn_child(Child1, "p2c", "c2p"), spawn_child(Child2, "p2c2", "c2p2") >>

hs_ring3 ==
  << <<Fork(Child1, "ignore"), Fork(Child2, "ignore"),
       Close({R("p_c1"), R("c1_c2"), W("c1_c2"), W("c2_p")}),
       Write("p_c1", <<b>>, "ignore"), Read("c2_p", 1, "junk"), Close({W("p_c1"), R("c2_p")}), Wait, Wait>>,
     <<Close({W("p_c1"), R("c1_c2"), R("c2_p"), W("c2_p")}),
       Read("p_c1", 1, "junk"), Write("c1_c2", <<Byte(Cur(Child1) + 10)>>, "ignore"), Close({R("p_c1"), W("c1_c2")})>>,
     <<Close({W("c1_c2"), R("c2_p"), R("p_c1"), W("p_c1")}),
       Read("c1_c2", 1, "junk"), Write("c2_p", <<Byte(Cur(Child2) + 20)>>, "ignore"), Close({R("c1_c2"), W("c2_p")})>> >>

Three    == [i \in 1 .. 3 |-> Write("p2c", <<i>>, "ignore")]
Receiver == <<Close({W("p2c")}), ReadUntilEof("p2c"), Close({R("p2c")})>>
\* Mutant: the parent waits before it closes the write end.
WaitThenClose ==
  << <<Fork(Child1, "ignore"), Close({R("p2c")})>> \o Three \o <<Wait, Close({W("p2c")})>>, Receiver, <<>> >>
handshake8 ==
  << <<Fork(Child1, "ignore"), Close({R("p2c")})>> \o Three \o <<Close({W("p2c")}), Wait>>, Receiver, <<>> >>

hs_status ==
  << Parent("ignore", <<Write("p2c", <<b>>, "ignore"), Read("c2p", 1, "junk")>>),
     Child(<<Read("p2c", 1, "junk"), Write("c2p", <<Cur(Child1) % 2>>, "ignore")>>), <<>> >>

ACK1 == 65
ACK2 == 66
hs_two_phase ==
  << Parent("ignore", <<Write("p2c", <<b>>, "ignore"), Read("c2p", 1, "junk"), Write("p2c", <<ACK2>>, "ignore")>>),
     Child(<<Read("p2c", 1, "junk"), Write("c2p", <<ACK1>>, "ignore"), Read("p2c", 1, "junk")>>), <<>> >>

Code ==
  CASE program = 1 -> hs_basic        [] program = 2 -> hs_ack        [] program = 3 -> hs_packet2
    [] program = 4 -> hs_pingpong     [] program = 5 -> hs_ready_first
    [] program = 6 -> hs_two_children [] program = 7 -> hs_ring3      [] program = 8 -> handshake8
    [] program = 9 -> hs_status       [] program = 10 -> hs_two_phase
PipesOf ==
  CASE program = 6 -> TwoPipes \cup {"p2c2", "c2p2"} [] program = 7 -> {"p_c1", "c1_c2", "c2_p"}
    [] program = 8 -> {"p2c"} [] OTHER -> TwoPipes
-----------------------------------------------------------------------------
Init ==
  /\ program \in 1 .. 10 /\ args \in Args
  /\ KernelInit(PipesOf)
  /\ pc = [p \in Process |-> 1] /\ moved = [p \in Process |-> 0]
  /\ got = <<>> /\ faults = 0

Call(p)   == Code[p][pc[p]]
At(p, op) == Running(p) /\ pc[p] <= Len(Code[p]) /\ Call(p).op = op
\* The call returns, and the process goes on.
Return(p) == pc' = [pc EXCEPT ![p] = @ + 1] /\ moved' = [moved EXCEPT ![p] = 0]
Keep      == UNCHANGED <<program, args>>
Fail(p)   == IF Call(p).fail = "exit" THEN exit(p, "exit1") /\ UNCHANGED <<pc, moved>>
             ELSE Return(p) /\ UNCHANGED kernelVars

DoClose(p) == At(p, "close") /\ close(p, Call(p).ends) /\ Return(p) /\ Keep /\ UNCHANGED <<got, faults>>
DoFork(p)  == At(p, "fork") /\ fork(p, Call(p).child) /\ Return(p) /\ Keep /\ UNCHANGED <<got, faults>>
\* fork returns -1; most programs do not look, and go on as the parent.
ForkFails(p) == /\ At(p, "fork") /\ faults < MaxFaults /\ faults' = faults + 1
                /\ Fail(p) /\ Keep /\ UNCHANGED got

\* One turn of the loop of readn, or of the child's loop in handshake8.c.
ReadSome(p) ==
  /\ At(p, "read") \/ At(p, "drain")
  /\ \E n \in 1 .. Call(p).n - moved[p] :
       /\ read(Call(p).pipe, n)
       /\ got' = got \o [k \in 1 .. n |-> <<p, pipe[Call(p).pipe][k]>>]
       /\ IF At(p, "drain") THEN UNCHANGED <<pc, moved>>
          ELSE IF moved[p] + n = Call(p).n THEN Return(p)
          ELSE moved' = [moved EXCEPT ![p] = @ + n] /\ UNCHANGED pc
  /\ Keep /\ UNCHANGED faults

\* read returns 0, as nobody can write to the pipe any more.
ReadEof(p) ==
  /\ At(p, "read") \/ At(p, "drain")
  /\ Eof(Call(p).pipe) /\ Fail(p)
  /\ CASE Call(p).fail = "junk" -> \E x \in Junk : got' = Append(got, <<p, x>>)
       [] Call(p).fail = "keep" -> got' = Append(got, <<p, Cur(p)>>)
       [] OTHER -> UNCHANGED got
  /\ Keep /\ UNCHANGED faults

\* One turn of the loop of writen.
WriteSome(p) ==
  /\ At(p, "write")
  /\ \E n \in 1 .. Len(Call(p).bytes) - moved[p] :
       /\ write(Call(p).pipe, SubSeq(Call(p).bytes, moved[p] + 1, moved[p] + n))
       /\ IF moved[p] + n = Len(Call(p).bytes) THEN Return(p)
          ELSE moved' = [moved EXCEPT ![p] = @ + n] /\ UNCHANGED pc
  /\ Keep /\ UNCHANGED <<got, faults>>
WriteFails(p) == At(p, "write") /\ Broken(Call(p).pipe) /\ Fail(p) /\ Keep /\ UNCHANGED <<got, faults>>

DoWait(p) == At(p, "wait") /\ wait(p) /\ Return(p) /\ Keep /\ UNCHANGED <<got, faults>>
Exit(p)   == /\ Running(p) /\ pc[p] > Len(Code[p]) /\ exit(p, "exit0")
             /\ Keep /\ UNCHANGED <<pc, moved, got, faults>>

\* Somebody kills the process.
Kill(p) == /\ Running(p) /\ faults < MaxFaults /\ faults' = faults + 1
           /\ exit(p, "killed") /\ Keep /\ UNCHANGED <<pc, moved, got>>

Step(p) == \/ DoClose(p) \/ DoFork(p) \/ ForkFails(p) \/ ReadSome(p) \/ ReadEof(p)
           \/ WriteSome(p) \/ WriteFails(p) \/ DoWait(p) \/ Exit(p)
Next == \E p \in Process : Step(p) \/ Kill(p)
Spec == Init /\ [][Next]_vars
\* The kernel schedules every process again and again; nobody need be killed.
FairSpec == Spec /\ \A p \in Process : WF_vars(Step(p))
-----------------------------------------------------------------------------
TypeOK ==
  /\ \A x \in Pipe : pipe[x] \in Seq(0 .. 255)
  /\ open \subseteq Process \X (Pipe \X {"r", "w"})
  /\ status \in [Process -> {"none", "runs", "exit0", "exit1", "killed"}]
  /\ reaped \subseteq {p \in Process : HasEnded(p)}
  /\ \A p \in Process : pc[p] \in 1 .. Len(Code[p]) + 1 /\ moved[p] \in 0 .. 1
  /\ got \in Seq(Process \X (0 .. 255)) /\ faults \in 0 .. MaxFaults

\* Who reads what, in the order of the reads: what each program is for.
Promised ==
  CASE program = 1 -> {<< <<2, b>>, <<1, b>> >>}
    [] program = 2 -> {<< <<2, b>>, <<1, ACK>> >>}
    [] program = 3 -> {<< <<2, b>>, <<2, Byte(args[2])>>, <<1, b>> >>}
    [] program = 4 -> {[i \in 1 .. 2 * args[2] |-> <<1 + (i % 2), Byte(b + (i \div 2))>>]}
    [] program = 5 -> {<< <<1, READY>>, <<2, b>> >>}
    [] program = 6 -> {<< <<2, b>>, <<3, b>>, <<1, b>>, <<1, b>> >>, << <<3, b>>, <<2, b>>, <<1, b>>, <<1, b>> >>,
                       << <<2, b>>, <<1, b>>, <<3, b>>, <<1, b>> >>}
    [] program = 7 -> {<< <<2, b>>, <<3, Byte(b + 10)>>, <<1, Byte(b + 30)>> >>}
    [] program = 8 -> {<< <<2, 1>>, <<2, 2>>, <<2, 3>> >>}
    [] program = 9 -> {<< <<2, b>>, <<1, b % 2>> >>}
    [] program = 10 -> {<< <<2, b>>, <<1, ACK1>>, <<2, ACK2>> >>}

\* These programs look at every result of read, or have nothing to lose.
Careful == {1, 2, 3, 8}

\* Every byte is read by the one it is for, in the order that the program is for:
\* an acknowledgement after what it acknowledges, data after READY, the second
\* confirmation after the first.  The careful programs keep to it whatever fails.
AsPromised ==
  /\ TypeOK
  /\ faults = 0 \/ program \in Careful => \E s \in Promised : IsPrefix(got, s)

\* exit(0) of a process says that it has read everything it is to read: always
\* in the programs that check, and in the others if nothing has failed.
ExitZeroMeansDone ==
  faults = 0 \/ program \in {1, 2, 3} =>
    \A p \in Process : status[p] = "exit0" => \E s \in Promised : IsPrefix(got, s) /\ By(p, s) \subseteq DOMAIN got

\* A parent that comes to its end has waited for each child that it has forked:
\* none goes on printing after it, and none is left as a zombie.
ParentLast ==
  status[Main] = "exit0" => \A c \in Process \ {Main} : status[c] = "none" \/ c \in reaped

\* The children of handshake6.c hold the write ends of each other's pipes: if the
\* parent is killed before it has written, they wait for ever.
Orphaned == /\ program = 6 /\ status[Main] = "killed"
            /\ \A c \in {Child1, Child2} : At(c, "read") /\ pipe[Call(c).pipe] = <<>>

\* Nobody waits for ever, whatever fails: every end that is not closed would keep
\* a reader from its EOF.
EveryoneEnds == <>((\A p \in Process : ~Running(p)) \/ Orphaned)

\* "child validates and returns success/fail" (handshake9.c line 7): the parent of
\* handshake9.c has a status only after the child has read the byte.
VerdictFromChild ==
  program = 9 => \A i \in DOMAIN got : got[i][1] = Main => \E j \in 1 .. i - 1 : got[j][1] = Child1
=============================================================================
