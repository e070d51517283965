------------------------------- MODULE Pipes -------------------------------
(***************************************************************************)
(* fork, pipes, wait and exit, as the programs of w3labs use them.  The    *)
(* xv6 kernel that provides them is not in this repository.                *)
(*                                                                         *)
(* An end of a pipe is open for each process that has not closed it; a     *)
(* read of an empty pipe waits while somebody may still write to it, and   *)
(* a write to a pipe that nobody can read fails.  A call may transfer      *)
(* fewer bytes than it was asked to: the loops of readn and writen are     *)
(* there for that.                                                         *)
(***************************************************************************)
EXTENDS Integers, Sequences, FiniteSets

CONSTANTS Process, Pipe

VARIABLES pipe,     \* the bytes in each pipe
          open,     \* <<p, end>>: process p has the end of a pipe open
          status,   \* of each process
          reaped    \* the processes whose end a wait has returned
kernelVars == <<pipe, open, status, reaped>>

R(x) == <<x, "r">>
W(x) == <<x, "w">>
Main == 1

\* The process is created with both ends of its pipes.
KernelInit(own) ==
  /\ pipe = [x \in Pipe |-> <<>>]
  /\ open = {Main} \X ({R(x) : x \in own} \cup {W(x) : x \in own})
  /\ status = [p \in Process |-> IF p = Main THEN "runs" ELSE "none"]
  /\ reaped = {}

Running(p)  == status[p] = "runs"
HasEnded(p)    == status[p] \in {"exit0", "exit1", "killed"}
Readable(x) == \E p \in Process : <<p, R(x)>> \in open
Writable(x) == \E p \in Process : <<p, W(x)>> \in open

\* The child has every end open that its parent has open.
fork(p, c) ==
  /\ status' = [status EXCEPT ![c] = "runs"]
  /\ open' = open \cup {<<c, o[2]>> : o \in {x \in open : x[1] = p}}
  /\ UNCHANGED <<pipe, reaped>>

close(p, ends) == open' = open \ ({p} \X ends) /\ UNCHANGED <<pipe, status, reaped>>

\* read takes the first n bytes of the pipe, and write puts bytes behind the last.
read(x, n)      == /\ n <= Len(pipe[x]) /\ pipe' = [pipe EXCEPT ![x] = SubSeq(@, n + 1, Len(@))]
                   /\ UNCHANGED <<open, status, reaped>>
write(x, bytes) == Readable(x) /\ pipe' = [pipe EXCEPT ![x] = @ \o bytes] /\ UNCHANGED <<open, status, reaped>>
Eof(x)    == pipe[x] = <<>> /\ ~Writable(x)
Broken(x) == ~Readable(x)

\* An exit or a kill closes every end of the process.
exit(p, how) ==
  /\ status' = [status EXCEPT ![p] = how]
  /\ open' = {o \in open : o[1] # p}
  /\ UNCHANGED <<pipe, reaped>>

\* wait returns one ended child, or fails if there is none to wait for.
wait(p) ==
  LET left == {c \in Process \ {Main} : status[c] # "none"} \ reaped
  IN  /\ IF left = {} THEN UNCHANGED reaped
         ELSE \E c \in left : HasEnded(c) /\ reaped' = reaped \cup {c}
      /\ UNCHANGED <<pipe, open, status>>
=============================================================================
