-------------------------------- MODULE Symlink --------------------------------
(***************************************************************************)
(* w8labs/Task 2 variations: sys_open follows symbolic links, each tweak   *)
(* by its own rules, while other processes open, create (sys_symlink) and  *)
(* read (sys_readlink) links.  A name is the number of an inode; it is so  *)
(* many characters long, and dangles if that inode is free.  The empty     *)
(* name leads to the current directory, 0.  namei, create, ilock, iput,    *)
(* writei and the log are those of xv6, as the fragments use them; nothing *)
(* removes a name.                                                         *)
(***************************************************************************)
EXTENDS Integers, FiniteSets, SequencesExt

CONSTANTS Inode, Proc,
          Creator,    \* bound: the processes that may call sys_symlink
          DEPTH,      \* 10: the length of visited[]
          MAXPATH,
          ADDRS,      \* 52: the characters that addrs[] of an inode has room for
          Tweaks,     \* those to consider
          Outside     \* the names with a slash

Free   == "free"
Nobody == "nobody"
SymlinkAssumption ==
  /\ Tweaks \subseteq 1 .. 10 /\ IsFiniteSet(Proc) /\ Nobody \notin Proc /\ Creator \subseteq Proc
  /\ 0 \in Inode /\ Inode \subseteq Nat /\ IsFiniteSet(Inode) /\ Outside \subseteq Inode
  /\ DEPTH \in Nat \ {0} /\ MAXPATH \in Nat /\ ADDRS \in Nat

VARIABLES tweak,
          kind, target,            \* of each inode; a link's name is the number of its target
          lock, ref,               \* of each inode: who holds its sleeplock, and its references
          pc, call, ip, omode,
          start,                   \* history: the name each call was given
          visited,                 \* of each call: the links it has followed
          op,                      \* of each process: it is in a transaction of the log
          why                      \* of each call: how it ended
disk  == <<kind, target>>
linkVars == <<tweak, disk, lock, ref, pc, call, ip, omode, start, visited, op, why>>

\* The names that a call can be given.
Named  == Inode \ {0}
\* The fragments of sys_open, and those whose loop keeps no count.
OpenTweaks == {1, 2, 4, 5, 7, 8, 9}
Uncounted  == {5, 7, 9}
\* The modes of an open: it follows a link, and omode = O_RDONLY.  O_NOFOLLOW is a bit of
\* omode, as is O_FOLLOW, which tweak 5 asks for.  Named directories, and O_RDWR, are only
\* where the fragment looks at them; there every name exists.
DirTweaks  == {7}
Mode(follow, rdonly) == [follow |-> follow, rdonly |-> rdonly]
Modes == {Mode(TRUE, tweak # 5), Mode(FALSE, tweak = 5)} \cup {Mode(TRUE, FALSE) : t \in DirTweaks \cap {tweak}}

Init ==
  /\ tweak \in Tweaks
  /\ kind \in {k \in [Inode -> {"file", "dir", "link", Free}] :
                k[0] = "dir" /\ \A i \in Named : k[i] # IF tweak \in DirTweaks THEN Free ELSE "dir"}
  /\ target \in {t \in [Inode -> Inode] : \A i \in Inode : (kind[i] = "link") = (t[i] # 0)}
  /\ lock = [i \in Inode |-> Nobody] /\ ref = [i \in Inode |-> 0]
  /\ pc = [p \in Proc |-> "idle"] /\ call = pc
  /\ ip = [p \in Proc |-> 0] /\ start = ip
  /\ omode = [p \in Proc |-> Mode(TRUE, TRUE)]
  /\ visited = [p \in Proc |-> <<>>] /\ op = [p \in Proc |-> FALSE] /\ why = [p \in Proc |-> "none"]

Goto(p, from, to) == pc[p] = from /\ pc' = [pc EXCEPT ![p] = to]
\* namei finds an inode, or nothing.
Get(p, i) == ip' = [ip EXCEPT ![p] = i] /\ ref' = [ref EXCEPT ![i] = @ + 1]
\* Mutant: the reference is kept.
UnlockOnly(p) == lock' = [lock EXCEPT ![ip[p]] = Nobody] /\ UNCHANGED ref
iunlockput(p) == lock' = [lock EXCEPT ![ip[p]] = Nobody] /\ ref' = [ref EXCEPT ![ip[p]] = @ - 1]
Return(p, from, reason) ==
  /\ Goto(p, from, "done")
  /\ op' = [op EXCEPT ![p] = FALSE] /\ why' = [why EXCEPT ![p] = reason]
\* iunlockput, end_op and return.
Fail(p, from, reason) ==
  /\ Return(p, from, reason) /\ iunlockput(p)
  /\ UNCHANGED <<tweak, disk, call, ip, omode, start, visited>>
-----------------------------------------------------------------------------
\* sys_open and sys_readlink begin with begin_op and namei, and end_op if there is no file.
Start(p) ==
  /\ \E c \in {"open", "readlink"}, m \in Modes, i \in Named :
       /\ IF c = "open" THEN tweak \in OpenTweaks ELSE tweak = 6 /\ m = omode[p]
       /\ call' = [call EXCEPT ![p] = c] /\ omode' = [omode EXCEPT ![p] = m]
       /\ start' = [start EXCEPT ![p] = i]
       /\ IF kind[i] = Free
          THEN /\ Goto(p, "idle", "done") /\ why' = [why EXCEPT ![p] = "missing"]
               /\ UNCHANGED <<ip, ref, op>>
          ELSE /\ Goto(p, "idle", "ilock") /\ Get(p, i)
               /\ op' = [op EXCEPT ![p] = TRUE] /\ UNCHANGED why
  /\ UNCHANGED <<tweak, disk, lock, visited>>

ilock(p) ==
  /\ Goto(p, "ilock", call[p])
  /\ lock[ip[p]] = Nobody
  /\ lock' = [lock EXCEPT ![ip[p]] = p]
  /\ UNCHANGED <<tweak, disk, ref, call, ip, omode, start, visited, op, why>>

IsLink(p)  == kind[ip[p]] = "link"
\* Tweak 5 follows when O_FOLLOW is set, the others unless O_NOFOLLOW is: follow says so.
\* Tweak 2 has no loop, so it follows one.
Follows(p) ==
  /\ pc[p] = "open" /\ IsLink(p) /\ omode[p].follow
  /\ tweak = 2 => visited[p] = <<>>
\* f[1] + .. + f[n], as the loop of tweak 8 adds it up.
SumTo(f, n) == LET sum[k \in 0 .. n] == IF k = 0 THEN 0 ELSE sum[k - 1] + f[k] IN sum[n]
Total(p)   == SumTo([k \in DOMAIN visited[p] |-> target[visited[p][k]]], Len(visited[p]))

\* Mutant: the lengths are not added up in tweak 8.
LongNameOnly(p, reason) ==
  \/ tweak = 1 /\ visited[p] # <<>> /\ reason = "chain"
  \/ tweak = 4 /\ ip[p] \in ToSet(visited[p]) /\ reason = "cycle"
  \/ tweak = 4 /\ ip[p] \notin ToSet(visited[p]) /\ Len(visited[p]) >= DEPTH /\ reason = "depth"
  \/ tweak = 8 /\ target[ip[p]] > MAXPATH /\ reason = "long"
\* What ends the loop, or the second look of tweak 1, at a link.
Refuses(p, reason) ==
  \/ tweak = 1 /\ visited[p] # <<>> /\ reason = "chain"
  \/ tweak = 4 /\ ip[p] \in ToSet(visited[p]) /\ reason = "cycle"
  \/ tweak = 4 /\ ip[p] \notin ToSet(visited[p]) /\ Len(visited[p]) >= DEPTH /\ reason = "depth"
  \/ tweak = 8 /\ Total(p) + target[ip[p]] > MAXPATH /\ reason = "long"
Reasons == {"chain", "cycle", "depth", "long"}
Refuse(p) ==
  /\ Follows(p)
  /\ \E reason \in Reasons : Refuses(p, reason) /\ Fail(p, "open", reason)

\* Mutant: visited[depth] is not set, or the count is not increased.
Forget(p)   == visited[p]
\* visited[] of tweak 4, the total of tweak 8, was_symlink of tweak 7, the if of tweaks 1 and 2.
Remember(p) == IF tweak \in Uncounted THEN <<ip[p]>> ELSE Append(visited[p], ip[p])

\* Read the target, and let the link go.
Follow(p) ==
  /\ Follows(p) /\ \A reason \in Reasons : ~Refuses(p, reason)
  /\ Goto(p, "open", "namei") /\ iunlockput(p)
  /\ visited' = [visited EXCEPT ![p] = Remember(p)]
  /\ UNCHANGED <<tweak, disk, call, ip, omode, start, op, why>>

\* Tweak 2 reads a target that addrs[] has no room for, and does not put a NUL behind it:
\* the name is whatever path[] held there.
Garbled(p) == tweak = 2 /\ target[ip[p]] >= ADDRS
Names(p)   == IF Garbled(p) THEN Inode ELSE {target[ip[p]]}
\* ip = namei(path), and the transaction ends if the link dangles; tweak 9 then returns -2.
NextName(p) ==
  /\ pc[p] = "namei"
  /\ \E next \in Names(p) :
       \/ /\ kind[next] = Free \/ Garbled(p)
          /\ Return(p, "namei", IF tweak = 9 THEN "dangling" ELSE "missing") /\ UNCHANGED <<ip, ref>>
       \/ /\ kind[next] # Free
          /\ Goto(p, "namei", "ilock") /\ Get(p, next) /\ UNCHANGED <<op, why>>
  /\ UNCHANGED <<tweak, disk, lock, call, omode, start, visited>>

\* After the loop: a directory is opened to read only, and in tweak 7 not through a link.
Refused(p) ==
  /\ kind[ip[p]] = "dir"
  /\ ~omode[p].rdonly \/ (tweak = 7 /\ visited[p] # <<>>)
EndOfLoop(p) == pc[p] = "open" /\ ~Follows(p)
RefuseDir(p) == EndOfLoop(p) /\ Refused(p) /\ Fail(p, "open", "dir")
\* The file keeps the reference; iunlock and end_op.
Opened(p) ==
  /\ EndOfLoop(p) /\ ~Refused(p) /\ Return(p, "open", "opened")
  /\ lock' = [lock EXCEPT ![ip[p]] = Nobody]
  /\ UNCHANGED <<tweak, disk, ref, call, ip, omode, start, visited>>

\* readlink reads its copy of the path, and lets the link go; copyout comes after end_op.
Readlink(p) == pc[p] = "readlink" /\ Fail(p, "readlink", IF IsLink(p) THEN "read" ELSE "not a link")
-----------------------------------------------------------------------------
\* sys_symlink(target, path) begins with begin_op.  (Targets as long as a block, tweak 10,
\* do not come: argstr ends at MAXPATH.)
StartSymlink(p) ==
  /\ Goto(p, "idle", "create") /\ call' = [call EXCEPT ![p] = "symlink"]
  /\ op' = [op EXCEPT ![p] = TRUE]
  /\ UNCHANGED <<tweak, disk, lock, ref, ip, omode, start, visited, why>>

\* Tweak 3 refuses a target with a slash before it creates anything, and create returns 0 if
\* the path exists: end_op.  Or create returns a new inode, locked; until its target (here j)
\* is written nobody can look into it.
Create(p) ==
  /\ \E i, j \in Named :
       IF (tweak = 3 /\ j \in Outside) \/ kind[i] # Free
       THEN Return(p, "create", "refused") /\ UNCHANGED <<disk, lock, ref, ip>>
       ELSE /\ Goto(p, "create", "writei") /\ Get(p, i) /\ lock' = [lock EXCEPT ![i] = p]
            /\ kind' = [kind EXCEPT ![i] = "fresh"] /\ target' = [target EXCEPT ![i] = j]
            /\ UNCHANGED <<op, why>>
  /\ UNCHANGED <<tweak, call, omode, start, visited>>

\* Tweak 2 keeps a short target in addrs[].  Otherwise writei needs a block, and if it gets
\* none the link stays, with an empty target.
Writei(p) ==
  /\ \/ Return(p, "writei", "created") /\ UNCHANGED target
     \/ /\ ~(tweak = 2 /\ target[ip[p]] < ADDRS)
        /\ Return(p, "writei", "refused") /\ target' = [target EXCEPT ![ip[p]] = 0]
  /\ kind' = [kind EXCEPT ![ip[p]] = "link"] /\ iunlockput(p)
  /\ UNCHANGED <<tweak, call, ip, omode, start, visited>>

Inside(p) == pc[p] \notin {"idle", "done"}
NoCall    == (\A p \in Proc : ~Inside(p)) /\ UNCHANGED linkVars

sys_open(p)    == ilock(p) \/ Refuse(p) \/ Follow(p) \/ NextName(p) \/ RefuseDir(p) \/ Opened(p) \/ Readlink(p)
sys_symlink(p) == Create(p) \/ Writei(p)
Syscall(p)     == sys_open(p) \/ sys_symlink(p)
LinkNext == NoCall \/ (\E p \in Creator : StartSymlink(p)) \/ \E p \in Proc : Start(p) \/ Syscall(p)
Spec     == Init /\ [][LinkNext]_linkVars
\* The kernel schedules each process in a system call again and again.
FairSpec == Spec /\ \A p \in Proc : WF_linkVars(Syscall(p))
-----------------------------------------------------------------------------
\* The calls that hold the lock of their inode, and a reference of it; so does an open file.
HasLock(p) == pc[p] \in {"open", "readlink", "writei"}
Holds(p)   == HasLock(p) \/ pc[p] = "ilock" \/ (pc[p] = "done" /\ why[p] = "opened")
Labels  == {"idle", "ilock", "open", "namei", "readlink", "create", "writei", "done"}
Endings == Reasons \cup {"none", "missing", "dangling", "dir", "opened", "read", "not a link", "refused", "created"}
TypeOK ==
  /\ tweak \in Tweaks /\ kind \in [Inode -> {"file", "dir", "fresh", "link", Free}]
  /\ target \in [Inode -> Inode] /\ lock \in [Inode -> Proc \cup {Nobody}]
  /\ pc \in [Proc -> Labels]
  /\ call \in [Proc -> {"idle", "open", "readlink", "symlink"}]
  /\ ip \in [Proc -> Inode] /\ ref \in [Inode -> Int] /\ op \in [Proc -> BOOLEAN]
  /\ why \in [Proc -> Endings]

\* Whichever way a call takes, it lets its inode go, once, and ends its transaction: no lock
\* and no reference stays behind but that of the open file.  A lock has one holder, and who
\* waits for one holds no other.
CleanReturns ==
  /\ TypeOK
  /\ \A p \in Proc : op[p] = Inside(p)
  /\ \A i \in Inode : ref[i] = Cardinality({p \in Proc : Holds(p) /\ ip[p] = i})
  /\ \A i \in Inode, p \in Proc : (lock[i] = p) = (HasLock(p) /\ ip[p] = i)

\* What makes that last: no call has an inode that does not exist, one without a target is
\* that of the call that creates it, and a call that looks for the next name has left a
\* link, which stays a link.
Opening(p) == pc[p] \in {"ilock", "open", "namei", "readlink"}
CallInv ==
  /\ CleanReturns
  /\ \A i \in Inode : (kind[i] = "fresh") = \E p \in Proc : pc[p] = "writei" /\ ip[p] = i
  /\ \A p \in Proc : /\ Holds(p) => kind[ip[p]] # Free
                     /\ Opening(p) => call[p] \in {"open", "readlink"}
                     /\ pc[p] = "namei" => kind[ip[p]] = "link"

\* Where a name leads after n links (a link never changes), how many links there are on
\* its way, and how long their targets are together.
MaxLinks == Cardinality(Inode)
Walk(i)   == LET walk[n \in 0 .. MaxLinks + 1] ==
                   IF n = 0 THEN i ELSE IF kind[walk[n - 1]] = "link" THEN target[walk[n - 1]] ELSE walk[n - 1]
             IN  walk
Links(i)  == Cardinality({n \in 0 .. MaxLinks : kind[Walk(i)[n]] = "link"})
Cyclic(i) == Links(i) > MaxLinks
Length(i) == SumTo(Walk(i), Links(i))

\* What the caller is told is true of the links, although they are followed one by one while
\* others are created: the file it gets is the end of the chain, within the limit of the
\* tweak (one link, DEPTH links, MAXPATH characters, no directory behind a link), "Cycle
\* detected!" (tweak 4) means a cycle, the limits refuse only chains above them, and tweak 9
\* says "dangling" only of links.  Tweak 2 follows one link only, and opens a second one
\* itself; where a target that addrs[] has no room for leads there, nobody knows.
OpensRight ==
  \A p \in Proc : pc[p] = "done" =>
    LET s == start[p]
        n == Links(s)
    IN  /\ why[p] = "opened" /\ omode[p].follow /\ tweak # 2 =>
             /\ ~Cyclic(s) /\ ip[p] = Walk(s)[n]
             /\ CASE tweak = 1 -> n <= 1
                  [] tweak = 4 -> n <= DEPTH
                  [] tweak = 7 -> n > 0 => kind[ip[p]] # "dir"
                  [] tweak = 8 -> Length(s) <= MAXPATH
                  [] OTHER     -> TRUE
        /\ why[p] = "opened" /\ omode[p].follow /\ tweak = 2 /\ (kind[s] = "link" => target[s] < ADDRS) =>
             ip[p] = Walk(s)[1]
        /\ why[p] = "opened" /\ ~omode[p].follow => ip[p] = s
        /\ why[p] = "chain" => n > 1
        /\ why[p] = "cycle" => Cyclic(s)
        /\ why[p] = "depth" => n > DEPTH
        /\ why[p] = "long" => Cyclic(s) \/ Length(s) > MAXPATH
        /\ why[p] = "dangling" => kind[s] = "link"

\* Each call returns, also of links in a circle: two calls never wait for each other's
\* locks.  Only the loops without a count follow a circle for ever.
OpensEnd ==
  \A p \in Proc : Inside(p) ~> (~Inside(p) \/ (tweak \in Uncounted /\ \E i \in Inode : Cyclic(i)))
=============================================================================
