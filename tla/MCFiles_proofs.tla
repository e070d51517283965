---------------------------- MODULE MCFiles_proofs ----------------------------
(***************************************************************************)
(* The theorems of the two sets of file system fragments.                  *)
(*                                                                         *)
(* Symlink: whichever way a call takes through the loops of w8labs/Task 2  *)
(* variations, it leaves no lock, reference or transaction behind, and     *)
(* what it tells its caller is true of the links: for every number of      *)
(* inodes and processes and every limit of the tweaks.                     *)
(*                                                                         *)
(* Bmap: in each layout of addrs[] of w8labs/Task 1 variations bmap()      *)
(* keeps the map of the file, and itrunc() frees all of it: for every      *)
(* number of slots, of pointers in an index block and of blocks on disk.   *)
(***************************************************************************)
EXTENDS MCFiles, FiniteSetTheorems, SequenceTheorems, WellFoundedInduction, TLAPS

\* The calls that hold a reference of i, and the two conjuncts of CleanReturns about inodes.
Holders(i) == {p \in Proc : Holds(p) /\ ip[p] = i}
Counted    == \A i \in Inode : ref[i] = Cardinality(Holders(i))
Locked     == \A i \in Inode, p \in Proc : (lock[i] = p) = (HasLock(p) /\ ip[p] = i)

\* A step of p is not one of the others.
Alone(p) ==
  \A q \in Proc \ {p} : pc'[q] = pc[q] /\ ip'[q] = ip[q] /\ why'[q] = why[q] /\ op'[q] = op[q] /\ call'[q] = call[q]

\* The holders of an inode are finitely many, and the references are numbers.
LEMMA Holding ==
  ASSUME SymlinkAssumption, CallInv, NEW i \in Inode
  PROVE  IsFiniteSet(Holders(i)) /\ ref[i] = Cardinality(Holders(i)) /\ ref[i] \in Int
<1>1. IsFiniteSet(Proc) /\ Holders(i) \in SUBSET Proc
  BY DEF SymlinkAssumption, Holders
<1>2. IsFiniteSet(Holders(i))
  BY <1>1, FS_Subset
<1> QED BY <1>2 DEF CallInv, CleanReturns, Holders, TypeOK

\* The others hold what they held.
LEMMA OthersHold ==
  ASSUME NEW p \in Proc, Alone(p), NEW i
  PROVE  Holders(i)' \ {p} = Holders(i) \ {p}
BY DEF Alone, Holders, Holds, HasLock

\* No reference changes hands.
LEMMA CountSame ==
  ASSUME SymlinkAssumption, CallInv, NEW p \in Proc, Alone(p), ref' = ref,
         \A i \in Inode : Holds(p)' /\ ip'[p] = i <=> Holds(p) /\ ip[p] = i
  PROVE  Counted'
<1> SUFFICES ASSUME NEW i \in Inode PROVE ref'[i] = Cardinality(Holders(i)')
  BY DEF Counted
<1>1. p \in Holders(i)' <=> p \in Holders(i)
  BY DEF Holders
<1>2. Holders(i)' = Holders(i)
  BY <1>1, OthersHold
<1> QED BY <1>2, Holding

\* namei gives p a reference.
LEMMA CountGain ==
  ASSUME SymlinkAssumption, CallInv, NEW p \in Proc, Alone(p), NEW j \in Inode, ref' = [ref EXCEPT ![j] = @ + 1],
         ~Holds(p), Holds(p)', ip'[p] = j
  PROVE  Counted'
<1> SUFFICES ASSUME NEW i \in Inode PROVE ref'[i] = Cardinality(Holders(i)')
  BY DEF Counted
<1>1. p \notin Holders(i) /\ (p \in Holders(i)' <=> i = j)
  BY DEF Holders
<1>2. ref'[i] = IF i = j THEN ref[i] + 1 ELSE ref[i]
  BY DEF CallInv, CleanReturns, TypeOK
<1>3. CASE i = j
  <2>1. Holders(i)' = Holders(i) \cup {p}
    BY <1>1, <1>3, OthersHold
  <2>2. Cardinality(Holders(i) \cup {p}) = Cardinality(Holders(i)) + 1
    BY <1>1, Holding, FS_AddElement
  <2> QED BY <2>1, <2>2, <1>2, <1>3, Holding
<1>4. CASE i # j
  <2>1. Holders(i)' = Holders(i)
    BY <1>1, <1>4, OthersHold
  <2> QED BY <2>1, <1>2, <1>4, Holding
<1> QED BY <1>3, <1>4

\* iput takes the reference of p.
LEMMA CountLose ==
  ASSUME SymlinkAssumption, CallInv, NEW p \in Proc, Alone(p), ref' = [ref EXCEPT ![ip[p]] = @ - 1],
         Holds(p), ~Holds(p)', ip'[p] = ip[p]
  PROVE  Counted'
<1> SUFFICES ASSUME NEW i \in Inode PROVE ref'[i] = Cardinality(Holders(i)')
  BY DEF Counted
<1>1. p \notin Holders(i)' /\ (p \in Holders(i) <=> i = ip[p])
  BY DEF Holders
<1>2. ref'[i] = IF i = ip[p] THEN ref[i] - 1 ELSE ref[i]
  BY DEF CallInv, CleanReturns, TypeOK
<1>3. CASE i = ip[p]
  <2>1. Holders(i)' = Holders(i) \ {p}
    BY <1>1, OthersHold
  <2> QED BY <2>1, <1>1, <1>2, <1>3, Holding, FS_RemoveElement
<1>4. CASE i # ip[p]
  <2>1. Holders(i)' = Holders(i)
    BY <1>1, <1>4, OthersHold
  <2> QED BY <2>1, <1>2, <1>4, Holding
<1> QED BY <1>3, <1>4

\* A step of p that does not touch the locks, of a call that has none.
LEMMA LockSame ==
  ASSUME CallInv, NEW p \in Proc, Alone(p), lock' = lock, ~HasLock(p), ~HasLock(p)'
  PROVE  Locked'
BY DEF CallInv, CleanReturns, Alone, Locked, HasLock

\* A step that takes a lock that nobody has.
LEMMA LockTaken ==
  ASSUME SymlinkAssumption, CallInv, NEW p \in Proc, Alone(p), ~HasLock(p), HasLock(p)',
         ip'[p] \in Inode, lock[ip'[p]] = Nobody, lock' = [lock EXCEPT ![ip'[p]] = p]
  PROVE  Locked'
<1> SUFFICES ASSUME NEW i \in Inode, NEW q \in Proc
             PROVE  (lock'[i] = q) = (HasLock(q)' /\ ip'[q] = i)
  BY DEF Locked
<1>1. lock \in [Inode -> Proc \cup {Nobody}] /\ Nobody # q /\ (lock[i] = q) = (HasLock(q) /\ ip[q] = i)
  BY DEF CallInv, CleanReturns, TypeOK, SymlinkAssumption
<1>2. lock'[i] = IF i = ip'[p] THEN p ELSE lock[i]
  BY <1>1
<1>3. CASE q = p
  BY <1>1, <1>2, <1>3
<1>4. CASE q # p
  <2>1. (HasLock(q)' /\ ip'[q] = i) = (HasLock(q) /\ ip[q] = i)
    BY <1>4 DEF Alone, HasLock
  <2> QED BY <1>1, <1>2, <1>4, <2>1
<1> QED BY <1>3, <1>4

\* A step that gives the lock back: the call had no other.
LEMMA LockBack ==
  ASSUME SymlinkAssumption, CallInv, NEW p \in Proc, Alone(p), lock' = [lock EXCEPT ![ip[p]] = Nobody],
         HasLock(p), ~HasLock(p)'
  PROVE  Locked'
<1> SUFFICES ASSUME NEW i \in Inode, NEW q \in Proc
             PROVE  (lock'[i] = q) = (HasLock(q)' /\ ip'[q] = i)
  BY DEF Locked
<1>1. /\ lock \in [Inode -> Proc \cup {Nobody}] /\ Nobody # q /\ ip[p] \in Inode /\ ip[q] \in Inode
      /\ \A j \in Inode, r \in Proc : (lock[j] = r) = (HasLock(r) /\ ip[r] = j)
  BY DEF CallInv, CleanReturns, TypeOK, SymlinkAssumption
<1>2. lock'[i] = IF i = ip[p] THEN Nobody ELSE lock[i]
  BY <1>1
<1>3. lock[ip[p]] = p
  BY <1>1
<1>4. CASE q = p
  BY <1>1, <1>2, <1>4
<1>5. CASE q # p
  <2>1. (HasLock(q)' /\ ip'[q] = i) = (HasLock(q) /\ ip[q] = i)
    BY <1>5 DEF Alone, HasLock
  <2> QED BY <1>1, <1>2, <1>3, <1>5, <2>1
<1> QED BY <1>4, <1>5

\* The invariant after a step of p, from what the step does to p and to the inodes.
LEMMA Kept ==
  ASSUME CallInv, NEW p \in Proc, Alone(p), TypeOK', Counted', Locked', op'[p] = Inside(p)',
         \A i \in Inode : (kind[i] = "link" => kind'[i] = "link") /\ (kind[i] # Free => kind'[i] # Free),
         \A i \in Inode : (kind'[i] = "fresh") = \E q \in Proc : pc'[q] = "writei" /\ ip'[q] = i,
         Holds(p)' => kind'[ip'[p]] # Free,
         Opening(p)' => call'[p] \in {"open", "readlink"},
         pc'[p] = "namei" => kind'[ip'[p]] = "link"
  PROVE  CallInv'
<1>1. \A q \in Proc : op'[q] = Inside(q)'
  <2> SUFFICES ASSUME NEW q \in Proc
               PROVE  op'[q] = Inside(q)'
    OBVIOUS
  <2>1. op[q] = Inside(q)
    BY DEF CallInv, CleanReturns
  <2> QED BY <2>1 DEF Alone, Inside
<1>2. CleanReturns'
  BY <1>1 DEF CleanReturns, Counted, Locked, Holders
<1>3. \A q \in Proc : /\ Holds(q)' => kind'[ip'[q]] # Free
                      /\ Opening(q)' => call'[q] \in {"open", "readlink"}
                      /\ pc'[q] = "namei" => kind'[ip'[q]] = "link"
  <2> SUFFICES ASSUME NEW q \in Proc, q # p
               PROVE  /\ Holds(q)' => kind'[ip'[q]] # Free
                      /\ Opening(q)' => call'[q] \in {"open", "readlink"}
                      /\ pc'[q] = "namei" => kind'[ip'[q]] = "link"
    OBVIOUS
  <2>1. /\ Holds(q) => kind[ip[q]] # Free
        /\ Opening(q) => call[q] \in {"open", "readlink"}
        /\ pc[q] = "namei" => kind[ip[q]] = "link"
        /\ ip[q] \in Inode
    BY DEF CallInv, CleanReturns, TypeOK
  <2> QED BY <2>1 DEF Alone, Opening, Holds, HasLock
<1> QED BY <1>2, <1>3 DEF CallInv

\* The same for a step that changes no inode, of another call than sys_symlink's.
LEMMA KeptAlone ==
  ASSUME CallInv, NEW p \in Proc, Alone(p), TypeOK', Counted', Locked', op'[p] = Inside(p)',
         UNCHANGED <<kind, target>>, pc[p] # "writei", pc'[p] # "writei", Holds(p)' => kind[ip'[p]] # Free,
         Opening(p)' => call'[p] \in {"open", "readlink"},
         pc'[p] = "namei" => kind[ip'[p]] = "link"
  PROVE  CallInv'
<1>1. \A i \in Inode : (kind'[i] = "fresh") = \E q \in Proc : pc'[q] = "writei" /\ ip'[q] = i
  <2>1. \A i \in Inode : (kind[i] = "fresh") = \E q \in Proc : pc[q] = "writei" /\ ip[q] = i
    BY DEF CallInv
  <2>2. \A q \in Proc, i \in Inode : (pc'[q] = "writei" /\ ip'[q] = i) = (pc[q] = "writei" /\ ip[q] = i)
    BY DEF Alone
  <2> QED BY <2>1, <2>2
<1> QED BY <1>1, Kept

\* The first state: no call, no reference, no lock.
LEMMA InitInv ==
  ASSUME SymlinkAssumption, Init
  PROVE  CallInv
<1>1. TypeOK
  BY DEF Init, TypeOK, Free, Endings, Labels, SymlinkAssumption
<1>2. \A i \in Inode : ref[i] = Cardinality({p \in Proc : Holds(p) /\ ip[p] = i})
  <2>1. \A i \in Inode : {p \in Proc : Holds(p) /\ ip[p] = i} = {}
    BY DEF Init, Holds, HasLock
  <2> QED BY <2>1, FS_EmptySet DEF Init
<1>3. \A p \in Proc : op[p] = Inside(p)
  BY DEF Init, Inside
<1>4. \A i \in Inode, p \in Proc : (lock[i] = p) = (HasLock(p) /\ ip[p] = i)
  BY DEF Init, HasLock, SymlinkAssumption
<1>5. \A i \in Inode : kind[i] # "fresh"
  BY DEF Init, Free
<1>6. \A p \in Proc : pc[p] = "idle"
  BY DEF Init
<1> QED BY <1>1, <1>2, <1>3, <1>4, <1>5, <1>6 DEF CallInv, CleanReturns, Opening, Holds, HasLock

\* A call begins: namei finds an inode, or there is no file.
LEMMA StartKeeps ==
  ASSUME SymlinkAssumption, CallInv, NEW p \in Proc, Start(p)
  PROVE  CallInv'
<1> USE DEF CallInv, CleanReturns, TypeOK
<1>0. PICK c \in {"open", "readlink"}, m \in Modes, i \in Named : Start(p)!1!(c, m, i)
  BY DEF Start
<1>1. /\ pc[p] = "idle" /\ call' = [call EXCEPT ![p] = c] /\ UNCHANGED <<tweak, kind, target, lock>>
      /\ \/ /\ pc' = [pc EXCEPT ![p] = "done"] /\ why' = [why EXCEPT ![p] = "missing"] /\ UNCHANGED <<ip, ref, op>>
         \/ /\ pc' = [pc EXCEPT ![p] = "ilock"] /\ Get(p, i) /\ op' = [op EXCEPT ![p] = TRUE] /\ UNCHANGED why
            /\ kind[i] # Free
  BY <1>0 DEF Start, Goto, disk
<1>2. Alone(p) /\ i \in Inode
  BY <1>1 DEF Alone, Get, Named
<1>3. ~Holds(p) /\ ~HasLock(p) /\ op[p] = FALSE
  BY <1>1 DEF Holds, HasLock, Inside
<1>4. CASE pc' = [pc EXCEPT ![p] = "done"] /\ why' = [why EXCEPT ![p] = "missing"] /\ UNCHANGED <<ip, ref, op>>
  <2>1. pc'[p] = "done" /\ why'[p] = "missing" /\ ~Holds(p)' /\ ~HasLock(p)' /\ ~Opening(p)' /\ op'[p] = Inside(p)'
    BY <1>3, <1>4 DEF Holds, HasLock, Opening, Inside
  <2>2. Counted' /\ Locked'
    BY <2>1, <1>1, <1>2, <1>3, <1>4, CountSame, LockSame
  <2>3. TypeOK'
    BY <1>1, <1>4 DEF Endings, Labels
  <2> QED BY <2>1, <2>2, <2>3, <1>1, <1>2, <1>3, <1>4, KeptAlone
<1>5. CASE /\ pc' = [pc EXCEPT ![p] = "ilock"] /\ Get(p, i) /\ op' = [op EXCEPT ![p] = TRUE] /\ UNCHANGED why
             /\ kind[i] # Free
  <2>1. pc'[p] = "ilock" /\ Holds(p)' /\ ~HasLock(p)' /\ ip'[p] = i /\ op'[p] = TRUE /\ Inside(p)'
    BY <1>5 DEF Holds, HasLock, Get, Inside
  <2>2. Counted' /\ Locked'
    BY <2>1, <1>1, <1>2, <1>3, <1>5, CountGain, LockSame DEF Get
  <2>3. TypeOK'
    BY <1>1, <1>2, <1>5 DEF Get, Labels
  <2>4. call'[p] \in {"open", "readlink"}
    BY <1>1
  <2> QED BY <2>1, <2>2, <2>3, <2>4, <1>1, <1>2, <1>5, KeptAlone
<1> QED BY <1>1, <1>4, <1>5

\* ilock: the call already has its reference.
LEMMA IlockKeeps ==
  ASSUME SymlinkAssumption, CallInv, NEW p \in Proc, ilock(p)
  PROVE  CallInv'
<1> USE DEF CallInv, CleanReturns, TypeOK
<1>1. /\ pc[p] = "ilock" /\ pc' = [pc EXCEPT ![p] = call[p]] /\ lock[ip[p]] = Nobody
      /\ lock' = [lock EXCEPT ![ip[p]] = p] /\ UNCHANGED <<tweak, kind, target, ref, call, ip, op, why>>
  BY DEF ilock, Goto, disk
<1>2. call[p] \in {"open", "readlink"} /\ ip[p] \in Inode /\ op[p] = TRUE
  BY <1>1 DEF Inside, Opening
<1>3. Alone(p) /\ pc'[p] = call[p] /\ ip'[p] = ip[p]
  BY <1>1 DEF Alone
<1>4. TypeOK'
  BY <1>1, <1>2 DEF Labels
<1>5. Counted' /\ kind[ip'[p]] # Free
  <2>1. Holds(p) /\ Holds(p)' /\ ip'[p] = ip[p]
    BY <1>1, <1>2, <1>3 DEF Holds, HasLock
  <2> QED BY <2>1, <1>1, <1>3, CountSame
<1>6. Locked'
  <2>1. ~HasLock(p) /\ HasLock(p)'
    BY <1>1, <1>2, <1>3 DEF HasLock
  <2> QED BY <2>1, <1>1, <1>2, <1>3, LockTaken
<1>7. op'[p] = Inside(p)' /\ pc'[p] # "namei" /\ call'[p] \in {"open", "readlink"}
  BY <1>1, <1>2, <1>3 DEF Inside
<1> QED BY <1>1, <1>3, <1>4, <1>5, <1>6, <1>7, KeptAlone

\* The call lets go of its inode, with the lock and the reference, and goes on or returns.
LEMMA LetGo ==
  ASSUME SymlinkAssumption, CallInv, NEW p \in Proc, pc[p] \in {"open", "readlink"}, iunlockput(p),
         NEW to \in {"namei", "done"}, pc' = [pc EXCEPT ![p] = to],
         NEW reason \in Endings \ {"opened"},
         IF to = "done" THEN op' = [op EXCEPT ![p] = FALSE] /\ why' = [why EXCEPT ![p] = reason]
         ELSE kind[ip[p]] = "link" /\ UNCHANGED <<op, why>>,
         UNCHANGED <<tweak, kind, target, call, ip>>
  PROVE  CallInv'
<1> USE DEF CallInv, CleanReturns, TypeOK
<1>1. ip[p] \in Inode /\ op[p] = TRUE /\ Holds(p) /\ HasLock(p) /\ call[p] \in {"open", "readlink"}
  BY DEF Inside, Holds, HasLock, Opening
<1>2. ref' = [ref EXCEPT ![ip[p]] = @ - 1] /\ lock' = [lock EXCEPT ![ip[p]] = Nobody]
  BY DEF iunlockput
<1>3. Alone(p) /\ pc'[p] = to /\ ip'[p] = ip[p] /\ call'[p] = call[p]
  BY DEF Alone
<1>4. op' \in [Proc -> BOOLEAN] /\ why' \in [Proc -> Endings] /\ op'[p] = (to # "done") /\ (to = "done" => why'[p] = reason)
  <2>1. op \in [Proc -> BOOLEAN] /\ why \in [Proc -> Endings] /\ reason \in Endings
    OBVIOUS
  <2>2. CASE to = "done"
    <3>1. op' = [op EXCEPT ![p] = FALSE] /\ why' = [why EXCEPT ![p] = reason]
      BY <2>2
    <3>2. op' \in [Proc -> BOOLEAN] /\ op'[p] = FALSE
      BY <2>1, <3>1
    <3>3. why' \in [Proc -> Endings] /\ why'[p] = reason
      BY <2>1, <3>1
    <3> QED BY <2>2, <3>2, <3>3
  <2>3. CASE to = "namei"
    <3>1. op' = op /\ why' = why
      BY <2>3
    <3> QED BY <2>1, <2>3, <3>1, <1>1
  <2> QED BY <2>2, <2>3
<1>5. TypeOK'
  <2>1. ref' \in [Inode -> Int] /\ lock' \in [Inode -> Proc \cup {Nobody}]
    BY <1>1, <1>2
  <2>2. pc' \in [Proc -> Labels]
    BY DEF Labels
  <2> QED BY <2>1, <2>2, <1>4
<1>6. ~Holds(p)' /\ ~HasLock(p)' /\ Inside(p)' = (to # "done")
  BY <1>3, <1>4 DEF Holds, HasLock, Inside
<1>7. Counted'
  BY <1>6, <1>1, <1>2, <1>3, CountLose
<1>8. Locked'
  BY <1>6, <1>1, <1>2, <1>3, LockBack
<1>9. op'[p] = Inside(p)' /\ (pc'[p] = "namei" => kind[ip'[p]] = "link")
  BY <1>3, <1>4, <1>6
<1> QED BY <1>1, <1>3, <1>5, <1>7, <1>8, <1>9, KeptAlone

\* Every way to refuse or to follow a link, and readlink, let go.
LEMMA LetGoKeeps ==
  ASSUME SymlinkAssumption, CallInv, NEW p \in Proc, Refuse(p) \/ Follow(p) \/ RefuseDir(p) \/ Readlink(p)
  PROVE  CallInv'
<1>1. ASSUME NEW from \in {"open", "readlink"}, NEW reason \in Endings \ {"opened"}, Fail(p, from, reason)
      PROVE  CallInv'
  BY <1>1, LetGo DEF Fail, Return, Goto, disk
<1>2. CASE Refuse(p)
  <2>1. PICK reason \in Reasons : Fail(p, "open", reason)
    BY <1>2 DEF Refuse
  <2>2. reason \in Endings \ {"opened"}
    BY <2>1 DEF Reasons, Endings
  <2> QED BY <2>1, <2>2, <1>1
<1>3. CASE Follow(p)
  <2>1. /\ pc[p] = "open" /\ kind[ip[p]] = "link" /\ iunlockput(p) /\ pc' = [pc EXCEPT ![p] = "namei"]
        /\ UNCHANGED <<tweak, kind, target, call, ip, op, why>>
    BY <1>3 DEF Follow, Follows, IsLink, Goto, disk
  <2>2. "missing" \in Endings \ {"opened"}
    BY DEF Endings
  <2> QED BY <2>1, <2>2, LetGo
<1>4. CASE RefuseDir(p)
  <2>1. "dir" \in Endings \ {"opened"}
    BY DEF Endings
  <2> QED BY <2>1, <1>1, <1>4 DEF RefuseDir
<1>5. CASE Readlink(p)
  <2>1. {"read", "not a link"} \subseteq Endings \ {"opened"}
    BY DEF Endings
  <2> QED BY <2>1, <1>1, <1>5 DEF Readlink
<1> QED BY <1>2, <1>3, <1>4, <1>5

\* A call that holds nothing returns, and leaves the inodes alone.
LEMMA ReturnKeeps ==
  ASSUME SymlinkAssumption, CallInv, NEW p \in Proc, ~Holds(p), pc[p] # "writei",
         NEW from \in Labels, NEW reason \in Endings \ {"opened"}, Return(p, from, reason),
         UNCHANGED <<tweak, kind, target, lock, ref, call, ip>>
  PROVE  CallInv'
<1> USE DEF CallInv, CleanReturns, TypeOK
<1>1. pc' = [pc EXCEPT ![p] = "done"] /\ op' = [op EXCEPT ![p] = FALSE] /\ why' = [why EXCEPT ![p] = reason]
  BY DEF Return, Goto
<1>2. pc'[p] = "done" /\ why'[p] = reason /\ op'[p] = FALSE /\ Alone(p)
  BY <1>1 DEF Alone
<1>3. ~Holds(p)' /\ ~HasLock(p) /\ ~HasLock(p)' /\ op'[p] = Inside(p)' /\ ~Opening(p)' /\ pc'[p] # "namei"
  BY <1>2 DEF Holds, HasLock, Inside, Opening
<1>4. Counted' /\ Locked'
  BY <1>2, <1>3, CountSame, LockSame
<1>5. TypeOK'
  BY <1>1 DEF Labels
<1> QED BY <1>2, <1>3, <1>4, <1>5, KeptAlone

\* The next name: that of the target, or whichever path[] holds.
LEMMA NextNameKeeps ==
  ASSUME SymlinkAssumption, CallInv, NEW p \in Proc, NextName(p)
  PROVE  CallInv'
<1> USE DEF CallInv, CleanReturns, TypeOK
<1>1. pc[p] = "namei" /\ UNCHANGED <<tweak, kind, target, lock, call>>
  BY DEF NextName, disk
<1>2. op[p] = TRUE /\ ~Holds(p) /\ ~HasLock(p) /\ call[p] \in {"open", "readlink"} /\ Names(p) \subseteq Inode
  BY <1>1 DEF Inside, Holds, HasLock, Opening, Names
<1>3. CASE Return(p, "namei", IF tweak = 9 THEN "dangling" ELSE "missing") /\ UNCHANGED <<ip, ref>>
  <2> DEFINE reason == IF tweak = 9 THEN "dangling" ELSE "missing"
  <2>1. reason \in Endings \ {"opened"} /\ "namei" \in Labels
    BY DEF Endings, Labels
  <2>2. Return(p, "namei", reason) /\ UNCHANGED <<ip, ref>>
    BY <1>3
  <2> HIDE DEF reason
  <2> QED BY <2>1, <2>2, <1>1, <1>2, ReturnKeeps
<1>4. ASSUME NEW next \in Inode, kind[next] # Free, pc' = [pc EXCEPT ![p] = "ilock"], Get(p, next), UNCHANGED <<op, why>>
      PROVE  CallInv'
  <2>1. Alone(p)
    BY <1>1, <1>4 DEF Alone, Get
  <2>2. pc'[p] = "ilock" /\ Holds(p)' /\ ~HasLock(p)' /\ ip'[p] = next /\ op'[p] = TRUE /\ Inside(p)'
    BY <1>2, <1>4 DEF Holds, HasLock, Get, Inside
  <2>3. Counted' /\ Locked'
    BY <2>1, <2>2, <1>1, <1>2, <1>4, CountGain, LockSame DEF Get
  <2>4. TypeOK'
    BY <1>1, <1>2, <1>4 DEF Get, Labels
  <2> QED BY <2>1, <2>2, <2>3, <2>4, <1>1, <1>2, <1>4, KeptAlone
<1> QED BY <1>2, <1>3, <1>4 DEF NextName, Goto

\* The open succeeds: the file keeps the reference.
LEMMA OpenedKeeps ==
  ASSUME SymlinkAssumption, CallInv, NEW p \in Proc, Opened(p)
  PROVE  CallInv'
<1> USE DEF CallInv, CleanReturns, TypeOK
<1>1. /\ pc[p] = "open" /\ pc' = [pc EXCEPT ![p] = "done"] /\ op' = [op EXCEPT ![p] = FALSE]
      /\ why' = [why EXCEPT ![p] = "opened"] /\ lock' = [lock EXCEPT ![ip[p]] = Nobody]
      /\ UNCHANGED <<tweak, kind, target, ref, call, ip>>
  BY DEF Opened, EndOfLoop, Return, Goto, disk
<1>2. Alone(p) /\ pc'[p] = "done" /\ op'[p] = FALSE /\ why'[p] = "opened"
  BY <1>1 DEF Alone
<1>3. HasLock(p) /\ ~HasLock(p)' /\ Holds(p) /\ Holds(p)' /\ ~Opening(p)' /\ op'[p] = Inside(p)'
  BY <1>1, <1>2 DEF Holds, HasLock, Opening, Inside
<1>4. Counted' /\ Locked'
  BY <1>1, <1>2, <1>3, CountSame, LockBack
<1>5. TypeOK'
  <2>1. "opened" \in Endings /\ ip[p] \in Inode
    BY DEF Endings
  <2> QED BY <2>1, <1>1 DEF Labels
<1> QED BY <1>1, <1>2, <1>3, <1>4, <1>5, KeptAlone

\* sys_symlink begins a transaction.
LEMMA StartSymlinkKeeps ==
  ASSUME SymlinkAssumption, CallInv, NEW p \in Proc, StartSymlink(p)
  PROVE  CallInv'
<1> USE DEF CallInv, CleanReturns, TypeOK
<1>1. /\ pc[p] = "idle" /\ pc' = [pc EXCEPT ![p] = "create"] /\ call' = [call EXCEPT ![p] = "symlink"]
      /\ op' = [op EXCEPT ![p] = TRUE] /\ UNCHANGED <<tweak, kind, target, lock, ref, ip, why>>
  BY DEF StartSymlink, Goto, disk
<1>2. Alone(p) /\ pc'[p] = "create" /\ op'[p] = TRUE
  BY <1>1 DEF Alone
<1>3. ~HasLock(p) /\ ~HasLock(p)' /\ ~Holds(p) /\ ~Holds(p)' /\ ~Opening(p)' /\ op'[p] = Inside(p)'
  BY <1>1, <1>2 DEF Holds, HasLock, Opening, Inside
<1>4. Counted' /\ Locked'
  BY <1>1, <1>2, <1>3, CountSame, LockSame
<1>5. TypeOK'
  BY <1>1 DEF Labels
<1> QED BY <1>1, <1>2, <1>3, <1>4, <1>5, KeptAlone

\* create refuses, or takes a free inode, and locks it.
LEMMA CreateKeeps ==
  ASSUME SymlinkAssumption, CallInv, NEW p \in Proc, Create(p)
  PROVE  CallInv'
<1> USE DEF CallInv, CleanReturns, TypeOK
<1>1. pc[p] = "create" /\ UNCHANGED <<tweak, call>>
  BY DEF Create, Return, Goto
<1>2. op[p] = TRUE /\ ~Holds(p) /\ ~HasLock(p)
  BY <1>1 DEF Inside, Holds, HasLock
<1>3. CASE Return(p, "create", "refused") /\ UNCHANGED <<disk, lock, ref, ip>>
  <2>1. "refused" \in Endings \ {"opened"} /\ "create" \in Labels
    BY DEF Endings, Labels
  <2> QED BY <2>1, <1>1, <1>2, <1>3, ReturnKeeps DEF disk
<1>4. ASSUME NEW i \in Inode, NEW j \in Inode, kind[i] = Free, pc' = [pc EXCEPT ![p] = "writei"], Get(p, i),
             lock' = [lock EXCEPT ![i] = p], kind' = [kind EXCEPT ![i] = "fresh"], target' = [target EXCEPT ![i] = j],
             UNCHANGED <<op, why>>
      PROVE  CallInv'
  <2>1. Alone(p)
    BY <1>1, <1>4 DEF Alone, Get
  <2>2. /\ pc'[p] = "writei" /\ Holds(p)' /\ HasLock(p)' /\ ip'[p] = i /\ op'[p] = TRUE
        /\ Inside(p)' /\ ~Opening(p)'
    BY <1>2, <1>4 DEF Holds, HasLock, Get, Inside, Opening
  <2>3. lock[i] = Nobody
    <3>1. lock[i] \in Proc \cup {Nobody}
      OBVIOUS
    <3>2. ASSUME NEW q \in Proc, lock[i] = q
          PROVE  FALSE
      <4>1. HasLock(q) /\ ip[q] = i
        BY <3>2
      <4> QED BY <4>1, <1>4 DEF Holds
    <3> QED BY <3>1, <3>2
  <2>4. Counted' /\ Locked'
    BY <2>1, <2>2, <2>3, <1>1, <1>2, <1>4, CountGain, LockTaken DEF Get
  <2>5. TypeOK'
    BY <1>1, <1>2, <1>4 DEF Get, Labels
  <2>6. ASSUME NEW k \in Inode
        PROVE  (kind'[k] = "fresh") = \E q \in Proc : pc'[q] = "writei" /\ ip'[q] = k
    <3>1. CASE k = i
      BY <2>2, <3>1, <1>4
    <3>2. CASE k # i
      <4>1. \A q \in Proc : (pc'[q] = "writei" /\ ip'[q] = k) = (pc[q] = "writei" /\ ip[q] = k)
        BY <2>1, <2>2, <3>2, <1>1 DEF Alone
      <4>2. (kind[k] = "fresh") = \E q \in Proc : pc[q] = "writei" /\ ip[q] = k
        OBVIOUS
      <4> QED BY <4>1, <4>2, <3>2, <1>4
    <3> QED BY <3>1, <3>2
  <2>7. \A k \in Inode : (kind[k] = "link" => kind'[k] = "link") /\ (kind[k] # Free => kind'[k] # Free)
    BY <1>4 DEF Free
  <2>8. kind'[ip'[p]] # Free
    BY <2>2, <1>4 DEF Free
  <2> QED BY <2>1, <2>2, <2>4, <2>5, <2>6, <2>7, <2>8, Kept
<1> QED BY <1>3, <1>4 DEF Create, Goto, Named

\* The target is written, or it is not: the inode is a link, and nobody's lock is its own.
LEMMA WriteiKeeps ==
  ASSUME SymlinkAssumption, CallInv, NEW p \in Proc, Writei(p)
  PROVE  CallInv'
<1> USE DEF CallInv, CleanReturns, TypeOK
<1>1. PICK reason \in {"created", "refused"} :
        /\ pc[p] = "writei" /\ pc' = [pc EXCEPT ![p] = "done"] /\ op' = [op EXCEPT ![p] = FALSE]
        /\ why' = [why EXCEPT ![p] = reason] /\ kind' = [kind EXCEPT ![ip[p]] = "link"]
        /\ lock' = [lock EXCEPT ![ip[p]] = Nobody] /\ ref' = [ref EXCEPT ![ip[p]] = @ - 1]
        /\ target' \in {target, [target EXCEPT ![ip[p]] = 0]} /\ UNCHANGED <<tweak, call, ip>>
  BY DEF Writei, Return, Goto, iunlockput
<1>2. Alone(p) /\ pc'[p] = "done" /\ why'[p] = reason /\ op'[p] = FALSE /\ ip'[p] = ip[p]
  BY <1>1 DEF Alone
<1>3. HasLock(p) /\ Holds(p) /\ ~HasLock(p)' /\ ~Holds(p)' /\ ~Opening(p)' /\ op'[p] = Inside(p)'
  BY <1>1, <1>2 DEF Holds, HasLock, Opening, Inside
<1>4. Counted' /\ Locked'
  BY <1>1, <1>2, <1>3, CountLose, LockBack
<1>5. TypeOK'
  <2>1. ip[p] \in Inode /\ 0 \in Inode
    BY DEF SymlinkAssumption
  <2>2. target' \in [Inode -> Inode] /\ kind' \in [Inode -> {"file", "dir", "fresh", "link", Free}]
    BY <2>1, <1>1
  <2>3. reason \in Endings
    BY DEF Endings
  <2> QED BY <2>1, <2>2, <2>3, <1>1 DEF Labels
<1>6. ASSUME NEW k \in Inode
      PROVE  (kind'[k] = "fresh") = \E q \in Proc : pc'[q] = "writei" /\ ip'[q] = k
  <2>1. (kind[k] = "fresh") = \E q \in Proc : pc[q] = "writei" /\ ip[q] = k
    OBVIOUS
  <2>2. CASE k = ip[p]
    <3>1. kind'[k] = "link"
      BY <1>1, <2>2
    <3>2. ASSUME NEW q \in Proc, pc'[q] = "writei", ip'[q] = k
          PROVE  FALSE
      <4>1. q # p /\ pc[q] = "writei" /\ ip[q] = k
        BY <1>2, <3>2 DEF Alone
      <4>2. lock[k] = q /\ lock[k] = p
        BY <4>1, <1>3, <2>2 DEF HasLock
      <4> QED BY <4>1, <4>2
    <3> QED BY <3>1, <3>2
  <2>3. CASE k # ip[p]
    <3>1. \A q \in Proc : (pc'[q] = "writei" /\ ip'[q] = k) = (pc[q] = "writei" /\ ip[q] = k)
      BY <1>2, <2>3 DEF Alone
    <3>2. kind'[k] = kind[k]
      BY <1>1, <2>3
    <3> QED BY <2>1, <3>1, <3>2
  <2> QED BY <2>2, <2>3
<1>7. \A k \in Inode : (kind[k] = "link" => kind'[k] = "link") /\ (kind[k] # Free => kind'[k] # Free)
  BY <1>1 DEF Free
<1> QED BY <1>2, <1>3, <1>4, <1>5, <1>6, <1>7, Kept

\* Every step keeps the invariant.
LEMMA StepInv ==
  ASSUME SymlinkAssumption, CallInv, [LinkNext]_linkVars
  PROVE  CallInv'
<1>1. CASE UNCHANGED linkVars
  <2>1. TypeOK' /\ Counted' /\ Locked' /\ \A p \in Proc : op'[p] = Inside(p)'
    BY <1>1 DEF CallInv, CleanReturns, TypeOK, Counted, Locked, Holders, Holds, HasLock, Inside, linkVars, disk
  <2>2. \A i \in Inode : (kind'[i] = "fresh") = \E p \in Proc : pc'[p] = "writei" /\ ip'[p] = i
    BY <1>1 DEF CallInv, linkVars, disk
  <2>3. \A p \in Proc : /\ Holds(p)' => kind'[ip'[p]] # Free
                        /\ Opening(p)' => call'[p] \in {"open", "readlink"}
                        /\ pc'[p] = "namei" => kind'[ip'[p]] = "link"
    BY <1>1 DEF CallInv, Holds, HasLock, Opening, linkVars, disk
  <2> QED BY <2>1, <2>2, <2>3 DEF CallInv, CleanReturns, Counted, Locked, Holders
<1>2. CASE NoCall
  BY <1>1, <1>2 DEF NoCall
<1>3. ASSUME NEW p \in Creator, StartSymlink(p)
      PROVE  CallInv'
  BY <1>3, StartSymlinkKeeps DEF SymlinkAssumption
<1>4. ASSUME NEW p \in Proc, Start(p) \/ Syscall(p)
      PROVE  CallInv'
  BY <1>4, StartKeeps, IlockKeeps, LetGoKeeps, NextNameKeeps, OpenedKeeps, CreateKeeps, WriteiKeeps
     DEF Syscall, sys_open, sys_symlink
<1> QED BY <1>1, <1>2, <1>3, <1>4 DEF LinkNext

\* Every call of sys_open, sys_readlink and sys_symlink, whichever tweak and whatever the links:
\* its lock, its references and its transaction are given back, on every path, exactly once.
THEOREM AlwaysClean == ASSUME SymlinkAssumption PROVE Spec => []CleanReturns
<1>1. Init => CallInv
  BY InitInv
<1>2. CallInv /\ [LinkNext]_linkVars => CallInv'
  BY StepInv
<1>3. CallInv => CleanReturns
  BY DEF CallInv
<1> QED BY <1>1, <1>2, <1>3, PTL DEF Spec
-----------------------------------------------------------------------------
(* What the caller is told. *)

\* A set of natural numbers has a least one, and so one can count from 0 to N.
LessPairs == {ss \in Nat \X Nat : ss[1] < ss[2]}

\* Every set of numbers has a least one.
LEMMA Least ==
  ASSUME NEW T, T \subseteq Nat, T # {}
  PROVE  \E n \in T : \A m \in T : n <= m
<1>1. OpToRel(<, Nat) = LessPairs
  BY DEF OpToRel, LessPairs
<1>2. IsWellFoundedOn(LessPairs, Nat)
  BY NatLessThanWellFounded, <1>1
<1>3. PICK x \in T : \A y \in T : <<y, x>> \notin LessPairs
  BY <1>2, WFMin
<1>4. ASSUME NEW m \in T
      PROVE  m \in Nat /\ x \in Nat /\ ~(m < x)
  <2>1. <<m, x>> \in Nat \X Nat
    OBVIOUS
  <2> QED BY <1>3, <2>1 DEF LessPairs
<1> QED BY <1>4

\* Counting up from 0, one after the other, reaches N.
LEMMA CountTo ==
  ASSUME NEW N \in Nat, NEW S, 0 \in S, \A n \in 0 .. N - 1 : n \in S => n + 1 \in S
  PROVE  0 .. N \subseteq S
<1> DEFINE T == (0 .. N) \ S
<1> SUFFICES ASSUME T # {}
             PROVE  FALSE
  OBVIOUS
<1>0. T \subseteq Nat
  OBVIOUS
<1>1. PICK n \in T : \A m \in T : n <= m
  <2> HIDE DEF T
  <2> QED BY <1>0, Least
<1>2. n # 0 /\ n - 1 \in 0 .. N - 1 /\ (n - 1) + 1 = n
  BY <1>1
<1>3. n - 1 \in S
  BY <1>1, <1>2
<1> QED BY <1>2, <1>3

\* g holds the sums of the first k members of f, for k up to n.
Sums(g, f, n) == g = [k \in 0 .. n |-> IF k = 0 THEN 0 ELSE g[k - 1] + f[k]]

\* There are such sums, and each is a natural number.
LEMMA SumsExist ==
  ASSUME NEW n \in Nat, NEW f, \A k \in 1 .. n : f[k] \in Nat
  PROVE  \E g \in [0 .. n -> Nat] : Sums(g, f, n)
<1> DEFINE Upto(m, g) == /\ g \in [0 .. m -> Nat] /\ g[0] = 0
                         /\ \A k \in 1 .. m : g[k] = g[k - 1] + f[k]
           S == {m \in Nat : \E g : Upto(m, g)}
<1>1. 0 \in S
  <2>1. Upto(0, [k \in 0 .. 0 |-> 0])
    OBVIOUS
  <2> QED BY <2>1
<1>2. ASSUME NEW m \in 0 .. n - 1, m \in S
      PROVE  m + 1 \in S
  <2>1. PICK g : Upto(m, g)
    BY <1>2
  <2>2. m + 1 \in 1 .. n /\ f[m + 1] \in Nat
    OBVIOUS
  <2> DEFINE h == [k \in 0 .. m + 1 |-> IF k = m + 1 THEN g[m] + f[m + 1] ELSE g[k]]
  <2>3. h \in [0 .. m + 1 -> Nat] /\ h[0] = 0
    BY <2>1, <2>2
  <2>4. ASSUME NEW k \in 1 .. m + 1
        PROVE  h[k] = h[k - 1] + f[k]
    <3>1. CASE k = m + 1
      BY <3>1
    <3>2. CASE k # m + 1
      BY <2>1, <3>2
    <3> QED BY <3>1, <3>2
  <2>5. Upto(m + 1, h)
    BY <2>3, <2>4
  <2> HIDE DEF h, Upto
  <2> QED BY <2>5
<1>3. n \in S
  <2> HIDE DEF S
  <2>1. \A m \in 0 .. n - 1 : m \in S => m + 1 \in S
    BY <1>2
  <2>2. 0 .. n \subseteq S
    BY <1>1, <2>1, CountTo
  <2> QED BY <2>2
<1>4. PICK g : Upto(n, g)
  BY <1>3
<1>5. \A k \in 0 .. n : g[k] = IF k = 0 THEN 0 ELSE g[k - 1] + f[k]
  BY <1>4
<1>6. g = [k \in 0 .. n |-> g[k]]
  BY <1>4
<1>7. Sums(g, f, n)
  BY <1>5, <1>6 DEF Sums
<1> QED BY <1>4, <1>7

\* They do not depend on how far one goes.
LEMMA SumsAgree ==
  ASSUME NEW n \in Nat, NEW m \in 0 .. n, NEW f, NEW g, Sums(g, f, m), NEW h, Sums(h, f, n)
  PROVE  \A k \in 0 .. m : g[k] = h[k]
<1> DEFINE S == {k \in 0 .. m : g[k] = h[k]}
<1>1. \A k \in 0 .. m : g[k] = IF k = 0 THEN 0 ELSE g[k - 1] + f[k]
  BY DEF Sums
<1>2. \A k \in 0 .. n : h[k] = IF k = 0 THEN 0 ELSE h[k - 1] + f[k]
  BY DEF Sums
<1>3. 0 \in S
  BY <1>1, <1>2
<1>4. ASSUME NEW k \in 0 .. m - 1, k \in S
      PROVE  k + 1 \in S
  <2>1. k + 1 \in 0 .. m /\ k + 1 \in 0 .. n /\ k + 1 # 0 /\ (k + 1) - 1 = k
    OBVIOUS
  <2>2. g[k + 1] = g[k] + f[k + 1] /\ h[k + 1] = h[k] + f[k + 1]
    BY <1>1, <1>2, <2>1
  <2> QED BY <1>4, <2>1, <2>2
<1>5. 0 .. m \subseteq S
  <2> HIDE DEF S
  <2> QED BY <1>3, <1>4, CountTo
<1> QED BY <1>5

\* What SumTo computes.
LEMMA SumIs ==
  ASSUME NEW n \in Nat, NEW f, \A k \in 1 .. n : f[k] \in Nat
  PROVE  \E g \in [0 .. n -> Nat] : Sums(g, f, n) /\ \A m \in 0 .. n : SumTo(f, m) = g[m]
<1>1. PICK g \in [0 .. n -> Nat] : Sums(g, f, n)
  BY SumsExist
<1>2. ASSUME NEW m \in 0 .. n
      PROVE  SumTo(f, m) = g[m]
  <2>1. \E h : Sums(h, f, m)
    <3>1. m \in Nat /\ \A k \in 1 .. m : f[k] \in Nat
      OBVIOUS
    <3> QED BY <3>1, SumsExist
  <2> DEFINE h == CHOOSE h : Sums(h, f, m)
  <2>2. SumTo(f, m) = h[m]
    BY DEF SumTo, Sums
  <2>3. Sums(h, f, m)
    BY <2>1
  <2> HIDE DEF h
  <2> QED BY <1>1, <2>2, <2>3, SumsAgree
<1> QED BY <1>1, <1>2

\* SumTo adds one number after the other.
LEMMA SumFacts ==
  ASSUME NEW n \in Nat, NEW f, \A k \in 1 .. n : f[k] \in Nat
  PROVE  /\ SumTo(f, 0) = 0 /\ \A m \in 0 .. n : SumTo(f, m) \in Nat
         /\ \A m \in 0 .. n - 1 : SumTo(f, m + 1) = SumTo(f, m) + f[m + 1]
<1>1. PICK g \in [0 .. n -> Nat] : Sums(g, f, n) /\ \A m \in 0 .. n : SumTo(f, m) = g[m]
  BY SumIs
<1>2. \A k \in 0 .. n : g[k] = IF k = 0 THEN 0 ELSE g[k - 1] + f[k]
  BY <1>1 DEF Sums
<1>3. ASSUME NEW m \in 0 .. n - 1
      PROVE  g[m + 1] = g[m] + f[m + 1] /\ m \in 0 .. n /\ m + 1 \in 0 .. n
  BY <1>2
<1> QED BY <1>1, <1>2, <1>3

\* Longer sums are not smaller, and equal members have equal sums.
LEMMA SumGrows ==
  ASSUME NEW n \in Nat, NEW m \in 0 .. n, NEW f, \A k \in 1 .. n : f[k] \in Nat
  PROVE  SumTo(f, m) <= SumTo(f, n)
<1> DEFINE S == {k \in 0 .. n - m : SumTo(f, m) <= SumTo(f, m + k)}
<1>1. 0 \in S /\ n - m \in Nat
  BY SumFacts
<1>2. ASSUME NEW k \in 0 .. (n - m) - 1, k \in S
      PROVE  k + 1 \in S
  <2>1. m + k \in 0 .. n - 1 /\ m + (k + 1) = (m + k) + 1 /\ k + 1 \in 0 .. n - m
        /\ m + k \in 0 .. n /\ (m + k) + 1 \in 1 .. n
    OBVIOUS
  <2>2. SumTo(f, (m + k) + 1) = SumTo(f, m + k) + f[(m + k) + 1] /\ SumTo(f, m + k) \in Nat /\ SumTo(f, m) \in Nat
    BY <2>1, SumFacts
  <2>3. f[(m + k) + 1] \in Nat
    BY <2>1
  <2>4. SumTo(f, m) <= SumTo(f, m + k)
    BY <1>2
  <2>5. SumTo(f, m) <= SumTo(f, m + (k + 1))
    <3> HIDE DEF S
    <3> QED BY <2>1, <2>2, <2>3, <2>4
  <2> QED BY <2>1, <2>5
<1>3. 0 .. n - m \subseteq S
  <2> HIDE DEF S
  <2> QED BY <1>1, <1>2, CountTo
<1>4. n - m \in S
  BY <1>1, <1>3
<1> QED BY <1>4

\* Equal numbers have equal sums.
LEMMA SumSame ==
  ASSUME NEW n \in Nat, NEW f, NEW h, \A k \in 1 .. n : f[k] = h[k]
  PROVE  SumTo(f, n) = SumTo(h, n)
<1>1. ASSUME NEW g
      PROVE  Sums(g, f, n) <=> Sums(g, h, n)
  <2>1. [k \in 0 .. n |-> IF k = 0 THEN 0 ELSE g[k - 1] + f[k]]
          = [k \in 0 .. n |-> IF k = 0 THEN 0 ELSE g[k - 1] + h[k]]
    OBVIOUS
  <2> QED BY <2>1 DEF Sums
<1>2. (CHOOSE g : Sums(g, f, n)) = (CHOOSE g : Sums(g, h, n))
  BY <1>1
<1>3. SumTo(f, n) = (CHOOSE g : Sums(g, f, n))[n] /\ SumTo(h, n) = (CHOOSE g : Sums(g, h, n))[n]
  BY DEF SumTo, Sums
<1> QED BY <1>2, <1>3
-----------------------------------------------------------------------------
\* Walk(i) follows the links from i, and stays where there is none.
Linked     == \A i \in Inode : kind[i] = "link" => target[i] \in Inode
After(j)   == IF kind[j] = "link" THEN target[j] ELSE j
Walks(g, i, n) ==
  g = [k \in 0 .. n |-> IF k = 0 THEN i ELSE IF kind[g[k - 1]] = "link" THEN target[g[k - 1]] ELSE g[k - 1]]

\* A walk along the links can be as long as one wants: a file leads to itself.
LEMMA WalkExists ==
  ASSUME Linked, NEW n \in Nat, NEW i \in Inode
  PROVE  \E g \in [0 .. n -> Inode] : Walks(g, i, n)
<1> DEFINE Upto(m, g) == /\ g \in [0 .. m -> Inode] /\ g[0] = i
                         /\ \A k \in 1 .. m : g[k] = After(g[k - 1])
           S == {m \in Nat : \E g : Upto(m, g)}
<1>1. 0 \in S
  <2>1. Upto(0, [k \in 0 .. 0 |-> i])
    OBVIOUS
  <2> QED BY <2>1
<1>2. ASSUME NEW m \in 0 .. n - 1, m \in S
      PROVE  m + 1 \in S
  <2>1. PICK g : Upto(m, g)
    BY <1>2
  <2>2. After(g[m]) \in Inode
    <3>1. g[m] \in Inode
      BY <2>1
    <3> QED BY <3>1 DEF After, Linked
  <2> DEFINE h == [k \in 0 .. m + 1 |-> IF k = m + 1 THEN After(g[m]) ELSE g[k]]
  <2>3. h \in [0 .. m + 1 -> Inode] /\ h[0] = i
    BY <2>1, <2>2
  <2>4. ASSUME NEW k \in 1 .. m + 1
        PROVE  h[k] = After(h[k - 1])
    <3>1. CASE k = m + 1
      BY <3>1
    <3>2. CASE k # m + 1
      BY <2>1, <3>2
    <3> QED BY <3>1, <3>2
  <2>5. Upto(m + 1, h)
    BY <2>3, <2>4
  <2> HIDE DEF h, Upto
  <2> QED BY <2>5
<1>3. n \in S
  <2> HIDE DEF S
  <2>1. \A m \in 0 .. n - 1 : m \in S => m + 1 \in S
    BY <1>2
  <2>2. 0 .. n \subseteq S
    BY <1>1, <2>1, CountTo
  <2> QED BY <2>2
<1>4. PICK g : Upto(n, g)
  BY <1>3
<1>5. \A k \in 0 .. n : g[k] = IF k = 0 THEN i ELSE IF kind[g[k - 1]] = "link" THEN target[g[k - 1]] ELSE g[k - 1]
  BY <1>4 DEF After
<1>6. g = [k \in 0 .. n |-> g[k]]
  BY <1>4
<1>7. Walks(g, i, n)
  BY <1>5, <1>6 DEF Walks
<1> QED BY <1>4, <1>7

\* Walk(i) starts at i, and each step follows the link, if it is one.
LEMMA WalkFacts ==
  ASSUME SymlinkAssumption, Linked, NEW i \in Inode
  PROVE  /\ MaxLinks \in Nat \ {0} /\ Walk(i) \in [0 .. MaxLinks + 1 -> Inode] /\ Walk(i)[0] = i
         /\ \A n \in 1 .. MaxLinks + 1 : Walk(i)[n] = After(Walk(i)[n - 1])
<1>1. MaxLinks \in Nat \ {0}
  <2>1. IsFiniteSet(Inode) /\ Inode # {}
    BY DEF SymlinkAssumption
  <2> QED BY <2>1, FS_CardinalityType, FS_EmptySet DEF MaxLinks
<1>2. \E g : Walks(g, i, MaxLinks + 1)
  BY <1>1, WalkExists
<1> DEFINE g == CHOOSE g : Walks(g, i, MaxLinks + 1)
<1>3. Walk(i) = g
  BY DEF Walk, Walks
<1>4. Walks(g, i, MaxLinks + 1)
  BY <1>2
<1> HIDE DEF g
<1>5. \A n \in 0 .. MaxLinks + 1 : g[n] = IF n = 0 THEN i ELSE After(g[n - 1])
  BY <1>4 DEF Walks, After
<1>6. g = [n \in 0 .. MaxLinks + 1 |-> g[n]]
  BY <1>4 DEF Walks
<1>7. ASSUME NEW n \in 0 .. MaxLinks + 1
      PROVE  g[n] \in Inode
  <2> DEFINE S == {m \in 0 .. MaxLinks + 1 : g[m] \in Inode}
  <2>1. 0 \in S /\ MaxLinks + 1 \in Nat
    BY <1>1, <1>5
  <2>2. ASSUME NEW m \in 0 .. (MaxLinks + 1) - 1, m \in S
        PROVE  m + 1 \in S
    <3>1. m + 1 \in 0 .. MaxLinks + 1 /\ (m + 1) - 1 = m /\ m + 1 # 0
      BY <1>1
    <3>2. g[m + 1] = After(g[m]) /\ g[m] \in Inode
      BY <1>5, <2>2, <3>1
    <3>3. After(g[m]) \in Inode
      BY <3>2 DEF After, Linked
    <3> QED BY <3>1, <3>2, <3>3
  <2>3. 0 .. MaxLinks + 1 \subseteq S
    <3> HIDE DEF S
    <3> QED BY <2>1, <2>2, CountTo
  <2> QED BY <2>3
<1>8. g \in [0 .. MaxLinks + 1 -> Inode]
  BY <1>6, <1>7
<1>9. 0 \in 0 .. MaxLinks + 1 /\ \A n \in 1 .. MaxLinks + 1 : n \in 0 .. MaxLinks + 1 /\ n # 0
  BY <1>1
<1> QED BY <1>1, <1>3, <1>5, <1>8, <1>9

\* A way of n links that has led from i to j.
IsWay(kd, tg, w, n, i, j) ==
  /\ n \in Nat /\ w \in [0 .. n -> Inode] /\ w[0] = i /\ w[n] = j
  /\ \A k \in 0 .. n - 1 : kd[w[k]] = "link" /\ w[k + 1] = tg[w[k]]
Trail(w, n, i, j) == IsWay(kind, target, w, n, i, j)
Distinct(w, n) == \A k, l \in 0 .. n - 1 : w[k] = w[l] => k = l

\* Each way from i is the beginning of Walk(i).
LEMMA WaysWalk ==
  ASSUME SymlinkAssumption, Linked, NEW i \in Inode, NEW n, NEW w, NEW j, Trail(w, n, i, j)
  PROVE  \A k \in 0 .. n : k <= MaxLinks + 1 => Walk(i)[k] = w[k]
<1> DEFINE S == {k \in 0 .. n : k <= MaxLinks + 1 => Walk(i)[k] = w[k]}
<1>1. n \in Nat /\ 0 \in S
  BY WalkFacts DEF Trail, IsWay
<1>2. ASSUME NEW k \in 0 .. n - 1, k \in S
      PROVE  k + 1 \in S
  <2>1. k + 1 \in 0 .. n /\ MaxLinks \in Nat
    BY <1>1, WalkFacts
  <2> SUFFICES ASSUME k + 1 <= MaxLinks + 1
               PROVE  Walk(i)[k + 1] = w[k + 1]
    BY <2>1
  <2>2. k <= MaxLinks + 1 /\ k + 1 \in 1 .. MaxLinks + 1 /\ (k + 1) - 1 = k
    BY <2>1, <1>1
  <2>3. Walk(i)[k + 1] = After(Walk(i)[k])
    BY <2>2, WalkFacts
  <2>4. Walk(i)[k] = w[k]
    BY <1>2, <2>2
  <2> QED BY <2>3, <2>4 DEF Trail, IsWay, After
<1>3. 0 .. n \subseteq S
  <2> HIDE DEF S
  <2> QED BY <1>1, <1>2, CountTo
<1> QED BY <1>3

LinkSteps(i) == {n \in 0 .. MaxLinks : kind[Walk(i)[n]] = "link"}

\* Links(i) counts the links on the walk from i, up to one more than there are.
LEMMA LinksFacts ==
  ASSUME SymlinkAssumption, Linked, NEW i \in Inode
  PROVE  /\ Links(i) = Cardinality(LinkSteps(i)) /\ IsFiniteSet(LinkSteps(i)) /\ Links(i) \in Nat /\ Links(i) <= MaxLinks + 1
         /\ \A m \in Nat : 0 .. m - 1 \subseteq LinkSteps(i) => m <= Links(i)
<1>1. MaxLinks \in Nat
  BY WalkFacts
<1>2. IsFiniteSet(0 .. MaxLinks) /\ Cardinality(0 .. MaxLinks) = MaxLinks + 1
  BY <1>1, FS_Interval
<1>3. LinkSteps(i) \in SUBSET (0 .. MaxLinks) /\ Links(i) = Cardinality(LinkSteps(i))
  BY DEF LinkSteps, Links
<1>4. IsFiniteSet(LinkSteps(i)) /\ Links(i) <= MaxLinks + 1
  BY <1>2, <1>3, FS_Subset
<1>5. ASSUME NEW m \in Nat, 0 .. m - 1 \subseteq LinkSteps(i)
      PROVE  m <= Links(i)
  <2>1. Cardinality(0 .. m - 1) = m
    BY FS_Interval
  <2> QED BY <2>1, <1>3, <1>4, <1>5, FS_Subset
<1> QED BY <1>3, <1>4, <1>5, FS_CardinalityType

\* So many links are on the way, unless there is a cycle.
LEMMA WayCounts ==
  ASSUME SymlinkAssumption, Linked, NEW i \in Inode, NEW n, NEW w, NEW j, Trail(w, n, i, j)
  PROVE  IF n <= MaxLinks + 1 THEN n <= Links(i) ELSE Cyclic(i)
<1>1. MaxLinks \in Nat /\ n \in Nat
  BY WalkFacts DEF Trail, IsWay
<1>2. \A k \in 0 .. n - 1 : k <= MaxLinks => k \in LinkSteps(i)
  <2> SUFFICES ASSUME NEW k \in 0 .. n - 1, k <= MaxLinks
               PROVE  k \in LinkSteps(i)
    OBVIOUS
  <2>1. k \in 0 .. n /\ k <= MaxLinks + 1
    BY <1>1
  <2>2. Walk(i)[k] = w[k]
    BY <2>1, WaysWalk
  <2> QED BY <1>1, <2>2 DEF LinkSteps, Trail, IsWay
<1>3. CASE n <= MaxLinks + 1
  <2>1. 0 .. n - 1 \subseteq LinkSteps(i)
    BY <1>1, <1>2, <1>3
  <2> QED BY <1>1, <1>3, <2>1, LinksFacts
<1>4. CASE ~(n <= MaxLinks + 1)
  <2>1. 0 .. (MaxLinks + 1) - 1 \subseteq LinkSteps(i) /\ MaxLinks + 1 \in Nat
    BY <1>1, <1>2, <1>4
  <2>2. MaxLinks + 1 <= Links(i)
    BY <2>1, LinksFacts
  <2> QED BY <1>1, <1>4, <2>2, LinksFacts DEF Cyclic
<1> QED BY <1>3, <1>4

\* A way without a link twice is no longer than there are inodes.
LEMMA DistinctWays ==
  ASSUME SymlinkAssumption, NEW i \in Inode, NEW n, NEW w, NEW j, Trail(w, n, i, j), Distinct(w, n)
  PROVE  n <= MaxLinks
<1> DEFINE f == [k \in 0 .. n - 1 |-> w[k]]
<1>1. n \in Nat /\ f \in [0 .. n - 1 -> Inode]
  BY DEF Trail, IsWay
<1>2. Cardinality(0 .. n - 1) = n /\ IsFiniteSet(0 .. n - 1)
  BY <1>1, FS_Interval
<1>3. MaxLinks \in Nat /\ IsFiniteSet(Inode)
  BY FS_CardinalityType DEF MaxLinks, SymlinkAssumption
<1>4. \A k, l \in 0 .. n - 1 : f[k] = f[l] => k = l
  BY DEF Distinct
<1> HIDE DEF f
<1> SUFFICES ASSUME MaxLinks < n
             PROVE  FALSE
  BY <1>1, <1>3
<1>5. \E k, l \in 0 .. n - 1 : k # l /\ f[k] = f[l]
  BY <1>1, <1>2, <1>3, FS_PigeonHole DEF MaxLinks
<1> QED BY <1>4, <1>5

\* What leads to something that is no link has no link twice: else it would lead round.
LEMMA EndsAreDistinct ==
  ASSUME NEW i \in Inode, NEW n, NEW w, NEW j, Trail(w, n, i, j), kind[j] # "link"
  PROVE  Distinct(w, n)
<1>1. n \in Nat
  BY DEF Trail, IsWay
<1>2. ASSUME NEW k \in 0 .. n - 1, NEW l \in 0 .. n - 1, k < l, w[k] = w[l]
      PROVE  FALSE
  <2> DEFINE S == {m \in 0 .. n - l : w[k + m] = w[l + m]}
  <2>1. 0 \in S /\ n - l \in Nat
    BY <1>1, <1>2
  <2>2. ASSUME NEW m \in 0 .. (n - l) - 1, m \in S
        PROVE  m + 1 \in S
    <3>1. /\ k + m \in 0 .. n - 1 /\ l + m \in 0 .. n - 1 /\ m + 1 \in 0 .. n - l
          /\ k + (m + 1) = (k + m) + 1 /\ l + (m + 1) = (l + m) + 1
      BY <1>1, <1>2
    <3>2. w[(k + m) + 1] = target[w[k + m]] /\ w[(l + m) + 1] = target[w[l + m]]
      BY <3>1 DEF Trail, IsWay
    <3> QED BY <2>2, <3>1, <3>2
  <2>3. 0 .. n - l \subseteq S
    <3> HIDE DEF S
    <3> QED BY <2>1, <2>2, CountTo
  <2>4. n - l \in S
    BY <2>1, <2>3
  <2>5. w[k + (n - l)] = w[l + (n - l)] /\ l + (n - l) = n /\ k + (n - l) \in 0 .. n - 1
    BY <2>4, <1>1, <1>2
  <2>6. w[k + (n - l)] = j /\ kind[w[k + (n - l)]] = "link"
    BY <2>5 DEF Trail, IsWay
  <2> QED BY <2>6
<1>3. ASSUME NEW k \in 0 .. n - 1, NEW l \in 0 .. n - 1, w[k] = w[l]
      PROVE  k = l
  <2>1. ~(k < l) /\ ~(l < k)
    BY <1>2, <1>3
  <2> QED BY <2>1, <1>1
<1> QED BY <1>3 DEF Distinct

\* So the way to a file is the whole of Walk(i).
LEMMA EndOfWay ==
  ASSUME SymlinkAssumption, Linked, NEW i \in Inode, NEW n, NEW w, NEW j, Trail(w, n, i, j), kind[j] # "link"
  PROVE  n <= MaxLinks /\ Links(i) = n /\ ~Cyclic(i) /\ Walk(i)[n] = j /\ \A k \in 0 .. n : Walk(i)[k] = w[k]
<1>1. n <= MaxLinks /\ n \in Nat /\ MaxLinks \in Nat
  BY EndsAreDistinct, DistinctWays, WalkFacts DEF Trail, IsWay
<1>2. \A k \in 0 .. n : Walk(i)[k] = w[k]
  BY <1>1, WaysWalk
<1>3. Walk(i)[n] = j
  BY <1>1, <1>2 DEF Trail, IsWay
<1>4. ASSUME NEW k \in n .. MaxLinks
      PROVE  Walk(i)[k] = j
  <2> DEFINE S == {m \in 0 .. MaxLinks - n : Walk(i)[n + m] = j}
  <2>1. 0 \in S /\ MaxLinks - n \in Nat
    BY <1>1, <1>3
  <2>2. ASSUME NEW m \in 0 .. (MaxLinks - n) - 1, m \in S
        PROVE  m + 1 \in S
    <3>1. n + (m + 1) \in 1 .. MaxLinks + 1 /\ (n + (m + 1)) - 1 = n + m /\ m + 1 \in 0 .. MaxLinks - n
      BY <1>1
    <3>2. Walk(i)[n + (m + 1)] = After(Walk(i)[n + m])
      BY <3>1, WalkFacts
    <3>3. Walk(i)[n + m] = j
      BY <2>2
    <3>4. After(j) = j
      BY DEF After
    <3> QED BY <3>1, <3>2, <3>3, <3>4
  <2>3. 0 .. MaxLinks - n \subseteq S
    <3> HIDE DEF S
    <3> QED BY <2>1, <2>2, CountTo
  <2>4. k - n \in 0 .. MaxLinks - n /\ n + (k - n) = k
    BY <1>1
  <2>5. k - n \in S
    BY <2>3, <2>4
  <2> QED BY <2>4, <2>5
<1>5. LinkSteps(i) = 0 .. n - 1
  <2>1. ASSUME NEW k \in 0 .. n - 1
        PROVE  k \in LinkSteps(i)
    <3>1. k \in 0 .. n /\ k \in 0 .. MaxLinks
      BY <1>1
    <3> QED BY <3>1, <1>2 DEF LinkSteps, Trail, IsWay
  <2>2. ASSUME NEW k \in 0 .. MaxLinks, kind[Walk(i)[k]] = "link"
        PROVE  k \in 0 .. n - 1
    <3>1. k \notin n .. MaxLinks
      BY <1>4, <2>2
    <3> QED BY <3>1, <1>1
  <2> QED BY <2>1, <2>2 DEF LinkSteps
<1>6. Links(i) = n
  BY <1>1, <1>5, FS_Interval, LinksFacts
<1> QED BY <1>1, <1>2, <1>3, <1>6 DEF Cyclic

\* Links that lead to one another only are a cycle for whoever comes to them.
IsTrap(kd, tg, i) == \E C \in SUBSET Inode : i \in C /\ \A c \in C : kd[c] = "link" /\ tg[c] \in C

\* Links that lead only to one another never come to a file.
LEMMA TrapsAreCycles ==
  ASSUME SymlinkAssumption, Linked, NEW i \in Inode, IsTrap(kind, target, i)
  PROVE  Cyclic(i)
<1>1. PICK C \in SUBSET Inode : i \in C /\ \A c \in C : kind[c] = "link" /\ target[c] \in C
  BY DEF IsTrap
<1>2. MaxLinks \in Nat
  BY WalkFacts
<1> DEFINE S == {k \in 0 .. MaxLinks : Walk(i)[k] \in C}
<1>3. 0 \in S
  BY <1>1, <1>2, WalkFacts
<1>4. ASSUME NEW k \in 0 .. MaxLinks - 1, k \in S
      PROVE  k + 1 \in S
  <2>1. k + 1 \in 1 .. MaxLinks + 1 /\ (k + 1) - 1 = k /\ k + 1 \in 0 .. MaxLinks
    BY <1>2
  <2>2. Walk(i)[k + 1] = After(Walk(i)[k])
    BY <2>1, WalkFacts
  <2>3. Walk(i)[k] \in C
    BY <1>4
  <2>4. After(Walk(i)[k]) \in C
    BY <2>3, <1>1 DEF After
  <2> QED BY <2>1, <2>2, <2>4
<1>5. 0 .. MaxLinks \subseteq S
  <2> HIDE DEF S
  <2> QED BY <1>2, <1>3, <1>4, CountTo
<1>6. \A k \in 0 .. MaxLinks : k \in LinkSteps(i)
  BY <1>1, <1>5 DEF LinkSteps
<1>7. 0 .. (MaxLinks + 1) - 1 \subseteq LinkSteps(i) /\ MaxLinks + 1 \in Nat
  BY <1>2, <1>6
<1>8. MaxLinks + 1 <= Links(i)
  BY <1>7, LinksFacts
<1> QED BY <1>2, <1>8, LinksFacts DEF Cyclic

\* The sum of a way is that of Walk(i), and part of Length(i).
LEMMA WaySums ==
  ASSUME SymlinkAssumption, Linked, NEW i \in Inode, NEW n, NEW w, NEW j, Trail(w, n, i, j), n <= Links(i)
  PROVE  SumTo(w, n) <= Length(i) /\ (n = Links(i) => SumTo(w, n) = Length(i))
<1>1. n \in Nat /\ MaxLinks \in Nat /\ Links(i) \in Nat /\ Links(i) <= MaxLinks + 1 /\ n \in 0 .. Links(i)
  BY WalkFacts, LinksFacts DEF Trail, IsWay
<1>2. \A k \in 1 .. n : Walk(i)[k] = w[k]
  <2> SUFFICES ASSUME NEW k \in 1 .. n
               PROVE  Walk(i)[k] = w[k]
    OBVIOUS
  <2>1. k \in 0 .. n /\ k <= MaxLinks + 1
    BY <1>1
  <2> QED BY <2>1, WaysWalk
<1>3. SumTo(w, n) = SumTo(Walk(i), n)
  BY <1>1, <1>2, SumSame
<1>4. \A k \in 1 .. Links(i) : Walk(i)[k] \in Nat
  <2> SUFFICES ASSUME NEW k \in 1 .. Links(i)
               PROVE  Walk(i)[k] \in Nat
    OBVIOUS
  <2>1. k \in 0 .. MaxLinks + 1
    BY <1>1
  <2>2. Walk(i)[k] \in Inode
    BY <2>1, WalkFacts
  <2> QED BY <2>2 DEF SymlinkAssumption
<1>5. SumTo(Walk(i), n) <= SumTo(Walk(i), Links(i))
  <2> DEFINE f == Walk(i)
             m == Links(i)
  <2>1. m \in Nat /\ n \in 0 .. m /\ \A k \in 1 .. m : f[k] \in Nat
    BY <1>1, <1>4
  <2> HIDE DEF f, m
  <2>2. SumTo(f, n) <= SumTo(f, m)
    BY <2>1, SumGrows
  <2> QED BY <2>2 DEF f, m
<1> QED BY <1>3, <1>5 DEF Length
-----------------------------------------------------------------------------
\* What an answer r means: of the call that began at s and has come to j.  There is a way
\* that justifies it, and links that are created later change nothing about that way.
Made == {"file", "dir", "link"}
Limits(tw, w, n) == /\ tw \in {1, 2} => n <= 1
                    /\ tw = 4 => n <= DEPTH /\ Distinct(w, n)
                    /\ tw = 8 => SumTo(w, n) <= MAXPATH
Opens(kd, tg, tw, s, j) ==
  \E n, w : /\ IsWay(kd, tg, w, n, s, j) /\ Limits(tw, w, n) /\ kd[j] \in Made \ {"link"}
            /\ tw = 7 /\ n > 0 => kd[j] # "dir"
\* Tweak 2: one link, if its target fits into addrs[].
OpensNext(kd, tg, s, j) ==
  /\ s \in Inode /\ kd[s] \in Made
  /\ (kd[s] = "link" => tg[s] < ADDRS) => j = IF kd[s] = "link" THEN tg[s] ELSE s
Chains(kd, tg, s) == \E n, w, j : IsWay(kd, tg, w, n, s, j) /\ n > 1
Depths(kd, tg, s) == \E n, w, j : IsWay(kd, tg, w, n, s, j) /\ n > DEPTH /\ Distinct(w, n)
Longs(kd, tg, s)  == \E n, w, j : IsWay(kd, tg, w, n, s, j) /\ SumTo(w, n) > MAXPATH
Answer(kd, tg, tw, r, s, j, follow) ==
  /\ r = "opened" /\ follow /\ tw # 2 => Opens(kd, tg, tw, s, j)
  /\ r = "opened" /\ follow /\ tw = 2 => OpensNext(kd, tg, s, j)
  /\ r = "opened" /\ ~follow => j = s
  /\ r = "chain"    => Chains(kd, tg, s)
  /\ r = "cycle"    => s \in Inode /\ IsTrap(kd, tg, s)
  /\ r = "depth"    => Depths(kd, tg, s)
  /\ r = "long"     => Longs(kd, tg, s)
  /\ r = "dangling" => s \in Inode /\ kd[s] = "link"

\* Links are created, and stay.
Grows(kd, tg, kd2, tg2) ==
  \A i \in Inode : /\ kd[i] \in Made => kd2[i] = kd[i] /\ tg2[i] = tg[i]
                   /\ kd[i] # Free => kd2[i] # Free

\* A way through the links stays one when sys_symlink creates more of them.
LEMMA WaysStay ==
  ASSUME NEW kd, NEW tg, NEW kd2, NEW tg2, Grows(kd, tg, kd2, tg2), NEW i, NEW n, NEW w, NEW j, IsWay(kd, tg, w, n, i, j)
  PROVE  IsWay(kd2, tg2, w, n, i, j) /\ j \in Inode
<1>1. \A k \in 0 .. n - 1 : w[k] \in Inode /\ kd[w[k]] \in Made
  BY DEF IsWay, Made
<1>2. \A k \in 0 .. n - 1 : kd2[w[k]] = kd[w[k]] /\ tg2[w[k]] = tg[w[k]]
  BY <1>1 DEF Grows
<1> QED BY <1>2 DEF IsWay

\* What a call was answered stays true when sys_symlink creates more links.
LEMMA AnswersStay ==
  ASSUME NEW kd, NEW tg, NEW kd2, NEW tg2, Grows(kd, tg, kd2, tg2), NEW tw, NEW r, NEW s, NEW j, NEW follow \in BOOLEAN,
         Answer(kd, tg, tw, r, s, j, follow)
  PROVE  Answer(kd2, tg2, tw, r, s, j, follow)
<1>1. ASSUME Opens(kd, tg, tw, s, j)
      PROVE  Opens(kd2, tg2, tw, s, j)
  <2>1. PICK n, w : /\ IsWay(kd, tg, w, n, s, j) /\ Limits(tw, w, n) /\ kd[j] \in Made \ {"link"}
                    /\ tw = 7 /\ n > 0 => kd[j] # "dir"
    BY <1>1 DEF Opens
  <2>2. IsWay(kd2, tg2, w, n, s, j) /\ kd2[j] = kd[j]
    BY <2>1, WaysStay DEF Grows
  <2> QED BY <2>1, <2>2 DEF Opens
<1>2. Chains(kd, tg, s) => Chains(kd2, tg2, s)
  BY WaysStay DEF Chains
<1>3. Depths(kd, tg, s) => Depths(kd2, tg2, s)
  BY WaysStay DEF Depths
<1>4. Longs(kd, tg, s) => Longs(kd2, tg2, s)
  BY WaysStay DEF Longs
<1>5. ASSUME IsTrap(kd, tg, s)
      PROVE  IsTrap(kd2, tg2, s)
  <2>1. PICK C \in SUBSET Inode : s \in C /\ \A c \in C : kd[c] = "link" /\ tg[c] \in C
    BY <1>5 DEF IsTrap
  <2>2. \A c \in C : kd2[c] = "link" /\ tg2[c] \in C
    BY <2>1 DEF Grows, Made
  <2> QED BY <2>1, <2>2 DEF IsTrap
<1>6. s \in Inode /\ kd[s] = "link" => kd2[s] = "link"
  BY DEF Grows, Made
<1>7. OpensNext(kd, tg, s, j) => OpensNext(kd2, tg2, s, j)
  BY DEF OpensNext, Grows
<1> QED BY <1>1, <1>2, <1>3, <1>4, <1>5, <1>6, <1>7 DEF Answer

\* Where a call under way will look next, and how it has come there: visited[] holds the
\* links of its way, or in the loops without a count says whether there was one.
Here(p) == IF pc[p] = "namei" THEN target[ip[p]] ELSE ip[p]
Comes(p, w, n) ==
  /\ Trail(w, n, start[p], Here(p)) /\ Limits(tweak, w, n)
  /\ IF tweak \in Uncounted THEN (visited[p] = <<>>) = (n = 0) ELSE visited[p] = [k \in 1 .. n |-> w[k - 1]]
  /\ (pc[p] = "namei") => n > 0
  /\ ~omode[p].follow => n = 0
  /\ kind[ip[p]] # Free
\* Tweak 2 has read a target that is too long.
Lost(p) ==
  /\ tweak = 2 /\ kind[start[p]] = "link" /\ target[start[p]] >= ADDRS
  /\ visited[p] # <<>> /\ omode[p].follow /\ pc[p] # "namei" /\ kind[ip[p]] # Free
Told(p) == Answer(kind, target, tweak, why[p], start[p], ip[p], omode[p].follow)
Justified(p) ==
  /\ Opening(p) => (\E n, w : Comes(p, w, n)) \/ Lost(p)
  /\ (pc[p] = "done") => Told(p)
  /\ (pc[p] = "idle") => visited[p] = <<>>
WayTypes == /\ visited \in [Proc -> Seq(Inode)] /\ omode \in [Proc -> [follow : BOOLEAN, rdonly : BOOLEAN]]
            /\ start \in [Proc -> Inode]
WayInv   == CallInv /\ WayTypes /\ \A p \in Proc : Justified(p)

\* The step leaves q alone.
Waits(q) == /\ pc'[q] = pc[q] /\ ip'[q] = ip[q] /\ why'[q] = why[q] /\ start'[q] = start[q]
            /\ visited'[q] = visited[q] /\ omode'[q] = omode[q]

\* A process whose own variables a step leaves alone is still right about its way.
LEMMA WaitingStays ==
  ASSUME CallInv, WayTypes, Grows(kind, target, kind', target'), tweak' = tweak, NEW q \in Proc, Waits(q), Justified(q)
  PROVE  Justified(q)'
<1>1. ASSUME NEW n, NEW w, Comes(q, w, n)
      PROVE  Comes(q, w, n)'
  <2>1. /\ ip[q] \in Inode /\ kind[ip[q]] # Free /\ IsWay(kind, target, w, n, start[q], Here(q))
        /\ pc[q] = "namei" => kind[ip[q]] \in Made
    BY <1>1 DEF CallInv, CleanReturns, TypeOK, Comes, Trail, Made
  <2>2. kind'[ip[q]] # Free /\ (pc[q] = "namei" => target'[ip[q]] = target[ip[q]])
    BY <2>1 DEF Grows
  <2>3. Here(q)' = Here(q)
    BY <2>2 DEF Here, Waits
  <2>4. IsWay(kind', target', w, n, start[q], Here(q))
    BY <2>1, WaysStay
  <2>5. Trail(w, n, start[q], Here(q))'
    BY <2>3, <2>4 DEF Trail, Waits
  <2> QED BY <1>1, <2>2, <2>5 DEF Comes, Waits
<1>3. ASSUME Lost(q)
      PROVE  Lost(q)'
  <2>1. /\ start[q] \in Inode /\ ip[q] \in Inode /\ kind[ip[q]] # Free
        /\ kind[start[q]] = "link" /\ kind[start[q]] \in Made
    BY <1>3 DEF WayTypes, CallInv, CleanReturns, TypeOK, Lost, Made
  <2>2. kind'[start[q]] = kind[start[q]] /\ target'[start[q]] = target[start[q]] /\ kind'[ip[q]] # Free
    BY <2>1 DEF Grows
  <2> QED BY <1>3, <2>2 DEF Lost, Waits
<1>2. ASSUME pc[q] = "done"
      PROVE  Told(q)'
  <2>1. Answer(kind, target, tweak, why[q], start[q], ip[q], omode[q].follow) /\ omode[q].follow \in BOOLEAN
    BY <1>2 DEF Justified, Told, WayTypes
  <2>2. Answer(kind', target', tweak, why[q], start[q], ip[q], omode[q].follow)
    BY <2>1, AnswersStay
  <2> QED BY <2>2 DEF Told, Waits
<1>4. Opening(q) => ((\E n, w : Comes(q, w, n)) \/ Lost(q))'
  <2>1. Opening(q) => (\E n, w : Comes(q, w, n)) \/ Lost(q)
    BY DEF Justified
  <2> QED BY <1>1, <1>3, <2>1
<1>5. (Opening(q)' = Opening(q)) /\ pc'[q] = pc[q] /\ visited'[q] = visited[q]
  BY DEF Opening, Waits
<1> QED BY <1>2, <1>4, <1>5 DEF Justified

\* The invariant after a step of p.
LEMMA WayKept ==
  ASSUME WayInv, NEW p \in Proc, \A q \in Proc \ {p} : Waits(q), Grows(kind, target, kind', target'), tweak' = tweak,
         CallInv', WayTypes', Justified(p)'
  PROVE  WayInv'
<1>1. \A q \in Proc \ {p} : Justified(q)'
  BY WaitingStays DEF WayInv
<1> QED BY <1>1 DEF WayInv

\* A step that creates nothing keeps the links.
LEMMA NothingGrows ==
  ASSUME UNCHANGED <<kind, target>>
  PROVE  Grows(kind, target, kind', target')
BY DEF Grows

\* What the assumption on the constants says of the limits.
LEMMA NumberFacts ==
  ASSUME SymlinkAssumption
  PROVE  MAXPATH \in Nat /\ DEPTH \in Nat \ {0}
BY DEF SymlinkAssumption

\* A call that begins has followed nothing.
LEMMA StartComes ==
  ASSUME SymlinkAssumption, WayInv, NEW p \in Proc, Start(p), CallInv'
  PROVE  WayInv'
<1>0. PICK c \in {"open", "readlink"}, m \in Modes, i \in Named : Start(p)!1!(c, m, i)
  BY DEF Start
<1>1. /\ omode' = [omode EXCEPT ![p] = m] /\ start' = [start EXCEPT ![p] = i]
      /\ pc[p] = "idle" /\ UNCHANGED <<tweak, kind, target, visited>>
      /\ \/ kind[i] = Free /\ pc' = [pc EXCEPT ![p] = "done"] /\ why' = [why EXCEPT ![p] = "missing"] /\ UNCHANGED ip
         \/ kind[i] # Free /\ pc' = [pc EXCEPT ![p] = "ilock"] /\ ip' = [ip EXCEPT ![p] = i] /\ UNCHANGED why
  BY <1>0 DEF Start, Goto, Get, disk
<1>2. m \in [follow : BOOLEAN, rdonly : BOOLEAN] /\ i \in Inode
  <2>1. PICK a, b \in BOOLEAN : m = Mode(a, b)
    BY DEF Modes
  <2>2. \A f, r \in BOOLEAN : Mode(f, r) \in [follow : BOOLEAN, rdonly : BOOLEAN]
    BY DEF Mode
  <2> QED BY <2>1, <2>2 DEF Named
<1>3. pc \in [Proc -> Labels] /\ ip \in [Proc -> Inode] /\ why \in [Proc -> Endings]
  BY DEF WayInv, CallInv, CleanReturns, TypeOK
<1>4. WayTypes' /\ omode'[p] = m /\ start'[p] = i
  BY <1>1, <1>2 DEF WayInv, WayTypes
<1>5. \A q \in Proc \ {p} : Waits(q)
  <2>1. omode \in [Proc -> [follow : BOOLEAN, rdonly : BOOLEAN]] /\ start \in [Proc -> Inode]
    BY DEF WayInv, WayTypes
  <2> QED BY <1>1, <1>3, <2>1 DEF Waits
<1>6. visited[p] = <<>>
  BY <1>1 DEF WayInv, Justified
<1>7. Justified(p)'
  <2>1. CASE pc'[p] = "done" /\ why'[p] = "missing"
    BY <2>1 DEF Justified, Opening, Told, Answer
  <2>2. CASE kind[i] # Free /\ pc'[p] = "ilock" /\ ip'[p] = i
    <3> DEFINE w == [k \in 0 .. 0 |-> i]
    <3>1. IsWay(kind, target, w, 0, i, i)
      BY <1>2 DEF IsWay
    <3>2. Limits(tweak, w, 0)
      <4>1. SumTo(w, 0) = 0
        BY SumFacts
      <4> QED BY <4>1, NumberFacts DEF Limits, Distinct
    <3>3. <<>> = [k \in 1 .. 0 |-> w[k - 1]]
      OBVIOUS
    <3> HIDE DEF w
    <3>4. Comes(p, w, 0)'
      BY <1>1, <1>4, <1>6, <2>2, <3>1, <3>2, <3>3 DEF Comes, Trail, Here
    <3> QED BY <2>2, <3>4 DEF Justified
  <2> QED BY <1>1, <1>3, <2>1, <2>2
<1> QED BY <1>1, <1>4, <1>5, <1>7, WayKept, NothingGrows

\* ilock: the inode is locked, and the way of the call is as long as before.
LEMMA IlockComes ==
  ASSUME SymlinkAssumption, WayInv, NEW p \in Proc, ilock(p), CallInv'
  PROVE  WayInv'
<1>1. /\ pc[p] = "ilock" /\ pc' = [pc EXCEPT ![p] = call[p]]
      /\ UNCHANGED <<tweak, kind, target, ip, why, start, visited, omode>>
  BY DEF ilock, Goto, disk
<1>2. pc \in [Proc -> Labels] /\ Opening(p) /\ call[p] \in {"open", "readlink"}
  BY <1>1 DEF WayInv, CallInv, CleanReturns, TypeOK, Opening
<1>3. pc'[p] = call[p]
  BY <1>1, <1>2
<1>4. \A n, w : Comes(p, w, n) => Comes(p, w, n)'
  BY <1>1, <1>2, <1>3 DEF Comes, Trail, Here
<1>5. Lost(p) => Lost(p)'
  BY <1>1, <1>2, <1>3 DEF Lost
<1>6. Justified(p)'
  <2>1. (\E n, w : Comes(p, w, n)) \/ Lost(p)
    BY <1>2 DEF WayInv, Justified
  <2> QED BY <1>2, <1>3, <1>4, <1>5, <2>1 DEF Justified
<1>7. WayTypes' /\ \A q \in Proc \ {p} : Waits(q)
  BY <1>1, <1>2 DEF WayInv, WayTypes, Waits
<1> QED BY <1>1, <1>6, <1>7, WayKept, NothingGrows

\* At a link the way goes on by one.
LEMMA LongerWay ==
  ASSUME WayInv, NEW p \in Proc, pc[p] = "open", kind[ip[p]] = "link", NEW n, NEW w, Comes(p, w, n)
  PROVE  \E v : /\ IsWay(kind, target, v, n + 1, start[p], target[ip[p]])
                /\ v[n] = ip[p] /\ v[n + 1] = target[ip[p]] /\ \A k \in 0 .. n : v[k] = w[k]
<1>1. IsWay(kind, target, w, n, start[p], ip[p])
  BY DEF Comes, Trail, Here
<1>2. ip[p] \in Inode /\ target[ip[p]] \in Inode
  BY DEF WayInv, CallInv, CleanReturns, TypeOK
<1> DEFINE v == [k \in 0 .. n + 1 |-> IF k = n + 1 THEN target[ip[p]] ELSE w[k]]
<1>3. n \in Nat /\ w \in [0 .. n -> Inode] /\ w[n] = ip[p]
  BY <1>1 DEF IsWay
<1>4. v \in [0 .. n + 1 -> Inode] /\ v[n + 1] = target[ip[p]] /\ \A k \in 0 .. n : v[k] = w[k]
  BY <1>2, <1>3
<1> HIDE DEF v
<1>5. ASSUME NEW k \in 0 .. n
      PROVE  kind[v[k]] = "link" /\ v[k + 1] = target[v[k]]
  <2>1. CASE k = n
    BY <2>1, <1>3, <1>4
  <2>2. CASE k # n
    <3>1. k \in 0 .. n - 1 /\ k + 1 \in 0 .. n
      BY <2>2, <1>3
    <3> QED BY <3>1, <1>1, <1>4 DEF IsWay
  <2> QED BY <2>1, <2>2
<1>6. (n + 1) - 1 = n /\ 0 \in 0 .. n /\ n \in 0 .. n
  BY <1>3
<1>7. IsWay(kind, target, v, n + 1, start[p], target[ip[p]])
  BY <1>1, <1>3, <1>4, <1>5, <1>6 DEF IsWay
<1> QED BY <1>3, <1>4, <1>6, <1>7

\* What visited[] says of the way, and the sum of tweak 8.
LEMMA VisitedSays ==
  ASSUME SymlinkAssumption, WayInv, NEW p \in Proc, NEW n, NEW w, Comes(p, w, n), tweak \notin Uncounted
  PROVE  /\ n \in Nat /\ Len(visited[p]) = n /\ DOMAIN visited[p] = 1 .. n /\ (visited[p] = <<>> => n = 0)
         /\ \A k \in 1 .. n : visited[p][k] = w[k - 1]
         /\ \A k \in 0 .. n - 1 : w[k] \in ToSet(visited[p])
         /\ \A i \in ToSet(visited[p]) : \E k \in 0 .. n - 1 : i = w[k]
         /\ Total(p) = SumTo(w, n)
<1>1. n \in Nat /\ visited[p] = [k \in 1 .. n |-> w[k - 1]] /\ visited[p] \in Seq(Inode)
  BY DEF Comes, Trail, IsWay, WayInv, WayTypes
<1>2. DOMAIN visited[p] = 1 .. n /\ \A k \in 1 .. n : visited[p][k] = w[k - 1]
  BY <1>1
<1>3. Len(visited[p]) = n
  BY <1>1, <1>2
<1>4. visited[p] = <<>> => n = 0
  BY <1>1, <1>3
<1>5. /\ \A k \in 0 .. n - 1 : w[k] \in ToSet(visited[p])
      /\ \A i \in ToSet(visited[p]) : \E k \in 0 .. n - 1 : i = w[k]
  <2>1. \A k \in 0 .. n - 1 : k + 1 \in 1 .. n /\ visited[p][k + 1] = w[k]
    BY <1>1, <1>2
  <2>2. \A k \in 1 .. n : k - 1 \in 0 .. n - 1
    BY <1>1
  <2>3. ToSet(visited[p]) = {visited[p][k] : k \in 1 .. n}
    BY <1>2 DEF ToSet
  <2> QED BY <2>1, <2>2, <2>3, <1>2
<1>6. Total(p) = SumTo(w, n)
  <2> DEFINE f == [k \in DOMAIN visited[p] |-> target[visited[p][k]]]
  <2>1. \A k \in 1 .. n : f[k] = w[k]
    <3> SUFFICES ASSUME NEW k \in 1 .. n
                 PROVE  f[k] = w[k]
      OBVIOUS
    <3>1. k - 1 \in 0 .. n - 1 /\ (k - 1) + 1 = k
      BY <1>1
    <3>2. w[k] = target[w[k - 1]]
      BY <3>1 DEF Comes, Trail, IsWay
    <3> QED BY <3>2, <1>2
  <2> HIDE DEF f
  <2>2. SumTo(f, n) = SumTo(w, n)
    BY <1>1, <2>1, SumSame
  <2> QED BY <2>2, <1>3 DEF Total, f
<1> QED BY <1>1, <1>2, <1>3, <1>4, <1>5, <1>6

\* The call follows a link: within the limits, for else it had been refused.
LEMMA FollowComes ==
  ASSUME SymlinkAssumption, WayInv, NEW p \in Proc, Follow(p), CallInv'
  PROVE  WayInv'
<1>1. /\ pc[p] = "open" /\ kind[ip[p]] = "link" /\ omode[p].follow
      /\ pc' = [pc EXCEPT ![p] = "namei"] /\ visited' = [visited EXCEPT ![p] = Remember(p)]
      /\ UNCHANGED <<tweak, kind, target, ip, why, start, omode>>
  BY DEF Follow, Follows, IsLink, Goto, disk
<1>2. /\ tweak \in {1, 2} => visited[p] = <<>>
      /\ tweak = 4 => ip[p] \notin ToSet(visited[p]) /\ ~(Len(visited[p]) >= DEPTH)
      /\ tweak = 8 => ~(Total(p) + target[ip[p]] > MAXPATH)
  <2>1. \A reason \in Reasons : ~Refuses(p, reason)
    BY DEF Follow
  <2>2. {"chain", "cycle", "depth", "long"} \subseteq Reasons
    BY DEF Reasons
  <2>3. ~Refuses(p, "chain") /\ ~Refuses(p, "cycle") /\ ~Refuses(p, "depth") /\ ~Refuses(p, "long")
    BY <2>1, <2>2
  <2> QED BY <2>3 DEF Refuses, Follow, Follows
<1>3. PICK n, w : Comes(p, w, n)
  BY <1>1, <1>2 DEF WayInv, Justified, Opening, Lost
<1>4. PICK v : /\ IsWay(kind, target, v, n + 1, start[p], target[ip[p]])
               /\ v[n] = ip[p] /\ v[n + 1] = target[ip[p]] /\ \A k \in 0 .. n : v[k] = w[k]
  BY <1>1, <1>3, LongerWay
<1>5. n \in Nat /\ w \in [0 .. n -> Inode] /\ v \in [0 .. n + 1 -> Inode] /\ ip[p] \in Inode
  BY <1>1, <1>3, <1>4 DEF Comes, Trail, IsWay, WayInv, CallInv, CleanReturns, TypeOK
<1>6. pc'[p] = "namei" /\ visited'[p] = Remember(p) /\ Remember(p) \in Seq(Inode)
  <2>1. pc \in [Proc -> Labels] /\ visited \in [Proc -> Seq(Inode)]
    BY DEF WayInv, CallInv, CleanReturns, TypeOK, WayTypes
  <2>2. Remember(p) \in Seq(Inode)
    BY <1>5, <2>1 DEF Remember
  <2> QED BY <1>1, <2>1, <2>2
<1>7. Limits(tweak, v, n + 1)
  <2>1. CASE tweak \in {1, 2}
    <3>1. n = 0
      BY <1>2, <1>3, <2>1, VisitedSays DEF Uncounted
    <3> QED BY <2>1, <3>1 DEF Limits
  <2>2. CASE tweak = 4
    <3>1. n + 1 <= DEPTH
      BY <1>2, <1>3, <2>2, VisitedSays, NumberFacts DEF Uncounted
    <3>2. (\A k \in 0 .. n - 1 : w[k] # ip[p]) /\ Distinct(w, n)
      <4>1. tweak \notin Uncounted
        BY <2>2 DEF Uncounted
      <4>2. \A k \in 0 .. n - 1 : w[k] \in ToSet(visited[p])
        BY <1>3, <4>1, VisitedSays
      <4>3. Distinct(w, n)
        BY <1>3, <2>2 DEF Comes, Limits
      <4> QED BY <1>2, <2>2, <4>2, <4>3
    <3>3. ASSUME NEW k \in 0 .. n, NEW l \in 0 .. n, v[k] = v[l]
          PROVE  k = l
      <4>1. w[k] = w[l] /\ w[n] = ip[p]
        BY <1>4, <1>5, <3>3
      <4>2. CASE k \in 0 .. n - 1 /\ l \in 0 .. n - 1
        BY <3>2, <4>1, <4>2 DEF Distinct
      <4>3. CASE k = n /\ l = n
        BY <4>3
      <4>4. CASE k = n /\ l \in 0 .. n - 1
        BY <3>2, <4>1, <4>4
      <4>5. CASE k \in 0 .. n - 1 /\ l = n
        BY <3>2, <4>1, <4>5
      <4> QED BY <1>5, <4>2, <4>3, <4>4, <4>5
    <3>4. Distinct(v, n + 1)
      <4>1. (n + 1) - 1 = n
        BY <1>5
      <4> QED BY <3>3, <4>1 DEF Distinct
    <3> QED BY <2>2, <3>1, <3>4 DEF Limits
  <2>3. CASE tweak = 8
    <3>1. \A k \in 1 .. n + 1 : v[k] \in Nat
      <4>1. \A k \in 1 .. n + 1 : k \in 0 .. n + 1
        BY <1>5
      <4>2. \A k \in 0 .. n + 1 : v[k] \in Inode
        BY <1>5
      <4> QED BY <4>1, <4>2 DEF SymlinkAssumption
    <3>2. SumTo(v, n + 1) = SumTo(v, n) + v[n + 1] /\ SumTo(v, n) \in Nat /\ v[n + 1] \in Nat
      <4>1. n + 1 \in Nat /\ n \in 0 .. (n + 1) - 1 /\ n \in 0 .. n + 1 /\ n + 1 \in 1 .. n + 1
        BY <1>5
      <4> QED BY <3>1, <4>1, SumFacts
    <3>3. SumTo(v, n) = SumTo(w, n)
      BY <1>4, <1>5, SumSame
    <3>4. ~(SumTo(w, n) + target[ip[p]] > MAXPATH)
      BY <1>2, <1>3, <2>3, VisitedSays DEF Uncounted
    <3>5. SumTo(v, n + 1) <= MAXPATH
      BY <3>2, <3>3, <3>4, <1>4, NumberFacts
    <3> QED BY <2>3, <3>5 DEF Limits
  <2> QED BY <2>1, <2>2, <2>3 DEF Limits
<1>8. IF tweak \in Uncounted THEN Remember(p) # <<>> ELSE Remember(p) = [k \in 1 .. n + 1 |-> v[k - 1]]
  <2>1. CASE tweak \in Uncounted
    BY <2>1 DEF Remember
  <2>2. CASE tweak \notin Uncounted
    <3>1. Remember(p) = Append(visited[p], ip[p]) /\ Len(visited[p]) = n /\ visited[p] \in Seq(Inode)
          /\ \A k \in 1 .. n : visited[p][k] = w[k - 1]
      BY <1>3, <2>2, VisitedSays DEF Remember, WayInv, WayTypes
    <3>2. \A k \in 1 .. n : v[k - 1] = w[k - 1]
      BY <1>4, <1>5
    <3>3. Append(visited[p], ip[p]) = [k \in 1 .. n + 1 |-> v[k - 1]]
      <4> DEFINE u == [k \in 1 .. n + 1 |-> v[k - 1]]
                 a == Append(visited[p], ip[p])
      <4>1. a \in Seq(Inode) /\ Len(a) = n + 1
        BY <1>5, <3>1
      <4>2. u \in Seq(Inode) /\ Len(u) = n + 1
        BY <1>5
      <4>3. \A k \in 1 .. n + 1 : a[k] = u[k]
        BY <1>4, <1>5, <3>1, <3>2
      <4> HIDE DEF u, a
      <4>4. a = u
        BY <4>1, <4>2, <4>3
      <4> QED BY <4>4 DEF u, a
    <3> QED BY <2>2, <3>1, <3>3
  <2> QED BY <2>1, <2>2
<1>9. Comes(p, v, n + 1)'
  <2>1. Here(p)' = target[ip[p]]
    BY <1>1, <1>6 DEF Here
  <2>2. Trail(v, n + 1, start[p], Here(p))'
    BY <1>1, <1>4, <2>1 DEF Trail
  <2>3. kind'[ip'[p]] # Free /\ omode'[p].follow /\ n + 1 > 0 /\ n + 1 # 0
    BY <1>1, <1>5 DEF Free
  <2>4. IF tweak' \in Uncounted THEN (visited'[p] = <<>>) = (n + 1 = 0) ELSE visited'[p] = [k \in 1 .. n + 1 |-> v[k - 1]]
    BY <1>1, <1>6, <1>8, <2>3
  <2> QED BY <1>1, <1>6, <1>7, <2>2, <2>3, <2>4 DEF Comes
<1>10. Justified(p)'
  BY <1>6, <1>9 DEF Justified
<1>11. WayTypes' /\ \A q \in Proc \ {p} : Waits(q)
  BY <1>1, <1>6 DEF WayInv, WayTypes, Waits, CallInv, CleanReturns, TypeOK
<1> QED BY <1>1, <1>10, <1>11, WayKept, NothingGrows

\* A call that returns with a reason, and what the reason means then.
LEMMA ReturnComes ==
  ASSUME SymlinkAssumption, WayInv, NEW p \in Proc, NEW reason \in Endings,
         pc' = [pc EXCEPT ![p] = "done"], why' = [why EXCEPT ![p] = reason],
         UNCHANGED <<tweak, kind, target, ip, start, visited, omode>>,
         Answer(kind, target, tweak, reason, start[p], ip[p], omode[p].follow), CallInv'
  PROVE  WayInv'
<1>1. pc \in [Proc -> Labels] /\ why \in [Proc -> Endings]
  BY DEF WayInv, CallInv, CleanReturns, TypeOK
<1>2. pc'[p] = "done" /\ why'[p] = reason /\ WayTypes' /\ \A q \in Proc \ {p} : Waits(q)
  BY <1>1 DEF WayInv, WayTypes, Waits
<1>3. Justified(p)'
  BY <1>2 DEF Justified, Opening, Told
<1> QED BY <1>2, <1>3, WayKept, NothingGrows

\* The refusals: the limits are passed, or the link is one of those on the way.
LEMMA RefuseComes ==
  ASSUME SymlinkAssumption, WayInv, NEW p \in Proc, Refuse(p), CallInv'
  PROVE  WayInv'
<1>1. PICK reason \in Reasons : Refuses(p, reason) /\ Fail(p, "open", reason)
  BY DEF Refuse
<1>2. /\ pc[p] = "open" /\ kind[ip[p]] = "link"
      /\ pc' = [pc EXCEPT ![p] = "done"] /\ why' = [why EXCEPT ![p] = reason]
      /\ UNCHANGED <<tweak, kind, target, ip, start, visited, omode>>
  BY <1>1 DEF Refuse, Follows, IsLink, Fail, Return, Goto, disk
<1>3. reason \in Endings /\ tweak # 2
  <2>1. reason \in Endings
    BY DEF Reasons, Endings
  <2>2. tweak \in {1, 4, 8}
    BY <1>1, Zenon DEF Refuses
  <2> QED BY <2>1, <2>2
<1>4. PICK n, w : Comes(p, w, n)
  BY <1>2, <1>3 DEF WayInv, Justified, Opening, Lost
<1>5. PICK v : /\ IsWay(kind, target, v, n + 1, start[p], target[ip[p]])
               /\ v[n] = ip[p] /\ v[n + 1] = target[ip[p]] /\ \A k \in 0 .. n : v[k] = w[k]
  BY <1>2, <1>4, LongerWay
<1>6. n \in Nat /\ IsWay(kind, target, w, n, start[p], ip[p]) /\ start[p] \in Inode
  BY <1>2, <1>4 DEF Comes, Trail, Here, IsWay
<1> SUFFICES Answer(kind, target, tweak, reason, start[p], ip[p], omode[p].follow)
  BY <1>2, <1>3, ReturnComes
<1>7. CASE reason = "chain"
  <2>1. tweak = 1 /\ visited[p] # <<>>
    BY <1>1, <1>7 DEF Refuses
  <2>2. n > 0
    BY <1>4, <1>6, <2>1 DEF Comes, Uncounted
  <2>3. n + 1 > 1
    BY <1>6, <2>2
  <2>4. Chains(kind, target, start[p])
    BY <1>5, <2>3 DEF Chains
  <2> QED BY <1>7, <2>4 DEF Answer
<1>8. CASE reason = "cycle"
  <2>1. tweak = 4 /\ ip[p] \in ToSet(visited[p])
    BY <1>1, <1>8 DEF Refuses
  <2>2. tweak \notin Uncounted
    BY <2>1 DEF Uncounted
  <2>3. \A i \in ToSet(visited[p]) : \E k \in 0 .. n - 1 : i = w[k]
    <3>1. tweak \notin Uncounted => \A i \in ToSet(visited[p]) : \E k \in 0 .. n - 1 : i = w[k]
      BY <1>4, VisitedSays
    <3> QED BY <2>2, <3>1
  <2>4. PICK a \in 0 .. n - 1 : ip[p] = w[a]
    BY <2>1, <2>3
  <2> DEFINE C == {w[k] : k \in 0 .. n - 1}
  <2>5. C \in SUBSET Inode /\ start[p] \in C
    BY <1>6, <2>4 DEF IsWay
  <2>6. ASSUME NEW k \in 0 .. n - 1
        PROVE  kind[w[k]] = "link" /\ target[w[k]] \in C
    <3>1. kind[w[k]] = "link" /\ target[w[k]] = w[k + 1] /\ w[n] = ip[p]
      BY <1>6 DEF IsWay
    <3>2. CASE k + 1 \in 0 .. n - 1
      BY <3>1, <3>2
    <3>3. CASE k + 1 = n
      BY <3>1, <3>3, <2>4
    <3> QED BY <1>6, <3>1, <3>2, <3>3
  <2>7. IsTrap(kind, target, start[p])
    <3>1. \A c \in C : kind[c] = "link" /\ target[c] \in C
      BY <2>6
    <3> HIDE DEF C
    <3> QED BY <2>5, <3>1 DEF IsTrap
  <2> QED BY <1>6, <1>8, <2>7 DEF Answer
<1>9. CASE reason = "depth"
  <2>1. tweak = 4 /\ ip[p] \notin ToSet(visited[p]) /\ Len(visited[p]) >= DEPTH
    BY <1>1, <1>9 DEF Refuses
  <2>2. tweak \notin Uncounted
    BY <2>1 DEF Uncounted
  <2>3. Len(visited[p]) = n /\ (\A k \in 0 .. n - 1 : w[k] \in ToSet(visited[p])) /\ Distinct(w, n)
    <3>1. Len(visited[p]) = n /\ \A k \in 0 .. n - 1 : w[k] \in ToSet(visited[p])
      BY <1>4, <2>2, VisitedSays
    <3>2. Distinct(w, n)
      BY <1>4, <2>1 DEF Comes, Limits
    <3> QED BY <3>1, <3>2
  <2>4. n + 1 > DEPTH
    BY <1>6, <2>1, <2>3, NumberFacts
  <2>5. \A k \in 0 .. n - 1 : v[k] = w[k] /\ v[k] # v[n]
    <3>1. \A k \in 0 .. n - 1 : k \in 0 .. n /\ w[k] # ip[p]
      BY <1>6, <2>1, <2>3
    <3> QED BY <1>5, <3>1
  <2>6. Distinct(v, n + 1)
    <3>1. \A k \in 0 .. (n + 1) - 1 : k \in 0 .. n - 1 \/ k = n
      BY <1>6
    <3>2. \A k, l \in 0 .. n - 1 : v[k] = v[l] => k = l
      BY <2>3, <2>5 DEF Distinct
    <3> QED BY <2>5, <3>1, <3>2 DEF Distinct
  <2>7. Depths(kind, target, start[p])
    BY <1>5, <2>4, <2>6 DEF Depths
  <2> QED BY <1>9, <2>7 DEF Answer
<1>10. CASE reason = "long"
  <2>1. tweak = 8 /\ Total(p) + target[ip[p]] > MAXPATH
    BY <1>1, <1>10 DEF Refuses
  <2>2. tweak \notin Uncounted
    BY <2>1 DEF Uncounted
  <2>3. Total(p) = SumTo(w, n)
    BY <1>4, <2>2, VisitedSays
  <2>4. SumTo(v, n) = SumTo(w, n)
    <3>1. \A k \in 1 .. n : v[k] = w[k]
      BY <1>5, <1>6
    <3> QED BY <1>6, <3>1, SumSame
  <2>5. SumTo(v, n + 1) = SumTo(v, n) + v[n + 1]
    <3>1. \A k \in 1 .. n + 1 : v[k] \in Nat
      <4>1. v \in [0 .. n + 1 -> Inode] /\ \A k \in 1 .. n + 1 : k \in 0 .. n + 1
        BY <1>5, <1>6 DEF IsWay
      <4>2. \A k \in 0 .. n + 1 : v[k] \in Inode
        BY <4>1
      <4> QED BY <4>1, <4>2 DEF SymlinkAssumption
    <3>2. n + 1 \in Nat /\ n \in 0 .. (n + 1) - 1
      BY <1>6
    <3> QED BY <3>1, <3>2, SumFacts
  <2>6. SumTo(v, n + 1) > MAXPATH
    BY <1>5, <2>1, <2>3, <2>4, <2>5
  <2>7. Longs(kind, target, start[p])
    BY <1>5, <2>6 DEF Longs
  <2> QED BY <1>10, <2>7 DEF Answer
<1> QED BY <1>7, <1>8, <1>9, <1>10 DEF Reasons

\* The next name: the way leads there, or dangles, or in tweak 2 the name is lost.
LEMMA NextComes ==
  ASSUME SymlinkAssumption, WayInv, NEW p \in Proc, NextName(p), CallInv'
  PROVE  WayInv'
<1>1. pc[p] = "namei" /\ UNCHANGED <<tweak, kind, target, start, visited, omode>>
  BY DEF NextName, disk
<1>2. PICK n, w : Comes(p, w, n)
  BY <1>1 DEF WayInv, Justified, Opening, Lost
<1>3. IsWay(kind, target, w, n, start[p], target[ip[p]]) /\ n > 0 /\ n \in Nat
  BY <1>1, <1>2 DEF Comes, Trail, Here, IsWay
<1>4. start[p] \in Inode /\ kind[start[p]] = "link"
  <2>1. 0 \in 0 .. n - 1 /\ 0 \in 0 .. n
    BY <1>3
  <2> QED BY <1>3, <2>1 DEF IsWay
<1>5. CASE Return(p, "namei", IF tweak = 9 THEN "dangling" ELSE "missing") /\ UNCHANGED ip
  <2> DEFINE reason == IF tweak = 9 THEN "dangling" ELSE "missing"
  <2>1. pc' = [pc EXCEPT ![p] = "done"] /\ why' = [why EXCEPT ![p] = reason] /\ reason \in Endings
    BY <1>5 DEF Return, Goto, Endings
  <2>2. Answer(kind, target, tweak, reason, start[p], ip[p], omode[p].follow)
    BY <1>4 DEF Answer
  <2> HIDE DEF reason
  <2> QED BY <1>1, <1>5, <2>1, <2>2, ReturnComes
<1>6. ASSUME NEW next \in Names(p), kind[next] # Free, pc' = [pc EXCEPT ![p] = "ilock"],
             ip' = [ip EXCEPT ![p] = next], UNCHANGED why
      PROVE  WayInv'
  <2>1. pc \in [Proc -> Labels] /\ ip \in [Proc -> Inode]
    BY DEF WayInv, CallInv, CleanReturns, TypeOK
  <2>2. pc'[p] = "ilock" /\ ip'[p] = next /\ \A q \in Proc \ {p} : Waits(q)
    BY <1>1, <1>6, <2>1 DEF Waits
  <2>3. (\E k, v : Comes(p, v, k)') \/ Lost(p)'
    <3>1. CASE Garbled(p)
      <4>1. tweak = 2 /\ target[ip[p]] >= ADDRS
        BY <3>1 DEF Garbled
      <4>2. n = 1 /\ visited[p] # <<>> /\ omode[p].follow
        <5>1. n <= 1 /\ tweak \notin Uncounted /\ omode[p].follow
          BY <1>2, <1>3, <4>1 DEF Comes, Limits, Uncounted
        <5>2. visited[p] = <<>> => n = 0
          BY <1>2, <5>1, VisitedSays
        <5> QED BY <1>3, <5>1, <5>2
      <4>3. target[start[p]] = target[ip[p]]
        <5>1. 0 \in 0 .. n - 1 /\ 0 + 1 = n
          BY <4>2
        <5> QED BY <1>3, <5>1 DEF IsWay
      <4>4. Lost(p)'
        BY <1>1, <1>4, <1>6, <2>2, <4>1, <4>2, <4>3 DEF Lost
      <4> QED BY <4>4
    <3>2. CASE ~Garbled(p)
      <4>1. next = target[ip[p]]
        BY <3>2 DEF Names
      <4>2. Comes(p, w, n)'
        BY <1>1, <1>2, <1>3, <1>6, <2>2, <4>1 DEF Comes, Trail, Here
      <4> QED BY <4>2
    <3> QED BY <3>1, <3>2
  <2>4. Justified(p)'
    BY <2>2, <2>3 DEF Justified
  <2>5. WayTypes'
    BY <1>1 DEF WayInv, WayTypes
  <2> QED BY <1>1, <2>2, <2>4, <2>5, WayKept, NothingGrows
<1> QED BY <1>5, <1>6 DEF NextName, Goto, Get

\* After the loop: what ip has come to is no link, or no more link was to be followed.
LEMMA OpenedComes ==
  ASSUME SymlinkAssumption, WayInv, NEW p \in Proc, Opened(p), CallInv'
  PROVE  WayInv'
<1>1. /\ pc[p] = "open" /\ ~Refused(p)
      /\ omode[p].follow => kind[ip[p]] # "link" \/ (tweak = 2 /\ visited[p] # <<>>)
      /\ pc' = [pc EXCEPT ![p] = "done"] /\ why' = [why EXCEPT ![p] = "opened"]
      /\ UNCHANGED <<tweak, kind, target, ip, start, visited, omode>>
  BY DEF Opened, EndOfLoop, Follows, IsLink, Return, Goto, disk
<1>2. ip[p] \in Inode /\ kind[ip[p]] \in Made \cup {Free}
  <2>1. ip[p] \in Inode /\ kind[ip[p]] \in {"file", "dir", "fresh", "link", Free} /\ HasLock(p)
    BY <1>1 DEF WayInv, CallInv, CleanReturns, TypeOK, HasLock
  <2>2. lock[ip[p]] = p
    BY <2>1 DEF WayInv, CallInv, CleanReturns
  <2>3. ASSUME kind[ip[p]] = "fresh"
        PROVE  FALSE
    <3>1. PICK q \in Proc : pc[q] = "writei" /\ ip[q] = ip[p]
      BY <2>1, <2>3 DEF WayInv, CallInv
    <3>2. lock[ip[p]] = q
      BY <2>1, <3>1 DEF WayInv, CallInv, CleanReturns, HasLock
    <3> QED BY <1>1, <2>2, <3>1, <3>2
  <2> QED BY <2>1, <2>3 DEF Made
<1>3. (\E n, w : Comes(p, w, n)) \/ Lost(p)
  BY <1>1 DEF WayInv, Justified, Opening
<1>4. CASE Lost(p)
  <2>1. start[p] \in Inode /\ target[start[p]] \in Nat /\ ADDRS \in Nat
    BY DEF WayInv, WayTypes, CallInv, CleanReturns, TypeOK, SymlinkAssumption
  <2>2. OpensNext(kind, target, start[p], ip[p])
    BY <1>4, <2>1 DEF Lost, OpensNext, Made
  <2>3. Answer(kind, target, tweak, "opened", start[p], ip[p], omode[p].follow) /\ "opened" \in Endings
    BY <1>4, <2>2 DEF Answer, Lost, Endings
  <2> QED BY <1>1, <2>3, ReturnComes
<1>5. ASSUME NEW n, NEW w, Comes(p, w, n)
      PROVE  WayInv'
  <2>1. IsWay(kind, target, w, n, start[p], ip[p]) /\ n \in Nat /\ kind[ip[p]] \in Made /\ Limits(tweak, w, n)
    BY <1>1, <1>2, <1>5 DEF Comes, Trail, Here, IsWay
  <2>2. ASSUME omode[p].follow, tweak # 2
        PROVE  Opens(kind, target, tweak, start[p], ip[p])
    <3>1. kind[ip[p]] \in Made \ {"link"}
      BY <1>1, <2>1, <2>2
    <3>2. tweak = 7 /\ n > 0 => kind[ip[p]] # "dir"
      <4>1. tweak = 7 => (visited[p] = <<>>) = (n = 0)
        BY <1>5 DEF Comes, Uncounted
      <4> QED BY <1>1, <2>1, <4>1 DEF Refused
    <3> QED BY <2>1, <3>1, <3>2 DEF Opens
  <2>3. ASSUME omode[p].follow, tweak = 2
        PROVE  OpensNext(kind, target, start[p], ip[p])
    <3>1. n <= 1
      BY <2>1, <2>3 DEF Limits
    <3>2. CASE n = 0
      <4>1. visited[p] = <<>>
        BY <1>5, <2>3, <3>2 DEF Comes, Uncounted
      <4>2. kind[ip[p]] # "link" /\ start[p] = ip[p]
        BY <1>1, <2>1, <2>3, <3>2, <4>1 DEF IsWay
      <4> QED BY <1>2, <2>1, <4>2 DEF OpensNext
    <3>3. CASE n = 1
      <4>1. 0 \in 0 .. n - 1 /\ 0 + 1 = n /\ 0 \in 0 .. n
        BY <3>3
      <4>2. start[p] \in Inode /\ kind[start[p]] = "link" /\ ip[p] = target[start[p]]
        BY <2>1, <4>1 DEF IsWay
      <4> QED BY <4>2 DEF OpensNext, Made
    <3> QED BY <2>1, <3>1, <3>2, <3>3
  <2>4. ASSUME ~omode[p].follow
        PROVE  ip[p] = start[p]
    BY <1>5, <2>1, <2>4 DEF Comes, IsWay
  <2>5. Answer(kind, target, tweak, "opened", start[p], ip[p], omode[p].follow) /\ "opened" \in Endings
    BY <2>2, <2>3, <2>4 DEF Answer, Endings
  <2> QED BY <1>1, <2>5, ReturnComes
<1> QED BY <1>3, <1>4, <1>5

\* A directory is refused, and readlink answers: nothing is said of where the way ends.
LEMMA OthersCome ==
  ASSUME SymlinkAssumption, WayInv, NEW p \in Proc, RefuseDir(p) \/ Readlink(p), CallInv'
  PROVE  WayInv'
<1>1. ASSUME NEW reason \in {"dir", "read", "not a link"}, NEW from, Fail(p, from, reason)
      PROVE  WayInv'
  <2>1. /\ pc' = [pc EXCEPT ![p] = "done"] /\ why' = [why EXCEPT ![p] = reason] /\ reason \in Endings
        /\ UNCHANGED <<tweak, kind, target, ip, start, visited, omode>>
    BY <1>1 DEF Fail, Return, Goto, disk, Endings
  <2>2. Answer(kind, target, tweak, reason, start[p], ip[p], omode[p].follow)
    BY DEF Answer
  <2> QED BY <2>1, <2>2, ReturnComes
<1> QED BY <1>1 DEF RefuseDir, Readlink

\* sys_symlink answers nothing that OpensRight is about.
LEMMA SymlinkAnswers ==
  ASSUME SymlinkAssumption, WayInv, NEW p \in Proc, NEW to \in {"create", "writei", "done"}, pc' = [pc EXCEPT ![p] = to],
         to = "done" => why'[p] \in {"refused", "created"}, \A q \in Proc \ {p} : ip'[q] = ip[q] /\ why'[q] = why[q],
         UNCHANGED <<tweak, omode, start, visited>>, Grows(kind, target, kind', target'), CallInv'
  PROVE  WayInv'
<1>1. pc \in [Proc -> Labels]
  BY DEF WayInv, CallInv, CleanReturns, TypeOK
<1>2. pc'[p] = to /\ WayTypes' /\ \A q \in Proc \ {p} : Waits(q)
  BY <1>1 DEF WayInv, WayTypes, Waits
<1>3. Justified(p)'
  BY <1>2 DEF Justified, Opening, Told, Answer
<1> QED BY <1>2, <1>3, WayKept

\* A link is created where nothing was, and its target is written when no call can look into it.
LEMMA SymlinkComes ==
  ASSUME SymlinkAssumption, WayInv, NEW p \in Proc, StartSymlink(p) \/ sys_symlink(p), CallInv'
  PROVE  WayInv'
<1>1. /\ kind \in [Inode -> {"file", "dir", "fresh", "link", Free}] /\ target \in [Inode -> Inode]
      /\ ip \in [Proc -> Inode] /\ why \in [Proc -> Endings]
  BY DEF WayInv, CallInv, CleanReturns, TypeOK
<1>2. CASE StartSymlink(p)
  <2>1. pc' = [pc EXCEPT ![p] = "create"] /\ UNCHANGED <<tweak, kind, target, ip, why, omode, start, visited>>
    BY <1>2 DEF StartSymlink, Goto, disk
  <2> QED BY <2>1, SymlinkAnswers, NothingGrows
<1>3. CASE Create(p)
  <2>1. UNCHANGED <<tweak, omode, start, visited>>
    BY <1>3 DEF Create
  <2>2. CASE Return(p, "create", "refused") /\ UNCHANGED <<disk, lock, ref, ip>>
    <3>1. pc' = [pc EXCEPT ![p] = "done"] /\ why' = [why EXCEPT ![p] = "refused"] /\ UNCHANGED <<kind, target, ip>>
      BY <2>2 DEF Return, Goto, disk
    <3> QED BY <1>1, <2>1, <3>1, SymlinkAnswers, NothingGrows
  <2>3. ASSUME NEW i \in Inode, NEW j \in Inode, kind[i] = Free, pc' = [pc EXCEPT ![p] = "writei"],
               ip' = [ip EXCEPT ![p] = i], kind' = [kind EXCEPT ![i] = "fresh"], target' = [target EXCEPT ![i] = j],
               UNCHANGED why
        PROVE  WayInv'
    <3>1. Grows(kind, target, kind', target')
      BY <1>1, <2>3 DEF Grows, Made, Free
    <3> QED BY <1>1, <2>1, <2>3, <3>1, SymlinkAnswers
  <2> QED BY <1>3, <2>2, <2>3 DEF Create, Goto, Get, Named
<1>4. CASE Writei(p)
  <2>1. PICK reason \in {"created", "refused"} :
          /\ pc[p] = "writei" /\ pc' = [pc EXCEPT ![p] = "done"] /\ why' = [why EXCEPT ![p] = reason]
          /\ kind' = [kind EXCEPT ![ip[p]] = "link"] /\ target' \in {target, [target EXCEPT ![ip[p]] = 0]}
          /\ UNCHANGED <<tweak, ip, omode, start, visited>>
    BY <1>4 DEF Writei, Return, Goto
  <2>2. kind[ip[p]] = "fresh"
    BY <1>1, <2>1 DEF WayInv, CallInv
  <2>3. Grows(kind, target, kind', target')
    <3>1. \A i \in Inode \ {ip[p]} : kind'[i] = kind[i] /\ target'[i] = target[i]
      BY <1>1, <2>1
    <3>2. kind'[ip[p]] = "link"
      BY <1>1, <2>1
    <3> QED BY <2>2, <3>1, <3>2 DEF Grows, Made, Free
  <2>4. why'[p] \in {"refused", "created"} /\ \A q \in Proc \ {p} : ip'[q] = ip[q] /\ why'[q] = why[q]
    BY <1>1, <2>1
  <2> QED BY <2>1, <2>3, <2>4, SymlinkAnswers
<1> QED BY <1>2, <1>3, <1>4 DEF sys_symlink

\* At first nobody is on a way.
LEMMA InitWay ==
  ASSUME SymlinkAssumption, Init
  PROVE  WayInv
<1>1. WayTypes
  BY DEF Init, WayTypes, Mode, SymlinkAssumption
<1>2. \A p \in Proc : pc[p] = "idle" /\ visited[p] = <<>>
  BY DEF Init
<1> QED BY <1>1, <1>2, InitInv DEF WayInv, Justified, Opening

\* Each step of the system calls keeps the invariant of the ways.
LEMMA StepWay ==
  ASSUME SymlinkAssumption, WayInv, [LinkNext]_linkVars
  PROVE  WayInv'
<1>1. CallInv'
  BY StepInv DEF WayInv
<1>2. CASE UNCHANGED linkVars
  <2>1. UNCHANGED <<kind, target, tweak>> /\ \A q \in Proc : Waits(q)
    BY <1>2 DEF Waits, linkVars, disk
  <2>2. WayTypes'
    BY <1>2 DEF WayInv, WayTypes, linkVars
  <2> QED BY <1>1, <2>1, <2>2, WaitingStays, NothingGrows DEF WayInv
<1>3. CASE NoCall
  BY <1>2, <1>3 DEF NoCall
<1>4. ASSUME NEW p \in Creator, StartSymlink(p)
      PROVE  WayInv'
  BY <1>1, <1>4, SymlinkComes DEF SymlinkAssumption
<1>5. ASSUME NEW p \in Proc, Start(p) \/ Syscall(p)
      PROVE  WayInv'
  <2>1. CASE Start(p)
    BY <1>1, <2>1, StartComes
  <2>2. CASE sys_open(p)
    BY <1>1, <2>2, IlockComes, RefuseComes, FollowComes, NextComes, OpenedComes, OthersCome DEF sys_open
  <2>3. CASE sys_symlink(p)
    BY <1>1, <2>3, SymlinkComes
  <2> QED BY <1>5, <2>1, <2>2, <2>3 DEF Syscall
<1> QED BY <1>2, <1>3, <1>4, <1>5 DEF LinkNext

\* What a justified answer says of the links: the parts of OpensRight.
LEMMA OpenedRight ==
  ASSUME SymlinkAssumption, Linked, NEW s \in Inode, NEW j, Opens(kind, target, tweak, s, j)
  PROVE  /\ ~Cyclic(s) /\ j = Walk(s)[Links(s)]
         /\ CASE tweak = 1 -> Links(s) <= 1
              [] tweak = 4 -> Links(s) <= DEPTH
              [] tweak = 7 -> Links(s) > 0 => kind[j] # "dir"
              [] tweak = 8 -> Length(s) <= MAXPATH
              [] OTHER     -> TRUE
<1>1. PICK n, w : /\ IsWay(kind, target, w, n, s, j) /\ Limits(tweak, w, n) /\ kind[j] \in Made \ {"link"}
                  /\ tweak = 7 /\ n > 0 => kind[j] # "dir"
  BY DEF Opens
<1>2. Trail(w, n, s, j)
  BY <1>1 DEF Trail
<1>3. Links(s) = n /\ ~Cyclic(s) /\ Walk(s)[n] = j
  BY <1>1, <1>2, EndOfWay
<1>4. SumTo(w, n) = Length(s)
  <2>1. n <= Links(s)
    BY <1>2, <1>3 DEF Trail, IsWay
  <2> QED BY <1>2, <1>3, <2>1, WaySums
<1> QED BY <1>1, <1>3, <1>4 DEF Limits

\* A way of n links bounds what the reference definitions count: as many links, or a cycle.
LEMMA OthersRight ==
  ASSUME SymlinkAssumption, Linked, NEW s, NEW n, NEW w, NEW j, IsWay(kind, target, w, n, s, j)
  PROVE  /\ s \in Inode /\ n \in Nat /\ MaxLinks \in Nat \ {0} /\ Links(s) \in Nat
         /\ IF n <= MaxLinks + 1 THEN n <= Links(s) ELSE Cyclic(s)
         /\ Distinct(w, n) => n <= Links(s)
         /\ Cyclic(s) \/ SumTo(w, n) <= Length(s)
<1>1. s \in Inode /\ n \in Nat /\ Trail(w, n, s, j)
  BY DEF Trail, IsWay
<1>2. MaxLinks \in Nat \ {0} /\ Links(s) \in Nat
  BY <1>1, WalkFacts, LinksFacts
<1>3. IF n <= MaxLinks + 1 THEN n <= Links(s) ELSE Cyclic(s)
  BY <1>1, WayCounts
<1>4. Distinct(w, n) => n <= MaxLinks
  BY <1>1, DistinctWays
<1>5. Cyclic(s) \/ SumTo(w, n) <= Length(s)
  BY <1>1, <1>3, WaySums
<1> QED BY <1>1, <1>2, <1>3, <1>4, <1>5

\* The invariant of the ways makes every answer right.
LEMMA AnswersRight ==
  ASSUME SymlinkAssumption, WayInv
  PROVE  OpensRight
<1> SUFFICES ASSUME NEW p \in Proc, pc[p] = "done"
             PROVE  LET s == start[p]
                        n == Links(s)
                    IN  /\ why[p] = "opened" /\ omode[p].follow /\ tweak # 2 =>
                             /\ ~Cyclic(s) /\ ip[p] = Walk(s)[n]
                             /\ CASE tweak = 1 -> n <= 1
                                  [] tweak = 4 -> n <= DEPTH
                                  [] tweak = 7 -> n > 0 => kind[ip[p]] # "dir"
                                  [] tweak = 8 -> Length(s) <= MAXPATH
                                  [] OTHER     -> TRUE
                        /\ why[p] = "opened" /\ omode[p].follow /\ tweak = 2 /\ (kind[s] = "link" => target[s] < ADDRS) =>
                             ip[p] = Walk(s)[1]
                        /\ why[p] = "opened" /\ ~omode[p].follow => ip[p] = s
                        /\ why[p] = "chain" => n > 1
                        /\ why[p] = "cycle" => Cyclic(s)
                        /\ why[p] = "depth" => n > DEPTH
                        /\ why[p] = "long" => Cyclic(s) \/ Length(s) > MAXPATH
                        /\ why[p] = "dangling" => kind[s] = "link"
  BY DEF OpensRight
<1> DEFINE s == start[p]
           j == ip[p]
<1>1. Linked /\ Answer(kind, target, tweak, why[p], s, j, omode[p].follow)
  BY DEF WayInv, CallInv, CleanReturns, TypeOK, Linked, Justified, Told
<1> HIDE DEF s, j
<1>2. ASSUME why[p] = "opened", omode[p].follow, tweak # 2
      PROVE  /\ ~Cyclic(s) /\ j = Walk(s)[Links(s)]
             /\ CASE tweak = 1 -> Links(s) <= 1
                  [] tweak = 4 -> Links(s) <= DEPTH
                  [] tweak = 7 -> Links(s) > 0 => kind[j] # "dir"
                  [] tweak = 8 -> Length(s) <= MAXPATH
                  [] OTHER     -> TRUE
  <2>1. Opens(kind, target, tweak, s, j)
    BY <1>1, <1>2 DEF Answer
  <2>2. s \in Inode
    BY <2>1 DEF Opens, IsWay
  <2> QED BY <1>1, <2>1, <2>2, OpenedRight
<1>3. why[p] = "opened" /\ ~omode[p].follow => j = s
  BY <1>1 DEF Answer
<1>4. why[p] = "chain" => Links(s) > 1
  <2> SUFFICES ASSUME Chains(kind, target, s)
               PROVE  Links(s) > 1
    BY <1>1 DEF Answer
  <2>1. PICK n, w, e : IsWay(kind, target, w, n, s, e) /\ n > 1
    BY DEF Chains
  <2>2. /\ n \in Nat /\ MaxLinks \in Nat \ {0} /\ Links(s) \in Nat
        /\ IF n <= MaxLinks + 1 THEN n <= Links(s) ELSE Cyclic(s)
    BY <1>1, <2>1, OthersRight
  <2> QED BY <2>1, <2>2 DEF Cyclic
<1>5. why[p] = "cycle" => Cyclic(s)
  BY <1>1, TrapsAreCycles DEF Answer
<1>6. why[p] = "depth" => Links(s) > DEPTH
  <2> SUFFICES ASSUME Depths(kind, target, s)
               PROVE  Links(s) > DEPTH
    BY <1>1 DEF Answer
  <2>1. PICK n, w, e : IsWay(kind, target, w, n, s, e) /\ n > DEPTH /\ Distinct(w, n)
    BY DEF Depths
  <2>2. n \in Nat /\ Links(s) \in Nat /\ n <= Links(s)
    BY <1>1, <2>1, OthersRight
  <2> QED BY <2>1, <2>2, NumberFacts
<1>7. why[p] = "long" => Cyclic(s) \/ Length(s) > MAXPATH
  <2> SUFFICES ASSUME Longs(kind, target, s), ~Cyclic(s)
               PROVE  Length(s) > MAXPATH
    BY <1>1 DEF Answer
  <2>1. PICK n, w, e : IsWay(kind, target, w, n, s, e) /\ SumTo(w, n) > MAXPATH
    BY DEF Longs
  <2>2. SumTo(w, n) <= Length(s)
    BY <1>1, <2>1, OthersRight
  <2>3. SumTo(w, n) \in Int /\ Length(s) \in Int
    <3>1. n \in Nat /\ \A k \in 1 .. n : w[k] \in Nat
      <4>1. n \in Nat /\ \A k \in 1 .. n : k \in 0 .. n
        BY <2>1 DEF IsWay
      <4>2. \A k \in 0 .. n : w[k] \in Inode
        BY <2>1 DEF IsWay
      <4> QED BY <4>1, <4>2 DEF SymlinkAssumption
    <3>2. SumTo(w, n) \in Nat
      BY <3>1, SumFacts
    <3>3. s \in Inode
      BY <2>1 DEF IsWay
    <3>4. Links(s) \in Nat /\ Links(s) <= MaxLinks + 1 /\ MaxLinks \in Nat
      BY <1>1, <3>3, LinksFacts, WalkFacts
    <3>5. \A k \in 1 .. Links(s) : Walk(s)[k] \in Nat
      <4>1. \A k \in 1 .. Links(s) : k \in 0 .. MaxLinks + 1
        BY <3>4
      <4>2. \A k \in 0 .. MaxLinks + 1 : Walk(s)[k] \in Inode
        BY <1>1, <3>3, WalkFacts
      <4> QED BY <4>1, <4>2 DEF SymlinkAssumption
    <3>6. Length(s) \in Nat
      <4> DEFINE f == Walk(s)
                 m == Links(s)
      <4>1. m \in Nat /\ \A k \in 1 .. m : f[k] \in Nat
        BY <3>4, <3>5
      <4> HIDE DEF f, m
      <4>2. SumTo(f, m) \in Nat
        BY <4>1, SumFacts
      <4> QED BY <4>2 DEF f, m, Length
    <3> QED BY <3>2, <3>6
  <2> QED BY <2>1, <2>2, <2>3, NumberFacts
<1>8. why[p] = "dangling" => kind[s] = "link"
  BY <1>1 DEF Answer
<1>9. ASSUME why[p] = "opened", omode[p].follow, tweak = 2, kind[s] = "link" => target[s] < ADDRS
      PROVE  j = Walk(s)[1]
  <2>1. s \in Inode /\ j = After(s)
    BY <1>1, <1>9 DEF Answer, OpensNext, After
  <2>2. MaxLinks \in Nat \ {0} /\ Walk(s)[0] = s /\ \A n \in 1 .. MaxLinks + 1 : Walk(s)[n] = After(Walk(s)[n - 1])
    BY <1>1, <2>1, WalkFacts
  <2>3. 1 \in 1 .. MaxLinks + 1 /\ 1 - 1 = 0
    BY <2>2
  <2>4. Walk(s)[1] = After(Walk(s)[1 - 1])
    BY <2>2, <2>3
  <2> QED BY <2>1, <2>2, <2>3, <2>4
<1> QED BY <1>2, <1>3, <1>4, <1>5, <1>6, <1>7, <1>8, <1>9 DEF s, j

\* What sys_open tells its caller is true of the links, whatever chains and circles there are
\* and whoever creates more of them meanwhile.  In tweak 2 that is the file behind one link,
\* or a second link itself, and nothing is said of targets that addrs[] has no room for.
THEOREM AnswersAreTrue == ASSUME SymlinkAssumption PROVE Spec => []OpensRight
<1>1. Init => WayInv
  BY InitWay
<1>2. WayInv /\ [LinkNext]_linkVars => WayInv'
  BY StepWay
<1>3. WayInv => OpensRight
  BY AnswersRight
<1> QED BY <1>1, <1>2, <1>3, PTL DEF Spec
-----------------------------------------------------------------------------
(* The blocks of a file: quotients and remainders. *)

\* Multiplication is monotonic, and a number has one quotient and one remainder.
LEMMA Times ==
  ASSUME NEW a \in Nat, NEW b \in Nat, NEW n \in Nat, a < b
  PROVE  n * a \in Nat /\ n * b \in Nat /\ n * a + n <= n * b
<1>1. PICK d \in Nat : b = a + 1 + d
  <2>1. b - a - 1 \in Nat /\ b = a + 1 + (b - a - 1)
    OBVIOUS
  <2> QED BY <2>1
<1>2. n * b = n * a + n + n * d
  BY <1>1
<1>3. n * d \in Nat /\ n * a \in Nat /\ n * b \in Nat
  OBVIOUS
<1> QED BY <1>2, <1>3

\* Quotient and remainder, as the provers know them.
LEMMA Division ==
  ASSUME NEW n \in Nat \ {0}, NEW x \in Nat
  PROVE  x = n * (x \div n) + (x % n) /\ x \div n \in Nat /\ x % n \in 0 .. n - 1
OBVIOUS

\* A number has one quotient and one remainder.
LEMMA Quotient ==
  ASSUME NEW n \in Nat \ {0}, NEW q \in Nat, NEW r \in 0 .. n - 1, NEW q2 \in Nat, NEW r2 \in 0 .. n - 1,
         n * q + r = n * q2 + r2
  PROVE  q = q2 /\ r = r2
<1>1. ~(q < q2)
  <2> SUFFICES ASSUME q < q2 PROVE FALSE
    OBVIOUS
  <2>1. n * q + n <= n * q2 /\ n * q \in Nat /\ n * q2 \in Nat
    BY Times
  <2> QED BY <2>1
<1>2. ~(q2 < q)
  <2> SUFFICES ASSUME q2 < q PROVE FALSE
    OBVIOUS
  <2>1. n * q2 + n <= n * q /\ n * q \in Nat /\ n * q2 \in Nat
    BY Times
  <2> QED BY <2>1
<1>3. q = q2
  BY <1>1, <1>2
<1>4. n * q = n * q2 /\ n * q \in Nat
  BY <1>3
<1> QED BY <1>3, <1>4

\* A number below n * m has a quotient below m.
LEMMA SmallQuotient ==
  ASSUME NEW n \in Nat \ {0}, NEW m \in Nat, NEW x \in Nat, x < n * m
  PROVE  x \div n < m
<1> DEFINE q == x \div n
<1>1. q \in Nat /\ x = n * q + (x % n) /\ x % n \in 0 .. n - 1
  BY Division
<1> HIDE DEF q
<1>2. CASE m <= q
  <2>1. n * m <= n * q /\ n * m \in Nat /\ n * q \in Nat
    BY <1>1, <1>2, Times
  <2> QED BY <1>1, <2>1
<1> QED BY <1>1, <1>2 DEF q

Kinds == {"direct", "singly", "doubly", "twin", "triply"}
\* How many blocks a part of each kind has, how many slots, and how many levels.
SizeOf(k) == IF k = "direct" THEN NDIRECT ELSE IF k = "singly" THEN Pointers ELSE
                IF k = "doubly" THEN NDINDIRECT ELSE IF k = "twin" THEN 2 * NDINDIRECT
                ELSE NDINDIRECT * Pointers
Width(k) == IF k = "direct" THEN NDIRECT ELSE IF k = "twin" THEN 2 ELSE 1
Levels(k) == IF k = "direct" THEN 1 ELSE IF k = "singly" THEN 2 ELSE IF k = "triply" THEN 4 ELSE 3

\* A part has its size and fits into addrs[], and two parts have nothing in common.
Fits(part) ==
  /\ part.kind \in Kinds /\ part.skipped \in Nat /\ part.size = SizeOf(part.kind)
  /\ part.slot \in Nat /\ part.slot + Width(part.kind) <= NDIRECT + 3
Before(p, q) == /\ p.skipped + p.size <= q.skipped
                /\ p.slot + Width(p.kind) <= q.slot \/ q.slot + Width(q.kind) <= p.slot
Fit(parts) == /\ \A p \in parts : Fits(p)
              /\ \A p, q \in parts : p # q => Before(p, q) \/ Before(q, p)

\* The sizes that bmap() tests for are positive, and an index stays in its block.
LEMMA Counts ==
  ASSUME BmapAssumption
  PROVE  /\ NDIRECT \in Nat \ {0} /\ Pointers \in Nat \ {0} /\ Pointers <= NINDIRECT_16 /\ NINDIRECT_16 \in Nat \ {0}
         /\ NDINDIRECT \in Nat \ {0} /\ NDINDIRECT * Pointers \in Nat \ {0}
<1>1. Pointers \in Nat \ {0} /\ Pointers <= NINDIRECT_16 /\ NINDIRECT_16 \in Nat \ {0}
  BY DEF BmapAssumption, Pointers, NINDIRECT_16
<1>2. \A a, b \in Nat \ {0} : a * b \in Nat \ {0}
  <2> TAKE a, b \in Nat \ {0}
  <2>1. a * 0 + a <= a * b /\ a * b \in Nat /\ a * 0 = 0
    BY Times
  <2> QED BY <2>1
<1>3. NDINDIRECT \in Nat \ {0}
  BY <1>1, <1>2 DEF NDINDIRECT
<1> QED BY <1>1, <1>2, <1>3 DEF BmapAssumption

\* Whether parts fit, as a matter of numbers.
LEMMA PartNumbers ==
  /\ SizeOf("direct") = NDIRECT /\ SizeOf("singly") = Pointers /\ SizeOf("doubly") = NDINDIRECT
  /\ SizeOf("twin") = 2 * NDINDIRECT /\ SizeOf("triply") = NDINDIRECT * Pointers
  /\ Width("direct") = NDIRECT /\ Width("twin") = 2
  /\ Width("singly") = 1 /\ Width("doubly") = 1 /\ Width("triply") = 1
<1>1. /\ SizeOf("direct") = NDIRECT /\ SizeOf("singly") = Pointers /\ SizeOf("doubly") = NDINDIRECT
      /\ SizeOf("twin") = 2 * NDINDIRECT /\ SizeOf("triply") = NDINDIRECT * Pointers
  BY DEF SizeOf
<1> QED BY <1>1 DEF Width

\* Parts of a file fit together if they come one after the other; two or three parts.
LEMMA Fitting ==
  /\ \A a, b : Fits(a) /\ Fits(b) /\ Before(a, b) => Fit({a, b})
  /\ \A a, b, c : Fits(a) /\ Fits(b) /\ Fits(c) /\ Before(a, b) /\ Before(a, c) /\ Before(b, c) => Fit({a, b, c})
<1>1. \A a, b : Fits(a) /\ Fits(b) /\ Before(a, b) => Fit({a, b})
  BY Zenon DEF Fit
<1>2. \A a, b, c : Fits(a) /\ Fits(b) /\ Fits(c) /\ Before(a, b) /\ Before(a, c) /\ Before(b, c) => Fit({a, b, c})
  BY DEF Fit
<1> QED BY <1>1, <1>2

\* The same for four parts.
LEMMA FittingFour ==
  ASSUME NEW a, NEW b, NEW c, NEW d, Fits(a), Fits(b), Fits(c), Fits(d), Before(a, b), Before(a, c), Before(a, d),
         Before(b, c), Before(b, d), Before(c, d)
  PROVE  Fit({a, b, c, d})
<1>1. ASSUME NEW p \in {a, b, c, d}, NEW q \in {a, b, c, d}, p # q
      PROVE  Before(p, q) \/ Before(q, p)
  <2>1. CASE p = a
    BY <1>1, <2>1
  <2>2. CASE p = b
    BY <1>1, <2>2
  <2>3. CASE p = c
    BY <1>1, <2>3
  <2>4. CASE p = d
    BY <1>1, <2>4
  <2> QED BY <2>1, <2>2, <2>3, <2>4
<1> QED BY <1>1 DEF Fit

\* What a part of each kind has of blocks and of slots, for P pointers in an index block.
Sized(P, D, T) ==
  /\ NDIRECT \in Nat \ {0} /\ P \in Nat \ {0} /\ D \in Nat \ {0} /\ T \in Nat \ {0}
  /\ SizeOf("direct") = NDIRECT /\ SizeOf("singly") = P /\ SizeOf("doubly") = D
  /\ SizeOf("twin") = 2 * D /\ SizeOf("triply") = T
  /\ Width("direct") = NDIRECT /\ Width("twin") = 2
  /\ Width("singly") = 1 /\ Width("doubly") = 1 /\ Width("triply") = 1

\* The layout of the README: direct blocks, a singly and a doubly indirect tree.
LEMMA FitDoubly ==
  ASSUME NEW P, NEW D, NEW T, Sized(P, D, T)
  PROVE  Fit({Part("direct", 0, NDIRECT, 0), Part("singly", NDIRECT, P, NDIRECT), Part("doubly", NDIRECT + P, D, NDIRECT + 1)})
<1>1. Fits(Part("direct", 0, NDIRECT, 0))
  BY DEF Sized, Fits, Part, Kinds
<1>2. Fits(Part("singly", NDIRECT, P, NDIRECT))
  BY DEF Sized, Fits, Part, Kinds
<1>3. Fits(Part("doubly", NDIRECT + P, D, NDIRECT + 1))
  BY DEF Sized, Fits, Part, Kinds
<1>4. Before(Part("direct", 0, NDIRECT, 0), Part("singly", NDIRECT, P, NDIRECT))
  BY DEF Sized, Before, Part
<1>5. Before(Part("direct", 0, NDIRECT, 0), Part("doubly", NDIRECT + P, D, NDIRECT + 1))
  BY DEF Sized, Before, Part
<1>6. Before(Part("singly", NDIRECT, P, NDIRECT), Part("doubly", NDIRECT + P, D, NDIRECT + 1))
  BY DEF Sized, Before, Part
<1> QED BY <1>1, <1>2, <1>3, <1>4, <1>5, <1>6, Fitting

\* Tweak 1: two singly indirect blocks.
LEMMA FitSingly ==
  ASSUME NEW P, NEW D, NEW T, Sized(P, D, T)
  PROVE  Fit({Part("direct", 0, NDIRECT, 0), Part("singly", NDIRECT, P, NDIRECT), Part("singly", NDIRECT + P, P, NDIRECT + 1)})
<1>1. Fits(Part("direct", 0, NDIRECT, 0))
  BY DEF Sized, Fits, Part, Kinds
<1>2. Fits(Part("singly", NDIRECT, P, NDIRECT))
  BY DEF Sized, Fits, Part, Kinds
<1>3. Fits(Part("singly", NDIRECT + P, P, NDIRECT + 1))
  BY DEF Sized, Fits, Part, Kinds
<1>4. Before(Part("direct", 0, NDIRECT, 0), Part("singly", NDIRECT, P, NDIRECT))
  BY DEF Sized, Before, Part
<1>5. Before(Part("direct", 0, NDIRECT, 0), Part("singly", NDIRECT + P, P, NDIRECT + 1))
  BY DEF Sized, Before, Part
<1>6. Before(Part("singly", NDIRECT, P, NDIRECT), Part("singly", NDIRECT + P, P, NDIRECT + 1))
  BY DEF Sized, Before, Part
<1> QED BY <1>1, <1>2, <1>3, <1>4, <1>5, <1>6, Fitting

\* Tweak 2: a triply indirect tree.
LEMMA FitTriply ==
  ASSUME NEW P, NEW D, NEW T, Sized(P, D, T)
  PROVE  Fit({Part("direct", 0, NDIRECT, 0), Part("singly", NDIRECT, P, NDIRECT), Part("doubly", NDIRECT + P, D, NDIRECT + 1), Part("triply", NDIRECT + P + D, T, NDIRECT + 2)})
<1>1. Fits(Part("direct", 0, NDIRECT, 0))
  BY DEF Sized, Fits, Part, Kinds
<1>2. Fits(Part("singly", NDIRECT, P, NDIRECT))
  BY DEF Sized, Fits, Part, Kinds
<1>3. Fits(Part("doubly", NDIRECT + P, D, NDIRECT + 1))
  BY DEF Sized, Fits, Part, Kinds
<1>4. Fits(Part("triply", NDIRECT + P + D, T, NDIRECT + 2))
  BY DEF Sized, Fits, Part, Kinds
<1>5. Before(Part("direct", 0, NDIRECT, 0), Part("singly", NDIRECT, P, NDIRECT))
  BY DEF Sized, Before, Part
<1>6. Before(Part("direct", 0, NDIRECT, 0), Part("doubly", NDIRECT + P, D, NDIRECT + 1))
  BY DEF Sized, Before, Part
<1>7. Before(Part("direct", 0, NDIRECT, 0), Part("triply", NDIRECT + P + D, T, NDIRECT + 2))
  BY DEF Sized, Before, Part
<1>8. Before(Part("singly", NDIRECT, P, NDIRECT), Part("doubly", NDIRECT + P, D, NDIRECT + 1))
  BY DEF Sized, Before, Part
<1>9. Before(Part("singly", NDIRECT, P, NDIRECT), Part("triply", NDIRECT + P + D, T, NDIRECT + 2))
  BY DEF Sized, Before, Part
<1>10. Before(Part("doubly", NDIRECT + P, D, NDIRECT + 1), Part("triply", NDIRECT + P + D, T, NDIRECT + 2))
  BY DEF Sized, Before, Part
<1> QED BY <1>1, <1>2, <1>3, <1>4, <1>5, <1>6, <1>7, <1>8, <1>9, <1>10, FittingFour

\* Tweak 4: two doubly indirect trees.
LEMMA FitTwo ==
  ASSUME NEW P, NEW D, NEW T, Sized(P, D, T)
  PROVE  Fit({Part("direct", 0, NDIRECT, 0), Part("singly", NDIRECT, P, NDIRECT), Part("twin", NDIRECT + P, 2 * D, NDIRECT + 1)})
<1>1. Fits(Part("direct", 0, NDIRECT, 0))
  BY DEF Sized, Fits, Part, Kinds
<1>2. Fits(Part("singly", NDIRECT, P, NDIRECT))
  BY DEF Sized, Fits, Part, Kinds
<1>3. Fits(Part("twin", NDIRECT + P, 2 * D, NDIRECT + 1))
  BY DEF Sized, Fits, Part, Kinds
<1>4. Before(Part("direct", 0, NDIRECT, 0), Part("singly", NDIRECT, P, NDIRECT))
  BY DEF Sized, Before, Part
<1>5. Before(Part("direct", 0, NDIRECT, 0), Part("twin", NDIRECT + P, 2 * D, NDIRECT + 1))
  BY DEF Sized, Before, Part
<1>6. Before(Part("singly", NDIRECT, P, NDIRECT), Part("twin", NDIRECT + P, 2 * D, NDIRECT + 1))
  BY DEF Sized, Before, Part
<1> QED BY <1>1, <1>2, <1>3, <1>4, <1>5, <1>6, Fitting

\* Tweak 7: the slot before the doubly indirect tree is reserved.
LEMMA FitLast ==
  ASSUME NEW P, NEW D, NEW T, Sized(P, D, T)
  PROVE  Fit({Part("direct", 0, NDIRECT, 0), Part("singly", NDIRECT, P, NDIRECT), Part("doubly", NDIRECT + P, D, NDIRECT + 2)})
<1>1. Fits(Part("direct", 0, NDIRECT, 0))
  BY DEF Sized, Fits, Part, Kinds
<1>2. Fits(Part("singly", NDIRECT, P, NDIRECT))
  BY DEF Sized, Fits, Part, Kinds
<1>3. Fits(Part("doubly", NDIRECT + P, D, NDIRECT + 2))
  BY DEF Sized, Fits, Part, Kinds
<1>4. Before(Part("direct", 0, NDIRECT, 0), Part("singly", NDIRECT, P, NDIRECT))
  BY DEF Sized, Before, Part
<1>5. Before(Part("direct", 0, NDIRECT, 0), Part("doubly", NDIRECT + P, D, NDIRECT + 2))
  BY DEF Sized, Before, Part
<1>6. Before(Part("singly", NDIRECT, P, NDIRECT), Part("doubly", NDIRECT + P, D, NDIRECT + 2))
  BY DEF Sized, Before, Part
<1> QED BY <1>1, <1>2, <1>3, <1>4, <1>5, <1>6, Fitting

\* Tweak 3: no singly indirect block.
LEMMA FitThird ==
  ASSUME NEW P, NEW D, NEW T, Sized(P, D, T)
  PROVE  Fit({Part("direct", 0, NDIRECT, 0), Part("doubly", NDIRECT, D, NDIRECT)})
<1>1. Fits(Part("direct", 0, NDIRECT, 0))
  BY DEF Sized, Fits, Part, Kinds
<1>2. Fits(Part("doubly", NDIRECT, D, NDIRECT))
  BY DEF Sized, Fits, Part, Kinds
<1>3. Before(Part("direct", 0, NDIRECT, 0), Part("doubly", NDIRECT, D, NDIRECT))
  BY DEF Sized, Before, Part
<1> QED BY <1>1, <1>2, <1>3, Fitting

\* Tweak 5: the trees come before the direct blocks.
LEMMA FitReversed ==
  ASSUME NEW P, NEW D, NEW T, Sized(P, D, T)
  PROVE  Fit({Part("doubly", 0, D, 0), Part("singly", D, P, 1), Part("direct", D + P, NDIRECT, 2)})
<1>1. Fits(Part("doubly", 0, D, 0))
  BY DEF Sized, Fits, Part, Kinds
<1>2. Fits(Part("singly", D, P, 1))
  BY DEF Sized, Fits, Part, Kinds
<1>3. Fits(Part("direct", D + P, NDIRECT, 2))
  BY DEF Sized, Fits, Part, Kinds
<1>4. Before(Part("doubly", 0, D, 0), Part("singly", D, P, 1))
  BY DEF Sized, Before, Part
<1>5. Before(Part("doubly", 0, D, 0), Part("direct", D + P, NDIRECT, 2))
  BY DEF Sized, Before, Part
<1>6. Before(Part("singly", D, P, 1), Part("direct", D + P, NDIRECT, 2))
  BY DEF Sized, Before, Part
<1> QED BY <1>1, <1>2, <1>3, <1>4, <1>5, <1>6, Fitting


\* The parts of each layout, whose numbers and slots are their own.
LEMMA PartsFit ==
  ASSUME BmapAssumption, layout \in Layouts
  PROVE  Fit(Parts)
<1>0. Sized(Pointers, NDINDIRECT, NDINDIRECT * Pointers)
  BY PartNumbers, Counts DEF Sized
<1>1. CASE layout \in {0, 6, 8, 9, 10}
  <2>1. Parts = DirectAndOne \cup {Two(Doubled, NDIRECT + 1)}
    BY <1>1, SMT DEF Parts
  <2>2. Parts = {Part("direct", 0, NDIRECT, 0), Part("singly", NDIRECT, Pointers, NDIRECT), Part("doubly", NDIRECT + Pointers, NDINDIRECT, NDIRECT + 1)}
    BY <2>1 DEF DirectAndOne, Direct, One, Two, TwoTrees, Three, Doubled
  <2> QED BY <1>0, <2>2, FitDoubly
<1>2. CASE layout = 1
  <2>1. Parts = DirectAndOne \cup {One(Doubled, NDIRECT + 1)}
    BY <1>2, SMT DEF Parts
  <2>2. Parts = {Part("direct", 0, NDIRECT, 0), Part("singly", NDIRECT, Pointers, NDIRECT), Part("singly", NDIRECT + Pointers, Pointers, NDIRECT + 1)}
    BY <2>1 DEF DirectAndOne, Direct, One, Two, TwoTrees, Three, Doubled
  <2> QED BY <1>0, <2>2, FitSingly
<1>3. CASE layout = 2
  <2>1. Parts = DirectAndOne \cup {Two(Doubled, NDIRECT + 1), Three(Doubled + NDINDIRECT, NDIRECT + 2)}
    BY <1>3, SMT DEF Parts
  <2>2. Parts = {Part("direct", 0, NDIRECT, 0), Part("singly", NDIRECT, Pointers, NDIRECT), Part("doubly", NDIRECT + Pointers, NDINDIRECT, NDIRECT + 1), Part("triply", NDIRECT + Pointers + NDINDIRECT, NDINDIRECT * Pointers, NDIRECT + 2)}
    BY <2>1 DEF DirectAndOne, Direct, One, Two, TwoTrees, Three, Doubled
  <2> QED BY <1>0, <2>2, FitTriply
<1>4. CASE layout = 4
  <2>1. Parts = DirectAndOne \cup {TwoTrees(Doubled, NDIRECT + 1)}
    BY <1>4, SMT DEF Parts
  <2>2. Parts = {Part("direct", 0, NDIRECT, 0), Part("singly", NDIRECT, Pointers, NDIRECT), Part("twin", NDIRECT + Pointers, 2 * NDINDIRECT, NDIRECT + 1)}
    BY <2>1 DEF DirectAndOne, Direct, One, Two, TwoTrees, Three, Doubled
  <2> QED BY <1>0, <2>2, FitTwo
<1>5. CASE layout = 7
  <2>1. Parts = DirectAndOne \cup {Two(Doubled, NDIRECT + 2)}
    BY <1>5, SMT DEF Parts
  <2>2. Parts = {Part("direct", 0, NDIRECT, 0), Part("singly", NDIRECT, Pointers, NDIRECT), Part("doubly", NDIRECT + Pointers, NDINDIRECT, NDIRECT + 2)}
    BY <2>1 DEF DirectAndOne, Direct, One, Two, TwoTrees, Three, Doubled
  <2> QED BY <1>0, <2>2, FitLast
<1>6. CASE layout = 3
  <2>1. Parts = {Direct(0, 0), Two(NDIRECT, NDIRECT)}
    BY <1>6, SMT DEF Parts
  <2>2. Parts = {Part("direct", 0, NDIRECT, 0), Part("doubly", NDIRECT, NDINDIRECT, NDIRECT)}
    BY <2>1 DEF DirectAndOne, Direct, One, Two, TwoTrees, Three, Doubled
  <2> QED BY <1>0, <2>2, FitThird
<1>7. CASE layout = 5
  <2>1. Parts = {Two(0, 0), One(NDINDIRECT, 1), Direct(NDINDIRECT + Pointers, 2)}
    BY <1>7, SMT DEF Parts
  <2>2. Parts = {Part("doubly", 0, NDINDIRECT, 0), Part("singly", NDINDIRECT, Pointers, 1), Part("direct", NDINDIRECT + Pointers, NDIRECT, 2)}
    BY <2>1 DEF DirectAndOne, Direct, One, Two, TwoTrees, Three, Doubled
  <2> QED BY <1>0, <2>2, FitReversed
<1> QED BY <1>1, <1>2, <1>3, <1>4, <1>5, <1>6, <1>7 DEF Layouts

\* A block number and a slot belong to one part.
LEMMA OwnPart ==
  ASSUME BmapAssumption, layout \in Layouts, NEW part \in Parts, NEW other \in Parts,
         NEW bn \in Numbers(part), bn \in Numbers(other)
  PROVE  part = other
<1>1. SizeOf(part.kind) \in Nat /\ SizeOf(other.kind) \in Nat
  BY Counts DEF SizeOf
<1> QED BY <1>1, PartsFit DEF Fit, Fits, Before, Numbers

\* A slot of addrs[] belongs to one part of the file.
LEMMA OwnSlot ==
  ASSUME BmapAssumption, layout \in Layouts, NEW part \in Parts, NEW other \in Parts,
         NEW s \in Slots(part), s \in Slots(other)
  PROVE  part = other
<1>1. Width(part.kind) \in Nat /\ Width(other.kind) \in Nat
  BY Counts DEF Width
<1>2. \A p \in Parts : Slots(p) = p.slot .. p.slot + Width(p.kind) - 1
  BY Counts, PartsFit DEF Fit, Fits, Slots, Width, Kinds
<1> QED BY <1>1, <1>2, PartsFit DEF Fit, Fits, Before

\* What is known of a part, in numbers.
LEMMA PartFacts ==
  ASSUME BmapAssumption, layout \in Layouts, NEW part \in Parts
  PROVE  /\ part.kind \in Kinds /\ part.skipped \in Nat /\ part.slot \in Nat /\ part.size = SizeOf(part.kind) /\ part.size \in Nat \ {0}
         /\ Slots(part) = part.slot .. part.slot + Width(part.kind) - 1 /\ Slots(part) \subseteq Slot
<1>1. Fits(part)
  BY PartsFit DEF Fit
<1>2. part.size \in Nat \ {0}
  BY <1>1, Counts, PartNumbers DEF Fits, Kinds
<1>3. Slots(part) = part.slot .. part.slot + Width(part.kind) - 1
  BY <1>1, Counts, PartNumbers DEF Fits, Slots, Kinds
<1>4. Width(part.kind) \in Nat
  BY <1>1, Counts, PartNumbers DEF Fits, Kinds
<1> QED BY <1>1, <1>2, <1>3, <1>4, Counts DEF Fits, Slot

\* The two indices of a doubly indirect tree are inside their blocks and give the number back.
LEMMA Digits ==
  ASSUME NEW n \in Nat \ {0}, NEW m \in Nat \ {0}, NEW x \in 0 .. n * m - 1
  PROVE  x \div n \in 0 .. m - 1 /\ x % n \in 0 .. n - 1 /\ x = n * (x \div n) + (x % n)
<1>1. n * m \in Nat
  BY Times
<1>2. x \in Nat /\ x < n * m
  BY <1>1
<1>3. x = n * (x \div n) + (x % n) /\ x \div n \in Nat /\ x % n \in 0 .. n - 1
  BY <1>2, Division
<1>4. x \div n < m
  BY <1>2, SmallQuotient
<1> QED BY <1>3, <1>4

\* The first index of a triply indirect tree, and what is left for the other two.
LEMMA Triples ==
  ASSUME NEW n \in Nat \ {0}, NEW x \in 0 .. (n * n) * n - 1
  PROVE  /\ x \div (n * n) \in 0 .. n - 1 /\ x % (n * n) \in 0 .. n * n - 1 /\ x = (n * n) * (x \div (n * n)) + (x % (n * n))
         /\ x % n = (x % (n * n)) % n
<1> DEFINE m == n * n
           q == x \div m
           r == x % m
<1>1. m \in Nat \ {0}
  <2>1. n * 0 + n <= n * n /\ n * n \in Nat /\ n * 0 = 0
    BY Times
  <2> QED BY <2>1
<1>2. q \in 0 .. n - 1 /\ r \in 0 .. m - 1 /\ x = m * q + r /\ x \in Nat
  <2>1. x \in 0 .. m * n - 1
    OBVIOUS
  <2>2. m * n \in Nat
    BY <1>1
  <2> HIDE DEF m
  <2>3. q \in 0 .. n - 1 /\ r \in 0 .. m - 1 /\ x = m * q + r
    BY <1>1, <2>1, Digits
  <2> QED BY <2>1, <2>2, <2>3
<1>3. r \in Nat
  BY <1>1, <1>2
<1>4. r = n * (r \div n) + (r % n) /\ r \div n \in Nat /\ r % n \in 0 .. n - 1
  <2> HIDE DEF r
  <2> QED BY <1>3, Division
<1>5. x = n * (x \div n) + (x % n) /\ x \div n \in Nat /\ x % n \in 0 .. n - 1
  BY <1>2, Division
<1>6. x = n * (n * q + (r \div n)) + (r % n) /\ n * q + (r \div n) \in Nat
  <2> DEFINE d == r \div n
             e == r % n
  <2>1. x = (n * n) * q + (n * d + e) /\ q \in Nat /\ d \in Nat /\ e \in Nat
    BY <1>2, <1>4
  <2> HIDE DEF q, d, e
  <2>2. (n * n) * q = n * (n * q) /\ n * (n * q + d) = n * (n * q) + n * d /\ n * q + d \in Nat
    BY <2>1
  <2>3. x = n * (n * q + d) + e
    BY <2>1, <2>2
  <2> QED BY <2>2, <2>3 DEF q, d, e
<1>7. x % n = r % n
  <2> DEFINE a == x \div n
             b == n * q + (r \div n)
             e == r % n
             g == x % n
  <2>1. n * a + g = n * b + e /\ a \in Nat /\ b \in Nat /\ e \in 0 .. n - 1 /\ g \in 0 .. n - 1
    BY <1>4, <1>5, <1>6
  <2> HIDE DEF a, b, e, g
  <2>2. g = e
    BY <2>1, Quotient
  <2> QED BY <2>2 DEF e, g
<1> QED BY <1>2, <1>7

\* The way to a block has the levels of its part, begins in one of its slots, and every index is one of a block.
LEMMA WayShape ==
  ASSUME BmapAssumption, layout \in Layouts, NEW part \in Parts, NEW x \in 0 .. part.size - 1
  PROVE  /\ Way(part, x) \in Seq(Nat) /\ Len(Way(part, x)) = Levels(part.kind) /\ Way(part, x)[1] \in Slots(part)
         /\ \A i \in 2 .. Levels(part.kind) : Way(part, x)[i] \in 0 .. Pointers - 1
<1>1. /\ part.kind \in Kinds /\ part.slot \in Nat /\ part.size = SizeOf(part.kind)
      /\ Slots(part) = part.slot .. part.slot + Width(part.kind) - 1 /\ x \in Nat
  BY PartFacts
<1>2. Pointers \in Nat \ {0} /\ NDINDIRECT = Pointers * Pointers /\ NDIRECT \in Nat \ {0} /\ NDINDIRECT \in Nat \ {0}
  BY Counts DEF NDINDIRECT
<1>3. CASE part.kind = "direct"
  <2>1. Way(part, x) = <<part.slot + x>> /\ Levels(part.kind) = 1
    BY <1>3 DEF Way, Levels
  <2>2. x < NDIRECT /\ Width(part.kind) = NDIRECT
    BY <1>1, <1>2, <1>3, PartNumbers
  <2> QED BY <1>1, <1>2, <2>1, <2>2
<1>4. CASE part.kind = "singly"
  <2>1. Way(part, x) = <<part.slot, x>> /\ Levels(part.kind) = 2
    BY <1>4 DEF Way, Levels, Singly
  <2>2. x < Pointers /\ Width(part.kind) = 1
    BY <1>1, <1>2, <1>4, PartNumbers
  <2> QED BY <1>1, <1>2, <2>1, <2>2
<1>5. CASE part.kind = "doubly"
  <2>1. Way(part, x) = <<part.slot, x \div Pointers, x % Pointers>> /\ Levels(part.kind) = 3
    BY <1>5 DEF Way, Levels, Doubly
  <2>2. x \in 0 .. Pointers * Pointers - 1 /\ Width(part.kind) = 1
    BY <1>1, <1>2, <1>5, PartNumbers
  <2>3. x \div Pointers \in 0 .. Pointers - 1 /\ x % Pointers \in 0 .. Pointers - 1
    BY <1>2, <2>2, Digits
  <2> QED BY <1>1, <1>2, <2>1, <2>2, <2>3
<1>6. CASE part.kind = "twin"
  <2> DEFINE q == x \div NDINDIRECT
             r == x % NDINDIRECT
  <2>1. Way(part, x) = <<part.slot + q, r \div Pointers, r % Pointers>> /\ Levels(part.kind) = 3
    BY <1>6 DEF Way, Levels, Doubly, TwoDoubly
  <2>2. x \in 0 .. NDINDIRECT * 2 - 1 /\ Width(part.kind) = 2
    BY <1>1, <1>2, <1>6, PartNumbers
  <2>3. q \in 0 .. 1 /\ r \in 0 .. NDINDIRECT - 1
    BY <1>2, <2>2, Digits
  <2>5. r \in 0 .. Pointers * Pointers - 1
    BY <1>2, <2>3
  <2> HIDE DEF q, r
  <2>4. r \div Pointers \in 0 .. Pointers - 1 /\ r % Pointers \in 0 .. Pointers - 1
    BY <1>2, <2>5, Digits
  <2> QED BY <1>1, <1>2, <2>1, <2>2, <2>3, <2>4
<1>7. CASE part.kind = "triply"
  <2> DEFINE q == x \div NDINDIRECT
             r == x % NDINDIRECT
  <2>1. Way(part, x) = <<part.slot, q, r \div Pointers, x % Pointers>> /\ Levels(part.kind) = 4
    BY <1>7 DEF Way, Levels, Triply
  <2>2. x \in 0 .. NDINDIRECT * Pointers - 1 /\ Width(part.kind) = 1
    BY <1>1, <1>2, <1>7, PartNumbers
  <2>3. q \in 0 .. Pointers - 1 /\ r \in 0 .. NDINDIRECT - 1 /\ x % Pointers = r % Pointers
    BY <1>2, <2>2, Triples
  <2>5. r \in 0 .. Pointers * Pointers - 1
    BY <1>2, <2>3
  <2> HIDE DEF q, r
  <2>4. r \div Pointers \in 0 .. Pointers - 1 /\ r % Pointers \in 0 .. Pointers - 1
    BY <1>2, <2>5, Digits
  <2> QED BY <1>1, <1>2, <2>1, <2>2, <2>3, <2>4
<1> QED BY <1>1, <1>3, <1>4, <1>5, <1>6, <1>7 DEF Kinds

\* Two blocks of a part have different ways.
LEMMA WayOwn ==
  ASSUME BmapAssumption, layout \in Layouts, NEW part \in Parts, NEW x \in 0 .. part.size - 1, NEW y \in 0 .. part.size - 1,
         Way(part, x) = Way(part, y)
  PROVE  x = y
<1>1. part.kind \in Kinds /\ part.slot \in Nat /\ part.size = SizeOf(part.kind) /\ part.size \in Nat /\ x \in Nat /\ y \in Nat
  BY PartFacts
<1>2. Pointers \in Nat \ {0} /\ NDINDIRECT = Pointers * Pointers /\ NDIRECT \in Nat \ {0} /\ NDINDIRECT \in Nat \ {0}
  BY Counts DEF NDINDIRECT
<1>3. CASE part.kind = "direct"
  BY <1>1, <1>3 DEF Way
<1>4. CASE part.kind = "singly"
  BY <1>1, <1>4 DEF Way, Singly
<1>5. CASE part.kind = "doubly"
  <2>1. x \div Pointers = y \div Pointers /\ x % Pointers = y % Pointers
    BY <1>5 DEF Way, Doubly
  <2>2. x \in 0 .. Pointers * Pointers - 1 /\ y \in 0 .. Pointers * Pointers - 1
    BY <1>1, <1>2, <1>5, PartNumbers
  <2>3. x = Pointers * (x \div Pointers) + (x % Pointers) /\ y = Pointers * (y \div Pointers) + (y % Pointers)
    BY <1>2, <2>2, Digits
  <2> QED BY <2>1, <2>3
<1>6. CASE part.kind = "twin"
  <2> DEFINE q(z) == z \div NDINDIRECT
             r(z) == z % NDINDIRECT
  <2>1. /\ part.slot + q(x) = part.slot + q(y)
        /\ r(x) \div Pointers = r(y) \div Pointers /\ r(x) % Pointers = r(y) % Pointers
    BY <1>6 DEF Way, Doubly, TwoDoubly
  <2>2. x \in 0 .. NDINDIRECT * 2 - 1 /\ y \in 0 .. NDINDIRECT * 2 - 1
    BY <1>1, <1>2, <1>6, PartNumbers
  <2>3. /\ q(x) \in 0 .. 1 /\ r(x) \in 0 .. NDINDIRECT - 1 /\ x = NDINDIRECT * q(x) + r(x)
        /\ q(y) \in 0 .. 1 /\ r(y) \in 0 .. NDINDIRECT - 1 /\ y = NDINDIRECT * q(y) + r(y)
    BY <1>2, <2>2, Digits
  <2> HIDE DEF q, r
  <2>4. r(x) \in 0 .. Pointers * Pointers - 1 /\ r(y) \in 0 .. Pointers * Pointers - 1
    BY <1>2, <2>3
  <2>5. r(x) = Pointers * (r(x) \div Pointers) + (r(x) % Pointers) /\ r(y) = Pointers * (r(y) \div Pointers) + (r(y) % Pointers)
    BY <1>2, <2>4, Digits
  <2>6. r(x) = r(y)
    BY <2>1, <2>5
  <2>7. q(x) = q(y)
    BY <1>1, <2>1, <2>3
  <2> QED BY <2>3, <2>6, <2>7
<1>7. CASE part.kind = "triply"
  <2> DEFINE q(z) == z \div NDINDIRECT
             r(z) == z % NDINDIRECT
  <2>1. q(x) = q(y) /\ r(x) \div Pointers = r(y) \div Pointers /\ x % Pointers = y % Pointers
    BY <1>7 DEF Way, Triply
  <2>2. x \in 0 .. NDINDIRECT * Pointers - 1 /\ y \in 0 .. NDINDIRECT * Pointers - 1
    BY <1>1, <1>2, <1>7, PartNumbers
  <2>3. /\ r(x) \in 0 .. NDINDIRECT - 1 /\ x % Pointers = r(x) % Pointers /\ x = NDINDIRECT * q(x) + r(x)
        /\ r(y) \in 0 .. NDINDIRECT - 1 /\ y % Pointers = r(y) % Pointers /\ y = NDINDIRECT * q(y) + r(y)
    BY <1>2, <2>2, Triples
  <2> HIDE DEF q, r
  <2>4. r(x) \in 0 .. Pointers * Pointers - 1 /\ r(y) \in 0 .. Pointers * Pointers - 1
    BY <1>2, <2>3
  <2>5. r(x) = Pointers * (r(x) \div Pointers) + (r(x) % Pointers) /\ r(y) = Pointers * (r(y) \div Pointers) + (r(y) % Pointers)
    BY <1>2, <2>4, Digits
  <2>6. r(x) = r(y)
    BY <2>1, <2>3, <2>5
  <2> QED BY <2>1, <2>3, <2>6
<1> QED BY <1>1, <1>3, <1>4, <1>5, <1>6, <1>7 DEF Kinds

\* A block number is reached by the way of its part.
LEMMA PathWay ==
  ASSUME BmapAssumption, layout \in Layouts, NEW part \in Parts, NEW bn \in Numbers(part)
  PROVE  Path(bn) = Way(part, bn - part.skipped) /\ bn - part.skipped \in 0 .. part.size - 1 /\ bn \in Nat
<1> DEFINE own == CHOOSE p \in Parts : bn \in Numbers(p)
<1>1. own \in Parts /\ bn \in Numbers(own)
  OBVIOUS
<1>2. own = part
  BY <1>1, OwnPart
<1>3. Path(bn) = Way(own, bn - own.skipped)
  BY DEF Path
<1> HIDE DEF own
<1>4. bn - part.skipped \in 0 .. part.size - 1 /\ bn \in Nat
  BY PartFacts DEF Numbers
<1> QED BY <1>2, <1>3, <1>4

\* What is known of the way to a block number.
LEMMA PathShape ==
  ASSUME BmapAssumption, layout \in Layouts, NEW bn \in Numbered
  PROVE  /\ bn \in Nat /\ Path(bn) \in Seq(Nat) /\ Len(Path(bn)) \in Nat /\ 1 <= Len(Path(bn)) /\ Len(Path(bn)) <= 4 /\ Path(bn)[1] \in Slot
         /\ \A i \in 2 .. Len(Path(bn)) : Path(bn)[i] \in 0 .. Pointers - 1
         /\ \E part \in Parts : bn \in Numbers(part) /\ Path(bn)[1] \in Slots(part) /\ Len(Path(bn)) = Levels(part.kind)
<1>1. PICK part \in Parts : bn \in Numbers(part)
  BY DEF Numbered
<1>2. Path(bn) = Way(part, bn - part.skipped) /\ bn - part.skipped \in 0 .. part.size - 1 /\ bn \in Nat
  BY <1>1, PathWay
<1> DEFINE way == Path(bn)
<1>3. /\ way \in Seq(Nat) /\ Len(way) = Levels(part.kind) /\ way[1] \in Slots(part)
      /\ \A i \in 2 .. Levels(part.kind) : way[i] \in 0 .. Pointers - 1
  <2> HIDE DEF way
  <2>1. way = Way(part, bn - part.skipped)
    BY <1>2 DEF way
  <2> QED BY <2>1, <1>2, WayShape
<1>4. Levels(part.kind) \in 1 .. 4
  BY DEF Levels
<1>5. Slots(part) \subseteq Slot
  BY PartFacts
<1> HIDE DEF way
<1>6. way = Path(bn)
  BY DEF way
<1> QED BY <1>1, <1>2, <1>3, <1>4, <1>5, <1>6

\* Two ways from one slot have the same levels, and no two block numbers have the same way.
LEMMA PathOwn ==
  ASSUME BmapAssumption, layout \in Layouts, NEW bn1 \in Numbered, NEW bn2 \in Numbered, Path(bn1)[1] = Path(bn2)[1]
  PROVE  Len(Path(bn1)) = Len(Path(bn2)) /\ (Path(bn1) = Path(bn2) => bn1 = bn2)
<1>1. PICK part1 \in Parts : bn1 \in Numbers(part1) /\ Path(bn1)[1] \in Slots(part1) /\ Len(Path(bn1)) = Levels(part1.kind)
  BY PathShape
<1>2. PICK part2 \in Parts : bn2 \in Numbers(part2) /\ Path(bn2)[1] \in Slots(part2) /\ Len(Path(bn2)) = Levels(part2.kind)
  BY PathShape
<1>3. part1 = part2
  BY <1>1, <1>2, OwnSlot
<1>4. ASSUME Path(bn1) = Path(bn2)
      PROVE  bn1 = bn2
  <2> DEFINE x == bn1 - part1.skipped
             y == bn2 - part1.skipped
  <2>1. /\ Path(bn1) = Way(part1, x) /\ x \in 0 .. part1.size - 1 /\ bn1 \in Nat
        /\ Path(bn2) = Way(part1, y) /\ y \in 0 .. part1.size - 1 /\ bn2 \in Nat /\ part1.skipped \in Nat
    BY <1>1, <1>2, <1>3, PathWay, PartFacts
  <2> HIDE DEF x, y
  <2>2. x = y
    BY <1>4, <2>1, WayOwn
  <2> QED BY <2>1, <2>2 DEF x, y
<1> QED BY <1>1, <1>2, <1>3, <1>4

\* The first n steps of a way.
LEMMA Steps ==
  ASSUME NEW way \in Seq(Nat), NEW n \in 0 .. Len(way)
  PROVE  /\ SubSeq(way, 1, n) \in Seq(Nat) /\ Len(SubSeq(way, 1, n)) = n
         /\ \A i \in 1 .. n : SubSeq(way, 1, n)[i] = way[i]
<1>1. \A i \in 1 .. n : way[i] \in Nat
  BY LenProperties
<1>2. n \in Int /\ 1 \in Int /\ Len(way) \in Nat
  BY LenProperties
<1> QED BY <1>1, <1>2, SubSeqProperties

\* The first steps of the first steps.
LEMMA FirstSteps ==
  ASSUME NEW way \in Seq(Nat), NEW n \in 0 .. Len(way), NEW m \in 0 .. n
  PROVE  SubSeq(SubSeq(way, 1, n), 1, m) = SubSeq(way, 1, m)
<1> DEFINE top == SubSeq(way, 1, n)
<1>1. Len(way) \in Nat /\ m \in 0 .. Len(way)
  BY LenProperties
<1>2. top \in Seq(Nat) /\ Len(top) = n /\ \A i \in 1 .. n : top[i] = way[i]
  BY Steps
<1> HIDE DEF top
<1>3. SubSeq(top, 1, m) \in Seq(Nat) /\ Len(SubSeq(top, 1, m)) = m /\ \A i \in 1 .. m : SubSeq(top, 1, m)[i] = top[i]
  BY <1>2, Steps
<1>4. SubSeq(way, 1, m) \in Seq(Nat) /\ Len(SubSeq(way, 1, m)) = m /\ \A i \in 1 .. m : SubSeq(way, 1, m)[i] = way[i]
  BY <1>1, Steps
<1>5. SubSeq(top, 1, m) = SubSeq(way, 1, m)
  BY <1>1, <1>2, <1>3, <1>4, SeqEqual
<1> QED BY <1>5 DEF top

\* A way is its last step and those before it.
LEMMA SameSteps ==
  ASSUME NEW v \in Seq(Nat), NEW w \in Seq(Nat), Len(v) = Len(w), Len(v) \in Nat \ {0}, Front(v) = Front(w), Last(v) = Last(w)
  PROVE  v = w
<1> DEFINE n == Len(v) - 1
<1>1. n \in 0 .. Len(v) /\ n \in 0 .. Len(w)
  OBVIOUS
<1>2. \A i \in 1 .. n : SubSeq(v, 1, n)[i] = v[i] /\ SubSeq(w, 1, n)[i] = w[i]
  BY <1>1, Steps
<1>3. ASSUME NEW i \in 1 .. Len(v)
      PROVE  v[i] = w[i]
  <2>1. CASE i = Len(v)
    BY <2>1 DEF Last
  <2>2. CASE i # Len(v)
    BY <1>2, <2>2 DEF Front
  <2> QED BY <2>1, <2>2
<1> QED BY <1>3, SeqEqual

\* How deep a place lies.
Depth(v) == Len(v)

\* The places for a pointer, with what makes them a tree: the steps before a place are places, the way to a
\* block of contents is a place that no other place lies below.
AllPlaces == UNION {{SubSeq(Path(bn), 1, n) : n \in 1 .. Len(Path(bn))} : bn \in Numbered}
IsPath(way) == \E bn \in Numbered : way = Path(bn)

\* A place is a slot, and then at most three indices that are inside their blocks.
LEMMA PlaceShape ==
  ASSUME BmapAssumption, layout \in Layouts, NEW v \in AllPlaces
  PROVE  /\ v \in Seq(Nat) /\ Depth(v) \in Nat /\ 1 <= Depth(v) /\ Depth(v) <= 4 /\ v[1] \in Slot /\ \A i \in 2 .. Depth(v) : v[i] \in 0 .. Pointers - 1
         /\ \A n \in 1 .. Depth(v) : SubSeq(v, 1, n) \in AllPlaces
         /\ \E bn \in Numbered : Depth(v) <= Len(Path(bn)) /\ v = SubSeq(Path(bn), 1, Depth(v)) /\ v[1] = Path(bn)[1]
<1>0. PICK bn \in Numbered : \E n \in 1 .. Len(Path(bn)) : v = SubSeq(Path(bn), 1, n)
  BY DEF AllPlaces
<1>1. PICK n \in 1 .. Len(Path(bn)) : v = SubSeq(Path(bn), 1, n)
  BY <1>0
<1> DEFINE way == Path(bn)
<1>2. way \in Seq(Nat) /\ Len(way) \in Nat /\ 1 <= Len(way) /\ Len(way) <= 4 /\ way[1] \in Slot /\ \A i \in 2 .. Len(way) : way[i] \in 0 .. Pointers - 1
  BY PathShape
<1>3. v \in Seq(Nat) /\ Depth(v) = n /\ \A i \in 1 .. n : v[i] = way[i]
  BY <1>1, <1>2, Steps DEF Depth
<1>4. ASSUME NEW m \in 1 .. Depth(v)
      PROVE  SubSeq(v, 1, m) \in AllPlaces
  <2>1. SubSeq(v, 1, m) = SubSeq(way, 1, m)
    BY <1>1, <1>2, <1>3, FirstSteps DEF Depth
  <2>2. m \in 1 .. Len(Path(bn))
    BY <1>2, <1>3
  <2> QED BY <2>1, <2>2 DEF AllPlaces
<1> QED BY <1>1, <1>2, <1>3, <1>4

\* The way to a block number leads through places only.
LEMMA PathPlace ==
  ASSUME BmapAssumption, layout \in Layouts, NEW bn \in Numbered
  PROVE  Path(bn) \in AllPlaces /\ \A n \in 1 .. Len(Path(bn)) : SubSeq(Path(bn), 1, n) \in AllPlaces
<1>1. Path(bn) \in Seq(Nat) /\ Len(Path(bn)) \in Nat /\ 1 <= Len(Path(bn)) /\ Len(Path(bn)) <= 4
  BY PathShape
<1>2. SubSeq(Path(bn), 1, Len(Path(bn))) = Path(bn)
  BY <1>1, SubSeqFull
<1>3. \A n \in 1 .. Len(Path(bn)) : SubSeq(Path(bn), 1, n) \in AllPlaces
  BY DEF AllPlaces
<1>4. SubSeq(Path(bn), 1, Len(Path(bn))) \in AllPlaces
  <2>1. Len(Path(bn)) \in Nat /\ 1 <= Len(Path(bn)) /\ Len(Path(bn)) <= 4
    BY PathShape
  <2>2. Len(Path(bn)) \in 1 .. Len(Path(bn))
    BY <2>1
  <2> QED BY <1>3, <2>2
<1> QED BY <1>2, <1>3, <1>4

\* No place lies below a block of contents: no way to a block number is the beginning of another.
LEMMA NothingBelow ==
  ASSUME BmapAssumption, layout \in Layouts, NEW v \in AllPlaces, NEW w, IsPath(w), NEW n \in 1 .. Depth(v), SubSeq(v, 1, n) = w
  PROVE  n = Depth(v)
<1>1. PICK bn1 \in Numbered : Depth(v) <= Len(Path(bn1)) /\ v[1] = Path(bn1)[1] /\ v \in Seq(Nat) /\ Depth(v) \in Nat /\ 1 <= Depth(v) /\ Depth(v) <= 4
  BY PlaceShape
<1>2. PICK bn2 \in Numbered : w = Path(bn2)
  BY DEF IsPath
<1>3. Depth(w) = n /\ w[1] = v[1]
  BY <1>1, Steps DEF Depth
<1>4. Len(Path(bn1)) = Depth(w)
  BY <1>1, <1>2, <1>3, PathOwn DEF Depth
<1> QED BY <1>1, <1>2, <1>3, <1>4

-----------------------------------------------------------------------------
\* The entries of a file.
IsFile(f) ==
  f \in [addrs : [Slot -> 0 .. NBLOCK], data : [Block -> [0 .. NINDIRECT_16 - 1 -> 0 .. NBLOCK]], used : SUBSET Block]

\* What is in a slot.
LEMMA AtTop ==
  ASSUME NEW f, NEW v, Depth(v) = 1
  PROVE  At(f, v) = f.addrs[v[1]]
BY DEF At, Depth

\* What is at the end of a longer way is an entry of the index block above.
LEMMA AtBelow ==
  ASSUME BmapAssumption, layout \in Layouts, NEW f, NEW v \in AllPlaces, Depth(v) # 1
  PROVE  /\ Front(v) \in AllPlaces /\ Depth(v) \in Nat /\ 2 <= Depth(v) /\ Depth(v) <= 4 /\ Depth(Front(v)) = Depth(v) - 1 /\ Last(v) \in 0 .. Pointers - 1
         /\ At(f, v) = Entry(f, At(f, Front(v)), Last(v))
<1> DEFINE u == Front(v)
<1>0. Depth(v) \in Nat /\ 2 <= Depth(v) /\ Depth(v) <= 4
  <2>1. Depth(v) \in Nat /\ 1 <= Depth(v) /\ Depth(v) <= 4
    BY PlaceShape
  <2> QED BY <2>1
<1>1. v \in Seq(Nat) /\ Depth(v) \in Nat /\ 2 <= Depth(v) /\ Depth(v) <= 4 /\ \A i \in 2 .. Depth(v) : v[i] \in 0 .. Pointers - 1
  BY <1>0, PlaceShape
<1>2. u \in AllPlaces
  <2>1. Depth(v) - 1 \in 1 .. Depth(v)
    BY <1>0
  <2> QED BY <2>1, PlaceShape DEF Front, Depth
<1>3. Depth(u) = Depth(v) - 1 /\ \A i \in 1 .. Depth(v) - 1 : u[i] = v[i]
  <2>1. Depth(v) - 1 \in 0 .. Depth(v)
    BY <1>1
  <2> QED BY <1>1, <2>1, Steps DEF Front, Depth
<1>4. Last(v) = v[Depth(v)] /\ Last(v) \in 0 .. Pointers - 1
  BY <1>1 DEF Last, Depth
<1> HIDE DEF u
<1>5. At(f, v) = Entry(f, At(f, u), Last(v))
  <2>1. CASE Depth(v) = 2
    <3>1. Depth(u) = 1 /\ u[1] = v[1]
      BY <1>3, <2>1
    <3>2. At(f, u) = f.addrs[v[1]] /\ At(f, v) = Entry(f, f.addrs[v[1]], v[2])
      BY <2>1, <3>1 DEF At, Depth
    <3> QED BY <1>4, <2>1, <3>2
  <2>2. CASE Depth(v) = 3
    <3>1. Depth(u) = 2 /\ u[1] = v[1] /\ u[2] = v[2]
      BY <1>3, <2>2
    <3>2. At(f, u) = Entry(f, f.addrs[v[1]], v[2]) /\ At(f, v) = Entry(f, Entry(f, f.addrs[v[1]], v[2]), v[3])
      BY <2>2, <3>1 DEF At, Depth
    <3> QED BY <1>4, <2>2, <3>2
  <2>3. CASE Depth(v) = 4
    <3>1. Depth(u) = 3 /\ u[1] = v[1] /\ u[2] = v[2] /\ u[3] = v[3]
      BY <1>3, <2>3
    <3>2. /\ At(f, u) = Entry(f, Entry(f, f.addrs[v[1]], v[2]), v[3])
          /\ At(f, v) = Entry(f, Entry(f, Entry(f, f.addrs[v[1]], v[2]), v[3]), v[4])
      BY <2>3, <3>1 DEF At, Depth
    <3> QED BY <1>4, <2>3, <3>2
  <2> QED BY <1>1, <2>1, <2>2, <2>3
<1> QED BY <1>1, <1>2, <1>3, <1>4, <1>5 DEF u

\* At the end of a way is a block or 0, and above a block is an index block.
LEMMA AtBlock ==
  ASSUME BmapAssumption, layout \in Layouts, NEW f, IsFile(f), NEW v \in AllPlaces
  PROVE  At(f, v) \in 0 .. NBLOCK /\ (Depth(v) # 1 /\ At(f, v) # 0 => At(f, Front(v)) # 0)
<1> DEFINE Up(n) == \A w \in AllPlaces : Depth(w) <= n => At(f, w) \in 0 .. NBLOCK
<1>1. Up(1)
  <2> SUFFICES ASSUME NEW w \in AllPlaces, Depth(w) <= 1
               PROVE  At(f, w) \in 0 .. NBLOCK
    OBVIOUS
  <2>1. Depth(w) \in Nat /\ 1 <= Depth(w) /\ Depth(w) <= 4 /\ w[1] \in Slot
    BY PlaceShape
  <2>2. Depth(w) = 1
    BY <2>1
  <2> QED BY <2>1, <2>2, AtTop DEF IsFile
<1>2. ASSUME NEW n \in Nat, Up(n)
      PROVE  Up(n + 1)
  <2> SUFFICES ASSUME NEW w \in AllPlaces, Depth(w) <= n + 1
               PROVE  At(f, w) \in 0 .. NBLOCK
    OBVIOUS
  <2>1. CASE Depth(w) = 1
    <3>1. w[1] \in Slot
      BY PlaceShape
    <3> QED BY <2>1, <3>1, AtTop DEF IsFile
  <2>2. CASE Depth(w) # 1
    <3>1. /\ Front(w) \in AllPlaces /\ Depth(w) \in Nat /\ 2 <= Depth(w) /\ Depth(w) <= 4 /\ Depth(Front(w)) = Depth(w) - 1 /\ Last(w) \in 0 .. Pointers - 1
          /\ At(f, w) = Entry(f, At(f, Front(w)), Last(w))
      BY <2>2, AtBelow
    <3>2. At(f, Front(w)) \in 0 .. NBLOCK
      BY <1>2, <3>1
    <3>3. Last(w) \in 0 .. NINDIRECT_16 - 1
      BY <3>1, Counts
    <3>4. CASE At(f, Front(w)) = 0
      BY <3>1, <3>4 DEF Entry, BmapAssumption
    <3>5. CASE At(f, Front(w)) # 0
      <4>1. At(f, Front(w)) \in Block
        BY <3>2, <3>5 DEF Block, BmapAssumption
      <4>2. f.data[At(f, Front(w))][Last(w)] \in 0 .. NBLOCK
        BY <3>3, <4>1 DEF IsFile
      <4> QED BY <3>1, <3>5, <4>2 DEF Entry
    <3> QED BY <3>4, <3>5
  <2> QED BY <2>1, <2>2
<1> HIDE DEF Up
<1>3. Up(2) /\ Up(3) /\ Up(4)
  <2>1. Up(1 + 1)
    BY <1>1, <1>2
  <2>2. Up(2 + 1)
    BY <2>1, <1>2
  <2>3. Up(3 + 1)
    BY <2>2, <1>2
  <2> QED BY <2>1, <2>2, <2>3
<1>4. At(f, v) \in 0 .. NBLOCK
  <2>1. Depth(v) \in Nat /\ 1 <= Depth(v) /\ Depth(v) <= 4
    BY PlaceShape
  <2>2. Depth(v) <= 4
    BY <2>1
  <2> QED BY <1>3, <2>2 DEF Up
<1>5. ASSUME Depth(v) # 1, At(f, v) # 0
      PROVE  At(f, Front(v)) # 0
  BY <1>5, AtBelow DEF Entry
<1> QED BY <1>4, <1>5

-----------------------------------------------------------------------------
\* A file in order: no block has two places, the allocated blocks are those with a place, and a block of
\* contents is no index block.
InOrder(f) ==
  /\ IsFile(f)
  /\ \A v, w \in AllPlaces : At(f, v) = At(f, w) /\ At(f, v) # 0 => v = w
  /\ f.used = {At(f, v) : v \in AllPlaces} \ {0}
  /\ \A v \in AllPlaces : IsPath(v) /\ At(f, v) # 0 => f.data[At(f, v)] = Cleared

\* Where a block can be put: a free place below an index block of the file.
Ready(f, w) == w \in AllPlaces /\ At(f, w) = 0 /\ (Depth(w) # 1 => At(f, Front(w)) # 0)
Full(f)     == Block \ f.used = {}

\* A pointer of 16 bits holds the number of each block of a disk that it can address.
LEMMA StoredBlock ==
  ASSUME BmapAssumption, Addressable, NEW blk \in Block
  PROVE  Stored(blk) = blk
<1>0. CASE layout # 6
  BY <1>0 DEF Stored
<1>1. CASE layout = 6
  <2>1. blk \in 0 .. POINTERS - 1 /\ POINTERS \in Nat \ {0} /\ blk \in Nat
    BY <1>1 DEF BmapAssumption, Block, Addressable
  <2>2. blk % POINTERS = blk
    <3> DEFINE q == blk \div POINTERS
               r == blk % POINTERS
    <3>1. blk = POINTERS * q + r /\ q \in Nat /\ r \in 0 .. POINTERS - 1
      BY <2>1, Division
    <3>2. POINTERS * 0 + blk = blk
      BY <2>1
    <3> HIDE DEF q, r
    <3>3. POINTERS * 0 + blk = POINTERS * q + r
      BY <3>1, <3>2
    <3>4. r = blk
      BY <2>1, <3>1, <3>3, Quotient
    <3> QED BY <3>4 DEF r
  <2> QED BY <2>2 DEF Stored
<1> QED BY <1>0, <1>1

\* balloc() takes a block that is free.
LEMMA FreeBlock ==
  ASSUME BmapAssumption, NEW f, IsFile(f), ~Full(f)
  PROVE  Min(Block \ f.used) \in Block \ f.used
<1>1. Block \ f.used \subseteq Nat /\ Block \ f.used # {}
  BY DEF Block, Full
<1>2. \E n \in Block \ f.used : \A m \in Block \ f.used : n <= m
  BY <1>1, Least
<1> QED BY <1>2 DEF Min

\* balloc() for a place, whose index block is found from the inode.
Put(f, way) == Alloc(f, IF Depth(way) = 1 THEN 0 ELSE At(f, Front(way)), Last(way))

\* What balloc() does for a place: that place now leads to a free block, which is cleared.
Placed(f, w, blk, g) ==
  /\ IsFile(g) /\ blk \in Block \ f.used /\ g.used = f.used \cup {blk}
  /\ g.addrs = IF Depth(w) = 1 THEN [f.addrs EXCEPT ![w[1]] = blk] ELSE f.addrs
  /\ g.data[blk] = Cleared
  /\ Depth(w) # 1 => At(f, Front(w)) \in f.used
  /\ \A b \in Block \ {blk} : \A i \in 0 .. NINDIRECT_16 - 1 :
       g.data[b][i] = IF Depth(w) # 1 /\ b = At(f, Front(w)) /\ i = Last(w) THEN blk ELSE f.data[b][i]
  /\ \A b \in Block \ {blk} : (Depth(w) # 1 /\ b = At(f, Front(w))) \/ g.data[b] = f.data[b]

\* balloc() and the store change the file at one place only, and the new block is clear.
LEMMA AllocFile ==
  ASSUME BmapAssumption, layout \in Layouts, Addressable, NEW f, InOrder(f), NEW w, Ready(f, w), ~Full(f),
         NEW blk, blk = Min(Block \ f.used), NEW g, g = Put(f, w)
  PROVE  Placed(f, w, blk, g)
<1>1. blk \in Block \ f.used /\ Stored(blk) = blk /\ blk \in 0 .. NBLOCK
  <2>1. blk \in Block \ f.used
    BY FreeBlock DEF InOrder
  <2> QED BY <2>1, StoredBlock DEF Block, BmapAssumption
<1>2. IsFile(f)
  BY DEF InOrder
<1>3. Cleared \in [0 .. NINDIRECT_16 - 1 -> 0 .. NBLOCK]
  BY DEF Cleared, BmapAssumption
<1> DEFINE above == At(f, Front(w))
           clear == [f.data EXCEPT ![blk] = Cleared]
<1>4. clear \in [Block -> [0 .. NINDIRECT_16 - 1 -> 0 .. NBLOCK]] /\ clear[blk] = Cleared /\ \A b \in Block \ {blk} : clear[b] = f.data[b]
  BY <1>1, <1>2, <1>3 DEF IsFile
<1>5. CASE Depth(w) = 1
  <2>1. g = [addrs |-> [f.addrs EXCEPT ![w[1]] = blk], data |-> clear, used |-> f.used \cup {blk}]
    <3>1. Last(w) = w[1]
      BY <1>5 DEF Last, Depth
    <3> QED BY <1>1, <1>5, <3>1 DEF Put, Alloc, Full
  <2>2. w[1] \in Slot
    BY PlaceShape DEF Ready
  <2>3. [f.addrs EXCEPT ![w[1]] = blk] \in [Slot -> 0 .. NBLOCK] /\ f.used \cup {blk} \in SUBSET Block
    BY <1>1, <1>2, <2>2 DEF IsFile
  <2> DEFINE top == [f.addrs EXCEPT ![w[1]] = blk]
             more == f.used \cup {blk}
  <2> HIDE DEF clear, top, more
  <2>4. g = [addrs |-> top, data |-> clear, used |-> more] /\ top \in [Slot -> 0 .. NBLOCK] /\ more \in SUBSET Block
    BY <2>1, <2>3 DEF top, more
  <2>5. IsFile(g)
    BY <1>4, <2>4 DEF IsFile
  <2>6. g.addrs = top /\ g.data = clear /\ g.used = more
    BY <2>4
  <2>7. \A b \in Block \ {blk} : g.data[b] = f.data[b]
    BY <1>4, <2>6
  <2> QED BY <1>1, <1>4, <1>5, <2>5, <2>6, <2>7 DEF top, more, Placed
<1>6. CASE Depth(w) # 1
  <2>1. g = [addrs |-> f.addrs, data |-> [clear EXCEPT ![above][Last(w)] = blk], used |-> f.used \cup {blk}]
    <3>1. above # 0
      BY <1>6 DEF Ready
    <3> QED BY <1>1, <1>6, <3>1 DEF Put, Alloc, Full
  <2>2. Front(w) \in AllPlaces /\ Last(w) \in 0 .. Pointers - 1 /\ above # 0
    BY <1>6, AtBelow DEF Ready
  <2>3. above \in f.used /\ above \in Block /\ above # blk
    <3>1. above \in f.used
      BY <2>2 DEF InOrder
    <3> QED BY <1>1, <1>2, <3>1 DEF IsFile
  <2>4. Last(w) \in 0 .. NINDIRECT_16 - 1
    BY <2>2, Counts
  <2> HIDE DEF clear, above
  <2> DEFINE row == [clear[above] EXCEPT ![Last(w)] = blk]
  <2>5. row \in [0 .. NINDIRECT_16 - 1 -> 0 .. NBLOCK] /\ \A i \in 0 .. NINDIRECT_16 - 1 : row[i] = IF i = Last(w) THEN blk ELSE f.data[above][i]
    BY <1>1, <1>4, <2>3, <2>4
  <2>6. g.data = [clear EXCEPT ![above] = row] /\ g.addrs = f.addrs /\ g.used = f.used \cup {blk}
    BY <2>1
  <2> HIDE DEF row
  <2>7. g.data[blk] = Cleared /\ g.data[above] = row /\ \A b \in Block \ {blk, above} : g.data[b] = f.data[b]
    BY <1>1, <1>4, <2>3, <2>6
  <2>8. g.data \in [Block -> [0 .. NINDIRECT_16 - 1 -> 0 .. NBLOCK]]
    BY <1>4, <2>3, <2>5, <2>6
  <2>9. IsFile(g)
    <3>1. g = [addrs |-> g.addrs, data |-> g.data, used |-> g.used]
      BY <2>1
    <3>2. g.addrs \in [Slot -> 0 .. NBLOCK] /\ g.used \in SUBSET Block
      BY <1>1, <1>2, <2>6 DEF IsFile
    <3> HIDE DEF IsFile
    <3> QED BY <2>8, <3>1, <3>2 DEF IsFile
  <2> QED BY <1>1, <1>6, <2>3, <2>5, <2>6, <2>7, <2>9 DEF above, Placed
<1> QED BY <1>5, <1>6

\* A block number that begins at the same place, and the same way.
LEMMA SamePlace ==
  ASSUME BmapAssumption, layout \in Layouts, NEW v \in AllPlaces, NEW w \in AllPlaces
  PROVE  /\ Depth(v) = 1 /\ Depth(w) = 1 /\ v[1] = w[1] => v = w
         /\ Depth(v) # 1 /\ Depth(w) # 1 /\ Front(v) = Front(w) /\ Last(v) = Last(w) => v = w
<1>1. v \in Seq(Nat) /\ w \in Seq(Nat)
  BY PlaceShape
<1>2. ASSUME Depth(v) = 1, Depth(w) = 1, v[1] = w[1]
      PROVE  v = w
  <2>1. Len(v) = Len(w) /\ \A i \in 1 .. Len(v) : v[i] = w[i]
    BY <1>2 DEF Depth
  <2> QED BY <1>1, <2>1, SeqEqual
<1>3. ASSUME Depth(v) # 1, Depth(w) # 1, Front(v) = Front(w), Last(v) = Last(w)
      PROVE  v = w
  <2>1. /\ Depth(v) \in Nat /\ 2 <= Depth(v) /\ Depth(Front(v)) = Depth(v) - 1
        /\ Depth(w) \in Nat /\ 2 <= Depth(w) /\ Depth(Front(w)) = Depth(w) - 1
    BY <1>3, AtBelow
  <2>2. Depth(v) = Depth(w) /\ Depth(v) \in Nat \ {0}
    BY <1>3, <2>1
  <2> QED BY <1>1, <1>3, <2>2, SameSteps DEF Depth
<1> QED BY <1>2, <1>3

\* All other places lead where they did.
LEMMA AllocAt ==
  ASSUME BmapAssumption, layout \in Layouts, NEW f, InOrder(f), NEW w, Ready(f, w),
         NEW blk, NEW g, Placed(f, w, blk, g), NEW v \in AllPlaces
  PROVE  At(g, v) = IF v = w THEN blk ELSE At(f, v)
<1> DEFINE Right(x) == At(g, x) = IF x = w THEN blk ELSE At(f, x)
           Up(n) == \A x \in AllPlaces : Depth(x) <= n => Right(x)
<1>1. /\ IsFile(g) /\ blk \in Block \ f.used /\ g.used = f.used \cup {blk}
      /\ g.addrs = IF Depth(w) = 1 THEN [f.addrs EXCEPT ![w[1]] = blk] ELSE f.addrs
      /\ g.data[blk] = Cleared
      /\ Depth(w) # 1 => At(f, Front(w)) \in f.used
      /\ \A b \in Block \ {blk} : \A i \in 0 .. NINDIRECT_16 - 1 :
           g.data[b][i] = IF Depth(w) # 1 /\ b = At(f, Front(w)) /\ i = Last(w) THEN blk ELSE f.data[b][i]
  BY DEF Placed
<1>2. w \in AllPlaces /\ At(f, w) = 0 /\ (Depth(w) # 1 => At(f, Front(w)) # 0) /\ IsFile(f)
  BY DEF Ready, InOrder
<1>3. blk # 0
  BY <1>1 DEF Block, BmapAssumption
<1>4. ASSUME NEW x \in AllPlaces, Depth(x) = 1
      PROVE  Right(x)
  <2>1. At(g, x) = g.addrs[x[1]] /\ At(f, x) = f.addrs[x[1]] /\ x[1] \in Slot /\ w[1] \in Slot
    BY <1>2, <1>4, AtTop, PlaceShape
  <2>2. CASE Depth(w) = 1
    <3>1. g.addrs[x[1]] = IF x[1] = w[1] THEN blk ELSE f.addrs[x[1]]
      BY <1>1, <1>2, <2>1, <2>2 DEF IsFile
    <3>2. x = w <=> x[1] = w[1]
      BY <1>2, <1>4, <2>2, SamePlace
    <3> QED BY <2>1, <3>1, <3>2
  <2>3. CASE Depth(w) # 1
    BY <1>1, <1>4, <2>1, <2>3
  <2> QED BY <2>2, <2>3
<1>5. ASSUME NEW n \in Nat, Up(n), NEW x \in AllPlaces, Depth(x) <= n + 1, Depth(x) # 1
      PROVE  Right(x)
  <2> DEFINE u == Front(x)
             i == Last(x)
             b == At(f, u)
  <2>1. /\ u \in AllPlaces /\ Depth(x) \in Nat /\ Depth(u) = Depth(x) - 1 /\ i \in 0 .. Pointers - 1
        /\ At(f, x) = Entry(f, b, i) /\ At(g, x) = Entry(g, At(g, u), i)
    BY <1>5, AtBelow
  <2>2. i \in 0 .. NINDIRECT_16 - 1
    BY <2>1, Counts
  <2>3. At(g, u) = IF u = w THEN blk ELSE b
    <3>1. Depth(u) <= n
      BY <1>5, <2>1
    <3> QED BY <1>5, <2>1, <3>1
  <2>4. CASE u = w
    <3>1. x # w
      <4> SUFFICES ASSUME x = w PROVE FALSE
        OBVIOUS
      <4>1. At(f, Front(w)) # 0 /\ At(f, w) = 0
        BY <1>2, <1>5
      <4> QED BY <2>4, <4>1
    <3>2. At(g, x) = Entry(g, blk, i) /\ At(f, x) = 0
      BY <1>2, <2>1, <2>3, <2>4 DEF Entry
    <3>3. Entry(g, blk, i) = 0
      BY <1>1, <2>2 DEF Entry, Cleared
    <3> QED BY <3>1, <3>2, <3>3
  <2>5. CASE u # w /\ b = 0
    <3>1. x # w
      BY <1>2, <1>5, <2>5
    <3> QED BY <2>1, <2>3, <2>5, <3>1 DEF Entry
  <2>6. CASE u # w /\ b # 0
    <3>1. b \in f.used /\ b \in Block \ {blk}
      <4>1. b \in f.used
        BY <2>1, <2>6 DEF InOrder
      <4> QED BY <1>1, <1>2, <4>1 DEF IsFile
    <3>2. At(g, x) = g.data[b][i] /\ At(f, x) = f.data[b][i]
      BY <2>1, <2>3, <2>6 DEF Entry
    <3>3. g.data[b][i] = IF Depth(w) # 1 /\ b = At(f, Front(w)) /\ i = Last(w) THEN blk ELSE f.data[b][i]
      BY <1>1, <2>2, <3>1
    <3>4. (Depth(w) # 1 /\ b = At(f, Front(w)) /\ i = Last(w)) <=> x = w
      <4>1. ASSUME Depth(w) # 1, b = At(f, Front(w)), i = Last(w)
            PROVE  x = w
        <5>1. Front(w) \in AllPlaces
          BY <1>2, <4>1, AtBelow
        <5>2. Front(w) = u
          BY <2>1, <2>6, <4>1, <5>1 DEF InOrder
        <5> QED BY <1>2, <1>5, <4>1, <5>2, SamePlace
      <4> QED BY <1>5, <4>1
    <3> HIDE DEF i, b
    <3> QED BY <3>2, <3>3, <3>4
  <2> QED BY <2>4, <2>5, <2>6
<1>6. Up(1)
  <2> SUFFICES ASSUME NEW x \in AllPlaces, Depth(x) <= 1
               PROVE  Right(x)
    OBVIOUS
  <2>1. Depth(x) \in Nat /\ 1 <= Depth(x)
    BY PlaceShape
  <2>2. Depth(x) = 1
    BY <2>1
  <2> QED BY <1>4, <2>2
<1> HIDE DEF Right
<1>7. ASSUME NEW n \in Nat, Up(n)
      PROVE  Up(n + 1)
  <2> SUFFICES ASSUME NEW x \in AllPlaces, Depth(x) <= n + 1
               PROVE  Right(x)
    OBVIOUS
  <2> QED BY <1>4, <1>5, <1>7
<1> HIDE DEF Up
<1>8. Up(4)
  <2>1. Up(1 + 1)
    BY <1>6, <1>7
  <2>2. Up(2 + 1)
    BY <2>1, <1>7
  <2>3. Up(3 + 1)
    BY <2>2, <1>7
  <2> QED BY <2>3
<1> QED BY <1>8, PlaceShape DEF Up, Right

\* A file in order is in order after a block has been put at a place.
LEMMA AllocInOrder ==
  ASSUME BmapAssumption, layout \in Layouts, NEW f, InOrder(f), NEW w, Ready(f, w), NEW blk, NEW g, Placed(f, w, blk, g)
  PROVE  InOrder(g)
<1>1. /\ IsFile(g) /\ blk \in Block \ f.used /\ g.used = f.used \cup {blk} /\ g.data[blk] = Cleared
      /\ \A b \in Block \ {blk} : (Depth(w) # 1 /\ b = At(f, Front(w))) \/ g.data[b] = f.data[b]
  BY DEF Placed
<1>2. w \in AllPlaces /\ At(f, w) = 0 /\ IsFile(f) /\ f.used \subseteq Block /\ f.used = {At(f, v) : v \in AllPlaces} \ {0}
  BY DEF Ready, InOrder, IsFile
<1>3. blk # 0 /\ 0 \notin Block
  BY <1>1 DEF Block, BmapAssumption
<1>4. \A v \in AllPlaces : At(g, v) = IF v = w THEN blk ELSE At(f, v)
  BY AllocAt
<1>5. ASSUME NEW v \in AllPlaces, NEW u \in AllPlaces, At(g, v) = At(g, u), At(g, v) # 0
      PROVE  v = u
  <2>1. CASE v = w \/ u = w
    BY <1>1, <1>2, <1>4, <1>5, <2>1
  <2>2. CASE v # w /\ u # w
    BY <1>4, <1>5, <2>2 DEF InOrder
  <2> QED BY <2>1, <2>2
<1>6. g.used = {At(g, v) : v \in AllPlaces} \ {0}
  <2>1. ASSUME NEW b \in g.used
        PROVE  b # 0 /\ \E v \in AllPlaces : b = At(g, v)
    <3>1. CASE b = blk
      BY <1>2, <1>3, <1>4, <3>1
    <3>2. CASE b \in f.used
      <4>1. PICK v \in AllPlaces : b = At(f, v)
        BY <1>2, <3>2
      <4>2. b # 0 /\ v # w
        BY <1>2, <3>2, <4>1
      <4> QED BY <1>4, <4>1, <4>2
    <3> QED BY <1>1, <2>1, <3>1, <3>2
  <2>2. ASSUME NEW v \in AllPlaces, At(g, v) # 0
        PROVE  At(g, v) \in g.used
    BY <1>1, <1>2, <1>4, <2>2
  <2> QED BY <2>1, <2>2
<1>7. ASSUME NEW v \in AllPlaces, IsPath(v), At(g, v) # 0
      PROVE  g.data[At(g, v)] = Cleared
  <2>1. CASE v = w
    BY <1>1, <1>4, <2>1
  <2>2. CASE v # w
    <3>1. At(g, v) = At(f, v) /\ At(f, v) \in f.used /\ At(f, v) \in Block \ {blk} /\ f.data[At(f, v)] = Cleared
      <4>1. At(g, v) = At(f, v) /\ f.data[At(f, v)] = Cleared
        BY <1>4, <1>7, <2>2 DEF InOrder
      <4>2. At(f, v) \in f.used
        BY <1>2, <1>7, <4>1
      <4> QED BY <1>1, <1>2, <4>1, <4>2
    <3>2. ~(Depth(w) # 1 /\ At(f, v) = At(f, Front(w)))
      <4> SUFFICES ASSUME Depth(w) # 1, At(f, v) = At(f, Front(w))
                   PROVE  FALSE
        OBVIOUS
      <4>1. Front(w) \in AllPlaces /\ Depth(w) \in Nat /\ 2 <= Depth(w)
        BY <1>2, AtBelow
      <4>2. Front(w) = v
        BY <1>7, <3>1, <4>1 DEF InOrder
      <4>3. SubSeq(w, 1, Depth(w) - 1) = v /\ Depth(w) - 1 \in 1 .. Depth(w)
        BY <4>1, <4>2 DEF Front, Depth
      <4>4. Depth(w) - 1 = Depth(w)
        BY <1>2, <1>7, <4>3, NothingBelow
      <4> QED BY <4>1, <4>4
    <3> QED BY <1>1, <3>1, <3>2
  <2> QED BY <2>1, <2>2
<1> QED BY <1>1, <1>5, <1>6, <1>7 DEF InOrder

\* What bmap() adds to a file on a way: places lead where they did, and new ones are on the way.
Gains(f, g, way) ==
  /\ \A v \in AllPlaces : At(f, v) # 0 => At(g, v) = At(f, v)
  /\ \A v \in AllPlaces : At(g, v) # 0 => At(f, v) # 0 \/ layout = 8 \/ \E k \in 1 .. Len(way) : v = SubSeq(way, 1, k)
Leads(f, w) == At(f, w) # 0 \/ Full(f)

\* Put puts a block at a place, if one is free, and changes no other place.
LEMMA AllocKeeps ==
  ASSUME BmapAssumption, layout \in Layouts, Addressable, NEW f, InOrder(f), NEW w \in AllPlaces, At(f, w) = 0,
         Depth(w) # 1 => Leads(f, Front(w))
  PROVE  /\ InOrder(Put(f, w)) /\ Leads(Put(f, w), w)
         /\ \A v \in AllPlaces : (At(f, v) # 0 \/ v # w) => At(Put(f, w), v) = At(f, v)
<1> DEFINE g == Put(f, w)
<1>1. CASE Full(f)
  <2>1. g = f
    BY <1>1 DEF Put, Alloc, Full
  <2> QED BY <1>1, <2>1 DEF Leads
<1>2. CASE ~Full(f)
  <2> DEFINE blk == Min(Block \ f.used)
  <2>1. Ready(f, w)
    BY <1>2 DEF Ready, Leads
  <2>2. Placed(f, w, blk, g)
    BY <1>2, <2>1, AllocFile
  <2> HIDE DEF blk, g
  <2>3. InOrder(g)
    BY <2>1, <2>2, AllocInOrder
  <2>4. \A v \in AllPlaces : At(g, v) = IF v = w THEN blk ELSE At(f, v)
    BY <2>1, <2>2, AllocAt
  <2>5. blk # 0
    BY <2>2 DEF Placed, Block, BmapAssumption
  <2>6. Leads(g, w)
    BY <2>4, <2>5 DEF Leads
  <2>7. \A v \in AllPlaces : (At(f, v) # 0 \/ v # w) => At(g, v) = At(f, v)
    BY <2>4
  <2> QED BY <2>3, <2>6, <2>7 DEF g
<1> QED BY <1>1, <1>2

\* Tweak 8: the first index block is on a way.
LEMMA FirstIndex ==
  ASSUME BmapAssumption, layout = 8
  PROVE  /\ <<NDIRECT + 1, 0>> \in AllPlaces /\ Depth(<<NDIRECT + 1, 0>>) # 1
         /\ Front(<<NDIRECT + 1, 0>>) = <<NDIRECT + 1>>
<1> DEFINE part == Two(Doubled, NDIRECT + 1)
<1>1. part \in Parts
  BY SMT DEF Parts
<1>2. part.skipped = Doubled /\ part.size = NDINDIRECT /\ part.slot = NDIRECT + 1 /\ part.kind = "doubly"
  BY DEF Two, Part
<1>3. Doubled \in Nat /\ NDINDIRECT \in Nat \ {0} /\ Pointers \in Nat \ {0} /\ layout \in Layouts /\ NDIRECT \in Nat
  BY Counts DEF Doubled, Layouts
<1>4. Doubled \in Numbers(part)
  BY <1>2, <1>3 DEF Numbers
<1> HIDE DEF part
<1>5. Path(Doubled) = Way(part, Doubled - part.skipped)
  BY <1>1, <1>3, <1>4, PathWay
<1>6. Doubled - part.skipped = 0
  BY <1>2, <1>3
<1>7. 0 \div Pointers = 0 /\ 0 % Pointers = 0
  BY <1>3
<1>8. Path(Doubled) = <<NDIRECT + 1, 0, 0>>
  BY <1>2, <1>5, <1>6, <1>7 DEF Way, Doubly
<1>9. SubSeq(<<NDIRECT + 1, 0, 0>>, 1, 2) = <<NDIRECT + 1, 0>>
  <2> DEFINE way == <<NDIRECT + 1, 0, 0>>
             top == <<NDIRECT + 1, 0>>
  <2>1. way \in Seq(Nat) /\ Len(way) = 3 /\ way[1] = NDIRECT + 1 /\ way[2] = 0
    BY <1>3
  <2>2. top \in Seq(Nat) /\ Len(top) = 2 /\ top[1] = NDIRECT + 1 /\ top[2] = 0
    BY <1>3
  <2> HIDE DEF way, top
  <2>3. SubSeq(way, 1, 2) \in Seq(Nat) /\ Len(SubSeq(way, 1, 2)) = 2 /\ \A i \in 1 .. 2 : SubSeq(way, 1, 2)[i] = way[i]
    BY <2>1, Steps
  <2>4. \A i \in 1 .. 2 : SubSeq(way, 1, 2)[i] = top[i]
    BY <2>1, <2>2, <2>3
  <2>5. SubSeq(way, 1, 2) = top
    BY <2>2, <2>3, <2>4, SeqEqual
  <2> QED BY <2>5 DEF way, top
<1>10. Doubled \in Numbered
  BY <1>1, <1>4 DEF Numbered
<1>11. <<NDIRECT + 1, 0>> \in AllPlaces
  <2>1. 2 \in 1 .. Len(Path(Doubled))
    BY <1>8
  <2> QED BY <1>3, <1>8, <1>9, <1>10, <2>1, PathPlace
<1>12. Front(<<NDIRECT + 1, 0>>) = <<NDIRECT + 1>>
  <2> DEFINE way == <<NDIRECT + 1, 0>>
             top == <<NDIRECT + 1>>
  <2>1. way \in Seq(Nat) /\ Len(way) = 2 /\ way[1] = NDIRECT + 1 /\ top \in Seq(Nat) /\ Len(top) = 1 /\ top[1] = NDIRECT + 1
    BY <1>3
  <2> HIDE DEF way, top
  <2>2. SubSeq(way, 1, 1) \in Seq(Nat) /\ Len(SubSeq(way, 1, 1)) = 1 /\ \A i \in 1 .. 1 : SubSeq(way, 1, 1)[i] = way[i]
    BY <2>1, Steps
  <2>3. SubSeq(way, 1, 1) = top
    BY <2>1, <2>2, SeqEqual
  <2>4. Front(way) = SubSeq(way, 1, 1)
    BY <2>1 DEF Front
  <2> QED BY <2>3, <2>4 DEF way, top
<1>13. Depth(<<NDIRECT + 1, 0>>) # 1
  BY DEF Depth
<1> QED BY <1>11, <1>12, <1>13

\* Level n of a walk, as a step of the file only: the walk has the right addr.
Climb(f, way, n) ==
  LET place == SubSeq(way, 1, n)
  IN  IF n > Len(way) \/ At(f, place) # 0 THEN f
      ELSE IF layout = 8 /\ place = <<NDIRECT + 1>> THEN Put(Put(f, place), <<NDIRECT + 1, 0>>)
      ELSE Put(f, place)

\* Level n of a way: the steps before it lead to an index block, or the disk is full.
LEMMA ClimbKeeps ==
  ASSUME BmapAssumption, layout \in Layouts, Addressable, NEW f, InOrder(f), NEW bn \in Numbered, NEW n \in Nat \ {0},
         n # 1 /\ n <= Len(Path(bn)) => Leads(f, SubSeq(Path(bn), 1, n - 1))
  PROVE  /\ InOrder(Climb(f, Path(bn), n)) /\ Gains(f, Climb(f, Path(bn), n), Path(bn))
         /\ n <= Len(Path(bn)) => Leads(Climb(f, Path(bn), n), SubSeq(Path(bn), 1, n))
<1> DEFINE way == Path(bn)
           place == SubSeq(way, 1, n)
           g == Climb(f, way, n)
<1>0. way \in Seq(Nat) /\ Len(way) \in Nat /\ \A k \in 1 .. Len(way) : SubSeq(way, 1, k) \in AllPlaces
  BY PathShape, PathPlace
<1>1. CASE n > Len(way)
  <2>1. g = f
    BY <1>1 DEF Climb
  <2>2. ~(n <= Len(way))
    BY <1>0, <1>1
  <2> HIDE DEF g, place
  <2> QED BY <2>1, <2>2 DEF Gains, g, place
<1>2. CASE ~(n > Len(way)) /\ At(f, place) # 0
  <2>1. g = f
    BY <1>2 DEF Climb
  <2> HIDE DEF g
  <2> QED BY <1>2, <2>1 DEF Gains, Leads, g
<1>3. CASE ~(n > Len(way)) /\ At(f, place) = 0
  <2>1. n \in 0 .. Len(way) /\ n \in 1 .. Len(way)
    BY <1>0, <1>3
  <2>2. place \in AllPlaces /\ Depth(place) = n
    BY <1>0, <2>1, Steps DEF Depth
  <2>3. ASSUME Depth(place) # 1
        PROVE  Leads(f, Front(place))
    <3>1. n - 1 \in 0 .. n /\ n # 1 /\ n <= Len(way)
      BY <1>0, <2>1, <2>2, <2>3
    <3>2. Front(place) = SubSeq(way, 1, n - 1)
      <4>1. SubSeq(place, 1, n - 1) = SubSeq(way, 1, n - 1)
        BY <1>0, <2>1, <3>1, FirstSteps
      <4> HIDE DEF place
      <4> QED BY <2>2, <4>1 DEF Front, Depth
    <3> HIDE DEF place
    <3> QED BY <3>1, <3>2
  <2> DEFINE one == Put(f, place)
  <2>4. /\ InOrder(one) /\ Leads(one, place)
        /\ \A v \in AllPlaces : (At(f, v) # 0 \/ v # place) => At(one, v) = At(f, v)
    <3> HIDE DEF place
    <3> QED BY <1>3, <2>2, <2>3, AllocKeeps DEF place
  <2>5. CASE ~(layout = 8 /\ place = <<NDIRECT + 1>>)
    <3>1. g = one
      BY <1>3, <2>5 DEF Climb
    <3>2. \E k \in 1 .. Len(way) : place = SubSeq(way, 1, k)
      BY <2>1
    <3> HIDE DEF g, one, place
    <3>3. Gains(f, g, way)
      BY <2>4, <3>1, <3>2 DEF Gains
    <3> QED BY <2>4, <3>1, <3>3 DEF g, place
  <2>6. CASE layout = 8 /\ place = <<NDIRECT + 1>>
    <3> DEFINE below == <<NDIRECT + 1, 0>>
               two == Put(one, below)
    <3>1. g = two
      BY <1>3, <2>6 DEF Climb
    <3>2. below \in AllPlaces /\ Depth(below) # 1 /\ Front(below) = place
      BY <2>6, FirstIndex
    <3> HIDE DEF g, one, place, below
    <3>3. At(f, below) = 0
      BY <1>3, <3>2, AtBelow DEF Entry
    <3>4. below # place
      <4>1. Depth(Front(below)) = Depth(below) - 1 /\ Depth(below) \in Nat
        BY <3>2, AtBelow
      <4> QED BY <3>2, <4>1
    <3>5. At(one, below) = 0
      BY <2>4, <3>2, <3>3, <3>4
    <3>6. Depth(below) # 1 => Leads(one, Front(below))
      BY <2>4, <3>2
    <3>7. /\ InOrder(two) /\ Leads(two, below)
          /\ \A v \in AllPlaces : (At(one, v) # 0 \/ v # below) => At(two, v) = At(one, v)
      BY <2>4, <3>2, <3>5, <3>6, AllocKeeps
    <3>8. Leads(two, place)
      <4>1. CASE At(one, place) # 0
        BY <2>2, <3>4, <3>7, <4>1 DEF Leads
      <4>2. CASE Full(one)
        <5>1. two = one
          BY <4>2 DEF Put, Alloc, Full
        <5> QED BY <4>2, <5>1 DEF Leads
      <4> QED BY <2>4, <4>1, <4>2 DEF Leads
    <3>9. Gains(f, two, way)
      BY <2>4, <2>6, <3>7 DEF Gains
    <3> HIDE DEF two
    <3> QED BY <3>1, <3>7, <3>8, <3>9 DEF g, place
  <2> QED BY <2>5, <2>6
<1> QED BY <1>1, <1>2, <1>3

\* A place that gets a block: the block that is free.
LEMMA PutAt ==
  ASSUME BmapAssumption, layout \in Layouts, Addressable, NEW f, InOrder(f), NEW w, Ready(f, w), ~Full(f)
  PROVE  At(Put(f, w), w) = Min(Block \ f.used)
<1> DEFINE blk == Min(Block \ f.used)
           g == Put(f, w)
<1>1. Placed(f, w, blk, g)
  BY AllocFile
<1>2. w \in AllPlaces
  BY DEF Ready
<1> HIDE DEF blk, g
<1>3. At(g, w) = blk
  BY <1>1, <1>2, AllocAt
<1> QED BY <1>3 DEF blk, g

\* Where a level of a way looks: the last index, below the place that the steps before it lead to.
LEMMA LevelPlace ==
  ASSUME BmapAssumption, layout \in Layouts, NEW bn \in Numbered, NEW n \in 1 .. Len(Path(bn))
  PROVE  /\ SubSeq(Path(bn), 1, n) \in AllPlaces /\ Depth(SubSeq(Path(bn), 1, n)) = n
         /\ Last(SubSeq(Path(bn), 1, n)) = Path(bn)[n]
         /\ n # 1 => Front(SubSeq(Path(bn), 1, n)) = SubSeq(Path(bn), 1, n - 1) /\ n - 1 \in 1 .. Len(Path(bn))
         /\ n = 1 => SubSeq(Path(bn), 1, n)[1] = Path(bn)[1]
<1> DEFINE way == Path(bn)
           place == SubSeq(way, 1, n)
<1>1. way \in Seq(Nat) /\ Len(way) \in Nat /\ place \in AllPlaces /\ n \in 0 .. Len(way)
  BY PathShape, PathPlace
<1>2. Len(place) = n /\ \A i \in 1 .. n : place[i] = way[i]
  BY <1>1, Steps
<1>3. Last(place) = way[n] /\ (n = 1 => place[1] = way[1])
  BY <1>2 DEF Last
<1>4. ASSUME n # 1
      PROVE  Front(place) = SubSeq(way, 1, n - 1) /\ n - 1 \in 1 .. Len(way)
  <2>1. n - 1 \in 0 .. n /\ n - 1 \in 1 .. Len(way)
    BY <1>1, <1>4
  <2>2. SubSeq(place, 1, n - 1) = SubSeq(way, 1, n - 1)
    BY <1>1, <2>1, FirstSteps
  <2> QED BY <1>2, <2>1, <2>2 DEF Front
<1> QED BY <1>1, <1>2, <1>3, <1>4 DEF Depth

\* The walk of bmap() with its local addr reaches what the file says is there.
LEMMA ReachClimbs ==
  ASSUME BmapAssumption, layout \in Layouts, Addressable, NEW w, NEW f, f = w.file, InOrder(f),
         NEW bn \in Numbered, NEW n \in 1 .. Len(Path(bn)),
         n # 1 => /\ Leads(f, SubSeq(Path(bn), 1, n - 1))
                  /\ w.addr = At(f, SubSeq(Path(bn), 1, n - 1))
  PROVE  LET r == Reach(w, Path(bn), n) IN
         /\ r.file = Climb(f, Path(bn), n)
         /\ r.addr = At(Climb(f, Path(bn), n), SubSeq(Path(bn), 1, n))
<1> DEFINE way == Path(bn)
           place == SubSeq(way, 1, n)
           above == IF n = 1 THEN 0 ELSE w.addr
           addr == IF n = 1 THEN f.addrs[way[1]] ELSE f.data[above][way[n]]
           blk == Min(Block \ f.used)
           g == Alloc(f, above, way[n])
           r == Reach(w, way, n)
<1>1. /\ place \in AllPlaces /\ Depth(place) = n /\ Last(place) = way[n] /\ (n = 1 => place[1] = way[1])
      /\ n # 1 => Front(place) = SubSeq(way, 1, n - 1) /\ n - 1 \in 1 .. Len(way)
  BY LevelPlace
<1>2. n \in Nat /\ Len(way) \in Nat /\ ~(n > Len(way)) /\ (n > 1 <=> n # 1)
  <2>1. Len(way) \in Nat
    BY PathShape
  <2> QED BY <2>1
<1>3. r = IF n > Len(way) \/ (n > 1 /\ above = 0) THEN w
          ELSE IF addr # 0 THEN Walked(f, addr)
          ELSE IF Block \ f.used = {} THEN Walked(f, 0)
          ELSE IF layout = 8 /\ n = 1 /\ way[1] = NDIRECT + 1 THEN Walked(Alloc(g, blk, 0), blk)
          ELSE Walked(g, blk)
  BY DEF Reach
<1>4. Climb(f, way, n) = IF At(f, place) # 0 THEN f
                         ELSE IF layout = 8 /\ place = <<NDIRECT + 1>> THEN Put(Put(f, place), <<NDIRECT + 1, 0>>)
                         ELSE Put(f, place)
  BY <1>2 DEF Climb
<1>5. n # 1 => above = At(f, Front(place)) /\ Leads(f, Front(place))
  BY <1>1
<1>6. Put(f, place) = g
  BY <1>1, <1>5 DEF Put
<1>7. \A v : Full(f) => Put(f, v) = f
  BY DEF Full, Put, Alloc
<1>8. place = <<NDIRECT + 1>> <=> n = 1 /\ way[1] = NDIRECT + 1
  <2>1. ASSUME place = <<NDIRECT + 1>>
        PROVE  n = 1 /\ way[1] = NDIRECT + 1
    <3>1. Len(<<NDIRECT + 1>>) = 1 /\ <<NDIRECT + 1>>[1] = NDIRECT + 1
      OBVIOUS
    <3> HIDE DEF place
    <3>2. n = 1
      BY <1>1, <2>1, <3>1 DEF Depth
    <3> QED BY <1>1, <2>1, <3>1, <3>2
  <2>2. ASSUME n = 1, way[1] = NDIRECT + 1
        PROVE  place = <<NDIRECT + 1>>
    <3>1. <<NDIRECT + 1>> \in Seq(Nat) /\ Len(<<NDIRECT + 1>>) = 1 /\ <<NDIRECT + 1>>[1] = NDIRECT + 1
      BY DEF BmapAssumption
    <3>2. place \in Seq(Nat) /\ Len(place) = 1 /\ place[1] = NDIRECT + 1
      BY <1>1, <2>2, PlaceShape DEF Depth
    <3> HIDE DEF place
    <3>3. \A i \in 1 .. Len(place) : place[i] = <<NDIRECT + 1>>[i]
      BY <3>1, <3>2
    <3> QED BY <3>1, <3>2, <3>3, SeqEqual
  <2> QED BY <2>1, <2>2
<1>9. addr = At(f, place) \/ (n # 1 /\ above = 0 /\ At(f, place) = 0)
  <2>1. CASE n = 1
    BY <1>1, <2>1, AtTop
  <2>2. CASE n # 1
    <3>1. At(f, place) = Entry(f, above, way[n])
      BY <1>1, <1>5, <2>2, AtBelow
    <3> QED BY <2>2, <3>1 DEF Entry
  <2> QED BY <2>1, <2>2
<1> HIDE DEF addr
<1>10. CASE n # 1 /\ above = 0
  <2>1. Full(f) /\ At(f, place) = 0
    <3>1. At(f, place) = Entry(f, above, way[n])
      BY <1>1, <1>5, <1>10, AtBelow
    <3> QED BY <1>5, <1>10, <3>1 DEF Leads, Entry
  <2>2. r = w /\ w.addr = 0
    BY <1>2, <1>3, <1>10
  <2>3. Climb(f, way, n) = f
    BY <1>4, <1>7, <1>8, <1>10, <2>1
  <2> HIDE DEF r, place, way
  <2> QED BY <2>1, <2>2, <2>3 DEF r, place, way
<1>11. CASE ~(n # 1 /\ above = 0) /\ At(f, place) # 0
  <2>1. r = Walked(f, addr) /\ addr = At(f, place) /\ Climb(f, way, n) = f
    BY <1>2, <1>3, <1>4, <1>9, <1>11
  <2> HIDE DEF r, place, way
  <2> QED BY <2>1 DEF r, place, way, Walked
<1>12. CASE ~(n # 1 /\ above = 0) /\ At(f, place) = 0 /\ Full(f)
  <2>1. r = Walked(f, 0) /\ Climb(f, way, n) = f
    BY <1>2, <1>3, <1>4, <1>7, <1>9, <1>12 DEF Full
  <2> HIDE DEF r, place, way
  <2> QED BY <1>12, <2>1 DEF r, place, way, Walked
<1>13. CASE ~(n # 1 /\ above = 0) /\ At(f, place) = 0 /\ ~Full(f)
  <2>1. Ready(f, place)
    BY <1>1, <1>5, <1>13 DEF Ready
  <2>2. At(g, place) = blk
    BY <1>6, <1>13, <2>1, PutAt
  <2>3. addr = 0
    BY <1>9, <1>13
  <2>4. CASE ~(layout = 8 /\ place = <<NDIRECT + 1>>)
    <3>1. r = Walked(g, blk) /\ Climb(f, way, n) = g
      BY <1>2, <1>3, <1>4, <1>6, <1>8, <1>13, <2>3, <2>4 DEF Full
    <3> HIDE DEF r, place, way, g, blk
    <3> QED BY <2>2, <3>1 DEF r, place, way, Walked
  <2>5. CASE layout = 8 /\ place = <<NDIRECT + 1>>
    <3> DEFINE below == <<NDIRECT + 1, 0>>
               two == Alloc(g, blk, 0)
    <3>1. r = Walked(two, blk) /\ Climb(f, way, n) = Put(g, below)
      BY <1>2, <1>3, <1>4, <1>6, <1>8, <1>13, <2>3, <2>5 DEF Full
    <3>2. below \in AllPlaces /\ Depth(below) # 1 /\ Front(below) = place
      BY <2>5, FirstIndex
    <3>3. Last(below) = 0
      BY DEF Last
    <3> HIDE DEF r, g, blk, place, way, below, two
    <3>4. Put(g, below) = two
      BY <2>2, <3>2, <3>3 DEF Put, two
    <3>5. At(f, below) = 0
      BY <1>13, <3>2, AtBelow DEF Entry
    <3>6. below # place
      <4>1. Depth(Front(below)) = Depth(below) - 1 /\ Depth(below) \in Nat
        BY <3>2, AtBelow
      <4> QED BY <3>2, <4>1
    <3>7. /\ InOrder(g) /\ Leads(g, place)
          /\ \A v \in AllPlaces : (At(f, v) # 0 \/ v # place) => At(g, v) = At(f, v)
      <4>1. Depth(place) # 1 => Leads(f, Front(place))
        BY <1>1, <1>5
      <4> QED BY <1>1, <1>6, <1>13, <4>1, AllocKeeps
    <3>8. At(g, below) = 0 /\ (Depth(below) # 1 => Leads(g, Front(below)))
      BY <3>2, <3>5, <3>6, <3>7
    <3>9. \A v \in AllPlaces : (At(g, v) # 0 \/ v # below) => At(Put(g, below), v) = At(g, v)
      BY <3>2, <3>7, <3>8, AllocKeeps
    <3>10. At(two, place) = blk
      BY <1>1, <2>2, <3>4, <3>6, <3>9
    <3> QED BY <3>1, <3>4, <3>10 DEF r, place, way, Walked
  <2> QED BY <2>4, <2>5
<1> QED BY <1>10, <1>11, <1>12, <1>13

\* A walk after n levels, from the file f.
Came(f, w, bn, n) ==
  /\ InOrder(w.file) /\ Gains(f, w.file, Path(bn))
  /\ n <= Len(Path(bn)) /\ n # 0 => /\ Leads(w.file, SubSeq(Path(bn), 1, n))
                                    /\ w.addr = At(w.file, SubSeq(Path(bn), 1, n))
  /\ n >= Len(Path(bn)) => w.addr = At(w.file, Path(bn))

\* One level more.
LEMMA ReachKeeps ==
  ASSUME BmapAssumption, layout \in Layouts, Addressable, NEW f, NEW w, NEW bn \in Numbered, NEW n \in Nat,
         Came(f, w, bn, n)
  PROVE  Came(f, Reach(w, Path(bn), n + 1), bn, n + 1)
<1> DEFINE way == Path(bn)
           r == Reach(w, way, n + 1)
           h == w.file
           g == Climb(h, way, n + 1)
           place == SubSeq(way, 1, n + 1)
<1>1. /\ InOrder(h) /\ Gains(f, h, way)
      /\ n <= Len(way) /\ n # 0 => Leads(h, SubSeq(way, 1, n)) /\ w.addr = At(h, SubSeq(way, 1, n))
      /\ n >= Len(way) => w.addr = At(h, way)
  BY DEF Came
<1>2. Len(way) \in Nat /\ 1 <= Len(way) /\ n + 1 \in Nat \ {0} /\ (n + 1) - 1 = n
  BY PathShape
<1>3. CASE n + 1 > Len(way)
  <2>1. r = w
    BY <1>3 DEF Reach
  <2>2. n >= Len(way) /\ n + 1 >= Len(way) /\ ~(n + 1 <= Len(way))
    BY <1>2, <1>3
  <2> HIDE DEF r, way
  <2> QED BY <1>1, <2>1, <2>2 DEF Came, r, way
<1>4. CASE ~(n + 1 > Len(way))
  <2>1. n + 1 \in 1 .. Len(way) /\ n <= Len(way) /\ n + 1 <= Len(way)
    BY <1>2, <1>4
  <2>2. n + 1 # 1 => Leads(h, SubSeq(way, 1, (n + 1) - 1)) /\ w.addr = At(h, SubSeq(way, 1, (n + 1) - 1))
    BY <1>1, <1>2, <2>1
  <2>3. r.file = g /\ r.addr = At(g, place)
    <3> HIDE DEF h
    <3> QED BY <1>1, <2>1, <2>2, ReachClimbs DEF h
  <2>4. InOrder(g) /\ Gains(h, g, way) /\ (n + 1 <= Len(way) => Leads(g, place))
    <3> HIDE DEF h
    <3> QED BY <1>1, <1>2, <2>2, ClimbKeeps
  <2>5. Gains(f, g, way)
    <3> HIDE DEF h, g, way
    <3> QED BY <1>1, <2>4 DEF Gains
  <2>6. n + 1 >= Len(way) => place = way
    <3>1. ASSUME n + 1 >= Len(way)
          PROVE  place = way
      <4>1. n + 1 = Len(way)
        BY <1>2, <2>1, <3>1
      <4>2. way \in Seq(Nat)
        BY PathShape
      <4> HIDE DEF way
      <4> QED BY <4>1, <4>2, SubSeqFull
    <3> QED BY <3>1
  <2> HIDE DEF r, g, place, way
  <2> QED BY <2>1, <2>3, <2>4, <2>5, <2>6 DEF Came, r, place, way
<1> QED BY <1>3, <1>4

\* All levels: the block number has a block, or the disk is full.
LEMMA ReachAllKeeps ==
  ASSUME BmapAssumption, layout \in Layouts, Addressable, NEW f, InOrder(f), NEW bn \in Numbered, NEW w,
         w = ReachAll(f, Path(bn))
  PROVE  InOrder(w.file) /\ Gains(f, w.file, Path(bn)) /\ w.addr = At(w.file, Path(bn))
<1> DEFINE way == Path(bn)
           w0 == Walked(f, 0)
           w1 == Reach(w0, way, 1)
           w2 == Reach(w1, way, 2)
           w3 == Reach(w2, way, 3)
           w4 == Reach(w3, way, 4)
<1>1. Len(way) \in Nat /\ 1 <= Len(way) /\ Len(way) <= 4
  BY PathShape
<1>2. Came(f, w0, bn, 0)
  <2>1. w0.file = f
    BY DEF Walked
  <2>2. ~(0 >= Len(way))
    BY <1>1
  <2> QED BY <2>1, <2>2 DEF Came, Gains
<1> HIDE DEF w0
<1>3. Came(f, w1, bn, 1)
  <2>1. Came(f, Reach(w0, way, 0 + 1), bn, 0 + 1)
    BY <1>2, ReachKeeps
  <2> QED BY <2>1
<1> HIDE DEF w1
<1>4. Came(f, w2, bn, 2)
  <2>1. Came(f, Reach(w1, way, 1 + 1), bn, 1 + 1)
    BY <1>3, ReachKeeps
  <2> QED BY <2>1
<1> HIDE DEF w2
<1>5. Came(f, w3, bn, 3)
  <2>1. Came(f, Reach(w2, way, 2 + 1), bn, 2 + 1)
    BY <1>4, ReachKeeps
  <2> QED BY <2>1
<1> HIDE DEF w3
<1>6. Came(f, w4, bn, 4)
  <2>1. Came(f, Reach(w3, way, 3 + 1), bn, 3 + 1)
    BY <1>5, ReachKeeps
  <2> QED BY <2>1
<1> HIDE DEF w4
<1>7. w = w4
  BY DEF ReachAll, w0, w1, w2, w3, w4
<1>8. 4 >= Len(way)
  BY <1>1
<1> QED BY <1>6, <1>7, <1>8 DEF Came

-----------------------------------------------------------------------------
\* The layout of a file does not change, nor does what follows from it.
LEMMA SameLayout ==
  ASSUME layout' = layout
  PROVE  Pointers' = Pointers /\ NDINDIRECT' = NDINDIRECT /\ Parts' = Parts /\ Numbered' = Numbered
<1>1. Pointers' = Pointers
  BY DEF Pointers
<1>2. NDINDIRECT' = NDINDIRECT
  BY <1>1 DEF NDINDIRECT
<1>3. Doubled' = Doubled
  BY <1>1 DEF Doubled
<1>4. DirectAndOne' = DirectAndOne
  BY <1>1 DEF DirectAndOne, Direct, One
<1>5. Parts' = Parts
  BY <1>1, <1>2, <1>3, <1>4, SMT DEF Parts, Direct, One, Two, TwoTrees, Three
<1>6. Numbered' = Numbered
  BY <1>5 DEF Numbered
<1> QED BY <1>1, <1>2, <1>5, <1>6

\* The ways depend on the layout only.
LEMMA SameWays ==
  ASSUME BmapAssumption, layout \in Layouts, layout' = layout
  PROVE  (\A bn \in Numbered : Path(bn)' = Path(bn)) /\ AllPlaces' = AllPlaces
<1>1. Pointers' = Pointers /\ NDINDIRECT' = NDINDIRECT /\ Parts' = Parts /\ Numbered' = Numbered
  BY SameLayout
<1>2. ASSUME NEW part \in Parts, NEW x
      PROVE  Way(part, x)' = Way(part, x)
  <2>1. Doubly(part.slot, x)' = Doubly(part.slot, x)
    BY <1>1 DEF Doubly
  <2>2. TwoDoubly(part.slot, x)' = TwoDoubly(part.slot, x)
    BY <1>1 DEF Doubly, TwoDoubly
  <2>3. Triply(part.slot, x)' = Triply(part.slot, x)
    BY <1>1 DEF Triply
  <2> QED BY <2>1, <2>2, <2>3 DEF Way, Singly
<1>3. ASSUME NEW bn \in Numbered
      PROVE  Path(bn)' = Path(bn)
  <2> DEFINE own == CHOOSE p \in Parts : bn \in Numbers(p)
  <2>1. own' = own
    BY <1>1 DEF Numbers
  <2>2. own \in Parts
    BY DEF Numbered
  <2>3. Path(bn) = Way(own, bn - own.skipped) /\ Path(bn)' = Way(own, bn - own.skipped)'
    BY DEF Path
  <2> HIDE DEF own
  <2>4. PICK part : part = own
    OBVIOUS
  <2>5. own' = part /\ part \in Parts
    BY <2>1, <2>2, <2>4
  <2>6. Way(own, bn - own.skipped)' = Way(part, bn - part.skipped)'
    BY <2>5
  <2> QED BY <1>2, <2>3, <2>4, <2>5, <2>6
<1>4. AllPlaces' = AllPlaces
  BY <1>1, <1>3 DEF AllPlaces
<1> QED BY <1>3, <1>4

\* The inductive invariant of a file: it is in order, and bmap() repeats what it returned.  Without holes
\* (layout 10) the mapped blocks are the first ones, and nothing else has an index block.
OnWay(v, bn) == \E n \in 1 .. Len(Path(bn)) : v = SubSeq(Path(bn), 1, n)
NoHoles ==
  /\ \A bn \in Mapped : \A m \in 0 .. bn - 1 : m \in Mapped
  /\ \A v \in AllPlaces : At(file, v) # 0 => \E bn \in Mapped : OnWay(v, bn)
FileInv ==
  /\ layout \in Layouts /\ InOrder(file) /\ result \in [Numbered -> 0 .. NBLOCK]
  /\ \A bn \in Mapped : At(file, Path(bn)) = result[bn]
  /\ layout = 10 => NoHoles

\* A file with empty slots has no block.
LEMMA AtNothing ==
  ASSUME BmapAssumption, layout \in Layouts, NEW f, f.addrs = [s \in Slot |-> 0], NEW v \in AllPlaces
  PROVE  At(f, v) = 0
<1>1. \A x : Entry(f, 0, x) = 0
  BY DEF Entry
<1>2. f.addrs[v[1]] = 0
  BY PlaceShape
<1>3. Len(v) \in Nat /\ 1 <= Len(v) /\ Len(v) <= 4
  BY PlaceShape DEF Depth
<1>4. Len(v) = 1 \/ Len(v) = 2 \/ Len(v) = 3 \/ Len(v) = 4
  <2>1. PICK n \in Nat : n = Len(v)
    BY <1>3
  <2>2. n = 1 \/ n = 2 \/ n = 3 \/ n = 4
    BY <1>3, <2>1
  <2> QED BY <2>1, <2>2
<1> QED BY <1>1, <1>2, <1>4 DEF At

\* A file with no block is in order.
LEMMA EmptyInOrder ==
  ASSUME BmapAssumption, layout \in Layouts, NEW f, IsFile(f), f.addrs = [s \in Slot |-> 0], f.used = {}
  PROVE  InOrder(f)
<1>1. \A v \in AllPlaces : At(f, v) = 0
  BY AtNothing
<1> QED BY <1>1 DEF InOrder

\* The parts of the state that make a file.
LEMMA FileRecord ==
  ASSUME NEW a, NEW d, NEW u, NEW f, f = [addrs |-> a, data |-> d, used |-> u]
  PROVE  /\ f.addrs = a /\ f.data = d /\ f.used = u
         /\ IsFile(f) <=> a \in [Slot -> 0 .. NBLOCK] /\ d \in [Block -> [0 .. NINDIRECT_16 - 1 -> 0 .. NBLOCK]] /\ u \subseteq Block
BY DEF IsFile

\* The invariant of the file holds at first.
LEMMA BmapInitInv == BmapAssumption /\ BmapInit => FileInv
<1> SUFFICES ASSUME BmapAssumption, BmapInit
             PROVE  FileInv
  OBVIOUS
<1>1. /\ layout \in Layouts /\ addrs = [s \in Slot |-> 0] /\ data = [blk \in Block |-> Cleared] /\ used = {}
      /\ result = [bn \in Numbered |-> 0]
  BY DEF BmapInit
<1>2. /\ addrs \in [Slot -> 0 .. NBLOCK] /\ Cleared \in [0 .. NINDIRECT_16 - 1 -> 0 .. NBLOCK]
      /\ result \in [Numbered -> 0 .. NBLOCK]
  BY <1>1 DEF BmapAssumption, Cleared
<1>3. data \in [Block -> [0 .. NINDIRECT_16 - 1 -> 0 .. NBLOCK]]
  BY <1>1, <1>2
<1>4. IsFile(file) /\ file.addrs = [s \in Slot |-> 0] /\ file.used = {}
  BY <1>1, <1>2, <1>3, FileRecord DEF file
<1>5. InOrder(file) /\ \A v \in AllPlaces : At(file, v) = 0
  BY <1>1, <1>4, EmptyInOrder, AtNothing
<1>6. Mapped = {}
  BY <1>1 DEF Mapped
<1> QED BY <1>1, <1>2, <1>5, <1>6 DEF FileInv, NoHoles

\* bmap() keeps the invariant of the file.
LEMMA BmapKeeps ==
  ASSUME BmapAssumption, FileInv, Addressable, NEW bn \in DOMAIN result, bmap(bn)
  PROVE  FileInv'
<1> DEFINE way == Path(bn)
           w == ReachAll(file, way)
           f == w.file
<1>1. /\ layout \in Layouts /\ InOrder(file) /\ result \in [Numbered -> 0 .. NBLOCK] /\ bn \in Numbered
      /\ \A k \in Mapped : k \in Numbered /\ At(file, Path(k)) = result[k] /\ result[k] # 0
  BY DEF FileInv, Mapped
<1>2. /\ layout = 10 => \A m \in 0 .. bn - 1 : m \in Mapped
      /\ At(f, way) # 0 /\ addrs' = f.addrs /\ data' = f.data /\ used' = f.used
      /\ result' = [result EXCEPT ![bn] = At(f, way)] /\ layout' = layout
      /\ InOrder(f) /\ Gains(file, f, way)
  <2>1. InOrder(f) /\ Gains(file, f, way) /\ w.addr = At(f, way)
    <3> HIDE DEF w
    <3> QED BY <1>1, ReachAllKeeps DEF w
  <2> QED BY <2>1 DEF bmap
<1>3. InOrder(f) /\ Gains(file, f, way)
  BY <1>2
<1> HIDE DEF w, f
<1>4. file' = f
  <2>1. file' = [addrs |-> addrs', data |-> data', used |-> used']
    BY DEF file
  <2>2. f = [addrs |-> f.addrs, data |-> f.data, used |-> f.used]
    BY <1>3 DEF InOrder, IsFile
  <2> QED BY <1>2, <2>1, <2>2
<1>5. Numbered' = Numbered /\ AllPlaces' = AllPlaces /\ \A k \in Numbered : Path(k)' = Path(k)
  BY <1>1, <1>2, SameLayout, SameWays
<1>6. way \in AllPlaces /\ At(f, way) \in 0 .. NBLOCK
  <2>1. way \in AllPlaces
    BY <1>1, PathPlace
  <2> QED BY <1>1, <1>3, <2>1, AtBlock DEF InOrder
<1>7. result' \in [Numbered -> 0 .. NBLOCK] /\ result'[bn] = At(f, way) /\ \A k \in Numbered \ {bn} : result'[k] = result[k]
  BY <1>1, <1>2, <1>6
<1>8. Mapped' = Mapped \cup {bn}
  BY <1>1, <1>2, <1>5, <1>7 DEF Mapped
<1>9. InOrder(file)'
  <2>1. \A v : IsPath(v)' <=> IsPath(v)
    BY <1>5 DEF IsPath
  <2> QED BY <1>3, <1>4, <1>5, <2>1 DEF InOrder
<1>10. \A k \in Mapped' : At(f, Path(k)) = result'[k]
  <2> TAKE k \in Mapped'
  <2>1. CASE k = bn
    BY <1>7, <2>1
  <2>2. CASE k # bn
    <3>1. k \in Mapped /\ k \in Numbered
      BY <1>1, <1>8, <2>2
    <3>2. At(file, Path(k)) = result[k] /\ At(file, Path(k)) # 0 /\ Path(k) \in AllPlaces
      BY <1>1, <3>1, PathPlace
    <3> QED BY <1>3, <1>7, <2>2, <3>1, <3>2 DEF Gains
  <2> QED BY <2>1, <2>2
<1>11. ASSUME layout = 10
       PROVE  NoHoles'
  <2>1. NoHoles
    BY <1>11 DEF FileInv
  <2>2. \A k \in Mapped' : \A m \in 0 .. k - 1 : m \in Mapped'
    BY <1>2, <1>8, <1>11, <2>1 DEF NoHoles
  <2>3. ASSUME NEW v \in AllPlaces, At(f, v) # 0
        PROVE  \E k \in Mapped' : OnWay(v, k)
    <3>1. CASE At(file, v) # 0
      BY <1>8, <2>1, <3>1 DEF NoHoles
    <3>2. CASE At(file, v) = 0
      BY <1>3, <1>8, <1>11, <2>3, <3>2 DEF Gains, OnWay
    <3> QED BY <3>1, <3>2
  <2>4. \A k \in Mapped' : k \in Numbered /\ Path(k)' = Path(k)
    BY <1>1, <1>5, <1>8
  <2>5. \A v : \A k \in Mapped' : OnWay(v, k)' <=> OnWay(v, k)
    BY <2>4 DEF OnWay
  <2> QED BY <1>4, <1>5, <2>2, <2>3, <2>5 DEF NoHoles
<1> QED BY <1>1, <1>2, <1>4, <1>5, <1>7, <1>8, <1>9, <1>10, <1>11 DEF FileInv

\* What itrunc() finds below an index block.
LEMMA FoundBelow ==
  ASSUME BmapAssumption, layout \in Layouts, InOrder(file), NEW v \in AllPlaces, Depth(v) # 1, At(file, v) # 0
  PROVE  /\ Front(v) \in AllPlaces /\ Depth(v) \in Nat /\ Depth(Front(v)) = Depth(v) - 1 /\ At(file, Front(v)) # 0
         /\ At(file, v) \in Below(At(file, Front(v)))
         /\ Last(v) \in DOMAIN data[At(file, Front(v))] /\ data[At(file, Front(v))][Last(v)] = At(file, v)
         /\ DOMAIN data[At(file, Front(v))] = 0 .. NINDIRECT_16 - 1 /\ Last(v) < Pointers /\ Last(v) \in Nat
<1> DEFINE blk == At(file, Front(v))
<1>1. IsFile(file) /\ file.data = data /\ data \in [Block -> [0 .. NINDIRECT_16 - 1 -> 0 .. NBLOCK]]
  <2>1. IsFile(file)
    BY DEF InOrder
  <2> QED BY <2>1, FileRecord DEF file
<1>2. /\ Front(v) \in AllPlaces /\ Depth(v) \in Nat /\ Depth(Front(v)) = Depth(v) - 1 /\ Last(v) \in 0 .. Pointers - 1
      /\ At(file, v) = Entry(file, blk, Last(v))
  BY AtBelow
<1>3. blk # 0 /\ blk \in 0 .. NBLOCK
  BY <1>1, <1>2, AtBlock
<1>4. blk \in Block
  BY <1>3 DEF Block, BmapAssumption
<1>5. Last(v) \in 0 .. NINDIRECT_16 - 1 /\ Last(v) \in Nat /\ Last(v) < Pointers
  BY <1>2, Counts
<1> HIDE DEF blk
<1>6. DOMAIN data[blk] = 0 .. NINDIRECT_16 - 1
  BY <1>1, <1>4
<1>7. data[blk][Last(v)] = At(file, v)
  BY <1>1, <1>2, <1>3 DEF Entry
<1>8. At(file, v) \in Below(blk)
  BY <1>5, <1>6, <1>7 DEF Below
<1> QED BY <1>2, <1>3, <1>5, <1>6, <1>7, <1>8 DEF blk

\* Layout 10: the indices that lead somewhere are the first ones of their block.
LEMMA FoundEarly ==
  ASSUME BmapAssumption, FileInv, layout = 10, NEW v \in AllPlaces, Depth(v) # 1, At(file, v) # 0,
         NEW part \in Parts, part.kind = "doubly", v[1] \in Slots(part)
  PROVE  At(file, v) \in BelowEarly(At(file, Front(v)))
<1> DEFINE blk == At(file, Front(v))
           last == Last(v)
<1>1. layout \in Layouts /\ InOrder(file) /\ NoHoles
  BY DEF FileInv
<1>2. /\ Front(v) \in AllPlaces /\ Depth(v) \in Nat /\ blk # 0
      /\ last \in DOMAIN data[blk] /\ data[blk][last] = At(file, v)
      /\ DOMAIN data[blk] = 0 .. NINDIRECT_16 - 1 /\ last < Pointers /\ last \in Nat
  BY <1>1, FoundBelow
<1>3. PICK m \in Mapped : OnWay(v, m)
  BY <1>1 DEF NoHoles
<1>4. m \in Numbered /\ \A k \in 0 .. m - 1 : k \in Mapped
  BY <1>1, <1>3 DEF NoHoles, Mapped, FileInv
<1>5. PICK n \in 1 .. Len(Path(m)) : v = SubSeq(Path(m), 1, n)
  BY <1>3 DEF OnWay
<1>6. PICK p \in Parts : m \in Numbers(p) /\ Path(m)[1] \in Slots(p) /\ Path(m) \in Seq(Nat) /\ Len(Path(m)) \in Nat
  BY <1>1, <1>4, PathShape
<1>7. Depth(v) = n /\ \A i \in 1 .. n : v[i] = Path(m)[i]
  BY <1>5, <1>6, Steps DEF Depth
<1>8. p = part
  <2>1. v[1] = Path(m)[1]
    BY <1>6, <1>7
  <2> QED BY <1>1, <1>6, <2>1, OwnSlot
<1> DEFINE x == m - part.skipped
<1>9. /\ part.skipped \in Nat /\ part.slot \in Nat /\ part.size = NDINDIRECT /\ Slots(part) = part.slot .. part.slot
      /\ x \in 0 .. NDINDIRECT - 1 /\ Path(m) = Way(part, x) /\ m \in Nat
  <2>1. part.skipped \in Nat /\ part.slot \in Nat /\ part.size = SizeOf("doubly") /\ Slots(part) = part.slot .. part.slot + Width("doubly") - 1
    BY <1>1, PartFacts
  <2>2. part.size = NDINDIRECT /\ Slots(part) = part.slot .. part.slot
    BY <2>1, PartNumbers
  <2>3. Path(m) = Way(part, x) /\ x \in 0 .. part.size - 1 /\ m \in Nat
    BY <1>1, <1>6, <1>8, PathWay
  <2> HIDE DEF x
  <2> QED BY <2>1, <2>2, <2>3
<1> DEFINE P == Pointers
           i == x \div P
           j == x % P
<1>10. P \in Nat \ {0} /\ NDINDIRECT = P * P /\ P <= NINDIRECT_16 /\ NINDIRECT_16 \in Nat
  BY Counts DEF NDINDIRECT
<1>11. Path(m) = <<part.slot, i, j>> /\ Way(part, x) = <<part.slot, i, j>>
  BY <1>9 DEF Way, Doubly
<1> HIDE DEF x, P
<1>12. x = P * i + j /\ i \in 0 .. P - 1 /\ j \in 0 .. P - 1
  BY <1>9, <1>10, Digits
<1> HIDE DEF i, j
\* A block number y below x has its block, on the way <<slot, y \div P, y % P>>.
<1>13. ASSUME NEW a \in Nat, NEW b \in Nat, a < P, b < P, P * a + b < x
       PROVE  At(file, <<part.slot, a, b>>) # 0
  <2> DEFINE y == P * a + b
             k == part.skipped + y
  <2>1. P * a \in Nat
    BY <1>10, <1>13
  <2>2. y \in Nat /\ y < x /\ x \in Nat /\ x < NDINDIRECT /\ NDINDIRECT \in Nat /\ x = m - part.skipped
    <3>1. NDINDIRECT \in Nat /\ x = m - part.skipped
      BY Counts DEF x
    <3>2. y \in Nat /\ y < x
      BY <1>13, <2>1
    <3> HIDE DEF y
    <3> QED BY <1>9, <3>1, <3>2
  <2>3. y \div P = a /\ y % P = b
    <3> DEFINE q == y \div P
               r == y % P
    <3>1. y = P * q + r /\ q \in Nat /\ r \in 0 .. P - 1
      BY <1>10, <2>2, Division
    <3>2. b \in 0 .. P - 1
      BY <1>10, <1>13
    <3>3. P * a + b = P * q + r
      BY <3>1
    <3> HIDE DEF q, r, y
    <3>4. a = q /\ b = r
      BY <1>10, <1>13, <3>1, <3>2, <3>3, Quotient
    <3> QED BY <3>4 DEF q, r
  <2> HIDE DEF y
  <2>4. k \in Nat /\ k < m /\ k - part.skipped = y /\ k \in Numbers(part)
    BY <1>9, <2>2 DEF Numbers
  <2> HIDE DEF k
  <2>5. k \in Mapped /\ k \in Numbered
    BY <1>4, <1>9, <2>4 DEF Numbered
  <2>6. Path(k) = <<part.slot, a, b>>
    <3>1. Path(k) = Way(part, y)
      BY <1>1, <2>4, PathWay
    <3>2. Way(part, y) = <<part.slot, y \div Pointers, y % Pointers>>
      BY DEF Way, Doubly
    <3> QED BY <2>3, <3>1, <3>2 DEF P
  <2> QED BY <2>5, <2>6 DEF FileInv, Mapped
<1>14. \A a, b \in Nat : /\ At(file, <<part.slot, a, b>>) = Entry(file, Entry(file, addrs[part.slot], a), b)
                         /\ At(file, <<part.slot, a>>) = Entry(file, addrs[part.slot], a)
                         /\ At(file, <<part.slot>>) = addrs[part.slot]
  BY DEF At, file
<1>15. ASSUME NEW z \in 0 .. NINDIRECT_16 - 1, data[blk][z] = 0
       PROVE  last < z
  <2> SUFFICES ASSUME z < last
               PROVE  FALSE
    BY <1>2, <1>15
  <2>1. z \in Nat /\ z < P /\ 1 <= n /\ n <= 3 /\ n # 1
    BY <1>2, <1>5, <1>7, <1>10, <1>11 DEF P
  <2>2. CASE n = 2
    <3>1. last = i /\ v[1] = part.slot
      BY <1>7, <1>11, <2>2 DEF Last, Depth
    <3>2. P * z + P <= P * i /\ P * z \in Nat /\ P * i \in Nat
      BY <1>10, <1>12, <2>1, <3>1, Times
    <3>3. P * z + 0 < x /\ 0 < P
      BY <1>10, <1>12, <3>2
    <3>4. At(file, <<part.slot, z, 0>>) # 0
      BY <1>13, <2>1, <3>3
    <3>5. Entry(file, addrs[part.slot], z) # 0
      BY <1>14, <2>1, <3>4 DEF Entry
    <3>6. blk = addrs[part.slot]
      <4>1. Front(v) = SubSeq(v, 1, 1) /\ v \in Seq(Nat) /\ Len(v) = 2
        BY <1>1, <1>7, <2>2, PlaceShape DEF Front, Depth
      <4>2. Depth(Front(v)) = 1 /\ Front(v)[1] = part.slot
        BY <3>1, <4>1, Steps DEF Depth
      <4> QED BY <4>2, AtTop DEF file
    <3> QED BY <1>2, <1>15, <3>5, <3>6 DEF Entry, file
  <2>3. CASE n = 3
    <3>1. last = j /\ v[1] = part.slot /\ v[2] = i
      BY <1>7, <1>11, <2>3 DEF Last, Depth
    <3>2. P * i + z < x
      BY <1>10, <1>12, <3>1, <2>1
    <3>3. At(file, <<part.slot, i, z>>) # 0
      BY <1>10, <1>12, <1>13, <2>1, <3>2
    <3>4. blk = Entry(file, addrs[part.slot], i)
      <4>1. Front(v) = SubSeq(v, 1, 2) /\ v \in Seq(Nat) /\ Len(v) = 3
        BY <1>1, <1>7, <2>3, PlaceShape DEF Front, Depth
      <4>2. Len(Front(v)) = 2 /\ Front(v)[1] = part.slot /\ Front(v)[2] = i
        BY <3>1, <4>1, Steps
      <4> QED BY <4>2 DEF At, file
    <3>5. Entry(file, blk, z) # 0
      <4>1. i \in Nat
        BY <1>10, <1>12
      <4>2. At(file, <<part.slot, i, z>>) = Entry(file, Entry(file, addrs[part.slot], i), z)
        BY <1>14, <2>1, <4>1
      <4> HIDE DEF blk
      <4> QED BY <3>3, <3>4, <4>2
    <3> QED BY <1>15, <3>5 DEF Entry, file
  <2> QED BY <2>1, <2>2, <2>3
<1> QED BY <1>2, <1>15 DEF BelowEarly

\* itrunc() frees every block of the file.
LEMMA FoundAll ==
  ASSUME BmapAssumption, FileInv
  PROVE  used \subseteq UNION {Freed(part) : part \in Parts}
<1>1. layout \in Layouts /\ InOrder(file) /\ IsFile(file) /\ file.addrs = addrs /\ file.data = data /\ file.used = used
  BY DEF FileInv, InOrder, file
<1> SUFFICES ASSUME NEW b \in used
             PROVE  \E part \in Parts : b \in Freed(part)
  OBVIOUS
<1>2. PICK v \in AllPlaces : b = At(file, v) /\ At(file, v) # 0
  BY <1>1 DEF InOrder
<1>3. PICK bn \in Numbered : Depth(v) <= Len(Path(bn)) /\ v[1] = Path(bn)[1]
  BY <1>1, PlaceShape
<1>4. PICK part \in Parts : Path(bn)[1] \in Slots(part) /\ Len(Path(bn)) = Levels(part.kind)
  BY <1>1, PathShape
<1>5. part.kind \in Kinds /\ v[1] \in Slots(part) /\ Depth(v) \in Nat /\ 1 <= Depth(v) /\ Depth(v) <= Levels(part.kind)
  BY <1>1, <1>3, <1>4, PartFacts, PlaceShape
<1> DEFINE root == {addrs[s] : s \in Slots(part)} \ {0}
           one  == UNION {Below(blk) : blk \in root}
\* The places of this part.
           Mine(w) == w \in AllPlaces /\ w[1] \in Slots(part) /\ At(file, w) # 0 /\ Depth(w) \in Nat
<1>6. ASSUME NEW w, Mine(w), Depth(w) = 1
      PROVE  At(file, w) \in root
  BY <1>1, <1>6, AtTop
<1>7. ASSUME NEW w, Mine(w), Depth(w) # 1
      PROVE  Mine(Front(w)) /\ Depth(Front(w)) = Depth(w) - 1 /\ At(file, w) \in Below(At(file, Front(w)))
  <2>1. /\ Front(w) \in AllPlaces /\ Depth(w) \in Nat /\ Depth(Front(w)) = Depth(w) - 1 /\ At(file, Front(w)) # 0
        /\ At(file, w) \in Below(At(file, Front(w)))
    BY <1>1, <1>7, FoundBelow
  <2>2. w \in Seq(Nat) /\ 1 <= Depth(Front(w)) /\ Depth(Front(w)) \in Nat
    BY <1>1, <1>7, <2>1, PlaceShape
  <2>3. Front(w)[1] = w[1]
    <3>1. Depth(w) - 1 \in 0 .. Depth(w) /\ 1 \in 1 .. Depth(w) - 1
      BY <2>1, <2>2
    <3> QED BY <2>2, <3>1, Steps DEF Front, Depth
  <2> QED BY <1>7, <2>1, <2>2, <2>3
<1>8. ASSUME NEW blks, NEW w, Mine(w), Depth(w) # 1, At(file, Front(w)) \in blks, layout = 10 => part.kind = "doubly"
      PROVE  At(file, w) \in Next1(blks)
  <2>1. CASE layout = 10
    <3>1. At(file, w) \in BelowEarly(At(file, Front(w)))
      BY <1>8, <2>1, FoundEarly
    <3> QED BY <1>8, <2>1, <3>1 DEF Next1
  <2>2. CASE layout # 10
    BY <1>7, <1>8, <2>2 DEF Next1
  <2> QED BY <2>1, <2>2
<1>9. Mine(v)
  BY <1>2, <1>5
<1>10. layout = 10 => part.kind \in {"direct", "singly", "doubly"}
  <2> SUFFICES ASSUME layout = 10
               PROVE  part.kind \in {"direct", "singly", "doubly"}
    OBVIOUS
  <2>1. Parts = DirectAndOne \cup {Two(Doubled, NDIRECT + 1)}
    BY SMT DEF Parts
  <2> QED BY <2>1 DEF DirectAndOne, Direct, One, Two, Part
<1> HIDE DEF root, Mine
<1>11. CASE part.kind = "direct"
  <2>1. Depth(v) = 1
    BY <1>5, <1>11 DEF Levels
  <2>2. Freed(part) = root
    BY <1>11 DEF Freed, root
  <2> QED BY <1>2, <1>6, <1>9, <2>1, <2>2
<1>12. CASE part.kind = "singly"
  <2>1. Depth(v) <= 2
    BY <1>5, <1>12 DEF Levels
  <2>2. Freed(part) = root \cup one
    BY <1>12 DEF Freed, root
  <2>3. CASE Depth(v) = 1
    BY <1>2, <1>6, <1>9, <2>2, <2>3
  <2>4. CASE Depth(v) # 1
    <3>1. Mine(Front(v)) /\ Depth(Front(v)) = 1 /\ At(file, v) \in Below(At(file, Front(v)))
      <4>1. Mine(Front(v)) /\ Depth(Front(v)) = Depth(v) - 1 /\ At(file, v) \in Below(At(file, Front(v)))
        BY <1>7, <1>9, <2>4
      <4> QED BY <1>5, <2>1, <2>4, <4>1
    <3>2. At(file, Front(v)) \in root
      BY <1>6, <3>1
    <3> QED BY <1>2, <2>2, <3>1, <3>2
  <2> QED BY <2>3, <2>4
<1>13. ASSUME layout = 10 => part.kind = "doubly", NEW w, Mine(w), Depth(w) = 2
       PROVE  At(file, w) \in Next1(root)
  <2>1. Mine(Front(w)) /\ Depth(Front(w)) = 1
    BY <1>7, <1>13
  <2> QED BY <1>6, <1>8, <1>13, <2>1
<1>14. ASSUME layout = 10 => part.kind = "doubly", NEW w, Mine(w), Depth(w) = 3
       PROVE  At(file, w) \in Next1(Next1(root))
  <2>1. Mine(Front(w)) /\ Depth(Front(w)) = 2
    BY <1>7, <1>14
  <2> QED BY <1>8, <1>13, <1>14, <2>1
<1>15. ASSUME layout = 10 => part.kind = "doubly", NEW w, Mine(w), Depth(w) = 4
       PROVE  At(file, w) \in Next1(Next1(Next1(root)))
  <2>1. Mine(Front(w)) /\ Depth(Front(w)) = 3
    BY <1>7, <1>15
  <2> QED BY <1>8, <1>14, <1>15, <2>1
<1>16. CASE part.kind \in {"doubly", "twin"}
  <2>1. Depth(v) = 1 \/ Depth(v) = 2 \/ Depth(v) = 3
    <3>1. Levels(part.kind) = 3
      BY <1>16 DEF Levels
    <3> QED BY <1>5, <3>1
  <2>2. Freed(part) = root \cup Next1(root) \cup Next1(Next1(root))
    BY <1>16 DEF Freed, root
  <2>3. layout = 10 => part.kind = "doubly"
    BY <1>10, <1>16
  <2> QED BY <1>2, <1>6, <1>9, <1>13, <1>14, <2>1, <2>2, <2>3
<1>17. CASE part.kind = "triply"
  <2>1. Depth(v) = 1 \/ Depth(v) = 2 \/ Depth(v) = 3 \/ Depth(v) = 4
    <3>1. Levels(part.kind) = 4
      BY <1>17 DEF Levels
    <3> QED BY <1>5, <3>1
  <2>2. layout # 10
    BY <1>10, <1>17
  <2>3. Freed(part) = root \cup one \cup Next1(Next1(root)) \cup Next1(Next1(Next1(root)))
    BY <1>17 DEF Freed, root
  <2>4. Next1(root) = one
    BY <2>2 DEF Next1
  <2> QED BY <1>2, <1>6, <1>9, <1>13, <1>14, <1>15, <2>1, <2>2, <2>3, <2>4
<1> QED BY <1>5, <1>11, <1>12, <1>16, <1>17 DEF Kinds

\* itrunc() keeps the invariant of the file.
LEMMA TruncKeeps ==
  ASSUME BmapAssumption, FileInv, itrunc
  PROVE  FileInv'
<1>1. /\ layout \in Layouts /\ IsFile(file) /\ file.addrs = addrs /\ file.data = data /\ file.used = used
      /\ result \in [Numbered -> 0 .. NBLOCK]
  BY DEF FileInv, InOrder, file
<1> DEFINE freed == UNION {Freed(part) : part \in Parts}
<1>2. /\ used' = used \ freed /\ data' = [blk \in Block |-> IF blk \in freed THEN Cleared ELSE data[blk]]
      /\ addrs' = [s \in Slot |-> 0] /\ result' = [bn \in DOMAIN result |-> 0] /\ layout' = layout
  BY DEF itrunc
<1>3. used \subseteq freed
  BY FoundAll
<1> HIDE DEF freed
<1>4. used' = {}
  BY <1>2, <1>3
<1>5. Numbered' = Numbered /\ AllPlaces' = AllPlaces /\ \A k \in Numbered : Path(k)' = Path(k)
  BY <1>1, <1>2, SameLayout, SameWays
<1>6. Cleared \in [0 .. NINDIRECT_16 - 1 -> 0 .. NBLOCK] /\ data \in [Block -> [0 .. NINDIRECT_16 - 1 -> 0 .. NBLOCK]]
  BY <1>1 DEF BmapAssumption, Cleared, IsFile
<1>7. data' \in [Block -> [0 .. NINDIRECT_16 - 1 -> 0 .. NBLOCK]] /\ addrs' \in [Slot -> 0 .. NBLOCK] /\ result' \in [Numbered -> 0 .. NBLOCK]
  BY <1>1, <1>2, <1>6 DEF BmapAssumption
<1> DEFINE f == [addrs |-> addrs', data |-> data', used |-> used']
<1>8. IsFile(f) /\ f.addrs = [s \in Slot |-> 0] /\ f.used = {} /\ file' = f
  BY <1>2, <1>4, <1>7, FileRecord DEF file
<1> HIDE DEF f
<1>9. InOrder(f) /\ \A v \in AllPlaces : At(f, v) = 0
  BY <1>1, <1>8, EmptyInOrder, AtNothing
<1>10. InOrder(file)'
  <2>1. \A v : IsPath(v)' <=> IsPath(v)
    BY <1>5 DEF IsPath
  <2> QED BY <1>5, <1>8, <1>9, <2>1 DEF InOrder
<1>11. Mapped' = {}
  BY <1>1, <1>2 DEF Mapped
<1>12. NoHoles'
  BY <1>5, <1>8, <1>9, <1>11 DEF NoHoles
<1> QED BY <1>1, <1>2, <1>5, <1>7, <1>10, <1>11, <1>12 DEF FileInv

\* The invariant is what the run checks.
LEMMA InvKept == BmapAssumption /\ FileInv => BlocksKept
<1> SUFFICES ASSUME BmapAssumption, FileInv
             PROVE  BlocksKept
  OBVIOUS
<1>1. /\ layout \in Layouts /\ InOrder(file) /\ result \in [Numbered -> 0 .. NBLOCK]
      /\ \A bn \in Mapped : bn \in Numbered /\ At(file, Path(bn)) = result[bn] /\ result[bn] # 0
  BY DEF FileInv, Mapped
<1>2. Places = AllPlaces
  BY <1>1 DEF Places, AllPlaces
<1>3. ASSUME NEW bn \in Mapped
      PROVE  At(file, Path(bn)) = result[bn] /\ data[result[bn]] = Cleared
  <2>1. Path(bn) \in AllPlaces /\ IsPath(Path(bn)) /\ file.data = data
    BY <1>1, PathPlace DEF IsPath, file
  <2> QED BY <1>1, <2>1 DEF InOrder
<1>4. ASSUME NEW bn1 \in Mapped, NEW bn2 \in Mapped, result[bn1] = result[bn2]
      PROVE  bn1 = bn2
  <2>1. Path(bn1) \in AllPlaces /\ Path(bn2) \in AllPlaces
    BY <1>1, PathPlace
  <2>2. Path(bn1) = Path(bn2)
    BY <1>1, <1>4, <2>1 DEF InOrder
  <2> QED BY <1>1, <2>2, PathOwn
<1>5. \A way1, way2 \in Taken : At(file, way1) = At(file, way2) => way1 = way2
  BY <1>1, <1>2 DEF InOrder, Taken
<1>6. used = {At(file, way) : way \in Taken}
  BY <1>1, <1>2 DEF InOrder, Taken, file
<1> QED BY <1>3, <1>4, <1>5, <1>6 DEF BlocksKept

\* The invariant of the file is about the file only.
LEMMA FileStays ==
  ASSUME BmapAssumption, FileInv, UNCHANGED bmapVars
  PROVE  FileInv'
<1>1. layout \in Layouts /\ layout' = layout /\ addrs' = addrs /\ data' = data /\ used' = used /\ result' = result
  BY DEF bmapVars, FileInv
<1>2. Numbered' = Numbered /\ AllPlaces' = AllPlaces /\ \A k \in Numbered : Path(k)' = Path(k)
  BY <1>1, SameLayout, SameWays
<1>3. file' = file /\ Mapped' = Mapped /\ Mapped \subseteq Numbered
  BY <1>1 DEF file, Mapped, FileInv
<1>4. InOrder(file)'
  <2>1. \A v : IsPath(v)' <=> IsPath(v)
    BY <1>2 DEF IsPath
  <2> QED BY <1>2, <1>3, <2>1 DEF InOrder, FileInv
<1>5. layout = 10 => NoHoles'
  <2>1. \A v : \A k \in Mapped : OnWay(v, k)' <=> OnWay(v, k)
    BY <1>2, <1>3 DEF OnWay
  <2> QED BY <1>2, <1>3, <2>1 DEF NoHoles, FileInv
<1> QED BY <1>1, <1>2, <1>3, <1>4, <1>5 DEF FileInv

\* The file keeps its invariant while it runs, if its pointers can address the disk; the other task leaves
\* it alone.
MapInv == task = 1 /\ Addressable => FileInv
LEMMA FilesInductive ==
  /\ FilesInit => MapInv
  /\ MapInv /\ [FilesNext]_vars => MapInv'
<1>1. FilesInit => MapInv
  BY FilesAssumption, BmapInitInv DEF FilesInit, MapInv
<1>2. ASSUME MapInv, [FilesNext]_vars, task' = 1, Addressable'
      PROVE  FileInv'
  <2>1. CASE task = 1 /\ BmapNext /\ UNCHANGED <<task, linkVars>>
    <3>1. layout' = layout
      BY <2>1 DEF BmapNext, itrunc, bmap
    <3>2. Addressable /\ FileInv
      BY <1>2, <2>1, <3>1 DEF MapInv, Addressable
    <3>3. CASE itrunc
      BY <3>2, <3>3, FilesAssumption, TruncKeeps
    <3>4. CASE \E bn \in DOMAIN result : bmap(bn)
      BY <3>2, <3>4, FilesAssumption, BmapKeeps
    <3> QED BY <2>1, <3>3, <3>4 DEF BmapNext
  <2>2. CASE task = 2 /\ LinkNext /\ UNCHANGED <<task, bmapVars>>
    BY <1>2, <2>2
  <2>3. CASE UNCHANGED vars
    <3>1. task = 1 /\ Addressable /\ UNCHANGED bmapVars
      BY <1>2, <2>3 DEF vars, bmapVars, Addressable
    <3> QED BY <1>2, <3>1, FilesAssumption, FileStays DEF MapInv
  <2> QED BY <1>2, <2>1, <2>2, <2>3 DEF FilesNext
<1> QED BY <1>1, <1>2 DEF MapInv


\* In every layout of addrs[], for every number of slots, of pointers in an index block and of blocks on
\* disk (with the 16-bit pointers of layout 6: of every disk that they can address), with or without holes:
\* bmap() gives a block number the same block again until itrunc(), no two
\* block numbers share one, no block has two places or serves both as contents and as an index block, and
\* itrunc() finds every block that is allocated.
THEOREM FilesKept == FilesSpec => []FileKept
<1>1. MapInv => FileKept
  BY FilesAssumption, InvKept DEF FileKept, MapInv
<1> QED BY <1>1, FilesInductive, PTL DEF FilesSpec

\* The theorems about symbolic links hold in the composed system.
LEMMA LinksStep ==
  /\ FilesInit => Init
  /\ [FilesNext]_vars => [LinkNext]_linkVars
BY DEF FilesInit, NoLinks, FilesNext, vars

\* AlwaysClean in the composed system: sys_open, sys_readlink and sys_symlink give back their lock,
\* their references and their transaction on every path.
THEOREM FilesClean == FilesSpec => []CleanReturns
<1>1. Init => CallInv
  BY FilesAssumption, InitInv
<1>2. CallInv /\ [LinkNext]_linkVars => CallInv'
  BY FilesAssumption, StepInv
<1>3. CallInv => CleanReturns
  BY DEF CallInv
<1> QED BY <1>1, <1>2, <1>3, LinksStep, PTL DEF FilesSpec

\* AnswersAreTrue in the composed system: what sys_open tells its caller is true of the links.
THEOREM FilesAnswer == FilesSpec => []OpensRight
<1>1. Init => WayInv
  BY FilesAssumption, InitWay
<1>2. WayInv /\ [LinkNext]_linkVars => WayInv'
  BY FilesAssumption, StepWay
<1>3. WayInv => OpensRight
  BY FilesAssumption, AnswersRight
<1> QED BY <1>1, <1>2, <1>3, LinksStep, PTL DEF FilesSpec
=============================================================================
