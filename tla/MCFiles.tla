-------------------------------- MODULE MCFiles --------------------------------
(***************************************************************************)
(* The two sets of file system fragments of w8labs for TLC: one file whose *)
(* blocks are mapped and freed (Bmap), or processes that open, create and  *)
(* read symbolic links (Symlink).  Whichever does not run stays in one     *)
(* initial state.                                                          *)
(***************************************************************************)
EXTENDS Bmap, Symlink

VARIABLE task
vars == <<task, bmapVars, linkVars>>

ASSUME FilesAssumption == BmapAssumption /\ SymlinkAssumption

Empty   == layout = 0 /\ addrs = <<>> /\ data = <<>> /\ used = {} /\ result = <<>>
NoLinks == Init /\ tweak = 9 /\ \A i \in Named : kind[i] = "file"

FilesInit ==
  \/ task = 1 /\ BmapInit /\ NoLinks
  \/ task = 2 /\ Empty /\ Init

FilesNext ==
  \/ task = 1 /\ BmapNext /\ UNCHANGED <<task, linkVars>>
  \/ task = 2 /\ LinkNext /\ UNCHANGED <<task, bmapVars>>

\* The kernel schedules each process in a system call again and again.
FilesSpec ==
  /\ FilesInit /\ [][FilesNext]_vars
  /\ \A p \in Proc : WF_vars(task = 2 /\ Syscall(p) /\ UNCHANGED <<task, bmapVars>>)
-----------------------------------------------------------------------------
\* In each layout bmap() keeps its promises, and itrunc() leaves nothing behind; in layout 6
\* only on a disk that 16 bits can address, which FSSIZE = 200000 is not (see Bmap16Bit.cfg).
FileKept == task = 1 /\ Addressable => BlocksKept
=============================================================================
