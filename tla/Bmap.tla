--------------------------------- MODULE Bmap ---------------------------------
(***************************************************************************)
(* w8labs/Task 1 variations: where bmap() of a file system looks for block *)
(* bn of a file, and what itrunc() frees.  layout is the tweak of addrs[]: *)
(* the slots of direct blocks and of trees of index blocks.  0 is the      *)
(* README's doubly-indirect file, the other tweaks have their own numbers. *)
(* What the fragments leave to xv6 (the direct blocks, the first index     *)
(* block, balloc, which takes the first free block and clears it, the rest *)
(* of itrunc) is modelled from how they use it.                            *)
(***************************************************************************)
EXTENDS Integers, FiniteSetsExt, SequencesExt

CONSTANTS NDIRECT, NINDIRECT,
          NBLOCK,      \* the data blocks of the disk
          POINTERS,    \* how many numbers a 16-bit pointer can hold
          MAX_ARBITRARY_BLOCKS,
          MaxBlocks    \* bound: the blocks of a file that may have holes

BmapAssumption ==
  /\ NDIRECT \in Nat \ {0} /\ NINDIRECT \in Nat \ {0} /\ MaxBlocks \in Nat
  /\ NBLOCK \in Nat /\ POINTERS \in Nat \ {0}

VARIABLES layout,
          addrs,    \* of each slot of the inode: a block, or 0
          data,     \* of each block: the pointers in it
          used,     \* the blocks that are allocated
          result    \* history: of each block number, what bmap() returned for it
file     == [addrs |-> addrs, data |-> data, used |-> used]
bmapVars == <<layout, addrs, data, used, result>>

Layouts == 0 .. 10
Block  == 1 .. NBLOCK
\* uint becomes ushort: twice as many pointers in a block.
NINDIRECT_16 == 2 * NINDIRECT
Pointers     == IF layout = 6 THEN NINDIRECT_16 ELSE NINDIRECT
NDINDIRECT   == Pointers * Pointers
Slot         == 0 .. NDIRECT + 2

\* The way to a block below an index block: the slot, and an index for each level.
Singly(slot, bn) == <<slot, bn>>
Doubly(slot, bn) == <<slot, bn \div Pointers, bn % Pointers>>
\* Mutant: the second index is taken like the third.
TriplyMixed(slot, bn) == <<slot, bn \div NDINDIRECT, bn % Pointers, bn % Pointers>>
Triply(slot, bn) == <<slot, bn \div NDINDIRECT, (bn % NDINDIRECT) \div Pointers, bn % Pointers>>
\* Tweak 4: bn chooses the tree first.
TwoDoubly(slot, bn) == Doubly(slot + bn \div NDINDIRECT, bn % NDINDIRECT)

\* The parts of a file: how much bmap() has subtracted from bn when it tests for the part,
\* the size that it tests for, and the first slot of the part.
Part(kind, skipped, size, slot) == [kind |-> kind, skipped |-> skipped, size |-> size, slot |-> slot]
Direct(skipped, slot) == Part("direct", skipped, NDIRECT, slot)
One(skipped, slot)    == Part("singly", skipped, Pointers, slot)
Two(skipped, slot)    == Part("doubly", skipped, NDINDIRECT, slot)
TwoTrees(skipped, slot) == Part("twin", skipped, 2 * NDINDIRECT, slot)
Three(skipped, slot)  == Part("triply", skipped, NDINDIRECT * Pointers, slot)
DirectAndOne == {Direct(0, 0), One(NDIRECT, NDIRECT)}
Doubled      == NDIRECT + Pointers
Parts ==
  CASE layout \in {0, 6, 8, 9, 10} -> DirectAndOne \cup {Two(Doubled, NDIRECT + 1)}
    [] layout = 1 -> DirectAndOne \cup {One(Doubled, NDIRECT + 1)}
    [] layout = 2 -> DirectAndOne \cup {Two(Doubled, NDIRECT + 1), Three(Doubled + NDINDIRECT, NDIRECT + 2)}
    [] layout = 3 -> {Direct(0, 0), Two(NDIRECT, NDIRECT)}
    [] layout = 4 -> DirectAndOne \cup {TwoTrees(Doubled, NDIRECT + 1)}
    [] layout = 5 -> {Two(0, 0), One(NDINDIRECT, 1), Direct(NDINDIRECT + Pointers, 2)}
    [] layout = 7 -> DirectAndOne \cup {Two(Doubled, NDIRECT + 2)}
Numbers(part) == part.skipped .. part.skipped + part.size - 1
Way(part, bn) ==
  CASE part.kind = "direct"     -> <<part.slot + bn>>
    [] part.kind = "singly"     -> Singly(part.slot, bn)
    [] part.kind = "doubly"     -> Doubly(part.slot, bn)
    [] part.kind = "twin" -> TwoDoubly(part.slot, bn)
    [] part.kind = "triply"     -> Triply(part.slot, bn)

\* The block numbers below MAXFILE, and the way to each.
Numbered == UNION {Numbers(part) : part \in Parts}
Path(bn) == LET part == CHOOSE part \in Parts : bn \in Numbers(part) IN Way(part, bn - part.skipped)
-----------------------------------------------------------------------------
\* The block at the end of a way, or 0, in the file f = [addrs, data, used].
Entry(f, blk, i) == IF blk = 0 THEN 0 ELSE f.data[blk][i]
At(f, way) ==
  LET one   == f.addrs[way[1]]
      two   == Entry(f, one, way[2])
      three == Entry(f, two, way[3])
  IN  CASE Len(way) = 1 -> one
        [] Len(way) = 2 -> two
        [] Len(way) = 3 -> three
        [] Len(way) = 4 -> Entry(f, three, way[4])
Cleared == [i \in 0 .. NINDIRECT_16 - 1 |-> 0]

\* An index block of layout 6 has room for 16 bits of a block number.
Stored(blk) == IF layout = 6 THEN blk % POINTERS ELSE blk
\* balloc(), and its result is stored in slot i of the inode or at index i of the block
\* above it, if a block is free.
Alloc(f, above, i) ==
  LET blk   == Min(Block \ f.used)
      clear == [f.data EXCEPT ![blk] = Cleared]
  IN  IF Block \ f.used = {} THEN f
      ELSE [addrs |-> IF above = 0 THEN [f.addrs EXCEPT ![i] = blk] ELSE f.addrs,
            data  |-> IF above = 0 THEN clear ELSE [clear EXCEPT ![above][i] = Stored(blk)],
            used  |-> f.used \cup {blk}]

\* A walk down the tree: the file, and the local addr.  addr is 0 if balloc() found none.
Walked(f, blk) == [file |-> f, addr |-> blk]
\* Level n of a way: if((addr = ...) == 0) ... = addr = balloc(...).  What is stored may be
\* cut to 16 bits, addr is not.  Tweak 8: with the root of the doubly indirect tree comes
\* its first index block.
Reach(w, way, n) ==
  LET f     == w.file
      above == IF n = 1 THEN 0 ELSE w.addr
      addr  == IF n = 1 THEN f.addrs[way[1]] ELSE f.data[above][way[n]]
      blk   == Min(Block \ f.used)
      g     == Alloc(f, above, way[n])
  IN  IF n > Len(way) \/ (n > 1 /\ above = 0) THEN w
      ELSE IF addr # 0 THEN Walked(f, addr)
      ELSE IF Block \ f.used = {} THEN Walked(f, 0)
      ELSE IF layout = 8 /\ n = 1 /\ way[1] = NDIRECT + 1 THEN Walked(Alloc(g, blk, 0), blk)
      ELSE Walked(g, blk)
ReachAll(f, way) == Reach(Reach(Reach(Reach(Walked(f, 0), way, 1), way, 2), way, 3), way, 4)

Mapped == {bn \in DOMAIN result : result[bn] # 0}

BmapInit ==
  /\ layout \in Layouts
  /\ addrs = [s \in Slot |-> 0] /\ data = [blk \in Block |-> Cleared] /\ used = {}
  /\ result = [bn \in Numbered |-> 0]

\* bmap(ip, bn) under the lock of the inode.  Tweak 9 returns 0 above its own limit, and
\* balloc() panics when no block is free.  The callers of layout 10 make no holes.
bmap(bn) ==
  /\ layout = 9 => bn < MAX_ARBITRARY_BLOCKS
  /\ IF layout = 10 THEN \A m \in 0 .. bn - 1 : m \in Mapped
     ELSE bn \in Mapped \/ Cardinality(Mapped) < MaxBlocks
  /\ LET w == ReachAll(file, Path(bn))
     IN  /\ w.addr # 0
         /\ addrs' = w.file.addrs /\ data' = w.file.data /\ used' = w.file.used
         /\ result' = [result EXCEPT ![bn] = w.addr]
  /\ UNCHANGED layout

\* The blocks that itrunc() frees below an index block: all, or those before the first 0.
Below(blk) ==
  LET zeros == {i \in DOMAIN data[blk] : data[blk][i] = 0}
  IN  {data[blk][i] : i \in DOMAIN data[blk] \ zeros}
BelowEarly(blk) ==
  LET zeros == {i \in DOMAIN data[blk] : data[blk][i] = 0}
  IN  {data[blk][i] : i \in {i \in DOMAIN data[blk] : \A z \in zeros : i < z}}
Next1(blks) == UNION {IF layout = 10 THEN BelowEarly(blk) ELSE Below(blk) : blk \in blks}
Slots(part) == part.slot .. part.slot + (CASE part.kind = "direct" -> NDIRECT - 1
                                           [] part.kind = "twin" -> 1
                                           [] OTHER -> 0)
Freed(part) ==
  LET root == {addrs[s] : s \in Slots(part)} \ {0}
      one == UNION {Below(blk) : blk \in root}
      two == Next1(Next1(root))
  IN  CASE part.kind = "direct" -> root
        [] part.kind = "singly" -> root \cup one
        [] part.kind \in {"doubly", "twin"} -> root \cup Next1(root) \cup two
        [] part.kind = "triply" -> root \cup one \cup two \cup Next1(two)

\* What is in a free block is not read again: balloc() clears it.
itrunc ==
  LET freed == UNION {Freed(part) : part \in Parts}
  IN  /\ used' = used \ freed
      /\ data' = [blk \in Block |-> IF blk \in freed THEN Cleared ELSE data[blk]]
      /\ addrs' = [s \in Slot |-> 0] /\ result' = [bn \in DOMAIN result |-> 0]
      /\ UNCHANGED layout

BmapNext == itrunc \/ \E bn \in DOMAIN result : bmap(bn)
BmapSpec == BmapInit /\ [][BmapNext]_bmapVars
-----------------------------------------------------------------------------
\* All places for a pointer that lead to a block of the file.
Places == UNION {{SubSeq(Path(bn), 1, n) : n \in 1 .. Len(Path(bn))} : bn \in DOMAIN result}
Taken  == {way \in Places : At(file, way) # 0}

\* Layout 6 can only keep its promises on a disk that its pointers can address.
Addressable == layout = 6 => NBLOCK < POINTERS

\* The file's map: bmap() gives a block number the same block again,
\* no two block numbers share one, no block of contents serves as an index block, no block
\* has two places, and the allocated blocks are those with a place, so that itrunc() leaves
\* none behind; no index leaves its array.
BlocksKept ==
  /\ \A bn \in Mapped : At(file, Path(bn)) = result[bn] /\ data[result[bn]] = Cleared
  /\ \A bn1, bn2 \in Mapped : result[bn1] = result[bn2] => bn1 = bn2
  /\ \A way1, way2 \in Taken : At(file, way1) = At(file, way2) => way1 = way2
  /\ used = {At(file, way) : way \in Taken}
=============================================================================
