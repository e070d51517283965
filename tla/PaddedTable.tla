----------------------------- MODULE PaddedTable -----------------------------
(***************************************************************************)
(* w5labs/mutex9.c: put() under a lock for each bucket, and the locks are  *)
(* padded to the size of a cache line.  The operations are those of        *)
(* SpinTable with pthread_mutex_lock; what is new is where the locks are.  *)
(***************************************************************************)
EXTENDS SpinTable

LINE       == 64    \* bytes of a cache line
MUTEX_SIZE == 40    \* sizeof(pthread_mutex_t) on 64-bit Linux

VARIABLE base    \* the address of padded_locks, from the start of its cache line
paddedVars == <<vars, base>>

\* The loader decides, and pthread_mutex_t needs an alignment of 8.
PaddedInit == Init /\ base \in {a \in 0 .. LINE - 1 : a % 8 = 0}

\* main initialises the locks, which are idle, and creates the threads (Init); put
\* locks and unlocks the lock inside the structure.
PaddedMain    == Main /\ UNCHANGED base
PaddedStep(t) == Step(t) /\ UNCHANGED base

PaddedNext == PaddedMain \/ \E t \in Thread : PaddedStep(t)
PaddedSpec == PaddedInit /\ [][PaddedNext]_paddedVars

\* sizeof(struct padded_lock): the mutex and its padding.
PaddedSize == MUTEX_SIZE + (LINE - MUTEX_SIZE)

\* The cache lines of the lock of bucket i.
LinesOf(i) ==
  LET first == base + i * PaddedSize
  IN  first \div LINE .. (first + MUTEX_SIZE - 1) \div LINE
-----------------------------------------------------------------------------
PaddedTypeOK == TypeOK /\ base \in 0 .. LINE - 1

\* "so they sit on separate cache lines" (line 16): two locks that threads hold at the same
\* time share no line.  The padding makes the distance right, but nothing in the code aligns
\* the array itself (line 26): from an address like 32 each lock reaches into the line of
\* the next one.  No result depends on it, only the time that the threads take.
SeparateLines ==
  \A i, j \in {n \in BucketNo : locks[n] # None} : i # j => LinesOf(i) \cap LinesOf(j) = {}
=============================================================================
