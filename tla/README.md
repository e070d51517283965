# Verification of AiguPingu

This directory holds TLA+ models of the programs of the repository, the runs of the
model checker TLC over them, and proofs of their main theorems that TLAPS checks. It
was written from the code at the commit beside it; a line number below is one of
that commit.

## 1. The repository

There is no single program: the repository holds three sets of operating-system
exercises, with ten variations of each.

| Directory | What it holds | Kind |
|---|---|---|
| `src/w5labs/mutex1.c` .. `mutex10.c` | a chained hash table with POSIX threads, under ten kinds of locking | preemptive threads, shared memory |
| `src/w5labs/uthreads1.c` .. `uthreads10.c` | user-level threads for xv6, with ten schedulers or sets of calls | cooperative threads |
| `src/w3labs/handshake*.c` | xv6 programs in which parent and child talk over pipes | processes, messages |
| `src/w3labs/monitor*.c`, `sniffer*.c` | xv6 programs that set a trace mask, and that look for strings in unused memory | sequential |
| `src/w8labs/*` | fragments for the xv6 file system: big files, symbolic links | kernel code |

### Components

**Hash tables (`mutex*.c`).** State: `table[NBUCKET]`, chains of `entry` (key,
value, next), `keys[NKEYS]` with random keys, and the locks. Operations: `put`
(search the chain, update the entry found or insert a new one in front), `get`, the
loops `put_thread` and `get_thread`, and `main`, which creates the threads, joins
them and destroys the locks. Threads interact through the chains and the locks only.
What makes them correct: no key twice in a chain, no put lost, no walk of a chain
while it changes, no lock left behind, no deadlock, nothing destroyed while in use.

| File | Locking | What is hard |
|---|---|---|
| mutex1 | one lock for all puts; gets without a lock after the puts were joined | the phases; `NKEYS % nthread` |
| mutex2 | one mutex for each bucket, for gets too; gets and puts at the same time | a get between the steps of a put |
| mutex3 | a read-write lock for each bucket | writers and readers; no check of `nthread` |
| mutex4 | two bucket locks at once, the lower first | circular waiting |
| mutex5 | spinlocks | as mutex2 |
| mutex6 | `trylock` and `sched_yield` | whether polling ends |
| mutex7 | a lock for each node, hand over hand | overtaking, two puts at the tail |
| mutex8 | `get_wait` sleeps on a condition variable | lost and spurious wakeups |
| mutex9 | padded locks | as mutex2; nothing aligns the padded array |
| mutex10 | an atomic counter of inserts | counter and table are two updates |

**User-level threads (`uthreads*.c`).** State: `all_thread[MAX_THREAD]` (state,
stack, saved registers, and one field more in most files) and `current_thread`.
Operations: `thread_init`, `thread_create`, `thread_yield`, `thread_schedule`, and
the end of a thread function (`state = FREE; thread_schedule()`). The switch itself
is assembly that is not in the repository. Everything happens in one process:
control moves only inside `thread_schedule` (and `yield_to`), and `exit(0)` there
ends everything. What makes them correct: each stack belongs to exactly one flow of
control, nobody is lost or run after its end, the choice of the scheduler is the one
its comment promises, and `exit(0)` abandons nobody that could have gone on.

| File | Scheduler or calls | What is hard |
|---|---|---|
| uthreads1 | round robin | reuse of slots; fairness; a yield that comes back to itself |
| uthreads2 | lowest priority number | the initial 9999 |
| uthreads3 | exit, zombies, join | handles are slots |
| uthreads4 | a mutex that waits by yielding | a yield inside the critical section; 3000 yields of main |
| uthreads5 | sleep for ticks of the scheduler's clock | who advances the clock when all sleep |
| uthreads6 | lottery | range of the generator, remainders, no tickets |
| uthreads7 | suspend and resume | a thread suspended or resumed in any state |
| uthreads8 | thread ids | ids in reused slots |
| uthreads9 | directed yield | bypassing the scheduler |
| uthreads10 | two levels with a penalty for yielding | starvation, of newcomers too |

**Handshakes (`handshake*.c`).** State: pipes with their read and write ends, and
the places of two or three processes in their code. Operations: `pipe`, `fork`,
`read` (in `readn`, a loop), `write` (in `writen`), `close`, `wait`, `exit`.
Processes share nothing but pipes. What makes them correct: each byte is read by the
one it is for, in the order of the protocol; `exit(0)` means that the handshake is
done; the parent outlives its children; nobody waits for ever. Hard: an end that
nobody closes keeps a reader from its EOF, calls that fail without being looked at,
a process that dies in the middle.

| File | Protocol | What is hard |
|---|---|---|
| handshake1 | one byte there and back | every failure is looked at |
| handshake2, 3 | acknowledgement of one byte, of two | two bytes that arrive one by one |
| handshake4 | `argv[2]` rounds, a number that grows and wraps at 256 | the byte that is kept when a read fails |
| handshake5 | READY first | who reads first |
| handshake6 | two children, two pairs of pipes | the second child inherits the first one's ends |
| handshake7 | a ring of three | closing the six ends that are not one's own |
| handshake8 | three bytes and then EOF | which process still has a write end |
| handshake9 | a status that the child computes | a status nobody sent |
| handshake10 | confirmation of the confirmation | two pipes order nothing between them |

**Monitors (`monitor*.c`).** State: `monitor_mask` and, in one variation,
`monitor_left` of each process. Operations: the kernel's `syscall()` (when to print:
monitor8 to 10), `sys_monitor`, the copy at `fork`, and the programs that make a
mask of their first argument, call `monitor()` and run a command: decimal (1),
decimal or hexadecimal (2), names (3), nothing to run (4), `off` (5), in a child
(6), two commands (7). What makes them correct: exactly the calls that were asked
for are printed, of the right processes; the count is never passed; the commands get
the words that were typed for them, one command after the other.

**Sniffers (`sniffer*.c`).** A block of memory is scanned for a pattern. Sequential;
what the block holds is up to the kernel.

**Big files (`Task 1 variations`).** State: `addrs[]` of an inode, the pointers in
index blocks, the blocks in use. Operations: `bmap` and `itrunc`, in ten layouts and
that of `Task 1 Header config`. What makes them correct: each block number has one
block, and always the same; freeing leaves no block behind. Hard: the borders between
the trees, holes, a full disk, and the 16-bit pointers of tweak 6.

**Symbolic links (`Task 2 variations`).** State: inodes with their sleeplocks and
reference counts, the log's transactions, what `sys_open` remembers of the links it
has followed. Operations: `sys_open` (tweaks 1, 2, 4, 5, 7, 8, 9), `sys_symlink` (2,
3, 10), `sys_readlink` (6). What makes them correct: each of the many returns leaves
no lock, reference or transaction; the verdicts (too deep, a cycle, too long,
dangling) are true of the links; opens that cross do not wait for each other. Hard:
`sys_symlink` creates the inode before it writes the target, which may fail; tweak 2
follows one link only (an `if`, line 50), and in its `else` branch (line 56) puts no
NUL behind the target it reads.

These are fragments that are to be pasted into the xv6 kernel, which is not here.

The list `hazards` of `PROJECT.json` names what is hard to test in all of this, each
at its line, with the properties that look for it.

## 2. The modules

```
AtomicMap <--implements-- HashTable <-- MCHashTable               mutex2.c
Chains <-- PhasedTable, RWTable, SpinTable, PollTable,            mutex1, 3, 5, 6, 10.c
           InsertCount
SpinTable <-- PaddedTable                                         mutex9.c
  .. these six programs <-- MCTables
LockOrder, HandOverHand, CondVar <-- MCLocks                      mutex4, 7, 8.c
Coroutine <--implements-- UThreads                                what uthreads1-10.c share
UThreads <-- UThreadRR, Priority, Join, Sleep, Lottery, Suspend,  uthreads1 .. 10.c
             Tid, YieldTo, MLFQ
UThreadRR <-- UThreadMutex                                        uthreads4.c
  .. all of these but UThreadRR itself <-- MCPackages
Pipes <-- Handshake <-- MCHandshake                               handshake1 .. 10.c
Monitor                                                           monitor1 .. 10.c
UThreadRR, MCHandshake, Monitor <-- MCPrograms
Bmap, Symlink <-- MCFiles                                         w8labs
X <-- X_proofs       for X in HashTable, MCTables, MCLocks, MCPackages, MCFiles,
                     Handshake, Monitor
UThreadRR <-- UThreads_proofs <-- MCPackages_proofs
```

Five MC modules hold what TLC runs for several variations: in `MCTables`, `MCLocks`
and `MCPackages` a variable (`program`, `package`) says which source file a
behaviour is of, in `MCFiles` which of the two tasks (`task`), in `MCPrograms` which
of the three families of xv6 programs (`family`). The initial states
try all of them, and each step is a step of that file's module. The programs never
interact; they share one instance and the properties that they have in common. Where
such a property is a conjunction, its comment says which file each part is about.

An action has the name of the function or of the step it stands for. The map in
`PROJECT.json` gives the lines of each definition. Definitions with the comment
`Mutant:` are wrong versions of the one that follows. No specification uses them:
they are there to see that each property notices a likely mistake (section 6).

### The tables

*Names of entries.* `malloc` is left out: the entry that the put of `keys[j]`
allocates is called `j`. Keys may be equal, entries are not. A chain is the set of
its entries: entries are never removed, so the order inside a chain matters to
nobody but `HandOverHand`, which keeps a sequence.

*Steps.* A step is what one thread does between two accesses that another thread can
see. In `HashTable` a put has the steps `Lock`, `Search`, `Update` or `Insert` and
`Link`, `Unlock`: `insert` is two, because the head of the chain is read before the
new entry is linked (lines 54 and 41). `Chains` makes the search one step and the
update or insert another.

*Locks.* A mutex is its owner or `None`; locking waits until it is free. A
read-write lock is a writer and a set of readers. Mutexes, read-write locks,
condition variables, thread creation and join are those of POSIX; a condition
variable may wake without a reason.

*Constants.* `NBUCKET`, `NKEYS` and `nthread` are the program's. `KeySpace` is the
set of values that `random()` may return: the initial states choose any `keys[]`
from it. `argv[1]` is a positive number.

- `HashTable` (mutex2.c): put and get threads at the same time, with `main`'s loops
  that create them two by two, join them in order and destroy the locks. `AtomicMap`
  is what it promises: a map from keys to values where each put and get is one step,
  in the order of each thread. The refinement maps a put to its `Update` or `Link`
  step and a get to its `Search` step.
- `PhasedTable` (mutex1.c), `RWTable` (mutex3.c): put phase, then get phase.
- `SpinTable` (mutex5.c): to spin is to wait.
- `PollTable` (mutex6.c): `trylock` fails and goes to `sched_yield`, and back.
- `InsertCount` (mutex10.c): the counter is incremented after the insert, in a step
  of its own.
- `PaddedTable` (mutex9.c): the operations of `SpinTable` (locking is waiting in
  both), and `base`, the address of the array of padded locks, any multiple of 8: that
  is what the type asks for. `base` matters to `SeparateLines` only.
- `LockOrder` (mutex4.c): the two locks of `swap_values`. The critical section is
  empty in the code.
- `HandOverHand` (mutex7.c): any number of threads call `put` again and again (the
  comment of mutex7.c is about several; its `main` calls it from one). The variable
  `latest` is for the properties only: the value of the last put of each key that
  entered the chain.
- `CondVar` (mutex8.c): getters and putters, with `pthread_cond_wait` as one step
  that unlocks and sleeps; a getter that wakes must lock again.

### The cooperative threads

A *flow* is one run of a thread function; `main` is flow 0 and each thread created
is the next number. `context[s]` is the flow whose stack and registers the slot
holds, `running` the flow that the CPU really executes. The program has no such
variables: they are what lets the properties say that a stack is in use, lost or
stolen. `thread_switch` saves `running` in the old slot and takes the flow of the
new one.

A step is what happens between two calls of the library, with the call. Flows may
call in any order, so the models stand for every program on top of the library, with
one precondition: nobody creates a thread when no slot is free (line 62 would run
off the table). `UThreadMutex` is different: there the program itself (two workers,
`main` with its 3000 yields) is modelled.

- `UThreads`: the table, creation in the first free slot, the switch, the circular
  scan (`RoundRobin`), and the common properties.
- `Coroutine`: the abstract specification. Flows are created, hand the CPU to any
  other flow and end; the process ends with the last one.
- `UThreadRR`, `UThreadPriority`, `UThreadTid`, `UThreadYieldTo` and `UThreadMLFQ`
  implement it (the property `Implements` of uthreads1.c, `PlainImplement` of the
  other four).
- `UThreadMutex` runs on the scheduler of `UThreadRR`, as uthreads4.c does.
- `UThreadSleep`, `UThreadSuspend`, `UThreadLottery` do not: their `exit(0)` may
  abandon sleepers, suspended flows and flows without tickets. They are checked to
  abandon no others. `UThreadSleep` keeps `wakeup_tick - current_tick` instead of
  the two numbers. In `UThreadLottery` the generator may be anywhere in its cycle:
  any remainder of a number below 32768 may be drawn; `Count` is the running sum of
  the tickets over the slots, as the loops of uthreads6.c make it.
- `UThreadJoin`: a handle is the slot that `thread_create` returned; a creator joins
  each of its threads at most once. `main` may call `exit(0)` when it has joined its
  threads. `UThreadTid`: ids.

### The handshakes

In `Handshake` each program is a table: for every process the calls it makes, one
after the other, with what happens if the call fails (`exit(1)`, or going on with a
byte that is undefined, or the old one). Process 1 is the parent, 2 and 3 are the
children. A step is one call of the kernel: one turn of the loops `readn` and
`writen`, which may transfer fewer bytes than asked; a `fork`, a `close` of the ends
that the code closes in a row, a `wait`, an exit. What printing does is left out.
`got` is a history variable: who has read which byte, in the order of the reads. The
local variables of a process are read off it (`First(p)`, `Cur(p)`), so the byte that
a call sends changes as the process reads. The processes are 1 to 3 and the pipes are
those of the sources (`HandshakeAssumption`); the arguments are any integers.

`Pipes` is the kernel: an end is open for each process that has not closed it,
`fork` copies the open ends, a read of an empty pipe waits until a byte comes or
nobody can write any more, a write fails when nobody can read, and `wait` returns
one ended child. The bounds of the pipes (512 bytes) are never reached by programs
that send three bytes.

*Faults.* A `fork` may fail, and any process may be killed at any moment (which
closes its ends): that is what makes reads end early and writes fail. `pipe()` is
called before everything else, and is taken to succeed.

### The monitors

`Monitor` runs one of the seven programs, started by a shell that may have a mask of
its own, on one of the three variations of `syscall()`. The command that is run is
external: it reads, forks once and ends. Every system call may fail where the code
has an answer for it. `made` and `shown` are history variables: of each process the
calls made, and those printed. A mask is the set of its bits. A mask as text is its
digits (a digit that is none ends the number) or its names; `parse_mask` takes one
digit after the other and shifts 32 bits as the code does. A command line is a sequence of words of `Word`, cut off
anywhere, and for monitor7 with `--` at any place.

### The file system fragments

- `Bmap`. A layout is a set of parts (direct blocks, single, double, triple trees),
  each with what the code has subtracted from `bn` when it comes to the part, the size
  it tests for, and the first slot. `Path(bn)` is the way to a block: the slot, and an
  index for each level, with the quotients and remainders of the code. `bmap` walks it
  and allocates what is missing, and panics when the disk is full (the model then has
  no step); `itrunc` frees what it reaches. What `bmap` returns and goes on with is the
  local `addr`; what it stores is `Stored(addr)`, in tweak 6 the low 16 bits only
  (`a16[...] = addr`, line 165). Further, tweak 8 allocates the first index block with the root, tweak 9 has a
  limit of its own, and `itrunc` of tweak 10 stops at the first empty pointer: its
  callers must not make holes, and the model makes none there. What a block of
  contents holds is left out; it stays cleared, and `BlocksKept` says that none is
  ever written to as an index block.
- `Symlink`. A system call is a sequence of steps, one for each lock taken, link
  followed or name looked up, so that two opens and a `sys_symlink` interleave. The
  tweaks differ in `Refuses` (one link, a cycle, a depth, a length) and in what they
  remember. A name is the number of an inode and as many characters long.
  `sys_symlink` has three steps: `StartSymlink` is `begin_op`; `Create` refuses (tweak
  3: a slash; or the path exists) and ends the transaction, or makes a locked inode;
  `Writei` writes the target, or fails and leaves a link with an empty one, which
  leads to the current directory (tweak 2 writes a short target into `addrs[]`, which
  cannot fail). Tweak 2 opens what its one link leads to, also if that is a link, and
  a target of `ADDRS` characters or more leads to any name, or to none (`Garbled`).
  `omode` says whether a call follows links and whether it is `O_RDONLY`: a mode with
  `O_NOFOLLOW` is not (line 176 compares with `!=`).

## 3. The runs

A run is one question; `PROJECT.json` lists its properties.

| Run | Instance | Distinct states | Shows |
|---|---|---|---|
| hash_table | 2 buckets, 3 keys, 2 put + 2 get threads | 126 395 | no lost or double key, quiet chains, linearizable calls, safe destroy; the program ends |
| tables | 2 buckets, 4 keys, 1 to 3 threads, six programs | 828 987 | `PutsKept`: each kind of lock keeps searches fresh and puts in the table. `CountsExact`: the gets of mutex1 and mutex3 miss exactly the keys that have no put, the counter of mutex10 is right, locks are idle when destroyed. `QuietReads`, `Termination` (polling ends) |
| locks | mutex4: 3 buckets, 4 keys, 3 threads. mutex7: 1 chain, 3 threads, 4 puts. mutex8: 2 buckets, 2 getters, 2 putters, 3 spurious wakeups | 276 968 | no deadly embrace and the inductive invariant of mutex4; no lost wakeup, no return without the key; no key twice, the last put wins, nobody overtakes; every call returns |
| uthread_packages | 4 slots, 3 creations, nine packages; uthreads4 with its own counts, 1000 and 3000 | 12 702 | `StacksKept` and `AbandonsOnly` for all; priority, lots, handles, ids, suspension, penalties and the mutex for their own package; `PlainImplement` for the plain ones; `DuesPaid`: joins return, sleepers and newcomers run, main prints |
| programs | uthreads1: 4 slots, 6 creations; handshakes: ten programs, three pairs of arguments, two faults; monitors: seven programs on three kernels, up to six words, limit 2 | 740 426 | round robin threads are coroutines, with no stolen stack, no overtaking, nobody starved; the order of the reads of a handshake, what its `exit(0)` is worth, parents last, nobody waits for ever; who is traced, for which calls, how often, and the words of each command |
| files | eleven layouts with up to 3 blocks (tweak 10: all); three inodes, two processes, one of which creates links, nine tweaks | 833 885 | one block for each number and none left behind; clean returns, true verdicts, opens that return |

The theorems about `DestroyedIdle`, `WaitsUpwards`, `BothLocked`, `NoCircle` and the
types of the programs with an `IInv` are consequences of the `IInv` that the run
checks, and are proved from it.

### The bounds, and why they are enough

- *Two buckets* (three for `LockOrder`): threads that share a bucket and threads
  that do not; three for a circle of three locks. `WaitBuckets` and `ChainBuckets`
  are the numbers of buckets of mutex8.c and mutex7.c in the run `locks`. *Three key
  values* over two
  buckets: equal keys, different keys of one bucket, keys of different buckets. All
  sequences `keys[]` over them are tried.
- *One to three threads* on three and four keys: numbers that divide `NKEYS` and
  numbers that do not.
- *Slots:* four is the code's own `MAX_THREAD`. *Creations* (`MaxCreate`): three
  fill the table of the packages, and a slot whose thread ends before the last
  creation is used again; six in uthreads1.c use slots again several times. For one
  promise the bound matters: see the newcomers of uthreads10.c under *Fairness*.
- `MaxTicks` 3: sleeps that end at once, at the next scheduling, and after other
  threads have run. `MaxSpurious` 3, `MaxPuts` 4 in all: each getter may wake
  falsely; four calls let a thread put again after two others have.
- *Bytes of the handshakes* (`Args`): 7 and 254 are odd and even, 254 wraps around
  in two rounds of handshake4, and 300 is no byte. `Junk`: what an undefined byte
  may hold, with the codes of two messages among it. `MaxFaults` 2: one failure on
  each side.
- *Words* (`Word`): six, which are cut off anywhere; `MAXARG` is their number, so
  that a full line comes to the end of `nargv`. `MaxCalls` 2 and `Limit` 2: with
  `exec` and `fork` they are enough to come to the limit and past it. The masks
  include digits past the 32nd bit, a character that is no digit, and unknown and
  doubled names.
- *Layouts:* one direct slot and two pointers in a block: every tree has both of its
  borders within reach. Three blocks in one file: two in one tree and one elsewhere,
  which with their index blocks are at most nine. `NBLOCK` 10 is enough for them, and
  one too few for the whole file of tweak 10, so that its disk becomes full.
  `POINTERS` stands for the 65536 block numbers of 16 bits in tweak 6: 64 in `files`,
  which is more than the disk has, and 8 in `bmap_16bit`, which is less.
- *Links:* three inodes make circles of one, two and three links and chains of one
  and two; `DEPTH` 2 and `MAXPATH` 4 are reached by them. `ADDRS` 3: targets of one and two
  characters fit into the inode, one of three does not. Of two processes both open,
  and one also creates.
- The proofs of section 5 have no bounds but those that are constants of the
  program: they hold for all values of the constants.

### Fairness

Preemptive threads: the kernel runs each thread that can run again and again, which
is weak fairness of each thread's steps. A thread that waits for a mutex is not
served in any order; the runs end because each thread makes finitely many calls, or
(HandOverHand) because a chain is not entered for ever. For `SpuriousWakeup` and for
calling `put` there is no fairness: nothing makes them happen.

Cooperative threads: weak fairness of the calls other than `thread_create`. It says
that the flow that runs comes to its next call that yields, waits or ends, as every
thread function of the repository does. Nothing is assumed about which thread is
chosen: that is the scheduler's work, and what the properties are about.

The newcomers of uthreads10.c (`NewcomersRun`, in `DuesPaid`) need more than that. Its
scan begins at slot 0 each time (line 41), so that threads of level 0 in lower slots,
each of which creates a successor before it ends, keep a newcomer in a higher slot
from the CPU for ever. The property says: a newcomer gets the CPU, or again and
again some thread is created in a slot below it (`CreatedBelow`). `MaxCreate`
excludes the second in the run; the property itself does not lean on the bound.

Processes and system calls: weak fairness of each process's next step, because the
kernel schedules every process that can run. Nobody need be killed, and nobody need
begin a system call. A sleeplock is not served in any order. An open whose loop
keeps no count (tweaks 5, 7, 9) need not return from a circle of links;
`OpensEnd` says so.

Deadlock is checked everywhere but for the handshakes (step `Stop` of `MCPrograms`).
There the system may really stop: if the parent of handshake6.c is killed before it has written, its children
wait for ever, because each holds a write end of the other's pipe. `EveryoneEnds`
excepts that state (`Orphaned`) and no other.

### Disagreements between code and comments

Six more runs end in a violation that TLC finds:

1. `handshake_verdict`: when `fork` fails, the parent of handshake9.c prints the
   verdict of a child that does not exist (handshake9.c:59), although the child is
   to validate and return it (line 7).
2. `uthread_priority_idle`: with a thread of priority 9999 the process exits with
   "no runnable threads" although there is one (uthreads2.c:40 and 52).
3. `uthread_lottery_range`: tickets beyond 32768 are never drawn (uthreads6.c:34 and
   49), although each is a share of the CPU (line 24).
4. `uthread_sleep_alone`: when all threads sleep the process ends, because only
   running threads advance the clock (uthreads5.c:55), although a sleep is to last a
   number of ticks (line 13).
5. `padded_lines`: the padded locks of mutex9.c are to "sit on separate cache lines"
   (line 16). They have 64 bytes, but nothing aligns their array (line 26): from an
   address like 32 each mutex reaches into the line of the next lock.
6. `bmap_16bit`: tweak 6 stores block numbers in 16 bits, with a file system of
   `FSSIZE` 200000 blocks (`Task 1 Header config`, lines 9 and 10). A number above 65535
   is cut: the next walk goes to another block, which may be a block of contents
   (`BlocksKept`).

## 4. What is hard to see in the properties

- `BucketStable` and `QuietReads` are properties of steps: an invariant could not
  say that a chain does not change *while* somebody walks it.
- `Linearizable` is the refinement of `AtomicMap`. It says more than the invariants
  do: what a get returns is explained by one order of all calls.
- `FlowsKept` (in `StacksKept` and the `IInv` of uthreads1.c) relates the table to
  who really runs. It holds although a thread may run in state RUNNABLE: that is so
  after a yield that comes back to itself (line 51 skips the switch, and nobody
  writes RUNNING).
- `NoOvertaking` is fairness as a safety property: the distance of the scan from a
  waiting thread shrinks at each switch. `NobodyStarves` is the liveness it is for.
- `NeverPassed` compares positions of two threads in one chain before and after a
  step; `LastPutWins` relates the chain to the order in which puts entered it.
- `AsPromised` compares a history over all processes with the order that the
  protocol is for. It fails as soon as two pipes are relied on for an order that
  only reads make.
- `ParentLast` holds under faults too: a parent that comes to its own end has
  waited, also when a child failed to start.
- `ShownAsAsked` compares two histories with bits computed from the typed text in
  another way than the programs do: in front of `monitor()` the shell's mask
  decides, after it the typed one.
- `LimitAlongForks`: the limit is not of a program but of each line of descent, as
  `fork` copies the rest of the count.
- `SeparateLines` is about the bytes of the mutexes, not of the padded structs: these
  have a line's size each, but not its border. It holds if the array begins in the
  first 24 bytes of a cache line, which nothing in mutex9.c provides.
- `OpensRight` speaks of the links as they are when the call returns, although
  others were created while it followed them; a link never changes, so what it saw
  stays true. Of tweak 2 it promises less: what the first link leads to is opened,
  which may be a link again, and nothing where the code leaves out the NUL.
- `OpensEnd` is the absence of deadlock between opens that follow crossing links:
  the link is unlocked before the next inode is locked.

## 5. The proofs

`tlapm` checks them; each module `X_proofs` extends `X`. A theorem holds for every
value of the constants that the `ASSUME` of its module (or its own hypothesis)
allows. `PROJECT.json` lists the theorems and the properties of the runs they state. Those of
`UThreads_proofs`, `Handshake_proofs` and `Monitor_proofs` are about the specification
of the component (`RRSpec`, `Spec`, `MonitorSpec`); the run `programs` takes its initial
states and steps from these, one family at a time.

**mutex2.c** (`HashTable_proofs`). Assumptions: at least one bucket and one thread,
keys are natural numbers. The invariant is `IInv`, the conjunction of

- `TypeOK`, and `LoopInv`: which values a loop counter has at each place;
- `LockInv`: a thread between lock and unlock owns the lock of its bucket. From this
  the exclusion of two threads in one bucket follows (lemma `Exclusion`);
- `PlaceInv`: entries are in the bucket of their key;
- `NoDuplicateKeys`, and `PutInv`: what a put in the middle knows. Between search
  and link the chain holds no entry with its key, and the head it read is the chain;
- `NoLostPut`, `GetInv`, `MainInv`.

`NoDuplicateKeys` alone is not inductive: a put about to link could link a key that
is there. `PutInv` says it is not, and is kept by the steps of other threads because
of `LockInv`. `Stability`, `SafeDestroy` and `Refinement` follow from the invariant,
the latter with one lemma for the effect of a put and one for a get.

**The other tables** (`MCTables_proofs`: mutex1, 3, 5, 6, 9 and 10.c). The six
programs share one argument. `Owner(n)` is the thread that has the lock of bucket
`n`, whatever the lock is (the global lock, the writer of a read-write lock, a
spinlock), and `Covers` says which buckets the lock of a thread is for. Every step of
every program is then one of a few kinds: it takes the lock, gives it back, polls,
searches, stores, counts, or is a step of the gets or of `main`. `ChainsInv` is kept
by each kind:

- `LoopInv`: puts are made before the gets, and a thread that is done has made its
  `NKEYS / nthread` puts;
- `LockInv`: a thread that works on a chain owns it, and nobody else owns anything;
- `TableInv`: entries are in the bucket of their key and in a slice that somebody
  puts, no key is there twice, and what was put is there;
- `FreshSearch`: what a thread saw in its search is still so when it stores, and
  `PutInv`: what it put is there before it unlocks.

`FreshSearch` needs `LockInv`, and `NoDuplicateKeys` needs `FreshSearch`. To this each
program adds its own part: `GlobalInv` and `RWInv` (how many gets have missed so far,
which readers hold which lock), `SpinInv`, `PollInv`, and `CountInv` (the counter and
the puts between insert and increment are together the entries). `CountsAreExact`
counts: in mutex3.c each thread has missed as many keys as there are places of
`keys[]` behind it whose key nobody put; in mutex10.c the entries are as many as the
different keys, one for each. Assumptions: at least one
bucket, and at least one thread.

**mutex4.c** (`MCLocks_proofs`). `IInv` adds to the types what each thread holds
at each place (`OwnInv`), the bounds of its loop (`LoopInv`) and that `main` ends
last. It gives `BothLocked`, `WaitsUpwards` (a thread holds only locks below the one
it waits for) and `DestroyedIdle`. `NoDeadlock`: there is no circle of waiting
threads, of any length, since the bucket waited for would have to grow from each
thread to the next and from the last to the first (lemma `Growing`, an induction
along the circle).

**mutex8.c** (`MCLocks_proofs`). `WaitInv` is inductive as it stands: next to the
two promises (`NoLostWakeup`, `ReturnsFound`) it says who holds a lock (`OwnInv`)
and that a getter about to sleep has missed nothing (`NothingMissed`), which is true
because unlocking and going to sleep are one step. Any number of getters, putters,
keys, buckets and spurious wakeups; `CondAssumption` asks only that getters are not
putters.

**mutex7.c** (`MCLocks_proofs`). `ChainKept` is far from inductive. `IInv` adds
`Own` (whose the bucket lock and the node locks are at each place of the walk),
`Seen` (the key is at none of the nodes a put has passed, which stays true because
nodes are appended at the end only, by the owner of the last one) and `OrderInv`: of
the puts of a key that have not stored yet, the last one to lock the bucket is
behind all others; when it has stored, there are none. That gives the last value.
`NobodyOvertakes` follows from `Own`: a walker steps only to a node that it has
locked. For any number of threads, keys and calls.

The last five theorems of `MCLocks_proofs` say all this of the specification that
the run `locks` checks, in which each of the three programs leaves the variables of
the others alone.

**uthreads1.c** (`UThreads_proofs`). The lemmas say what creation, switch and end do
to `FlowsKept`, for any scheduler; the theorems `RoundRobin...` add the circular scan. `IInv` is `RRTypeOK /\ FlowsKept /\ NoneAbandoned`; from
it come `NoStolenStack`, `NoOvertaking` (arithmetic of the scan's distance) and the
refinement of `Coroutine`, for every `MAX_THREAD` and any number of creations.

**uthreads2.c .. uthreads10.c** (`MCPackages_proofs`). `PackagesInv` has one part for
each package, built on the lemmas of `UThreads_proofs`; what each adds to `FlowsKept`
is what its scheduler or its calls need:

- `PriorityInv`, `MLFQInv`: the choice is the best of those that may run. That
  uthreads2.c abandons nobody needs the hypothesis `LowNumbers` (priorities below
  9999, as in its `main`); without it the run `uthread_priority_idle` shows the
  opposite. `PackagesChoose` is about steps: nobody gets the CPU from one that should
  have it;
- `TidInv`, `YieldToInv`: ids belong to flows and grow; a yield by name goes where
  it says;
- `SleepInv`, `SuspendInv`, `LotteryInv`: only sleepers, suspended flows and flows
  without tickets may be left at the end. The lottery is an induction along the
  slots: the running sums grow, so that each ticket has one winner; and each holder
  of tickets can win if all tickets together are at most as many as the generator
  has values, which is the hypothesis `MAX_THREAD * M <= RAND` of `PackagesName`;
- `JoinInv`: a handle names its thread from `thread_create` until it is joined,
  although it is only a slot: the slot of a zombie is not used again before its
  join. Hence a join returns only after its own target has ended;
- `InTurn` (uthreads4.c): the program is deterministic, and this says how it goes.
  Main, the first and the second worker take turns; the first worker makes one
  iteration in each round until it ends, and only then the second one gets the
  lock. `Writes(f)` is the arithmetic of it. From `InTurn` follow `FlowsKept` and
  `NoLostIncrement` for every `ITERATIONS` and `YIELDS`, and `PrintsAll`: if main
  yields more than `2 * ITERATIONS` times, as it does with 3000 and 1000, it prints
  the work of both workers.

`PackagesImplement` is the refinement of `Coroutine` by the plain packages, step by
step (under `LowNumbers`, because of uthreads2.c). Other assumptions (`PackagesAssumption`): priorities are integers, tickets
natural numbers, and there is room for the three threads of uthreads4.c.

**The monitors** (`Monitor_proofs`). The invariant is the conjunction of

- `ArgsInv`: the command line, its mask and the kernel are of their kinds;
- `PlaceInv`: which commands may be there at each place of their parent (`Staged`),
  and that monitor7.c starts one only if there is a separator (`Split`);
- `TraceInv`: every running process has the mask that is right for it (`RightMask`);
  what is printed is exactly what that mask, and what is left of the limit, ask for
  (`Agrees`); lines printed and lines left are together within the limit along each
  line of descent (`InBudget`); a child is only there after `monitor()`
  (`Begun`), and one yet to be born has done nothing (`Fresh`);
- `WordsInv`: each `exec` got the words of its command.

That the shifts and sums of `parse_mask` give the bits that the text asks for is an
induction over the digits (`ParsedMask`). Any words, any limit, any number of calls,
digits and names. `ran` and `made` are compared with what is typed, in
`CommandsGetTheirWords` and `TracesAsAsked`.

**The handshakes** (`Handshake_proofs`). For every byte and every number of rounds,
any number of faults, any short transfers and any junk in an undefined byte.
`HandshakeAssumption` fixes what the sources fix: three processes, seven pipes. First
the tables are taken apart: `PairTables` says of the seven programs of two processes
what each does in its `k`-th turn (in handshake4.c for any number of turns), and
`GoodCode` of all ten what they have in common: main forks first and waits last, and
nobody closes an end that it uses later on. The invariant `IInv` has a part about the
kernel and the processes that holds for all programs and faults:

- `Kernel`: types and places;
- `Life`: who ends with 0 is at the end of its table, and main has nobody left to wait
  for when it is there. The last calls of main are as many waits as it has forked
  children, so `ParentLast` follows;
- `Born`: without faults every child that main has come past is there, and nobody is
  killed;
- `Holding`: a running process that has not come to its closing holds every end that
  it uses, and main, before it has forked all, holds those of the others too. It says
  when a read may see EOF and a write may fail: only if the other side has ended.

and one part for each family of programs, since what is in a pipe is not to be had
from the history alone:

- `RequestInv` (handshake1.c to 3.c, whatever fails): what the child has read and what
  is in `p2c` are together a beginning of the data; the answer is in `c2p` from the
  child's write to main's read. A read that fails ends the process, which is why
  nothing of this depends on `faults`;
- `EofInv` (handshake8.c, whatever fails): what is read and what is in the pipe are
  1, 2, 3 as far as main has come; a byte is missing only if the child has died, and
  then nobody reads any more;
- `ChildrenInv` (handshake6.c, no faults): each of the four pipes holds its byte from
  its write to its read, and `Story` lists the orders in which the reads can have come;
- `RelayInv` (handshake4.c, 5.c, 7.c, 9.c and 10.c, no faults): one byte goes from hop
  to hop, each with its sender, receiver, pipe and places. At most one hop is written
  and not read, all other pipes are empty, and the history is that of the hops made.
  That each hop sends what the one before has brought, `Byte(b + k \div 2)` in
  handshake4.c, is the lemma `Says`.

`AsPromised` and `ExitZeroMeansDone` are far from inductive: a history can be right
while a pipe holds a byte that will make it wrong. From `IInv` they follow together
(`PromiseKept`): in every state there is a promised history that starts with the reads
so far and has no more reads for a process that has ended well.

**Big files** (`MCFiles_proofs`). `FileInv` says that the file is in order, for each
of the eleven layouts: `InOrder`: the blocks at different places (the prefixes of the
ways of all numbers) differ, the blocks in use are those with a place, and blocks of
contents are cleared; that mapped numbers lead to what `bmap` returned; and in layout
10 that there are no holes (`NoHoles`), without which its `itrunc` would leave blocks
behind. The argument: different numbers have different ways, because quotient and
remainder determine a number, level by level; a block that is allocated and stored at
the end of a way is at that place only (`AllocAt`), so that a walk keeps the order and
what was mapped (`ReachKeeps`); and every block in use has a place in some part, at a
depth that `itrunc` comes to (`FoundAll`). For every number of slots, pointers in an
index block and blocks on disk. Of the 16-bit layout 6, and of no other, `FileKept`
asks that its pointers can hold every block number (`Addressable`); 16 bits and
`FSSIZE = 200000` do not give that, and the run `bmap_16bit` shows what happens.

**Symbolic links** (`MCFiles_proofs`). `CallInv` adds to `CleanReturns` that the
inode of a call exists, that one without a target is that of the `sys_symlink` which
has just made it, and that a call looking for the next name has left a link. The
second is why nobody else can have that inode's lock, and why the target that `Writei`
clears when it fails is not on anybody's way. The reference count of an inode is the cardinality of the set of
calls and open files that hold it; each step adds one member, removes one, or leaves
the set. For `OpensRight`, `WayInv` says that behind each call there is a way of
links from the name it was given to the inode where it is; what it remembers
(`visited`) is a prefix of that way, and each answer is justified by a way. Links
never change once their target is written, so a way remains one (`WaysStay`), whatever
is created meanwhile. Tweak 2 has ways of one link; behind a target that `addrs[]` has
no room for, nothing is claimed. Two lemmas make answers of ways: a way longer than there are
inodes goes in a circle (pigeonhole), and the length of a way is the sum that the
code adds up link by link. `SymlinkAssumption`: finitely many inodes and processes,
of which some create links. It holds for every depth, length and tweak, with what
`OpensRight` says of each. `FilesClean`
and `FilesAnswer` say the same of the specification that the run `files` checks.

*Induction.* The library's induction theorems take an operator as a parameter, which
the installed provers cannot instantiate. The proofs here use instead that `<` is
well-founded on the natural numbers (`WellFoundedInduction`): a non-empty set of
numbers has a least member, and the set is that of the prefixes for which a claim
fails. So the sums, ways and digits of the models are recursive functions over an
interval, not folds.

*What the proofs found.* The words of a command of monitor7.c were defined with a
`CASE` two guards of which were true at once; TLC took the first one, but TLA+ does
not say which. The proof could not go on, and the definition now tells them apart.

**Only model-checked:** all liveness, which needs fairness and `ENABLED` and is out of
the prover's reach: `Termination`, `AllReturn`, `NobodyStarves`, `DuesPaid`,
`EveryoneEnds`, `OpensEnd`, and the like. Every invariant and every action property of
the passing runs is stated by a theorem.

## 6. Mutants

For each property of each passing run `PROJECT.json` names a plausible mistake in
the code (a lock not waited for, a loop that does not count, a scan that starts in
the wrong slot, an end that is not closed, an index of the wrong level) as a
definition with which the property must fail. They show that the property looks at
the code and that the instance is big enough for the mistake to show.

## 7. What is not modelled, and what could come next

Not modelled, or taken as given:

- *Memory sniffers* (`sniffer*.c`): one process scans what a kernel outside this
  repository left in memory; a model would restate the loop.
- *The rest of xv6*: `fork`, pipes, `exec`, `namei`, `create`, the buffer cache,
  sleeplocks and the log are modelled from how the code here uses them.
- *Preconditions*: `argv[1]` of the tables is a positive number (with 0 mutex1.c:110
  divides by zero); threads are created only while a slot is free (uthreads1.c:62);
  `pipe()` succeeds.
- *Left out*: timing (`now()`, rates), printing other than the monitor's, failure of
  `malloc`, `insert` and `put` of mutex4.c (never called), the argument in `a0` of
  uthreads1.c, the overflow of `current_tick` (the clock is kept relative to the
  sleepers), the upper half of `readlink`'s length, which that code never sets, and
  the length check of `sys_symlink` in tweak 10 (a path that `argstr` accepts is
  shorter than a block).

What could be added: the capacity of the pipes, with writers that wait, and the tables
of the handshakes for programs with more processes; and, with a
prover that handles fairness, the liveness properties, for which the measures are at
hand (the hops of `RelayInv` still to be made, the distance of `NoOvertaking`, the
places left in a table).
