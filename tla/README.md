# A TLA+ model of xv6-riscv

TLA+ modules, TLC runs and TLAPS proofs about the kernel in `kernel/` and the
user programs that have an algorithm in them (`user/umalloc.c`, `user/sh.c`,
`user/grep.c`). Modules, actions and operators have the names of the C functions
they translate; `PROJECT.json` maps every definition to its lines.

## The system and its parts

| Part | Source | Module |
| --- | --- | --- |
| logging layer | `log.c` | `Log`; promise: `AtomicDisk`; proofs: `LogProofs` |
| spin locks, interrupt nesting | `spinlock.c` | `SpinLock`; proofs: `SpinLockProofs` |
| scheduler, `sleep`/`wakeup`, clock | `proc.c`, `trap.c`, `sysproc.c` | `Sched`; proofs: `SchedProofs` |
| process life cycle | `proc.c` | `ProcLife`; proofs: `ProcLifeProofs` |
| traps, `swtch` | `trap.c`, `trampoline.S`, `kernelvec.S`, `swtch.S` | `Trap`; proofs: `TrapProofs` |
| buffer cache, its sleep locks | `bio.c`, `sleeplock.c` | `Bio`; proofs: `BioProofs` |
| disk driver and device | `virtio_disk.c` | `VirtioDisk`; proofs: `VirtioDiskProofs` |
| pipes | `pipe.c` | `Pipe`; promise: `Fifo`; proofs: `PipeProofs` |
| inodes, directories, path names | `fs.c` | `Inode` |
| file system calls, open files, descriptors | `sysfile.c`, `file.c` | `Sysfile` |
| file contents, block allocation, image | `fs.c`, `file.c`, `mkfs.c` | `Filedata` |
| serial port | `uart.c` | `Uart` |
| console input | `console.c` | `Console` |
| pages, page tables, `sbrk`, `fork`, `exec` | `kalloc.c`, `vm.c`, `exec.c`, `proc.c`, `syscall.c` | `Vm` |
| user allocator | `umalloc.c` | `Malloc` |
| shell | `sh.c` | `Shell` |
| grep | `grep.c` | `Grep` |

File system calls run in transactions of the log, the log uses the buffer cache
and that uses the disk driver. All of them sleep and wake through the scheduler
and exclude each other with spin locks. `Sysfile` is composed with `Inode` and
with the log's promise. Elsewhere a module takes from the layer below what that
layer's own module checks:

- Every module takes from the locks that a critical section is atomic
  (`SpinLock`: `MutualExclusion`, proved).
- `Bio`, `VirtioDisk`, `Pipe`, `Log`, `ProcLife`, `Uart` and `Console` take from
  the scheduler that no wakeup between a test and its `sleep()` is lost (`Sched`:
  `SleepReturns`). `ProcLife` and `Pipe` keep the gap this does not cover:
  `kill()` does not take the condition's lock.
- `Sched` takes from the context switch that a process finds its registers again
  (`Trap`: `RegistersExact`, proved).
- `Log` takes from the buffer cache that a block has one buffer, locked by one
  process at a time, and that a pinned buffer is not recycled (`Bio`:
  `HoldsCurrent`, `NothingLost`, proved), and `Bio` from the driver that a request
  returns after it has been performed (`VirtioDisk`: `ReturnsDone`, proved).
- `Inode` and `Sysfile` take from the log that what one or more operations wrote
  is on the disk all together after a crash, or not at all (`Log` refines
  `AtomicDisk`), and that a transaction holds what is reserved for it (`Filedata`:
  `WritesFit`).

## How the modules read

A critical section of one spin lock is one step unless something can happen
inside it that the module is about; then the lock is a variable (`p->lock` and
`tickslock` in `Sched`, `wait_lock` in `ProcLife`, `pi->lock` in `Pipe`,
`uart_tx_lock` in `Uart`). `sleep()` is a state of the process, `wakeup()` moves
every sleeper of the channel. A panic sets a flag or a mode and stops the system.
A call that nothing else can observe half way is one step, written as operators
that take the state and return it.

- **Log.** Memory and disk are separate variables. `commit()` and recovery take
  one step per disk write, and `Crash` can come between any two. `tail` is the
  loop variable of `write_log()` and `install_trans()`. An operation changes
  buffers it has locked and logs at most `OpBlocks` distinct blocks. `Recovered`
  is the disk recovery would leave; with it `Log` refines `AtomicDisk`.
- **SpinLock.** One step per access that another CPU or an interrupt can see.
  Each CPU runs a thread and, on top of it, an interrupt handler; both take
  locks in increasing order, as the lock order of the code requires.
- **Sched.** `struct cpu` is a record; each process is in user code, in
  `sys_sleep()` or in `sched()`. The clock interrupt wakes sleepers one `p->lock`
  at a time and makes the running process yield. Time is a flag: a sleeper is due
  after the next tick, or never (`Forever`).
- **ProcLife.** `fork`, `exit`, `wait`, `kill` over the table `proc[]`. A process
  that exits keeps `p->lock` until it is off its stack (`pc = "swtch"`). `asked`
  records whom `kill()` named. init never exits, as `user/init.c` is written.
- **Trap.** The registers of each hart, the trapframe, the context and the stack
  of each process. Registers that are saved together are one. A user program may
  compute, trap, be interrupted, be preempted and go on elsewhere at any point;
  what will be written before it is read is set to `Junk`.
- **Bio.** Data is abstracted to "is this copy the current one". The LRU list is
  a sequence.
- **VirtioDisk.** The driver, the three-descriptor chains, both rings with
  wrapping indices and a device that finishes requests in any order.
- **Pipe.** Loops take one step per byte; `kill()` and failing copies can hit
  any iteration; the counters wrap at `CntMod`.
- **Inode, Sysfile.** A process executes `code`, the calls it still has to make;
  a step takes the first and may put others in front. Every place where the code
  can wait (an inode's lock, `begin_op()`) is a step of its own, and so is every
  reference count. Directories are functions from names to inode numbers with the
  room that their blocks give them. The last `end_op()` makes the disk durable;
  `crash` goes back to that.
- **Filedata.** Inodes, indirect blocks, bitmap and data as blocks of `BSIZE`
  units. A buffer changed without `log_write()` may be forgotten at any time, and
  so may an inode in memory (`ino`) that `iupdate()` has not logged (`dinode`).
  `log_write()` panics unless a transaction is outstanding, the caller's or another
  process's. The disk may be full, a copy from or to user space may fail in the
  middle, and another descriptor may truncate the file below the offset. `mkfs`
  makes the first image with some number of files in the root.
- **Uart, Console.** Each access to a device register is a step; writers, the
  interrupt handler, `printf()` and echo share the register. The console's ring is
  compared with an editor of lines that has no indices.
- **Vm.** Page tables are pages in physical memory with three levels of two
  entries, user pages have four units, addresses wrap. Others hold some of the
  pages (`held`), so every allocation on a path may be the one that fails.
  `kalloc()` and `kfree()` fill a page with junk, tables included.
  `copyin()`, `copyout()`, `copyinstr()`, `fetchaddr()` and `fetchstr()` are
  compared with copies unit by unit.
- **Malloc.** The circular list kept in the blocks; the heap may be extended by
  the allocator or by the program itself.
- **Shell.** The recursive descent of `parsecmd()` against `Split`, which cuts a
  line at its operators; `runcmd()` as a tree of processes with descriptors.
  `main()` reads the next line while background processes still run. Any `fork()`
  may fail; `failed` is the set of shell processes that panicked at one.
- **Grep.** The backtracking matcher against the strings that a pattern denotes,
  and the loop that puts lines together.

`MCKernel` and `MCParts` put several components that need no other to run into
one state space: a behaviour is one of one part (`part`), and the variables of
the others are off. `MCLog` and `MCSysfile` give constants and symmetry.

## Runs

| Run | Instance | Checks |
| --- | --- | --- |
| `log_crash` | 2 processes, 3 blocks, 2 contents | refinement of `AtomicDisk`, one commit at a time, pins balanced |
| `log_space` | 3 processes, 5 blocks, log area of `LOGSIZE` blocks as mkfs makes it | no panic, sleepers wake |
| `log_full` | 3 processes, `LOGSIZE = 3 * MAXOPBLOCKS = nlog` | violation, see Findings |
| `kernel` | spin locks: 2 CPUs, 2 locks, handlers, one bare `push_off()`; cache: 3 processes, 2 buffers, 3 blocks, 1 pin; UART: 2 writers, ring of 2; console: 2 readers, ring of 2; traps: 2 harts, 2 processes | exclusion, interrupt nesting, no self-deadlock; current data and exact counts; output in order and not stuck; input exact; registers exact |
| `sched` | 2 CPUs, 2 processes, one of which may sleep for ever | one CPU per stack, `intena`, no panic; sleeps end, killed processes exit |
| `proclife` | 4 slots, pids to 4 | the family tree is sound, no early free, no missed exit; adopted zombies are reaped |
| `proclife_kill`, `proclife_lost_kill` | 3 slots | violations, see Findings |
| `virtio` | 3 requests, 7 descriptors | ownership of chains, no panic, no early return, every request returns |
| `pipe` | 1 reader, 2 writers, ring of 2 bytes | refinement of `Fifo`, no use after free, calls return |
| `fs` | 2 processes, 3 inodes, 3 table entries, 3 blocks, 2 descriptors each, 2 files, 1 pipe, crashes; nine workloads | link counts, current entries, nothing held after a call, no circular wait, panics |
| `parts` | memory: 24 pages, 0 to 17 of them held by others, 3 calls; files: 9 blocks, 2 direct, blocks of 2, 1 or 2 files in the root, 4 calls; allocator: heap of 15 units; shell: every line of up to 3 tokens, those of 4 with at most two of `\|` and `&`, and some longer, up to 2 lines typed; grep: patterns to 3, texts to 4 and two longer, buffer of 4 | memory, copies and isolation of calls; file contents and reservation; heap; parser, descriptors, order; output of grep |

What the deeper ones say:

- `LinksExact`: whenever no transaction is open, and so after every crash, a name
  refers to an inode in use and `nlink` counts the names.
- `EntryCurrent`: a valid, unlocked entry of the inode table holds what the disk
  has, through reuse of entries and of inode numbers.
- `NothingHeld`: after any call, on any error path, what it took is given back.
- `PanicsOnlyAboveRemoved`: the only panic reached is `ilock: no type`, by ".."
  out of a removed directory whose parent has been removed too. (A full inode
  table, which panics as well, cannot be reached: `NINODE` entries, as many inodes.)
- `CopiesExact`: each copy between kernel and user succeeds exactly when every unit
  it touches is the process's (and writable, for `copyout()`), and moves the units
  before the first that is not and nothing else.
- `MemoryExact`, `CallsIsolated`: with an allocation failing anywhere in `sbrk`,
  `fork` or `exec`, no page is lost or shared and the caller's memory is as before.
- `FilesExact`: bitmap and references agree and a file reads as written, after
  writes and truncations that fail half way too. The exception is a root whose
  entries fill its blocks, see the end of Findings; the property says what may
  happen to it and that nothing else does.
- `ProgramsClean`: a program starts with descriptors 0 to 2 only, and no shell
  process keeps an end of a pipe, except between the two forks of that pipe.
- `InOrder`: nothing of a list or of a line starts before what precedes it has
  ended, except background processes and what a shell process left running when it
  panicked at a failing fork.
- `GrepExact`: grep prints the matching lines, up to the first line that does not
  fit its buffer.
- `OutputNotStuck`: while the ring holds characters, the device or somebody on
  the way to `uartstart()` will take them.
- `RegistersExact`: in user mode and in the kernel, wherever it resumes, a process
  has its registers, page table, stack, `tp` and interrupt setting.

**Bounds.** The sets of processes, blocks, buffers and the like are the smallest
in which two actors compete and a third is left over (a waiting process, a block
that is not cached, a request without descriptors). `MaxPid`, `MaxPins`, `MaxN`,
`MaxBare`, `MaxCalls` and `MaxHeap` cap counters and histories. `CntMod` and
`IdxMod` make 32-bit and 16-bit counters wrap within a few steps and stay
multiples of the ring size, as the real ones are; 7 descriptors hold two chains
and leave one over. The buffer cache has one pin, which with one user fills it.
Two readers and writers and rings of two let a ring be full, empty and wrapped
with somebody asleep. The nine workloads of `fs` each give two processes the calls
that meet on the same directory, file or descriptor, or one process the calls that
fail: removal while a directory is filled or entered, links made and removed,
execution while the file goes, descriptors that run out and are shared, a full
disk, a directory that cannot grow. 24 pages are what two processes and
their tables fill, and `held` makes each allocation fail once. Lines of four
tokens have every pair of operators with an operand between or missing; the longer
ones nest. Symmetry is used for processes and blocks of `log_crash` and `log_full`
and for the CPUs of `kernel`, never with liveness.

**Deadlock** is checked except in `pipe`, where everybody may have closed the pipe.

**Fairness.** A process that can run does run: the scheduler scans `proc[]` round
and the timer preempts. Strong fairness is used where a process competes for a
lock, which a spinning CPU wins sooner or later, and where an operation or critical
section has to end. The device performs what it is given and its interrupt is
taken. `Pipe` assumes that a process done with its calls closes its descriptor, as
`exit()` does. In `ProcLife` init keeps calling `wait()`.

## Proofs

About `Log`, for every number of processes and blocks and all sizes that satisfy
`LogAssumption` (naturals, `OpBlocks <= MAXOPBLOCKS <= LOGSIZE`, finitely many
processes):

- `TypeCorrect`, `CommitsAlone`, `PinsAreBalanced` (`LogProofs`). The inductive
  invariant `IInv` adds to the three properties: nothing runs before recovery is
  over (`Quiet`); `log.committing` is set exactly while one process is in
  `commit()` and then no operation is in progress (`Committer`);
  `log.outstanding` is the number of operations (`Counted`); a block is listed
  once and an operation's blocks are listed (`Listed`), without which unpinning
  one entry could leave another; the log is empty when the commit is over
  (`Tidy`). One lemma per action.
- `SleepersHaveWaker`: from `IInv` and `Emptied`, which says
  that an idle log is empty, so an operation is always admitted to it.
- `NoPanics`, under `SpaceEnough`. `Reserved` is the set of
  log entries that operations in progress have reserved and not used. The log's
  length plus its size never exceeds `LOGSIZE` (`Fits`): `begin_op()`'s product
  bounds it, and `log_write()` takes each new entry from the writer's own part.
  For the image mkfs makes (`nlog = LOGSIZE`) `SpaceEnough` says that an
  operation writes at most `MAXOPBLOCKS - 2` distinct blocks.
- `ImplementsAtomicDisk`: every step of `Log` is, under the mapping of `Recovered`
  to `durable`, `Seen` to `volatile` and `InOp` to `active`, a step of `AtomicDisk`
  or none. Only `write_head()` commits. Next to `IInv` this needs `DInv`: a block
  whose buffer differs from the disk is pinned or held, so recycling a buffer loses
  nothing (`Coherent`); the header is empty but while `install_trans()` runs, and
  then it is the log in memory, its data blocks have what the kernel sees, and those
  installed are at home (`Committing`, with `Copied` and `Installed`); recovery works
  on the header's own list with a cache that has nothing of its own (`Booting`,
  `Recovering`); and the header lists a block once (`Once`). Replaying is a function
  of the disk that the log blocks and the home blocks not listed determine
  (`ReplayAt`, `ReplayIs`), so neither an empty log (`ReplayNone`) nor installing a
  listed block (`ReplayInstall`) changes the disk it gives: a crash in the middle
  of `install_trans()`, of recovery from a crash too, is harmless.

About `SpinLock`, for any set of CPUs, any finite set of locks ordered as integers
and any depth of bare `push_off()`s (`SpinLockAssumption`):

- `Exclusion`, `Restored` and `NoDeadlocks` (`SpinLockProofs`) are the three
  properties that `kernel` checks. None of them is inductive. The swap of one CPU
  keeps `Exclusive` whatever the others do, but that a handler does not take its
  own thread's lock, that `pop_off()` finds interrupts off, and that `intena` is
  the right setting all rest on what one CPU has open. So `IInv` has, for each
  CPU, `Local`: `noff` is the number of held locks and bare `push_off()`s of the
  running context, plus one inside `acquire()` and `release()` (`Depth`);
  interrupts are off while it is not zero, so an interrupted thread has nothing
  open (`Interrupted`); the setting to go back to is in `intena`, in the register
  or, between `intr_get()` and the count, in `old` (`Saved`); and nested locks go
  up (`Aims`). A step of another CPU leaves `Local` alone (`Elsewhere`). One lemma
  per action.

About `Pipe`, for any processes, any size of the ring and any multiple of it at
which the counters wrap (`PipeAssumption`):

- `ImplementsFifo` (`PipeProofs`): every step of `Pipe` is, under the refinement
  mapping `Contents`, a step of `Fifo` or none. First come facts about remainders
  (`DivMod`, `ModUnique`, `Wrap`, `Shift`, `Apart`), then about the ring for any
  start and length: writing behind the bytes appends one (`RingPut`), moving the
  start, over the wrap of the counter too, drops one (`RingGet`), and the tests of
  the code on wrapping counters are tests on the number of bytes (`Counting`).
  That a byte is put only while the read end is open needs `Calls`: a writer past
  its test has `pi->lock`, and `pipeclose()` needs it.
- `NotUsedFreed`: from `Calls` and `Ends`, whoever is in a call has a descriptor,
  and an end with a descriptor is open.
- `NoLostWakeup` is the safety part of `CallsReturn`: a sleeping writer has a full
  pipe and an open read end before it, a sleeping reader an empty pipe and an open
  write end, unless somebody who has yet to wake it is in the loop of `piperead()`
  or `pipewrite()`. Inductive with what `pi->lock` keeps from the test to `sleep()`
  (`ToWait`) and who can be where (`Sides`). One gap is the code's own: a writer
  killed after it has put bytes in leaves `pipewrite()` without its wakeup; the
  readers go on when it exits and closes the pipe.

About `Bio`, for any finite sets of processes and buffers and any set of blocks
(`Distinct`: `None` is none of them; `MCKernel` evaluates it):

- `HoldersSeeCurrent` and `NothingIsLost` (`BioProofs`). Neither property is
  inductive: that a buffer `bget()` recycles is nobody's rests on its count, the
  count on who works with which buffer, and that its contents are on the disk on
  the pins. `IInv` says where everybody is: a process between `bget()` and
  `brelse()` has a buffer that has a block, and the lock between `acquiresleep()`
  and `releasesleep()` (`Working`, `Locked`); a block has one buffer (`Unique`);
  what is valid is current (`Fresh`); `refcnt` is the number of users plus the pin
  (`Counted`); a pinned block is cached (`Pinned`); a block that differs from the
  disk is pinned, or whoever changed it still holds it and has yet to write or pin
  it (`Dirty`); the list has every buffer (`Linked`), through `MoveToFront`
  (`Moved`). For the panic of `bget()`: if its scan finds nothing, every buffer has
  a reference (`NoneFree`), so there are at least as many users and pins as buffers
  (`CacheFull`).

About `VirtioDisk`, for any processes, `NUM >= 3` descriptors and any multiple of
`NUM` at which the ring indices wrap (`VirtioAssumption`):

- `DescriptorsAreOwned` and `ReturnsAreDone` (`VirtioDiskProofs`). `IInv` says that
  a request in flight has three distinct descriptors marked with it (`Owned`);
  what either ring or the device holds is the head of such a request, in one place
  only, and in the used ring its work is done and its status good (`Avail`,
  `Used`, `Busy`); the filled entries of a ring are exactly those from the
  reader's index to the writer's, however often the indices have wrapped, and do
  not fill it (`RingOK`); free descriptors and three per request make `NUM`
  (`Balanced`). The index that the writer fills is empty because every entry is
  another request's and a request takes three descriptors. The arithmetic of
  wrapping indices comes first (`Ahead`, `Dist`); then what the loop of
  `alloc3_desc()` finds. One lemma per action.
- `NoRequestForgotten` is the safety part of `RequestReturns`. Whoever sleeps on its
  buffer has its request in the avail ring with an index the device has yet to
  fetch, at the device, or in the used ring with an index the driver has yet to
  read, and then an interrupt is pending or the handler is in its loop; whoever
  sleeps for descriptors would not get three, and requests are in flight that will
  free some. `FInv` has the four facts this takes, `IInv` what the rings' entries
  say of their indices.

About `Sched`, for any CPUs and processes (`SchedAssumption` only tells the names of
CPUs, processes and their absence apart):

- `SwitchingSound` (`SchedProofs`) is `SwitchesExact`. `IInv` says, for each CPU
  (`OnCpu`), what `noff`, `intena`, interrupts and `p->lock` are wherever its code
  is: in the scheduler scanning or just back from a process, in a process in or out
  of `sched()`, or in a clock interrupt taken there; and, for each process no CPU
  has taken, that it can go on from its `swtch()` with the setting it left with
  (`Rested`). A step of one CPU leaves this alone for the others (`Elsewhere`):
  it touches a process it has taken, or wakes one whose lock is free.
- `SleepersAreCalled` is the safety part of `SleepReturns`: a process SLEEPING in
  `sys_sleep()` is on the channel `&ticks`, and if its time has come, a
  `clockintr()` in progress has still to look at it, although `sleep()` gives
  `tickslock` up before it sets the state. The invariant is `LInv`: `tickslock` is
  with whoever is in the handler's loop or between the test and `release(lk)`
  (`TicksHeld`), so the time cannot come there (`NotDue`); from then on, until the
  process has set its state, it has `p->lock`, and `wakeup()` waits for that
  (`InTime`).

About `Trap`, for any harts and processes that are different things (`Disjoint`;
`MCKernel` evaluates it):

- `RegistersKept` (`TrapProofs`) is `RegistersExact`. `IInv` says where the values
  of a context are while something else uses the registers: a process in the kernel
  has its user registers in the trapframe (`Framed`); a process waiting for a hart
  can be resumed from its context and, if it was preempted in the kernel, from the
  one frame on its stack (`Parked`, `Interrupted`); a hart that runs a process can
  go back to its scheduler (`Switched`); and what a hart must have, by where it
  is (`Running`). Again a step of one hart leaves the others alone (`Elsewhere`).

About `ProcLife`, for a table of any size, with init in it (`ProcLifeAssumption`):

- `FamilySound` (`ProcLifeProofs`) is `FamilyExact`. `IInv` ties the position of
  each process in its call to its state (`Placed`) and to `wait_lock` (`Alone`),
  says that a slot in the state USED is in the hands of one `fork()` (`Forking`),
  that parents have not exited (`Parents`), and that whoever sleeps in `wait()`, or
  has decided to, has children none of which is a zombie (`Awaited`): the last is
  what `wait_lock`, kept from the scan to the `sleep()`, is for.

Only model-checked: the properties of `Uart`, `Console`, `Inode`, `Sysfile`,
`Filedata`, `Vm`, `Malloc`, `Shell` and `Grep`, and liveness. Liveness is out of the
prover's reach (fairness and `ENABLED`); `SleepersHaveWaker`,
`NoLostWakeup`, `SleepersAreCalled` and `NoRequestForgotten` prove that nobody sleeps
with nothing to wake it, the model checker that it is woken. Also out of reach is induction over
data: the algorithms of `Filedata`, `Malloc`, `Shell`, `Grep`, `Vm` and
`Console` are recursive and are compared with their references on all inputs within
the bounds, and `OutputInOrder` of `Uart` filters a sequence. An invariant of
`Inode` and `Sysfile` would have to say what each prefix of the code of each call
has taken; they are checked on the workloads of `fs` only.

## Findings

- `log_full`: `param.h` lets an operation write `MAXOPBLOCKS` blocks and says the
  log holds `LOGSIZE`; mkfs makes it one shorter, and operations that use their
  whole reservation reach the panic in `log_write()`.
- `proclife_kill`: `kill(0)` marks an UNUSED slot, and `allocproc()` does not
  clear `killed`.
- `proclife_lost_kill`: a `kill()` between `wait()`'s `killed()` test and its
  `sleep()` wakes nobody.

Behaviour that the models have because the code does, and that no text contradicts:

- ".." out of a removed directory whose parent was removed panics (`ilock: no
  type`). What is created or linked in a removed current directory is lost with
  it. A file open without a name when the machine stops is never reclaimed.
- A `sbrk()` of more than the process has, downwards, wraps and succeeds without
  changing anything. A failing `sbrk()` leaves empty table pages behind.
- A copy from user space that fails in `writei()` leaves a partial change in the
  cached buffer without `log_write()`, which lasts until the buffer is recycled.
- `filewrite()`'s reservation does not count the bitmap block of the indirect
  block; its other allowances cover it (`WritesFit`).
- `mkfs.c:168` rounds the root's size up by a whole block when its entries fill
  their blocks exactly. Reading the block that is not there allocates it: with no
  transaction outstanding `fileread()` panics (`log_write outside of trans`); with
  one the block is lost when the inode leaves memory, as `readi()` saves no inode;
  on a full disk the read is short. (`dirlookup()` would then panic with
  `dirlookup read`; `Sysfile` has no such directory.) The image that the Makefile
  makes has 19 entries in the root, and blocks hold 64.
- When the second `fork()` of a pipeline fails, its left side runs on while the
  shell prompts again.
- In the shell the first of two redirections wins, and `a & b` is a syntax error.

## Not modelled

- Weak memory: the fences of `spinlock.c` are taken to give sequential
  consistency. Torn disk blocks and I/O errors: the driver panics on a status.
- `acquiresleep()` and `releasesleep()` are one step each; the sleep inside is
  that of `Sched`.
- The kernel's own page table, the machine-mode start and the set-up of the
  interrupt controller happen once, before there is any state to keep.
- Names longer than `DIRSIZ`, files open for both reading and writing, and an inode
  table that runs out (there are as many entries as inodes). The checks of the ELF
  header and the number of arguments of `exec()`. Requests of 2^31 bytes or more to `malloc()`.
- `^P`, `panicked` in the UART, and how fast `printf()` may be called: if it never
  stopped, writers of the ring might never find the device ready.
- Formatting, string helpers, the user library and utilities without an algorithm
  (`cat`, `ls`, `wc`, ...): straight-line code or byte loops without shared state.
  `usertests`, `grind`, `stressfs` and `forktest` are tests of the kernel.
