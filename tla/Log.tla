-------------------------------- MODULE Log ---------------------------------
(***************************************************************************)
(* The redo log of kernel/log.c over the buffer cache and the disk, with a *)
(* crash possible between any two disk writes.  A disk write of one block  *)
(* is atomic; everything done under log.lock is one step.  The commit path *)
(* runs without log.lock and is one step per disk write.                   *)
(***************************************************************************)
EXTENDS Integers, Sequences, FiniteSets

CONSTANTS
  Procs,        \* processes that make file-system calls
  Blocks,       \* home blocks outside the log area
  Vals,         \* contents a block can have
  Absent,       \* marks a block with no buffer in the cache
  None,         \* marks a process that holds no modified buffer
  MAXOPBLOCKS,  \* space begin_op() reserves for one operation
  LOGSIZE,      \* entries of struct logheader
  NLog,         \* sb->nlog: blocks of the log area, header included
  OpBlocks      \* the most distinct blocks one operation writes

ASSUME LogAssumption ==
  /\ {MAXOPBLOCKS, LOGSIZE, NLog, OpBlocks} \subseteq Nat
  /\ OpBlocks <= MAXOPBLOCKS
  /\ MAXOPBLOCKS <= LOGSIZE
  /\ Absent \notin Vals
  /\ None \notin Blocks
  /\ IsFiniteSet(Procs)

VARIABLES
  \* @memory
  mode,         \* "boot", "recover", "run" or "panic"
  pc,           \* where each process is in log.c
  wrote,        \* blocks the process's current operation has logged
  held,         \* block whose buffer the process modified and not yet logged
  lh,           \* log.lh.block[0 .. log.lh.n-1]
  outstanding,  \* log.outstanding
  committing,   \* log.committing
  tail,         \* the loop variable of write_log() and install_trans()
  cache,        \* contents of cached home blocks
  pins,         \* references bpin() holds on a block's buffer
  \* @disk
  hdr,          \* header block: the block numbers it lists
  logblk,       \* the log's data blocks
  home          \* the home blocks

opvars   == <<pc, wrote, held>>
logvars  == <<lh, outstanding, committing, tail>>
bufvars  == <<cache, pins>>
diskvars == <<hdr, logblk, home>>
vars == <<mode, opvars, logvars, bufvars, diskvars>>

Slots == 1..(IF LOGSIZE < NLog - 1 THEN LOGSIZE ELSE NLog - 1)

Entries(l) == {l[i] : i \in 1..Len(l)}

\* What bread() of a home block returns.
bread(b) == IF cache[b] = Absent THEN home[b] ELSE cache[b]

-----------------------------------------------------------------------------

\* Memory after a power-up, before forkret() calls fsinit().
PowerUp ==
  /\ mode' = "boot"
  /\ pc' = [p \in Procs |-> "idle"]
  /\ wrote' = [p \in Procs |-> {}]
  /\ held' = [p \in Procs |-> None]
  /\ lh' = <<>>
  /\ outstanding' = 0
  /\ committing' = FALSE
  /\ tail' = 0
  /\ cache' = [b \in Blocks |-> Absent]
  /\ pins' = [b \in Blocks |-> 0]

\* First boot from the image mkfs wrote: an empty log.
Init ==
  /\ mode = "boot"
  /\ pc = [p \in Procs |-> "idle"]
  /\ wrote = [p \in Procs |-> {}]
  /\ held = [p \in Procs |-> None]
  /\ lh = <<>>
  /\ outstanding = 0
  /\ committing = FALSE
  /\ tail = 0
  /\ cache = [b \in Blocks |-> Absent]
  /\ pins = [b \in Blocks |-> 0]
  /\ hdr = <<>>
  /\ \E v \in Vals :
       /\ logblk = [i \in Slots |-> v]
       /\ home = [b \in Blocks |-> v]

Goto(p, from, to) ==
  /\ pc[p] = from
  /\ pc' = [pc EXCEPT ![p] = to]

\* wakeup(&log) by p, which moves on to a state of its own.
Wakeup(p, to) ==
  pc' = [q \in Procs |-> IF q = p THEN to
                         ELSE IF pc[q] = "asleep" THEN "begin" ELSE pc[q]]

Panic ==
  /\ mode' = "panic"
  /\ UNCHANGED <<opvars, logvars, bufvars, diskvars>>

-----------------------------------------------------------------------------
(* Operations: begin_op(), modified buffers, log_write(), end_op(). *)

MustWait_NotForCommit == Len(lh) + (outstanding + 1) * MAXOPBLOCKS > LOGSIZE

MustWait ==
  \/ committing
  \/ Len(lh) + (outstanding + 1) * MAXOPBLOCKS > LOGSIZE

begin_op(p) ==
  /\ mode = "run"
  /\ pc[p] \in {"idle", "begin"}
  /\ IF MustWait
     THEN /\ pc' = [pc EXCEPT ![p] = "asleep"]
          /\ UNCHANGED outstanding
     ELSE /\ pc' = [pc EXCEPT ![p] = "op"]
          /\ outstanding' = outstanding + 1
  /\ UNCHANGED <<mode, wrote, held, lh, committing, tail, bufvars, diskvars>>

\* bp = bread(...); modify bp->data[]: the buffer's sleep-lock is now held.
Modify(p, b, v) ==
  /\ mode = "run"
  /\ pc[p] = "op"
  /\ held[p] = None
  /\ \A q \in Procs : held[q] # b
  /\ b \in wrote[p] \/ Cardinality(wrote[p]) < OpBlocks
  /\ cache' = [cache EXCEPT ![b] = v]
  /\ held' = [held EXCEPT ![p] = b]
  /\ UNCHANGED <<mode, pc, wrote, logvars, pins, diskvars>>

TooBig == Len(lh) >= LOGSIZE \/ Len(lh) >= NLog - 1

Absorb_AlwaysPin(b) ==
  /\ lh' = IF b \in Entries(lh) THEN lh ELSE Append(lh, b)
  /\ pins' = [pins EXCEPT ![b] = @ + 1]

\* Log absorption: a block already listed gets no second entry and no pin.
Absorb(b) ==
  IF b \in Entries(lh)
  THEN UNCHANGED <<lh, pins>>
  ELSE /\ lh' = Append(lh, b)
       /\ pins' = [pins EXCEPT ![b] = @ + 1]

\* log_write(bp); brelse(bp).
log_write(p) ==
  /\ mode = "run"
  /\ pc[p] = "op"
  /\ held[p] # None
  /\ IF TooBig \/ outstanding < 1
     THEN Panic
     ELSE /\ Absorb(held[p])
          /\ wrote' = [wrote EXCEPT ![p] = @ \cup {held[p]}]
          /\ held' = [held EXCEPT ![p] = None]
          /\ UNCHANGED <<mode, pc, outstanding, committing, tail, cache, diskvars>>

EndOpEffect_NoCommitting(p) ==
  IF outstanding = 1
  THEN /\ pc' = [pc EXCEPT ![p] = "commit"]
       /\ UNCHANGED committing
  ELSE /\ Wakeup(p, "idle")
       /\ UNCHANGED committing

\* The first critical section of end_op().
EndOpEffect(p) ==
  IF outstanding = 1
  THEN /\ committing' = TRUE
       /\ pc' = [pc EXCEPT ![p] = "commit"]
  ELSE /\ Wakeup(p, "idle")
       /\ UNCHANGED committing

end_op(p) ==
  /\ mode = "run"
  /\ pc[p] = "op"
  /\ held[p] = None
  /\ IF committing
     THEN Panic
     ELSE /\ outstanding' = outstanding - 1
          /\ EndOpEffect(p)
          /\ wrote' = [wrote EXCEPT ![p] = {}]
          /\ UNCHANGED <<mode, held, lh, tail, bufvars, diskvars>>

-----------------------------------------------------------------------------
(* commit(), run by the process whose end_op() was the last. *)

commit(p) ==
  /\ mode = "run"
  /\ Goto(p, "commit", IF Len(lh) > 0 THEN "write_log" ELSE "finish")
  /\ tail' = 0
  /\ UNCHANGED <<mode, wrote, held, lh, outstanding, committing, bufvars, diskvars>>

\* One iteration of write_log(): cached block to log block.
write_log(p) ==
  /\ mode = "run"
  /\ pc[p] = "write_log"
  /\ tail < Len(lh)
  /\ logblk' = [logblk EXCEPT ![tail + 1] = bread(lh[tail + 1])]
  /\ cache' = [cache EXCEPT ![lh[tail + 1]] = bread(lh[tail + 1])]
  /\ tail' = tail + 1
  /\ UNCHANGED <<mode, opvars, lh, outstanding, committing, pins, hdr, home>>

CommitReady_Early == tail < Len(lh)

CommitReady == tail = Len(lh)

\* write_head(): the commit point.
write_head(p) ==
  /\ mode = "run"
  /\ CommitReady
  /\ Goto(p, "write_log", "install_trans")
  /\ hdr' = lh
  /\ tail' = 0
  /\ UNCHANGED <<mode, wrote, held, lh, outstanding, committing, bufvars, logblk, home>>

\* One iteration of install_trans(): log block to home block, through the
\* cache; unpinned unless recovering.
InstallBlock(recovering) ==
  LET b == lh[tail + 1]
  IN  /\ tail < Len(lh)
      /\ home' = [home EXCEPT ![b] = logblk[tail + 1]]
      /\ cache' = [cache EXCEPT ![b] = logblk[tail + 1]]
      /\ pins' = [pins EXCEPT ![b] = IF recovering THEN @ ELSE @ - 1]
      /\ tail' = tail + 1
      /\ UNCHANGED <<opvars, lh, outstanding, committing, hdr, logblk>>

\* log.lh.n = 0; write_head().
ClearLog ==
  /\ tail = Len(lh)
  /\ lh' = <<>>
  /\ hdr' = <<>>
  /\ tail' = 0
  /\ UNCHANGED <<wrote, held, outstanding, committing, bufvars, logblk, home>>

install_trans(p) ==
  /\ mode = "run"
  /\ pc[p] = "install_trans"
  /\ InstallBlock(FALSE)
  /\ UNCHANGED mode

clear_head(p) ==
  /\ mode = "run"
  /\ Goto(p, "install_trans", "finish")
  /\ ClearLog
  /\ UNCHANGED mode

FinishWakeup_Lost(p) == pc' = [pc EXCEPT ![p] = "idle"]

FinishWakeup(p) == Wakeup(p, "idle")

\* The second critical section of end_op().
finish(p) ==
  /\ mode = "run"
  /\ pc[p] = "finish"
  /\ FinishWakeup(p)
  /\ committing' = FALSE
  /\ UNCHANGED <<mode, wrote, held, lh, outstanding, tail, bufvars, diskvars>>

-----------------------------------------------------------------------------
(* Booting: initlog() runs recover_from_log() before any other process. *)

read_head ==
  /\ mode = "boot"
  /\ mode' = "recover"
  /\ lh' = hdr
  /\ tail' = 0
  /\ UNCHANGED <<opvars, outstanding, committing, bufvars, diskvars>>

recover_install ==
  /\ mode = "recover"
  /\ InstallBlock(TRUE)
  /\ UNCHANGED mode

recover_clear ==
  /\ mode = "recover"
  /\ mode' = "run"
  /\ ClearLog
  /\ UNCHANGED pc

Crash ==
  /\ PowerUp
  /\ UNCHANGED diskvars

-----------------------------------------------------------------------------
(* The rest of the buffer cache: a reader brings a block in, bget()        *)
(* recycles the buffer of a block nobody references.                       *)

Read(b) ==
  /\ mode = "run"
  /\ cache[b] = Absent
  /\ cache' = [cache EXCEPT ![b] = home[b]]
  /\ UNCHANGED <<mode, opvars, logvars, pins, diskvars>>

Recycle(b) ==
  /\ mode = "run"
  /\ cache[b] # Absent
  /\ pins[b] = 0
  /\ \A p \in Procs : held[p] # b
  /\ cache' = [cache EXCEPT ![b] = Absent]
  /\ UNCHANGED <<mode, opvars, logvars, pins, diskvars>>

-----------------------------------------------------------------------------

CommitStep(p) ==
  \/ commit(p)
  \/ write_log(p)
  \/ write_head(p)
  \/ install_trans(p)
  \/ clear_head(p)
  \/ finish(p)

Recovery == read_head \/ recover_install \/ recover_clear

Next ==
  \/ \E p \in Procs :
       \/ begin_op(p)
       \/ log_write(p)
       \/ end_op(p)
       \/ CommitStep(p)
       \/ \E b \in Blocks, v \in Vals : Modify(p, b, v)
  \/ Recovery
  \/ Crash
  \/ \E b \in Blocks : Read(b) \/ Recycle(b)

Spec == Init /\ [][Next]_vars

\* A process that can run keeps running (the scheduler is round-robin), every
\* operation reaches its end_op(), and a disk request completes.
Fairness ==
  /\ \A p \in Procs : /\ WF_vars(begin_op(p) /\ pc[p] = "begin")
                      /\ WF_vars(log_write(p))
                      /\ SF_vars(end_op(p))
                      /\ WF_vars(CommitStep(p))
  /\ WF_vars(Recovery)

FairSpec == Spec /\ Fairness

-----------------------------------------------------------------------------
(* Properties *)

\* Every variable of log.c and of the disk has the shape the code gives it,
\* and the header never lists more blocks than the log area holds.
TypeOK ==
  /\ mode \in {"boot", "recover", "run", "panic"}
  /\ pc \in [Procs -> {"idle", "begin", "asleep", "op", "commit", "write_log",
                       "install_trans", "finish"}]
  /\ wrote \in [Procs -> SUBSET Blocks]
  /\ held \in [Procs -> Blocks \cup {None}]
  /\ lh \in Seq(Blocks) /\ Len(lh) \in {0} \cup Slots
  /\ outstanding \in Nat
  /\ committing \in BOOLEAN
  /\ tail \in 0..Len(lh)
  /\ cache \in [Blocks -> Vals \cup {Absent}]
  /\ pins \in [Blocks -> Nat]
  /\ hdr \in Seq(Blocks) /\ Len(hdr) \in {0} \cup Slots
  /\ logblk \in [Slots -> Vals]
  /\ home \in [Blocks -> Vals]

\* The disk recover_from_log() would leave if the machine stopped now: the
\* home blocks overwritten by the log blocks the header lists, in order.
Recovered ==
  [b \in Blocks |->
     IF b \in Entries(hdr)
     THEN logblk[CHOOSE i \in 1..Len(hdr) :
                   hdr[i] = b /\ \A j \in (i + 1)..Len(hdr) : hdr[j] # b]
     ELSE home[b]]

\* The disk as the running kernel sees it through the cache.
Seen == IF mode \in {"boot", "recover"} THEN Recovered ELSE [b \in Blocks |-> bread(b)]

InOp == {p \in Procs : pc[p] = "op"}

InCommit == {p \in Procs : pc[p] \in {"commit", "write_log", "install_trans", "finish"}}

\* The log implements an atomic disk: whatever the point of a crash, in the
\* commit or in an earlier recovery, the disk after recovery holds all the
\* writes of an operation or none, and only states between operations.
Atomic == INSTANCE AtomicDisk
            WITH durable <- Recovered, volatile <- Seen, active <- InOp

CrashAtomicity == Atomic!Spec

\* What keeps log_write() from its panic: an operation leaves part of its
\* reservation unused, enough for the absorbed write that finds the log full
\* and for the block by which the log area is shorter than LOGSIZE + 1.
SpaceEnough ==
  /\ OpBlocks < MAXOPBLOCKS
  /\ LOGSIZE - (MAXOPBLOCKS - OpBlocks) < NLog - 1

\* No panic of log.c is reached: begin_op()'s reservation leaves room for
\* every log_write(), no block is logged outside an operation, and no
\* operation ends while another process commits.
NoPanic == mode # "panic"

\* commit() runs alone although it holds no lock: while a process is in it no
\* other is, and no operation is between begin_op() and end_op().
CommitAlone ==
  \A p \in InCommit : InCommit = {p} /\ InOp = {} /\ outstanding = 0

\* The log pins a block's buffer once while log.lh lists it, and not otherwise:
\* absorption and install_trans() keep bpin() and bunpin() balanced.
PinsBalanced ==
  mode \in {"run", "panic"} =>
    \A b \in Blocks :
      pins[b] = IF \E i \in 1..Len(lh) : 
                     /\ lh[i] = b
                     /\ (\E p \in Procs : pc[p] = "install_trans") => i > tail
                THEN 1 ELSE 0

\* Nobody sleeps in begin_op() unless somebody is left to wake it: a process
\* inside an operation or in commit().
SleeperHasWaker ==
  (\E p \in Procs : pc[p] = "asleep") =>
     \E q \in Procs : pc[q] \notin {"idle", "begin", "asleep"}

\* Space or a commit that begin_op() waits for always comes: a process asleep
\* in begin_op() is woken.
SleeperWakes ==
  \A p \in Procs : pc[p] = "asleep" ~> pc[p] # "asleep"
=============================================================================
