-------------------------------- MODULE Bio ---------------------------------
(***************************************************************************)
(* The buffer cache of kernel/bio.c: bget() with its LRU recycling, the    *)
(* sleep-lock of each buffer, reference counts and the pins of the log.    *)
(* A critical section of bcache.lock is one step.  Contents are abstracted *)
(* to whether a copy of a block (a buffer or the disk) is the current one: *)
(* the one last modified by a process that held the block's buffer.        *)
(***************************************************************************)
EXTENDS Integers, Sequences, FiniteSets

CONSTANTS
  Procs,
  Bufs,    \* bcache.buf[]
  Blocks,  \* block numbers of the one device
  None,    \* no block, no buffer, no holder
  MaxPins  \* bound on blocks the log pins at a time

\* proc[] and bcache.buf[] are arrays, and None is none of them.
Distinct ==
  /\ IsFiniteSet(Procs) /\ IsFiniteSet(Bufs)
  /\ None \notin Procs \cup Bufs \cup Blocks

VARIABLES
  blockno,   \* b->blockno
  valid,     \* b->valid
  refcnt,    \* b->refcnt
  lock,      \* the process holding b->lock
  lru,       \* the list from bcache.head.next on: most recently used first
  current,   \* buffers whose data is current
  ondisk,    \* blocks whose disk copy is current
  pinned,    \* blocks pinned by the log
  pc,
  buf,       \* the buffer a process works with
  panicked

bufvars == <<blockno, valid, refcnt, lock, lru>>
datavars == <<current, ondisk>>
vars == <<bufvars, datavars, pinned, pc, buf, panicked>>

\* Some order of all buffers.
Chained ==
  CHOOSE s \in [1..Cardinality(Bufs) -> Bufs] : \A b \in Bufs : \E i \in DOMAIN s : s[i] = b

\* binit(), before any process runs.
Init ==
  /\ blockno = [b \in Bufs |-> None]
  /\ valid = [b \in Bufs |-> FALSE]
  /\ refcnt = [b \in Bufs |-> 0]
  /\ lock = [b \in Bufs |-> None]
  /\ lru = Chained
  /\ current = {}
  /\ ondisk = Blocks
  /\ pinned = {}
  /\ pc = [p \in Procs |-> "idle"]
  /\ buf = [p \in Procs |-> None]
  /\ panicked = FALSE

At(p, where) == ~panicked /\ pc[p] = where

Goto(p, where) == pc' = [pc EXCEPT ![p] = where]

\* The block of the buffer p works with.
BlockOf(p) == blockno[buf[p]]

-----------------------------------------------------------------------------
(* bread() *)

CachedIn(n) == {b \in Bufs : blockno[b] = n}

LeastRecent_Any ==
  {lru[i] : i \in {j \in 1..Len(lru) : \A k \in (j + 1)..Len(lru) : refcnt[lru[k]] # 0}}

\* Unreferenced buffers that no unreferenced buffer follows in the list.
LeastRecent ==
  {lru[i] : i \in {j \in 1..Len(lru) :
     /\ refcnt[lru[j]] = 0
     /\ \A k \in (j + 1)..Len(lru) : refcnt[lru[k]] # 0}}

\* bget(): the block is cached.
bget_hit(p, n, b) ==
  /\ At(p, "idle")
  /\ b \in CachedIn(n)
  /\ refcnt' = [refcnt EXCEPT ![b] = @ + 1]
  /\ buf' = [buf EXCEPT ![p] = b]
  /\ Goto(p, "acquiresleep")
  /\ UNCHANGED <<blockno, valid, lock, lru, datavars, pinned, panicked>>

bget_miss_KeepValid(p, n, b) ==
  /\ At(p, "idle")
  /\ CachedIn(n) = {}
  /\ b \in LeastRecent
  /\ blockno' = [blockno EXCEPT ![b] = n]
  /\ refcnt' = [refcnt EXCEPT ![b] = 1]
  /\ current' = current \ {b}
  /\ buf' = [buf EXCEPT ![p] = b]
  /\ Goto(p, "acquiresleep")
  /\ UNCHANGED <<valid, lock, lru, ondisk, pinned, panicked>>

\* bget(): recycle a buffer.
bget_miss(p, n, b) ==
  /\ At(p, "idle")
  /\ CachedIn(n) = {}
  /\ b \in LeastRecent
  /\ blockno' = [blockno EXCEPT ![b] = n]
  /\ valid' = [valid EXCEPT ![b] = FALSE]
  /\ refcnt' = [refcnt EXCEPT ![b] = 1]
  /\ current' = current \ {b}
  /\ buf' = [buf EXCEPT ![p] = b]
  /\ Goto(p, "acquiresleep")
  /\ UNCHANGED <<lock, lru, ondisk, pinned, panicked>>

\* bget(): no buffer to recycle.
bget_panic(p, n) ==
  /\ At(p, "idle")
  /\ CachedIn(n) = {}
  /\ LeastRecent = {}
  /\ panicked' = TRUE
  /\ UNCHANGED <<bufvars, datavars, pinned, pc, buf>>

LockFree(b) == lock[b] = None

\* acquiresleep(&b->lock) returns; bread() tests b->valid.
acquiresleep(p) ==
  /\ At(p, "acquiresleep")
  /\ LockFree(buf[p])
  /\ lock' = [lock EXCEPT ![buf[p]] = p]
  /\ Goto(p, IF valid[buf[p]] THEN "hold" ELSE "read")
  /\ UNCHANGED <<blockno, valid, refcnt, lru, datavars, pinned, buf, panicked>>

\* virtio_disk_rw(b, 0) returns; b->valid = 1.
disk_read(p) ==
  /\ At(p, "read")
  /\ valid' = [valid EXCEPT ![buf[p]] = TRUE]
  /\ current' = IF BlockOf(p) \in ondisk THEN current \cup {buf[p]} ELSE current \ {buf[p]}
  /\ Goto(p, "hold")
  /\ UNCHANGED <<blockno, refcnt, lock, lru, ondisk, pinned, buf, panicked>>

-----------------------------------------------------------------------------
(* What a process does with a locked buffer *)

\* It changes the data: every other copy of the block is out of date.
modify(p) ==
  /\ At(p, "hold")
  /\ current' = (current \ CachedIn(BlockOf(p))) \cup {buf[p]}
  /\ ondisk' = ondisk \ {BlockOf(p)}
  /\ Goto(p, "dirty")
  /\ UNCHANGED <<bufvars, pinned, buf, panicked>>

bwrite(p) ==
  /\ At(p, "hold") \/ At(p, "dirty")
  /\ IF lock[buf[p]] # p
     THEN /\ panicked' = TRUE
          /\ UNCHANGED <<ondisk, pc>>
     ELSE /\ ondisk' = IF buf[p] \in current THEN ondisk \cup {BlockOf(p)}
                                             ELSE ondisk \ {BlockOf(p)}
          /\ Goto(p, "hold")
          /\ UNCHANGED panicked
  /\ UNCHANGED <<bufvars, current, pinned, buf>>

\* log_write(): bpin() unless the log already has the block.
bpin(p) ==
  /\ At(p, "dirty")
  /\ BlockOf(p) \in pinned \/ Cardinality(pinned) < MaxPins
  /\ pinned' = pinned \cup {BlockOf(p)}
  /\ refcnt' = IF BlockOf(p) \in pinned THEN refcnt
               ELSE [refcnt EXCEPT ![buf[p]] = @ + 1]
  /\ Goto(p, "hold")
  /\ UNCHANGED <<blockno, valid, lock, lru, datavars, buf, panicked>>

\* install_trans(): bunpin() after the block is written.
bunpin(p) ==
  /\ At(p, "hold")
  /\ BlockOf(p) \in pinned \cap ondisk
  /\ pinned' = pinned \ {BlockOf(p)}
  /\ refcnt' = [refcnt EXCEPT ![buf[p]] = @ - 1]
  /\ UNCHANGED <<blockno, valid, lock, lru, datavars, pc, buf, panicked>>

-----------------------------------------------------------------------------
(* brelse() *)

\* holdingsleep() check and releasesleep().
releasesleep(p) ==
  /\ At(p, "hold")
  /\ IF lock[buf[p]] # p
     THEN /\ panicked' = TRUE
          /\ UNCHANGED <<lock, pc>>
     ELSE /\ lock' = [lock EXCEPT ![buf[p]] = None]
          /\ Goto(p, "brelse")
          /\ UNCHANGED panicked
  /\ UNCHANGED <<blockno, valid, refcnt, lru, datavars, pinned, buf>>

\* b is unlinked where it is in the list and linked in front.
MoveToFront(b) ==
  LET i == CHOOSE j \in 1..Len(lru) : lru[j] = b
  IN  <<b>> \o (SubSeq(lru, 1, i - 1) \o SubSeq(lru, i + 1, Len(lru)))

\* The list after the last reference is dropped.
Released(b) == IF refcnt[b] = 1 THEN MoveToFront(b) ELSE lru

Decremented(b) == [refcnt EXCEPT ![b] = @ - 1]

brelse(p) ==
  /\ At(p, "brelse")
  /\ refcnt' = Decremented(buf[p])
  /\ lru' = Released(buf[p])
  /\ buf' = [buf EXCEPT ![p] = None]
  /\ Goto(p, "idle")
  /\ UNCHANGED <<blockno, valid, lock, datavars, pinned, panicked>>

-----------------------------------------------------------------------------

Continue(p) == acquiresleep(p) \/ disk_read(p) \/ releasesleep(p) \/ brelse(p)

\* panic() spins for ever.
panic_spin == panicked /\ UNCHANGED vars

Next ==
  \/ panic_spin
  \/ \E p \in Procs :
       \/ Continue(p)
       \/ modify(p)
       \/ bwrite(p)
       \/ bpin(p)
       \/ bunpin(p)
       \/ \E n \in Blocks : \/ bget_panic(p, n)
                            \/ \E b \in Bufs : bget_hit(p, n, b) \/ bget_miss(p, n, b)

Spec == Init /\ [][Next]_vars

-----------------------------------------------------------------------------
(* Properties *)

\* A process that bread() has given a buffer to has that buffer's lock alone
\* and sees the block's current contents; a block is cached in at most one
\* buffer, so that lock is the one all its users wait for.
HoldsCurrent ==
  /\ \A a, b \in Bufs : blockno[a] = blockno[b] /\ blockno[a] # None => a = b
  /\ \A p \in Procs : pc[p] \in {"hold", "dirty"} =>
       /\ lock[buf[p]] = p
       /\ valid[buf[p]]
       /\ buf[p] \in current

\* Recycling never loses data: the current contents of a block are on the disk
\* or in a referenced buffer.  refcnt is exact: the processes between bget()
\* and the end of brelse(), plus one for a pin; so bget() finds no buffer only
\* when users and pins take up the whole cache.
NothingLost ==
  /\ \A n \in Blocks \ ondisk :
       \E b \in current : blockno[b] = n /\ valid[b] /\ refcnt[b] > 0
  /\ \A b \in Bufs :
       refcnt[b] = Cardinality({p \in Procs : buf[p] = b})
                   + (IF blockno[b] \in pinned THEN 1 ELSE 0)
  /\ panicked =>
       Cardinality({p \in Procs : buf[p] # None}) + Cardinality(pinned) >= Cardinality(Bufs)
=============================================================================
