----------------------------- MODULE VirtioDisk -----------------------------
(***************************************************************************)
(* The disk driver of kernel/virtio_disk.c and the device it talks to: the *)
(* descriptor table, the avail and used rings with their wrapping indices, *)
(* the completion interrupt and the two places where virtio_disk_rw()      *)
(* sleeps.  A critical section of vdisk_lock is one step, except that the  *)
(* interrupt handler's loop interleaves with the device.  A process has    *)
(* its own locked buffer, so it stands for that buffer too.  A ring entry  *)
(* is forgotten (None) when its reader has passed it: reading it again     *)
(* would read anything.                                                    *)
(***************************************************************************)
EXTENDS Integers, FiniteSets, FiniteSetsExt

CONSTANTS
  Procs,
  None,
  NUM,     \* descriptors, and ring entries
  IdxMod   \* where the 16-bit ring indices wrap: a multiple of NUM

ASSUME VirtioAssumption ==
  /\ NUM \in Nat /\ NUM >= 3
  /\ IdxMod \in Nat /\ IdxMod > 0 /\ IdxMod % NUM = 0
  /\ None \notin Procs \cup Nat

Desc == 0..(NUM - 1)

VARIABLES
  free,      \* descriptors with disk.free[i] set
  desc,      \* disk.desc[i]: whose buffer it serves, its part and its next
  info,      \* disk.info[i]: the buffer and the status byte
  avail,     \* the avail ring and its index
  used,      \* the used ring and the device's index
  used_idx,  \* disk.used_idx
  seen,      \* the device's position in the avail ring
  busy,      \* heads of chains the device is processing
  irq,       \* the device's interrupt status
  handler,   \* virtio_disk_intr() holds vdisk_lock
  diskflag,  \* b->disk
  pc,
  idx0,      \* virtio_disk_rw()'s idx[0]
  done,      \* requests the device has performed
  panicked

descvars == <<free, desc, info>>
ringvars == <<avail, used, used_idx>>
devvars  == <<seen, busy, irq>>
procvars == <<diskflag, pc, idx0, done>>
vars == <<descvars, ringvars, devvars, handler, procvars, panicked>>

NoDesc == [of |-> None, part |-> "none", next |-> 0]

\* After virtio_disk_init().
Init ==
  /\ free = Desc
  /\ desc = [i \in Desc |-> NoDesc]
  /\ info = [i \in Desc |-> [b |-> None, status |-> 0]]
  /\ avail = [ring |-> [i \in Desc |-> None], idx |-> 0]
  /\ used = [ring |-> [i \in Desc |-> None], idx |-> 0]
  /\ used_idx = 0
  /\ seen = 0
  /\ busy = {}
  /\ irq = FALSE
  /\ handler = FALSE
  /\ diskflag = [p \in Procs |-> FALSE]
  /\ pc = [p \in Procs |-> "idle"]
  /\ idx0 = [p \in Procs |-> 0]
  /\ done = {}
  /\ panicked = FALSE

Ready(p, places) == ~panicked /\ ~handler /\ pc[p] \in places

Bump(i) == (i + 1) % IdxMod

\* p goes to a place of its own and the processes asleep at one are woken.
GotoAndWake(p, where, asleep, awake) ==
  pc' = [q \in Procs |-> IF q = p THEN where
                         ELSE IF pc[q] = asleep THEN awake ELSE pc[q]]

-----------------------------------------------------------------------------
(* virtio_disk_rw() *)

\* alloc3_desc(): the three lowest free descriptors.
alloc3_desc ==
  LET a == Min(free)
      b == Min(free \ {a})
  IN  <<a, b, Min(free \ {a, b})>>

Enough == Cardinality(free) >= 3

Format(p, idx) ==
  /\ free' = free \ {idx[1], idx[2], idx[3]}
  /\ desc' = [desc EXCEPT ![idx[1]] = [of |-> p, part |-> "header", next |-> idx[2]],
                          ![idx[2]] = [of |-> p, part |-> "data",   next |-> idx[3]],
                          ![idx[3]] = [of |-> p, part |-> "status", next |-> 0]]
  /\ info' = [info EXCEPT ![idx[1]] = [b |-> p, status |-> 255]]

Submit_NoFlag(p, head) ==
  /\ avail' = [ring |-> [avail.ring EXCEPT ![avail.idx % NUM] = head],
               idx  |-> Bump(avail.idx)]
  /\ idx0' = [idx0 EXCEPT ![p] = head]
  /\ done' = done \ {p}
  /\ UNCHANGED diskflag

\* Set b->disk, put the chain's head into the avail ring, notify the device.
Submit(p, head) ==
  /\ avail' = [ring |-> [avail.ring EXCEPT ![avail.idx % NUM] = head],
               idx  |-> Bump(avail.idx)]
  /\ diskflag' = [diskflag EXCEPT ![p] = TRUE]
  /\ idx0' = [idx0 EXCEPT ![p] = head]
  /\ done' = done \ {p}

virtio_disk_rw(p) ==
  /\ Ready(p, {"idle", "retry"})
  /\ Enough
  /\ Format(p, alloc3_desc)
  /\ Submit(p, alloc3_desc[1])
  /\ pc' = [pc EXCEPT ![p] = IF diskflag'[p] THEN "wait" ELSE "woken"]
  /\ UNCHANGED <<used, used_idx, devvars, handler, panicked>>

\* Too few descriptors: the ones taken are put back, which wakes the other
\* sleepers on &disk.free[0], and p sleeps there itself.
no_desc(p) ==
  /\ Ready(p, {"idle", "retry"})
  /\ ~Enough
  /\ IF free # {} THEN GotoAndWake(p, "nodesc", "nodesc", "retry")
                  ELSE pc' = [pc EXCEPT ![p] = "nodesc"]
  /\ UNCHANGED <<descvars, ringvars, devvars, handler, diskflag, idx0, done, panicked>>

\* The descriptors linked from head.
Chain(head) ==
  LET second == desc[head].next
  IN  {head, second, desc[second].next}

free_chain_OneShort(head) == {head, desc[head].next}

\* The descriptors free_chain() frees.
free_chain(head) == Chain(head)

WakeOnFree_Lost(p) == pc' = [pc EXCEPT ![p] = "idle"]

WakeOnFree(p) == GotoAndWake(p, "idle", "nodesc", "retry")

\* Awake after sleep(b): free the chain and return, or sleep again.
complete(p) ==
  /\ Ready(p, {"woken"})
  /\ IF diskflag[p]
     THEN /\ pc' = [pc EXCEPT ![p] = "wait"]
          /\ UNCHANGED <<descvars, panicked>>
     ELSE IF free_chain(idx0[p]) \cap free # {}
     THEN panicked' = TRUE /\ UNCHANGED <<descvars, pc>>
     ELSE /\ info' = [info EXCEPT ![idx0[p]].b = None]
          /\ desc' = [i \in Desc |-> IF i \in free_chain(idx0[p]) THEN NoDesc ELSE desc[i]]
          /\ free' = free \cup free_chain(idx0[p])
          /\ WakeOnFree(p)
          /\ UNCHANGED panicked
  /\ UNCHANGED <<ringvars, devvars, handler, diskflag, idx0, done>>

-----------------------------------------------------------------------------
(* The device *)

\* It fetches the next chain of the avail ring.
dev_fetch ==
  /\ seen # avail.idx
  /\ busy' = busy \cup {avail.ring[seen % NUM]}
  /\ seen' = Bump(seen)
  /\ avail' = [avail EXCEPT !.ring[seen % NUM] = None]
  /\ UNCHANGED <<descvars, used, used_idx, irq, handler, procvars, panicked>>

\* It performs a request, in any order, stores the status through the chain's
\* third descriptor, appends the head to the used ring and interrupts.
dev_finish(head) ==
  /\ head \in busy
  /\ busy' = busy \ {head}
  /\ done' = done \cup {desc[head].of}
  /\ info' = [info EXCEPT ![head].status = 0]
  /\ used' = [ring |-> [used.ring EXCEPT ![used.idx % NUM] = head],
              idx  |-> Bump(used.idx)]
  /\ irq' = TRUE
  /\ UNCHANGED <<free, desc, avail, used_idx, seen, handler, diskflag, pc, idx0, panicked>>

-----------------------------------------------------------------------------
(* virtio_disk_intr() *)

\* It takes vdisk_lock and acknowledges the interrupt.
intr_ack ==
  /\ ~panicked
  /\ irq
  /\ ~handler
  /\ handler' = TRUE
  /\ irq' = FALSE
  /\ UNCHANGED <<descvars, ringvars, seen, busy, procvars, panicked>>

More == used_idx # used.idx

\* One iteration of its loop.
intr_one ==
  LET id == used.ring[used_idx % NUM]
  IN  /\ ~panicked
      /\ handler
      /\ More
      /\ IF id = None \/ info[id].status # 0 \/ info[id].b = None
         THEN /\ panicked' = TRUE
              /\ UNCHANGED <<used, used_idx, diskflag, pc>>
         ELSE /\ diskflag' = [diskflag EXCEPT ![info[id].b] = FALSE]
              /\ pc' = [pc EXCEPT ![info[id].b] = IF @ = "wait" THEN "woken" ELSE @]
              /\ used' = [used EXCEPT !.ring[used_idx % NUM] = None]
              /\ used_idx' = Bump(used_idx)
              /\ UNCHANGED panicked
      /\ UNCHANGED <<descvars, avail, devvars, handler, idx0, done>>

intr_done ==
  /\ ~panicked
  /\ handler
  /\ ~More
  /\ handler' = FALSE
  /\ UNCHANGED <<descvars, ringvars, devvars, procvars, panicked>>

-----------------------------------------------------------------------------

Interrupt == intr_ack \/ intr_one \/ intr_done

Next ==
  \/ \E p \in Procs : virtio_disk_rw(p) \/ no_desc(p) \/ complete(p)
  \/ dev_fetch
  \/ \E head \in Desc : dev_finish(head)
  \/ Interrupt

Spec == Init /\ [][Next]_vars

\* The device performs what it is given, its interrupts are taken, and a woken
\* process gets vdisk_lock.
Fairness ==
  /\ WF_vars(dev_fetch)
  /\ \A head \in Desc : WF_vars(dev_finish(head))
  /\ SF_vars(intr_ack) /\ WF_vars(intr_one) /\ WF_vars(intr_done)
  /\ \A p \in Procs : /\ SF_vars(complete(p))
                      /\ SF_vars(virtio_disk_rw(p) /\ pc[p] = "retry")

FairSpec == Spec /\ Fairness

-----------------------------------------------------------------------------
(* Properties *)

InFlight == {p \in Procs : pc[p] \in {"wait", "woken"}}

\* The descriptors in use are exactly three for each request in flight, linked
\* header to data to status: none leaks, none is shared.  So the panics of the
\* driver (freeing a free descriptor, a failed status, a completion for no
\* request) are not reached.
DescriptorsOwned ==
  /\ ~panicked
  /\ \A p \in InFlight :
       /\ Cardinality(Chain(idx0[p])) = 3
       /\ \A i \in Chain(idx0[p]) : i \notin free /\ desc[i].of = p
  /\ Cardinality(free) + 3 * Cardinality(InFlight) = NUM

\* virtio_disk_rw() returns only after the device has performed its request.
ReturnsDone ==
  [][\A p \in Procs : pc[p] = "woken" /\ pc'[p] = "idle" => p \in done]_vars

\* A request returns.
RequestReturns ==
  \A p \in Procs : (pc[p] # "idle") ~> (pc[p] = "idle")
=============================================================================
