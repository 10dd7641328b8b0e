-------------------------------- MODULE Pipe --------------------------------
(***************************************************************************)
(* One pipe of kernel/pipe.c shared by several readers and writers.  The   *)
(* pipe's lock is explicit, because pipewrite() and piperead() keep it     *)
(* over their loops while kill() marks processes without it.  The counters *)
(* nread and nwrite wrap as the 32-bit ones of the code do.                *)
(***************************************************************************)
EXTENDS Integers, Sequences, FiniteSets

CONSTANTS
  Readers, Writers,  \* processes with a descriptor of either end
  Bytes,
  None,
  PIPESIZE,
  CntMod,            \* where nread and nwrite wrap: a multiple of PIPESIZE
  MaxN,              \* bound on the size of a read or write
  Killable           \* processes that may be killed

ASSUME PipeAssumption ==
  /\ PIPESIZE \in Nat \ {0}
  /\ CntMod \in Nat /\ CntMod % PIPESIZE = 0 /\ CntMod > PIPESIZE
  /\ MaxN \in Nat
  /\ Readers \cap Writers = {} /\ None \notin Readers \cup Writers
  /\ Killable \subseteq Readers \cup Writers

Procs == Readers \cup Writers

VARIABLES
  data, nread, nwrite,
  readopen, writeopen,
  freed,    \* kfree((char*)pi) has been called
  lock,     \* the process holding pi->lock
  fds,      \* processes that still have their descriptor
  killed,
  pc,
  left      \* n - i of the call in progress

pipevars == <<data, nread, nwrite>>
openvars == <<readopen, writeopen, freed, fds>>
vars == <<pipevars, openvars, lock, killed, pc, left>>

\* After pipealloc() and the fork()s that spread the descriptors.
Init ==
  /\ data \in [0..(PIPESIZE - 1) -> Bytes]
  /\ \A i, j \in 0..(PIPESIZE - 1) : data[i] = data[j]
  /\ nread = 0 /\ nwrite = 0
  /\ readopen = TRUE /\ writeopen = TRUE
  /\ freed = FALSE
  /\ lock = None
  /\ fds = Procs
  /\ killed = {}
  /\ pc = [p \in Procs |-> "idle"]
  /\ left = [p \in Procs |-> 0]

Inc(i) == (i + 1) % CntMod

Empty == nread = nwrite

Full_OffByOne == nwrite = (nread + PIPESIZE + 1) % CntMod

Full == nwrite = (nread + PIPESIZE) % CntMod

\* p holds pi->lock and is at a given place.
At(p, where) == lock = p /\ pc[p] = where

\* p keeps pi->lock and goes on.
Goto(p, where) ==
  /\ pc' = [pc EXCEPT ![p] = where]
  /\ UNCHANGED lock

\* p releases pi->lock and goes to a place, waking sleepers of one kind.
Release(p, where, asleep) ==
  /\ lock' = None
  /\ pc' = [q \in Procs |-> IF q = p THEN where
                            ELSE IF pc[q] = asleep THEN "woken" ELSE pc[q]]

\* Begin a call, or come back from sleep().
Acquire(p, where) ==
  /\ lock = None
  /\ lock' = p
  /\ pc' = [pc EXCEPT ![p] = where]

-----------------------------------------------------------------------------
(* pipewrite() *)

pipewrite(p, n) ==
  /\ p \in Writers \cap fds /\ pc[p] = "idle" /\ p \notin killed
  /\ Acquire(p, "wtest")
  /\ left' = [left EXCEPT ![p] = n]
  /\ UNCHANGED <<pipevars, openvars, killed>>

write_again(p) ==
  /\ p \in Writers /\ pc[p] = "woken"
  /\ Acquire(p, "wtest")
  /\ UNCHANGED <<pipevars, openvars, killed, left>>

WriteDone(p) == left[p] = 0

\* i < n, readopen and killed(): leave, fail, or go on.
write_test(p) ==
  /\ At(p, "wtest")
  /\ IF WriteDone(p) THEN Release(p, "idle", "rsleep")
     ELSE IF ~readopen \/ p \in killed THEN Release(p, "idle", "nobody")
     ELSE Goto(p, "wbody")
  /\ left' = IF pc'[p] = "idle" THEN [left EXCEPT ![p] = 0] ELSE left
  /\ UNCHANGED <<pipevars, openvars, killed>>

FullWake_None == "nobody"

FullWake == "rsleep"

\* The pipe is full: wake the readers and sleep.
write_full(p) ==
  /\ At(p, "wbody")
  /\ Full
  /\ Release(p, "wsleep", FullWake)
  /\ UNCHANGED <<pipevars, openvars, killed, left>>

\* copyin() fails: leave the loop.
write_fault(p) ==
  /\ At(p, "wbody")
  /\ ~Full
  /\ Release(p, "idle", "rsleep")
  /\ left' = [left EXCEPT ![p] = 0]
  /\ UNCHANGED <<pipevars, openvars, killed>>

write_byte(p, v) ==
  /\ At(p, "wbody")
  /\ ~Full
  /\ data' = [data EXCEPT ![nwrite % PIPESIZE] = v]
  /\ nwrite' = Inc(nwrite)
  /\ left' = [left EXCEPT ![p] = @ - 1]
  /\ Goto(p, "wtest")
  /\ UNCHANGED <<nread, openvars, killed>>

-----------------------------------------------------------------------------
(* piperead() *)

piperead(p, n) ==
  /\ p \in Readers \cap fds /\ pc[p] = "idle" /\ p \notin killed
  /\ Acquire(p, "rtest")
  /\ left' = [left EXCEPT ![p] = n]
  /\ UNCHANGED <<pipevars, openvars, killed>>

read_again(p) ==
  /\ p \in Readers /\ pc[p] = "woken"
  /\ Acquire(p, "rtest")
  /\ UNCHANGED <<pipevars, openvars, killed, left>>

\* Wait while the pipe is empty and a writer is left, unless killed.
read_test(p) ==
  /\ At(p, "rtest")
  /\ IF ~Empty \/ ~writeopen THEN Goto(p, "rcopy")
     ELSE IF p \in killed THEN Release(p, "idle", "nobody")
     ELSE Goto(p, "rwait")
  /\ left' = IF pc'[p] = "idle" THEN [left EXCEPT ![p] = 0] ELSE left
  /\ UNCHANGED <<pipevars, openvars, killed>>

read_wait(p) ==
  /\ At(p, "rwait")
  /\ Release(p, "rsleep", "nobody")
  /\ UNCHANGED <<pipevars, openvars, killed, left>>

\* One byte is taken; copyout() may fail, which ends the loop.
read_byte(p, fails) ==
  /\ At(p, "rcopy")
  /\ left[p] > 0 /\ ~Empty
  /\ nread' = Inc(nread)
  /\ left' = [left EXCEPT ![p] = IF fails THEN 0 ELSE @ - 1]
  /\ Goto(p, "rcopy")
  /\ UNCHANGED <<data, nwrite, openvars, killed>>

ReadWake == "wsleep"

\* Nothing left to copy: wake the writers and return.
read_done(p) ==
  /\ At(p, "rcopy")
  /\ left[p] = 0 \/ Empty
  /\ Release(p, "idle", ReadWake)
  /\ left' = [left EXCEPT ![p] = 0]
  /\ UNCHANGED <<pipevars, openvars, killed>>

-----------------------------------------------------------------------------
(* pipeclose(), when the last descriptor of an end is closed, and kill(). *)

LastOf(p, ends) == p \in ends /\ fds \cap ends = {p}

\* Whom pipeclose() wakes: the sleepers of the other end.
CloseWake(p) ==
  IF LastOf(p, Writers) THEN "rsleep"
  ELSE IF LastOf(p, Readers) THEN "wsleep" ELSE "nobody"

BothClosed_Either(r, w) == ~r \/ ~w

BothClosed(r, w) == ~r /\ ~w

close(p) ==
  /\ p \in fds /\ pc[p] = "idle"
  /\ lock = None
  /\ fds' = fds \ {p}
  /\ writeopen' = (writeopen /\ ~LastOf(p, Writers))
  /\ readopen' = (readopen /\ ~LastOf(p, Readers))
  /\ freed' = BothClosed(readopen', writeopen')
  /\ Release(p, "idle", CloseWake(p))
  /\ UNCHANGED <<pipevars, killed, left>>

\* kill() marks the victim and makes it RUNNABLE if it sleeps.
kill(p) ==
  /\ p \in Killable \ killed
  /\ killed' = killed \cup {p}
  /\ pc' = [pc EXCEPT ![p] = IF @ \in {"rsleep", "wsleep"} THEN "woken" ELSE @]
  /\ UNCHANGED <<pipevars, openvars, lock, left>>

-----------------------------------------------------------------------------

\* A call in progress goes on.
Continue(p) ==
  \/ write_again(p) \/ write_test(p) \/ write_full(p) \/ write_fault(p)
  \/ \E v \in Bytes : write_byte(p, v)
  \/ read_again(p) \/ read_test(p) \/ read_wait(p) \/ read_done(p)
  \/ \E fails \in BOOLEAN : read_byte(p, fails)

Next ==
  \E p \in Procs :
    \/ Continue(p)
    \/ close(p)
    \/ kill(p)
    \/ \E n \in 1..MaxN : pipewrite(p, n) \/ piperead(p, n)

Spec == Init /\ [][Next]_vars

\* A process in a call keeps running, and gets pi->lock in the end; one with
\* nothing else to do closes its descriptor (exit() does).
FairSpec ==
  Spec /\ \A p \in Procs : SF_vars(Continue(p)) /\ SF_vars(close(p))

-----------------------------------------------------------------------------
(* Properties *)

Count == (nwrite - nread) % CntMod

\* The bytes between nread and nwrite, oldest first.
Contents == [i \in 1..Count |-> data[(nread + i - 1) % PIPESIZE]]

\* The ring with its two wrapping counters is a bounded first-in-first-out
\* queue: bytes come out once each, in the order they went in, across the
\* wraparound of data[] and of the counters and with several readers and
\* writers.
Queue == INSTANCE Fifo WITH queue <- Contents, Size <- PIPESIZE, readable <- readopen

IsFifo == Queue!Spec

\* The pipe is not used after kfree(): nobody is in a call once both ends are
\* closed.
NoUseAfterFree ==
  freed => \A p \in Procs : pc[p] = "idle"

\* Nobody stays blocked on the pipe for ever when the processes at the other
\* end read or write what they want and then close.
CallsReturn ==
  \A p \in Procs : (pc[p] # "idle") ~> (pc[p] = "idle")
=============================================================================
