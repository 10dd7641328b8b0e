------------------------------ MODULE MCKernel ------------------------------
(***************************************************************************)
(* Small instances, for TLC, of the kernel's spin-locks, buffer cache,     *)
(* UART, console and traps.  A behaviour is one of one of them; the others *)
(* are off, SpinLock in its initial state.                                 *)
(***************************************************************************)
EXTENDS SpinLock, Sequences, TLC

CONSTANTS
  None, n1, n2, n3,          \* blocks of Bio
  p1, p2, p3, h1, h2, Junk   \* processes; harts of Trap

VARIABLES
  part,                                                      \* the part that runs
  blockno, valid, refcnt, lock, lru, current, ondisk,        \* Bio
  pinned, bpc, bbuf, bpanicked,
  ubuf, ur, uw, txlock, at, uc, fifo, thre, rx, echo, owed,  \* Uart
  cbuf, cr, cw, ce, rd, ready, line,                         \* Console
  cpu, tf, ctx, stack, runnable, expected                    \* Trap

bioVars == <<blockno, valid, refcnt, lock, lru, current, ondisk, pinned, bpc, bbuf, bpanicked>>
uartVars == <<ubuf, ur, uw, txlock, at, uc, fifo, thre, rx, echo, owed>>
consoleVars == <<cbuf, cr, cw, ce, rd, ready, line>>
trapVars == <<cpu, tf, ctx, stack, runnable, expected>>
allVars == <<part, vars, bioVars, uartVars, consoleVars, trapVars>>

B == INSTANCE Bio WITH
       Procs <- {p1, p2, p3}, Blocks <- {n1, n2, n3}, Bufs <- {1, 2}, MaxPins <- 1,
       pc <- bpc, buf <- bbuf, panicked <- bpanicked
U == INSTANCE Uart WITH
       Writers <- {p1, p2}, UART_TX_BUF_SIZE <- 2, buf <- ubuf, r <- ur, w <- uw, c <- uc
C == INSTANCE Console WITH
       Readers <- {p1, p2}, INPUT_BUF_SIZE <- 2, Counts <- {1, 2},
       buf <- cbuf, r <- cr, w <- cw, e <- ce
T == INSTANCE Trap WITH Harts <- {h1, h2}, Procs <- {p1, p2}, want <- expected

\* What the proofs about Bio and Trap assume of their constants.
ASSUME NoneIsNoBuffer == B!Distinct
ASSUME HartsAreNotProcesses == T!Disjoint

\* The CPUs of SpinLock are interchangeable; its locks are not, they are ordered.
Symmetry == Permutations(CPUs)

-----------------------------------------------------------------------------

MCInit ==
  /\ part \in {"spinlock", "bio", "uart", "console", "trap"}
  /\ Init
  /\ IF part = "bio" THEN B!Init
     ELSE /\ blockno = "off" /\ valid = "off" /\ refcnt = "off" /\ lock = "off" /\ lru = "off"
          /\ current = "off" /\ ondisk = "off" /\ pinned = "off" /\ bpc = "off" /\ bbuf = "off"
          /\ bpanicked = "off"
  /\ IF part = "uart" THEN U!Init
     ELSE /\ ubuf = "off" /\ ur = "off" /\ uw = "off" /\ txlock = "off" /\ at = "off" /\ uc = "off"
          /\ fifo = "off" /\ thre = "off" /\ rx = "off" /\ echo = "off" /\ owed = "off"
  /\ IF part = "console" THEN C!Init
     ELSE /\ cbuf = "off" /\ cr = "off" /\ cw = "off" /\ ce = "off" /\ rd = "off" /\ ready = "off"
          /\ line = "off"
  /\ IF part = "trap" THEN T!Init
     ELSE /\ cpu = "off" /\ tf = "off" /\ ctx = "off" /\ stack = "off" /\ runnable = "off"
          /\ expected = "off"

MCNext ==
  \/ part = "spinlock" /\ Next /\ UNCHANGED <<part, bioVars, uartVars, consoleVars, trapVars>>
  \/ part = "bio" /\ B!Next /\ UNCHANGED <<part, vars, uartVars, consoleVars, trapVars>>
  \/ part = "uart" /\ U!Next /\ UNCHANGED <<part, vars, bioVars, consoleVars, trapVars>>
  \/ part = "console" /\ C!Next /\ UNCHANGED <<part, vars, bioVars, uartVars, trapVars>>
  \/ part = "trap" /\ T!Next /\ UNCHANGED <<part, vars, bioVars, uartVars, consoleVars>>

MCSpec == MCInit /\ [][MCNext]_allVars

-----------------------------------------------------------------------------
(* Properties: those of SpinLock, which stays at Init in the other parts, and *)
(* those of the parts.                                                        *)

\* Bio: a buffer that bread() returns is the block's only one, locked and current.
HoldsCurrent == part = "bio" => B!HoldsCurrent

\* Bio: recycling loses no data, and counts are exact.
NothingLost == part = "bio" => B!NothingLost

\* Uart: what writers put is sent once and in order.
OutputInOrder == part = "uart" => U!OutputInOrder

\* Uart: characters in the ring are always on their way, sleepers have a reason.
OutputNotStuck == part = "uart" => U!OutputNotStuck

\* Console: the ring holds what an editor of lines would, and readers do not
\* sleep through input.
InputExact == part = "console" => C!InputExact

\* Trap: registers survive traps, interrupts and moves between harts.
RegistersExact == part = "trap" => T!RegistersExact
=============================================================================
