------------------------------ MODULE SpinLock ------------------------------
(***************************************************************************)
(* kernel/spinlock.c on several CPUs, instruction by instruction where the *)
(* order matters: push_off()/pop_off(), the test-and-set, lk->cpu and the  *)
(* release.  A device interrupt can arrive whenever sstatus.SIE is set and *)
(* its handler (kerneltrap(), on the interrupted stack) takes spin-locks   *)
(* too.  Code takes nested locks in increasing order.                      *)
(***************************************************************************)
EXTENDS Integers, FiniteSets

CONSTANTS
  CPUs,
  Locks,    \* a finite set of integers: the lock order
  NoCpu,    \* lk->cpu == 0
  NoLock,   \* the argument of a push_off() that no acquire() makes
  MaxBare   \* bound on nested push_off()s outside acquire()

ASSUME SpinLockAssumption ==
  /\ NoCpu \notin CPUs
  /\ Locks \subseteq Int /\ IsFiniteSet(Locks) /\ NoLock \notin Locks
  /\ MaxBare \in Nat

\* What runs on a CPU: a kernel thread, or a handler that interrupted it.
Contexts == {"thread", "handler"}

VARIABLES
  locked,   \* lk->locked
  owner,    \* lk->cpu
  intr,     \* sstatus.SIE of each CPU
  noff,     \* cpu->noff
  intena,   \* cpu->intena
  running,  \* the context each CPU executes
  pc,       \* where each context is in spinlock.c
  arg,      \* the lock it is acquiring or releasing
  old,      \* push_off()'s local variable
  held,     \* locks the context is inside a critical section of
  bare,     \* push_off()s of its own it has not undone
  want,     \* interrupt setting the context runs with outside push_off()
  panicked

lockvars == <<locked, owner>>
cpuvars  == <<intr, noff, intena, running>>
ctxvars  == <<pc, arg, old, held, bare>>
vars == <<lockvars, cpuvars, ctxvars, want, panicked>>

Init ==
  /\ locked = [l \in Locks |-> FALSE]
  /\ owner = [l \in Locks |-> NoCpu]
  /\ intr = [c \in CPUs |-> FALSE]
  /\ noff = [c \in CPUs |-> 0]
  /\ intena = [c \in CPUs |-> FALSE]
  /\ running = [c \in CPUs |-> "thread"]
  /\ pc = [c \in CPUs |-> [x \in Contexts |-> "run"]]
  /\ arg = [c \in CPUs |-> [x \in Contexts |-> NoLock]]
  /\ old = [c \in CPUs |-> [x \in Contexts |-> FALSE]]
  /\ held = [c \in CPUs |-> [x \in Contexts |-> {}]]
  /\ bare = [c \in CPUs |-> [x \in Contexts |-> 0]]
  /\ want = [c \in CPUs |-> [x \in Contexts |-> FALSE]]
  /\ panicked = FALSE

\* Context x executes on CPU c and is at a given place.
At(c, x, where) == ~panicked /\ running[c] = x /\ pc[c][x] = where

Goto(c, x, where) == pc' = [pc EXCEPT ![c][x] = where]

Panic ==
  /\ panicked' = TRUE
  /\ UNCHANGED <<lockvars, cpuvars, ctxvars, want>>

holding(c, l) == locked[l] /\ owner[l] = c

-----------------------------------------------------------------------------
(* acquire() *)

\* Call acquire(l), or push_off() alone for l = NoLock: old = intr_get().
call_push_off(c, x, l) ==
  /\ At(c, x, "run")
  /\ IF l = NoLock THEN bare[c][x] < MaxBare ELSE \A k \in held[c][x] : k < l
  /\ Goto(c, x, "intr_off")
  /\ arg' = [arg EXCEPT ![c][x] = l]
  /\ old' = [old EXCEPT ![c][x] = intr[c]]
  /\ UNCHANGED <<lockvars, cpuvars, held, bare, want, panicked>>

IntrAfterOff(c) == [intr EXCEPT ![c] = FALSE]

intr_off(c, x) ==
  /\ At(c, x, "intr_off")
  /\ Goto(c, x, "count")
  /\ intr' = IntrAfterOff(c)
  /\ UNCHANGED <<lockvars, noff, intena, running, arg, old, held, bare, want, panicked>>

Intena_Always(c, x) == old[c][x]

\* Only the outermost push_off() records the interrupt setting.
Intena(c, x) == IF noff[c] = 0 THEN old[c][x] ELSE intena[c]

Noff(c) == noff[c] + 1

\* The rest of push_off(); acquire() then checks for a recursive acquire.
count(c, x) ==
  /\ At(c, x, "count")
  /\ IF arg[c][x] # NoLock /\ holding(c, arg[c][x])
     THEN Panic
     ELSE /\ intena' = [intena EXCEPT ![c] = Intena(c, x)]
          /\ noff' = [noff EXCEPT ![c] = Noff(c)]
          /\ IF arg[c][x] = NoLock
             THEN /\ Goto(c, x, "run")
                  /\ bare' = [bare EXCEPT ![c][x] = @ + 1]
             ELSE /\ Goto(c, x, "spin")
                  /\ UNCHANGED bare
          /\ UNCHANGED <<lockvars, intr, running, arg, old, held, want, panicked>>

CanSet_Ignore(l) == l \in Locks

\* The swap found lk->locked clear.
CanSet(l) == ~locked[l]

test_and_set_IntrOn(c, x) ==
  /\ At(c, x, "spin")
  /\ locked' = [locked EXCEPT ![arg[c][x]] = TRUE]
  /\ intr' = [intr EXCEPT ![c] = old[c][x]]
  /\ Goto(c, x, IF CanSet(arg[c][x]) THEN "own" ELSE "spin")
  /\ UNCHANGED <<owner, noff, intena, running, arg, old, held, bare, want, panicked>>

\* The swap; the loop ends if it found lk->locked clear.
test_and_set(c, x) ==
  /\ At(c, x, "spin")
  /\ locked' = [locked EXCEPT ![arg[c][x]] = TRUE]
  /\ Goto(c, x, IF CanSet(arg[c][x]) THEN "own" ELSE "spin")
  /\ UNCHANGED <<owner, cpuvars, arg, old, held, bare, want, panicked>>

set_owner(c, x) ==
  /\ At(c, x, "own")
  /\ owner' = [owner EXCEPT ![arg[c][x]] = c]
  /\ held' = [held EXCEPT ![c][x] = @ \cup {arg[c][x]}]
  /\ Goto(c, x, "run")
  /\ UNCHANGED <<locked, cpuvars, arg, old, bare, want, panicked>>

-----------------------------------------------------------------------------
(* release() *)

OwnerAfterRelease(l) == [owner EXCEPT ![l] = NoCpu]

call_release(c, x, l) ==
  /\ At(c, x, "run")
  /\ l \in held[c][x]
  /\ IF ~holding(c, l)
     THEN Panic
     ELSE /\ owner' = OwnerAfterRelease(l)
          /\ held' = [held EXCEPT ![c][x] = @ \ {l}]
          /\ arg' = [arg EXCEPT ![c][x] = l]
          /\ Goto(c, x, "unlock")
          /\ UNCHANGED <<locked, cpuvars, old, bare, want, panicked>>

unlock(c, x) ==
  /\ At(c, x, "unlock")
  /\ locked' = [locked EXCEPT ![arg[c][x]] = FALSE]
  /\ Goto(c, x, "pop_off")
  /\ UNCHANGED <<owner, cpuvars, arg, old, held, bare, want, panicked>>

\* pop_off() that undoes a push_off() made outside acquire().
call_pop_off(c, x) ==
  /\ At(c, x, "run")
  /\ bare[c][x] > 0
  /\ bare' = [bare EXCEPT ![c][x] = @ - 1]
  /\ Goto(c, x, "pop_off")
  /\ UNCHANGED <<lockvars, cpuvars, arg, old, held, want, panicked>>

pop_off(c, x) ==
  /\ At(c, x, "pop_off")
  /\ IF intr[c] \/ noff[c] < 1
     THEN Panic
     ELSE /\ noff' = [noff EXCEPT ![c] = @ - 1]
          /\ intr' = [intr EXCEPT ![c] = noff[c] = 1 /\ intena[c]]
          /\ Goto(c, x, "run")
          /\ UNCHANGED <<lockvars, intena, running, arg, old, held, bare, want, panicked>>

-----------------------------------------------------------------------------
(* Interrupts *)

Idle(c, x) == pc[c][x] = "run" /\ held[c][x] = {} /\ bare[c][x] = 0

\* intr_on() and intr_off() of the trap path and of scheduler().
intr_switch(c, on) ==
  /\ At(c, "thread", "run")
  /\ Idle(c, "thread")
  /\ intr' = [intr EXCEPT ![c] = on]
  /\ want' = [want EXCEPT ![c]["thread"] = on]
  /\ UNCHANGED <<lockvars, noff, intena, running, ctxvars, panicked>>

\* The hardware clears SIE and enters kerneltrap().
interrupt(c) ==
  /\ ~panicked
  /\ running[c] = "thread"
  /\ intr[c]
  /\ intr' = [intr EXCEPT ![c] = FALSE]
  /\ running' = [running EXCEPT ![c] = "handler"]
  /\ UNCHANGED <<lockvars, noff, intena, ctxvars, want, panicked>>

\* The handler is done: w_sstatus(sstatus) and sret bring SIE back.
return_from_trap(c) ==
  /\ At(c, "handler", "run")
  /\ Idle(c, "handler")
  /\ intr' = [intr EXCEPT ![c] = TRUE]
  /\ running' = [running EXCEPT ![c] = "thread"]
  /\ UNCHANGED <<lockvars, noff, intena, ctxvars, want, panicked>>

-----------------------------------------------------------------------------

Step(c, x) ==
  \/ intr_off(c, x)
  \/ count(c, x)
  \/ test_and_set(c, x)
  \/ set_owner(c, x)
  \/ unlock(c, x)
  \/ pop_off(c, x)

Leave(c, x) ==
  \/ \E l \in Locks : call_release(c, x, l)
  \/ call_pop_off(c, x)

Next ==
  \E c \in CPUs :
    \/ \E x \in Contexts :
         \/ Step(c, x)
         \/ Leave(c, x)
         \/ \E l \in Locks \cup {NoLock} : call_push_off(c, x, l)
    \/ \E on \in BOOLEAN : intr_switch(c, on)
    \/ interrupt(c)
    \/ return_from_trap(c)

Spec == Init /\ [][Next]_vars

-----------------------------------------------------------------------------
(* Properties *)

\* Context x of CPU c is somewhere between the swap that took l and the swap
\* that gives it back.
Has(c, x, l) ==
  \/ l \in held[c][x]
  \/ arg[c][x] = l /\ pc[c][x] \in {"own", "unlock"}

\* acquire() gives mutual exclusion: a lock is in the hands of at most one
\* context of one CPU, and only while lk->locked is set.  holding(), which reads
\* lk->locked and lk->cpu without the lock, is true exactly for the CPU inside
\* the critical section, never because of an earlier owner.
MutualExclusion ==
  \A l \in Locks, c \in CPUs :
    /\ \A d \in CPUs, x, y \in Contexts :
         Has(c, x, l) => locked[l] /\ (Has(d, y, l) => c = d /\ x = y)
    /\ holding(c, l) <=> \E x \in Contexts : l \in held[c][x]

\* Undoing the outermost push_off() puts interrupts back to what the context
\* ran with before it, whatever interrupts came between intr_get() and
\* intr_off() and however the calls nest.
InterruptsRestored ==
  \A c \in CPUs : LET x == running[c]
                  IN  Idle(c, x) => intr[c] = want[c][x]

\* An interrupt handler never spins for a lock its own CPU has taken, not even
\* in the window before acquire() has set lk->cpu; and code that nests its
\* calls reaches none of the panics of spinlock.c.
NoSelfDeadlock ==
  /\ ~panicked
  /\ \A c \in CPUs, x \in Contexts :
       pc[c][x] = "spin" => \A y \in Contexts : ~Has(c, y, arg[c][x])
=============================================================================
