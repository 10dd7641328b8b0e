-------------------------------- MODULE Sched -------------------------------
(***************************************************************************)
(* The scheduler, the context switch and sleep()/wakeup() of kernel/proc.c *)
(* on several CPUs, driven by the clock: processes call sys_sleep(), for   *)
(* one tick or for very many, and the timer interrupt wakes them and makes *)
(* the running process yield.                                              *)
(* p->lock and tickslock are explicit, because sleep() and sched() hold    *)
(* p->lock across the switch and the scheduler thread releases it.         *)
(***************************************************************************)
EXTENDS Integers, FiniteSets

CONSTANTS
  CPUs,
  Cpu0,       \* the CPU whose clockintr() advances ticks
  Procs,      \* slots of proc[] in use
  NoProc,     \* c->proc == 0
  Scheduler,  \* the per-CPU scheduler thread
  Free,       \* a lock nobody holds
  Forever     \* processes whose sys_sleep() asks for more ticks than ever come

ASSUME SchedAssumption ==
  /\ Cpu0 \in CPUs
  /\ NoProc \notin Procs
  /\ Scheduler \notin Procs
  /\ Free \notin CPUs
  /\ Forever \subseteq Procs

VARIABLES
  cpu,        \* struct cpu, what executes on it, and its interrupt handler
  state,      \* p->state
  onticks,    \* p->chan == &ticks
  killed,     \* p->killed
  plock,      \* the CPU holding p->lock
  tickslock,  \* the CPU holding tickslock
  due,        \* ticks - ticks0 >= n in the process's sys_sleep()
  pc,         \* where the process is in sys_sleep() and sleep()
  switch,     \* where it is in sched(): "on" its stack, about to swtch
              \* "out", switched "off", or returning from a "trap"
  why,        \* the function that called sched()
  intena,     \* sched()'s local variable
  panicked

procvars == <<state, onticks, killed, due, pc, switch, why, intena>>
vars == <<cpu, procvars, plock, tickslock, panicked>>

\* struct cpu with interrupts and the thread (ctx) whose stack it runs on;
\* trap and left describe a timer interrupt being handled.
IdleCpu == [proc |-> NoProc, ctx |-> Scheduler, noff |-> 0, intena |-> FALSE,
            intr |-> FALSE, trap |-> "none", left |-> {}]

Init ==
  /\ cpu = [c \in CPUs |-> IdleCpu]
  /\ state = [p \in Procs |-> "RUNNABLE"]
  /\ onticks = [p \in Procs |-> FALSE]
  /\ killed = [p \in Procs |-> FALSE]
  /\ plock = [p \in Procs |-> Free]
  /\ tickslock = Free
  /\ due = [p \in Procs |-> FALSE]
  /\ pc = [p \in Procs |-> "user"]
  /\ switch = [p \in Procs |-> "off"]
  /\ why = [p \in Procs |-> "fork"]
  /\ intena = [p \in Procs |-> FALSE]
  /\ panicked = FALSE

\* push_off() and pop_off() on a CPU record.
Pushed(r) == [r EXCEPT !.noff = @ + 1, !.intr = FALSE,
                       !.intena = IF r.noff = 0 THEN r.intr ELSE @]

Popped(r) == [r EXCEPT !.noff = @ - 1,
                       !.intr = IF r.noff = 1 THEN r.intena ELSE @]

\* Process p executes its own code on CPU c, at a place of sys_sleep().
At(c, p, where) ==
  /\ ~panicked
  /\ cpu[c].ctx = p
  /\ cpu[c].trap = "none"
  /\ switch[p] = "on"
  /\ pc[p] = where

Goto(p, where) == pc' = [pc EXCEPT ![p] = where]

\* The scheduler thread runs on c and no handler does.
InScheduler(c) ==
  ~panicked /\ cpu[c].ctx = Scheduler /\ cpu[c].trap = "none"

-----------------------------------------------------------------------------
(* scheduler() *)

\* intr_on() at the top of the loop.
loop(c) ==
  /\ InScheduler(c)
  /\ cpu[c].proc = NoProc
  /\ ~cpu[c].intr
  /\ cpu' = [cpu EXCEPT ![c].intr = TRUE]
  /\ UNCHANGED <<procvars, plock, tickslock, panicked>>

CanLock(p) == plock[p] = Free

\* The scan finds p RUNNABLE: it switches to p with p->lock held.
dispatch(c, p) ==
  /\ InScheduler(c)
  /\ cpu[c].proc = NoProc
  /\ CanLock(p)
  /\ state[p] = "RUNNABLE"
  /\ plock' = [plock EXCEPT ![p] = c]
  /\ state' = [state EXCEPT ![p] = "RUNNING"]
  /\ cpu' = [cpu EXCEPT ![c] = [Pushed(@) EXCEPT !.proc = p, !.ctx = p]]
  /\ UNCHANGED <<onticks, killed, due, pc, switch, why, intena, tickslock, panicked>>

\* Back from p's swtch(): c->proc = 0; release(&p->lock).
sched_return(c) ==
  /\ InScheduler(c)
  /\ cpu[c].proc # NoProc
  /\ plock' = [plock EXCEPT ![cpu[c].proc] = Free]
  /\ cpu' = [cpu EXCEPT ![c] = [Popped(@) EXCEPT !.proc = NoProc]]
  /\ UNCHANGED <<procvars, tickslock, panicked>>

-----------------------------------------------------------------------------
(* sched() *)

SchedPanics(c, p) ==
  \/ plock[p] # c
  \/ cpu[c].noff # 1
  \/ state[p] = "RUNNING"
  \/ cpu[c].intr

\* sched() up to and including swtch() to the scheduler.
sched(c, p) ==
  /\ ~panicked
  /\ cpu[c].ctx = p
  /\ switch[p] = "out"
  /\ IF SchedPanics(c, p)
     THEN panicked' = TRUE /\ UNCHANGED <<cpu, procvars, plock, tickslock>>
     ELSE /\ intena' = [intena EXCEPT ![p] = cpu[c].intena]
          /\ switch' = [switch EXCEPT ![p] = "off"]
          /\ cpu' = [cpu EXCEPT ![c].ctx = Scheduler]
          /\ UNCHANGED <<state, onticks, killed, due, pc, why, plock, tickslock, panicked>>

IntenaBack_NotSaved(c, p) == cpu[c].intena

\* The CPU's intena once the switched-in process has run sched()'s last line;
\* a new process starts in forkret() instead.
IntenaBack(c, p) == IF why[p] = "fork" THEN cpu[c].intena ELSE intena[p]

\* The end of sched() and of its caller (forkret(), yield() or sleep()), which
\* tidies p->chan and releases p->lock.
resume(c, p) ==
  /\ ~panicked
  /\ cpu[c].ctx = p
  /\ switch[p] = "off"
  /\ switch' = [switch EXCEPT ![p] = IF why[p] = "yield" THEN "trap" ELSE "on"]
  /\ onticks' = [onticks EXCEPT ![p] = @ /\ why[p] # "sleep"]
  /\ plock' = [plock EXCEPT ![p] = Free]
  /\ cpu' = [cpu EXCEPT ![c] = LET r == Popped([@ EXCEPT !.intena = IntenaBack(c, p)])
                               IN  IF why[p] = "fork" THEN [r EXCEPT !.intr = TRUE] ELSE r]
  /\ UNCHANGED <<state, killed, due, pc, why, intena, tickslock, panicked>>

\* The interrupted code continues after kerneltrap() or usertrap().
trap_return(c, p) ==
  /\ ~panicked
  /\ cpu[c].ctx = p
  /\ switch[p] = "trap"
  /\ switch' = [switch EXCEPT ![p] = "on"]
  /\ cpu' = [cpu EXCEPT ![c].intr = TRUE]
  /\ UNCHANGED <<state, onticks, killed, due, pc, why, intena, plock, tickslock, panicked>>

\* p has set its state with p->lock held and calls sched().
CallSched(c, p, st, reason) ==
  /\ state' = [state EXCEPT ![p] = st]
  /\ switch' = [switch EXCEPT ![p] = "out"]
  /\ why' = [why EXCEPT ![p] = reason]

-----------------------------------------------------------------------------
(* sys_sleep() and sleep(&ticks, &tickslock) *)

\* acquire(&tickslock): interrupts go off, then the loop spins.
SpinForTicks(c, p, from, to) ==
  /\ At(c, p, from)
  /\ Goto(p, to)
  /\ cpu' = [cpu EXCEPT ![c] = Pushed(@)]
  /\ UNCHANGED <<state, onticks, killed, due, switch, why, intena, plock, tickslock, panicked>>

sys_sleep(c, p) == ~killed[p] /\ SpinForTicks(c, p, "user", "spin")

\* The last line of sleep().
reacquire(c, p) == SpinForTicks(c, p, "relock", "respin")

\* tickslock acquired; on the first round ticks0 = ticks.
take_tickslock(c, p) ==
  /\ \/ At(c, p, "spin") /\ due' = [due EXCEPT ![p] = FALSE]
     \/ At(c, p, "respin") /\ UNCHANGED due
  /\ tickslock = Free
  /\ tickslock' = c
  /\ Goto(p, "check")
  /\ UNCHANGED <<cpu, state, onticks, killed, switch, why, intena, plock, panicked>>

check_IgnoreKilled(c, p) ==
  /\ At(c, p, "check")
  /\ due[p] \/ plock[p] = Free
  /\ IF ~due[p]
     THEN /\ Goto(p, "sleep")
          /\ UNCHANGED <<cpu, tickslock>>
     ELSE /\ Goto(p, "user")
          /\ tickslock' = Free
          /\ cpu' = [cpu EXCEPT ![c] = Popped(@)]
  /\ UNCHANGED <<state, onticks, killed, due, switch, why, intena, plock, panicked>>

\* The loop condition and killed(): sleep, or release tickslock and return.
check(c, p) ==
  /\ At(c, p, "check")
  /\ due[p] \/ plock[p] = Free
  /\ IF ~due[p] /\ ~killed[p]
     THEN /\ Goto(p, "sleep")
          /\ UNCHANGED <<cpu, tickslock>>
     ELSE /\ Goto(p, "user")
          /\ tickslock' = Free
          /\ cpu' = [cpu EXCEPT ![c] = Popped(@)]
  /\ UNCHANGED <<state, onticks, killed, due, switch, why, intena, plock, panicked>>

\* sleep(): acquire(&p->lock) ...
sleep_lock(c, p) ==
  /\ At(c, p, "sleep")
  /\ plock[p] = Free
  /\ plock' = [plock EXCEPT ![p] = c]
  /\ cpu' = [cpu EXCEPT ![c] = Pushed(@)]
  /\ Goto(p, "sleep_release")
  /\ UNCHANGED <<state, onticks, killed, due, switch, why, intena, tickslock, panicked>>

\* ... release(lk) ...
sleep_release(c, p) ==
  /\ At(c, p, "sleep_release")
  /\ tickslock' = Free
  /\ cpu' = [cpu EXCEPT ![c] = Popped(@)]
  /\ Goto(p, "sleeping")
  /\ UNCHANGED <<state, onticks, killed, due, switch, why, intena, plock, panicked>>

sleep_NoChan(c, p) ==
  /\ At(c, p, "sleeping")
  /\ CallSched(c, p, "SLEEPING", "sleep")
  /\ Goto(p, "relock")
  /\ UNCHANGED <<cpu, onticks, killed, due, intena, plock, tickslock, panicked>>

\* ... p->chan = chan; p->state = SLEEPING; sched().
sleep(c, p) ==
  /\ At(c, p, "sleeping")
  /\ CallSched(c, p, "SLEEPING", "sleep")
  /\ onticks' = [onticks EXCEPT ![p] = TRUE]
  /\ Goto(p, "relock")
  /\ UNCHANGED <<cpu, killed, due, intena, plock, tickslock, panicked>>

-----------------------------------------------------------------------------
(* The timer interrupt *)

\* From user or kernel code, or in the scheduler; cpuid() == 0 has a tick.
interrupt(c) ==
  /\ ~panicked
  /\ cpu[c].intr
  /\ cpu' = [cpu EXCEPT ![c].intr = FALSE,
                        ![c].trap = IF c = Cpu0 THEN "clockintr" ELSE "handled"]
  /\ UNCHANGED <<procvars, plock, tickslock, panicked>>

\* acquire(&tickslock); ticks++; wakeup(&ticks) starts.
clockintr(c) ==
  /\ ~panicked
  /\ cpu[c].trap = "clockintr"
  /\ tickslock = Free
  /\ tickslock' = c
  /\ due' = [p \in Procs |-> p \notin Forever]
  /\ cpu' = [cpu EXCEPT ![c] = [Pushed(@) EXCEPT !.trap = "wakeup",
                                                 !.left = Procs \ {cpu[c].proc}]]
  /\ UNCHANGED <<state, onticks, killed, pc, switch, why, intena, plock, panicked>>

\* One iteration of wakeup(&ticks), under q's p->lock.
wakeup(c, q) ==
  /\ ~panicked
  /\ cpu[c].trap = "wakeup"
  /\ q \in cpu[c].left
  /\ CanLock(q)
  /\ state' = [state EXCEPT ![q] = IF @ = "SLEEPING" /\ onticks[q] THEN "RUNNABLE" ELSE @]
  /\ cpu' = [cpu EXCEPT ![c].left = @ \ {q}]
  /\ UNCHANGED <<onticks, killed, due, pc, switch, why, intena, plock, tickslock, panicked>>

\* release(&tickslock).
clock_done(c) ==
  /\ ~panicked
  /\ cpu[c].trap = "wakeup"
  /\ cpu[c].left = {}
  /\ tickslock' = Free
  /\ cpu' = [cpu EXCEPT ![c] = [Popped(@) EXCEPT !.trap = "handled"]]
  /\ UNCHANGED <<procvars, plock, panicked>>

\* kerneltrap() or usertrap() yields if there is a process; otherwise the
\* interrupted scheduler continues.
yield(c) ==
  LET p == cpu[c].proc
  IN  /\ ~panicked
      /\ cpu[c].trap = "handled"
      /\ IF p = NoProc
         THEN /\ cpu' = [cpu EXCEPT ![c].trap = "none", ![c].intr = TRUE]
              /\ UNCHANGED <<procvars, plock>>
         ELSE /\ plock[p] = Free
              /\ plock' = [plock EXCEPT ![p] = c]
              /\ cpu' = [cpu EXCEPT ![c] = [Pushed(@) EXCEPT !.trap = "none"]]
              /\ CallSched(c, p, "RUNNABLE", "yield")
              /\ UNCHANGED <<onticks, killed, due, pc, intena>>
      /\ UNCHANGED <<tickslock, panicked>>

-----------------------------------------------------------------------------
(* kill() and exit() *)

\* The state kill() leaves its victim in.
KillState(q) == IF state[q] = "SLEEPING" THEN "RUNNABLE" ELSE state[q]

\* Process p, in a system call, kills q: one critical section of q's lock.
kill(c, p, q) ==
  /\ At(c, p, "user")
  /\ plock[q] = Free
  /\ killed' = [killed EXCEPT ![q] = TRUE]
  /\ state' = [state EXCEPT ![q] = KillState(q)]
  /\ UNCHANGED <<cpu, onticks, due, pc, switch, why, intena, plock, tickslock, panicked>>

\* usertrap() finds p killed, after a system call or with interrupts still off
\* after a device interrupt; the end of exit(): ZOMBIE under p->lock.
exit(c, p) ==
  /\ ~panicked
  /\ cpu[c].ctx = p
  /\ cpu[c].trap \in {"none", "handled"}
  /\ switch[p] = "on" /\ pc[p] = "user"
  /\ killed[p]
  /\ plock[p] = Free
  /\ plock' = [plock EXCEPT ![p] = c]
  /\ cpu' = [cpu EXCEPT ![c] = [Pushed(@) EXCEPT !.trap = "none"]]
  /\ CallSched(c, p, "ZOMBIE", "exit")
  /\ UNCHANGED <<onticks, killed, due, pc, intena, tickslock, panicked>>

-----------------------------------------------------------------------------

\* What a process's kernel thread does without being asked again, in the
\* context switch and in its own code.
Switch(c, p) == sched(c, p) \/ resume(c, p) \/ trap_return(c, p)

Code(c, p) ==
  \/ take_tickslock(c, p) \/ check(c, p)
  \/ sleep_lock(c, p) \/ sleep_release(c, p) \/ sleep(c, p) \/ reacquire(c, p)
  \/ exit(c, p)

Trap(c) ==
  \/ interrupt(c) \/ clockintr(c) \/ clock_done(c) \/ yield(c)
  \/ \E q \in Procs : wakeup(c, q)

Next ==
  \E c \in CPUs :
    \/ loop(c)
    \/ sched_return(c)
    \/ Trap(c)
    \/ \E p \in Procs : \/ dispatch(c, p)
                        \/ Switch(c, p)
                        \/ Code(c, p)
                        \/ sys_sleep(c, p)
                        \/ \E q \in Procs : kill(c, p, q)

Spec == Init /\ [][Next]_vars

\* CPUs keep executing and the timer keeps interrupting; a lock that is free
\* again and again is got by the CPU that spins for it; the scan of proc[]
\* reaches every slot.
Fairness ==
  /\ \A c \in CPUs : /\ WF_vars(loop(c) \/ sched_return(c) \/ \E p \in Procs : Switch(c, p))
                     /\ SF_vars(Trap(c))
  /\ \A p \in Procs : /\ SF_vars(\E c \in CPUs : dispatch(c, p))
                      /\ SF_vars(\E c \in CPUs : Code(c, p))

FairSpec == Spec /\ Fairness

-----------------------------------------------------------------------------
(* Properties *)

\* Switches are exact.  A kernel stack is never executed by two CPUs: the
\* p->lock held across swtch() keeps a RUNNABLE process from being dispatched
\* before its old CPU has left its stack.  intena belongs to the kernel thread:
\* wherever it resumes, a thread that had interrupts on has them on, a trap
\* handler has them off.  And none of sched()'s panics is reached.
SwitchesExact ==
  /\ \A c, d \in CPUs : cpu[c].ctx = cpu[d].ctx /\ cpu[c].ctx # Scheduler => c = d
  /\ \A c \in CPUs, p \in Procs :
       cpu[c].ctx = p /\ cpu[c].trap = "none" =>
         /\ switch[p] = "on" /\ pc[p] \in {"user", "relock"} => cpu[c].intr
         /\ switch[p] = "trap" => ~cpu[c].intr
  /\ ~panicked

\* sys_sleep() ends when its ticks have passed: some clockintr() wakes the
\* process.
SleepReturns ==
  \A p \in Procs \ Forever : (pc[p] # "user") ~> (pc[p] = "user")

\* A process that has been killed exits, even one whose sys_sleep() still has
\* more ticks to wait for than ever come.
KilledExits ==
  \A p \in Procs : killed[p] ~> (state[p] = "ZOMBIE")
=============================================================================
