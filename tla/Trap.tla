-------------------------------- MODULE Trap --------------------------------
(***************************************************************************)
(* Traps and context switches at the level of registers: trampoline.S,     *)
(* kernelvec.S, swtch.S and the code of trap.c between them.  Code that    *)
(* runs with interrupts off is one step, in the order of its instructions. *)
(*                                                                         *)
(* Registers that are saved together are one: "caller" stands for gp, ra,  *)
(* t0-t6 and a1-a7, "callee" for s0-s11.  A context, which is a process or *)
(* the scheduler of a hart, has its own name in its kernel registers; in   *)
(* user mode process p has <<p, v>> in them, v being what it last computed.*)
(* What will be written before it is read again is set to Junk.            *)
(***************************************************************************)
EXTENDS Integers, Sequences

CONSTANTS
  Harts,
  Procs,
  Junk      \* what a call leaves in the registers it need not preserve

\* Harts and processes are different things.
Disjoint == Harts \cap Procs = {}

VARIABLES
  cpu,      \* each hart's registers and who runs on it
  tf,       \* each process's trapframe
  ctx,      \* each context's saved struct context
  stack,    \* the trap frames on each context's kernel stack
  runnable, \* the processes that wait for a hart
  want      \* what each process should find in its registers in user mode

vars == <<cpu, tf, ctx, stack, runnable, want>>

Contexts == Procs \cup Harts
Regs(a0, caller, callee, sp, tp) ==
  [a0 |-> a0, caller |-> caller, callee |-> callee, sp |-> sp, tp |-> tp]
UserRegs(p, v) == Regs(<<p, v>>, <<p, v>>, <<p, v>>, <<p, v>>, <<p, v>>)
Sstatus(spp, spie, sie) == [spp |-> spp, spie |-> spie, sie |-> sie]
UserPc == {"user0", "user1"}
NoContext == [ra |-> "none", sp |-> Junk, callee |-> Junk]

\* A new process: its trapframe, its context and what it expects.
NewFrame(p) == [regs |-> UserRegs(p, 0), epc |-> "user0", sp |-> Junk, hartid |-> Junk]
Forkret(p) == [ra |-> "forkret", sp |-> p, callee |-> Junk]
NewUser(p) == [regs |-> UserRegs(p, 0), pc |-> "user0"]

\* main() has run on every hart; the processes will start in forkret().
Init ==
  /\ cpu = [h \in Harts |->
              [run |-> h, pc |-> "scheduler", regs |-> Regs(h, h, h, h, h), satp |-> "kernel",
               stvec |-> "kernelvec", sepc |-> Junk, sstatus |-> Sstatus("U", TRUE, TRUE)]]
  /\ tf = [p \in Procs |-> NewFrame(p)]
  /\ ctx = [c \in Contexts |-> IF c \in Harts THEN NoContext ELSE Forkret(c)]
  /\ stack = [c \in Contexts |-> <<>>]
  /\ runnable = Procs
  /\ want = [p \in Procs |-> NewUser(p)]

InUser(c) == c.pc \in UserPc

\* What the kernel code of context k should have in its registers on hart h, and
\* what it loads again itself when a function it called returns.
KernelRegs(k, h) == Regs(k, k, k, k, h)
Reloaded(regs, k) == [regs EXCEPT !.a0 = k, !.caller = k]

-----------------------------------------------------------------------------
(* The hardware *)

Trapped(c, handler) ==
  [c EXCEPT !.sepc = c.pc, !.pc = handler,
            !.sstatus = Sstatus(IF InUser(c) THEN "U" ELSE "S", c.sstatus.sie, FALSE)]

sret(c) == [c EXCEPT !.pc = c.sepc, !.sepc = Junk, !.sstatus = Sstatus("U", TRUE, c.sstatus.spie)]

-----------------------------------------------------------------------------
(* trampoline.S, with the trapframe of the process that runs *)

\* uservec: sscratch keeps a0 while a0 points to the trapframe.
uservec(c, t) ==
  [tf |-> [t EXCEPT !.regs = c.regs, !.sp = Junk, !.hartid = Junk],
   c |-> [c EXCEPT !.regs = [@ EXCEPT !.sp = t.sp, !.tp = t.hartid], !.satp = "kernel"]]

userret(c, t) == sret([c EXCEPT !.satp = c.run, !.regs = t.regs])

-----------------------------------------------------------------------------
(* swtch.S: on hart h, from context k to context n *)

\* Loading a struct context; the caller's registers are not kept.
swtch(c, saved) == [c EXCEPT !.pc = saved.ra,
  !.regs = [@ EXCEPT !.callee = saved.callee, !.sp = saved.sp, !.caller = Junk, !.a0 = Junk]]

Saved(c, ra) == [ra |-> ra, sp |-> c.regs.sp, callee |-> c.regs.callee]

\* Hart h back in scheduler(), which turns interrupts on when it has released the
\* process.
Scheduling(h, c) ==
  [swtch(c, ctx[h]) EXCEPT !.run = h, !.sstatus = Sstatus("U", TRUE, TRUE), !.sepc = Junk,
                           !.regs = Reloaded(@, h)]

\* sched(): the process on h gives it up, to go on at ra.
Yielded(h, c, ra) ==
  /\ ctx' = [ctx EXCEPT ![c.run] = Saved(c, ra), ![h] = NoContext]
  /\ cpu' = [cpu EXCEPT ![h] = Scheduling(h, c)]
  /\ runnable' = runnable \cup {c.run}

\* Process p on the hart, where it called sched().  The code that called acquire()
\* with interrupts on has them on again after release().
Resumed(c, p, saved) ==
  [swtch(c, saved) EXCEPT
     !.run = p, !.sstatus.sie = (saved.ra \in {"syscall", "forkret"}),
     !.regs = IF saved.ra = "kerneltrap" THEN @ ELSE Reloaded(@, p)]

scheduler(h) ==
  /\ cpu[h].pc = "scheduler"
  /\ \E p \in runnable :
       /\ runnable' = runnable \ {p}
       /\ ctx' = [ctx EXCEPT ![h] = Saved(cpu[h], "scheduler"), ![p] = NoContext]
       /\ cpu' = [cpu EXCEPT ![h] = Resumed(@, p, ctx[p])]
  /\ UNCHANGED <<tf, stack, want>>

-----------------------------------------------------------------------------
(* trap.c: traps from user mode *)

\* usertrap() up to where interrupts come on or devintr() has returned.
usertrap(c, t, cause) ==
  [tf |-> [t EXCEPT !.epc = IF cause = "ecall" THEN (IF c.sepc = "user0" THEN "user1" ELSE "user0")
                                               ELSE c.sepc],
   c |-> [c EXCEPT !.stvec = "kernelvec",
                   !.pc = CASE cause = "ecall" -> "syscall"
                            [] cause = "timer" -> "yield"
                            [] OTHER -> "usertrapret",
                   !.sepc = Junk, !.sstatus = Sstatus("U", TRUE, cause = "ecall"),
                   !.regs = [Reloaded(@, c.run) EXCEPT !.callee = c.run]]]

trap(h) ==
  /\ InUser(cpu[h])
  /\ \E cause \in {"ecall", "timer", "device"} :
       LET p == cpu[h].run
           entry == uservec(Trapped(cpu[h], "usertrap"), tf[p])
           u == usertrap(entry.c, entry.tf, cause)
       IN /\ cpu' = [cpu EXCEPT ![h] = u.c]
          /\ tf' = [tf EXCEPT ![p] = u.tf]
          /\ want' = [want EXCEPT ![p].pc = u.tf.epc]
  /\ UNCHANGED <<ctx, stack, runnable>>

\* User code computes.
user(h) ==
  /\ InUser(cpu[h])
  /\ \E v \in {0, 1} :
       /\ cpu' = [cpu EXCEPT ![h].regs = UserRegs(cpu[h].run, v)]
       /\ want' = [want EXCEPT ![cpu[h].run].regs = UserRegs(cpu[h].run, v)]
  /\ UNCHANGED <<tf, ctx, stack, runnable>>

\* A system call may sleep.
sys_sleep(h) ==
  /\ cpu[h].pc = "syscall"
  /\ Yielded(h, cpu[h], "syscall")
  /\ UNCHANGED <<tf, stack, want>>

\* exit(), from the call or from usertrap()'s tests of killed(): the process is gone,
\* and its place goes to one that will start in forkret().
exit(h) ==
  /\ cpu[h].pc \in {"syscall", "usertrapret"} /\ stack[cpu[h].run] = <<>>
  /\ LET p == cpu[h].run
     IN /\ cpu' = [cpu EXCEPT ![h] = Scheduling(h, @)]
        /\ ctx' = [ctx EXCEPT ![p] = Forkret(p), ![h] = NoContext]
        /\ tf' = [tf EXCEPT ![p] = NewFrame(p)]
        /\ want' = [want EXCEPT ![p] = NewUser(p)]
        /\ runnable' = runnable \cup {p}
  /\ UNCHANGED stack

\* syscall() stores the result.
syscall(h) ==
  /\ cpu[h].pc = "syscall"
  /\ LET p == cpu[h].run
     IN /\ tf' = [tf EXCEPT ![p].regs.a0 = <<p, 2>>]
        /\ want' = [want EXCEPT ![p].regs.a0 = <<p, 2>>]
  /\ cpu' = [cpu EXCEPT ![h].pc = "usertrapret"]
  /\ UNCHANGED <<ctx, stack, runnable>>

yield(h) ==
  /\ cpu[h].pc = "yield"
  /\ Yielded(h, cpu[h], "usertrapret")
  /\ UNCHANGED <<tf, stack, want>>

\* What usertrapret() leaves in the trapframe for uservec.
Prepared(c, t) == [t EXCEPT !.sp = c.run, !.hartid = c.regs.tp]

\* usertrapret() from its intr_off(), and userret.
usertrapret(h) ==
  /\ cpu[h].pc \in {"usertrapret", "forkret"}
  /\ LET c == cpu[h]
         t == Prepared(c, tf[c.run])
         back == [c EXCEPT !.stvec = "uservec", !.sepc = t.epc, !.sstatus = Sstatus("U", TRUE, FALSE)]
     IN /\ tf' = [tf EXCEPT ![c.run] = t]
        /\ cpu' = [cpu EXCEPT ![h] = userret(back, t)]
  /\ UNCHANGED <<ctx, stack, runnable, want>>

-----------------------------------------------------------------------------
(* Interrupts in the kernel: kernelvec.S and kerneltrap() *)

\* The registers go on the stack, with kerneltrap()'s copies of sepc and sstatus.
interrupt(h) ==
  /\ ~InUser(cpu[h]) /\ cpu[h].sstatus.sie
  /\ LET c == Trapped(cpu[h], "kerneltrap")
         k == c.regs.sp
     IN /\ stack' = [stack EXCEPT ![k] =
             <<[regs |-> c.regs, sepc |-> c.sepc, sstatus |-> c.sstatus]>> \o @]
        /\ cpu' = [cpu EXCEPT ![h] = [c EXCEPT !.regs.caller = Junk, !.regs.a0 = Junk]]
  /\ UNCHANGED <<tf, ctx, runnable, want>>

\* The timer's: kerneltrap() yields if a process runs.
kerneltrap_yield(h) ==
  /\ cpu[h].pc = "kerneltrap" /\ cpu[h].run \in Procs
  /\ Yielded(h, cpu[h], "kerneltrap")
  /\ UNCHANGED <<tf, stack, want>>

Restored_Tp(c, f) ==
  [c EXCEPT !.sepc = f.sepc, !.sstatus = f.sstatus, !.regs = [f.regs EXCEPT !.callee = c.regs.callee]]

\* The end of kerneltrap() and kernelvec's loads, which leave tp alone.
Restored(c, f) ==
  [c EXCEPT !.sepc = f.sepc, !.sstatus = f.sstatus,
            !.regs = [f.regs EXCEPT !.tp = c.regs.tp, !.callee = c.regs.callee]]

kerneltrap(h) ==
  /\ cpu[h].pc = "kerneltrap"
  /\ LET k == cpu[h].regs.sp
     IN /\ cpu' = [cpu EXCEPT ![h] = sret(Restored(@, Head(stack[k])))]
        /\ stack' = [stack EXCEPT ![k] = Tail(@)]
  /\ UNCHANGED <<tf, ctx, runnable, want>>

-----------------------------------------------------------------------------

Next ==
  \E h \in Harts :
    \/ user(h) \/ trap(h) \/ syscall(h) \/ sys_sleep(h) \/ exit(h) \/ yield(h) \/ usertrapret(h)
    \/ scheduler(h) \/ interrupt(h) \/ kerneltrap_yield(h) \/ kerneltrap(h)

Spec == Init /\ [][Next]_vars

-----------------------------------------------------------------------------

\* Wherever and whenever a process is interrupted, and on whatever hart it goes on,
\* it finds its registers: in user mode its own, its program counter and its page
\* table, with traps going to uservec; in the kernel its own stack and call-saved
\* registers, the hart it is on now in tp, traps going to kernelvec, and interrupts
\* on only where the interrupted code had them on.
RegistersExact ==
  \A h \in Harts :
    LET c == cpu[h]
    IN IF InUser(c)
       THEN /\ c.regs = want[c.run].regs /\ c.pc = want[c.run].pc
            /\ c.satp = c.run /\ c.stvec = "uservec"
            /\ tf[c.run].hartid = h /\ tf[c.run].sp = c.run
       ELSE /\ c.regs.tp = h /\ c.regs.sp = c.run
            /\ c.pc \notin {"kerneltrap", "forkret"} => c.regs = KernelRegs(c.run, h)
            /\ c.satp = "kernel" /\ c.stvec = "kernelvec"
            /\ c.pc \in {"scheduler", "syscall"} => c.sstatus.sie
            /\ c.pc \in {"kerneltrap", "yield"} => ~c.sstatus.sie
=============================================================================
