----------------------------- MODULE TrapProofs -----------------------------
(***************************************************************************)
(* Proofs about Trap, for any number of harts and processes.               *)
(***************************************************************************)
EXTENDS Trap, SequenceTheorems, TLAPS

\* Zenon proves a step unless it names another prover; it may take this many seconds.
USE ZenonT(60)

\* What a register may hold, and where a hart may be.
Value == Contexts \cup {Junk} \cup (Procs \X {0, 1, 2})
Place == UserPc \cup {"scheduler", "forkret", "syscall", "yield", "usertrapret", "kerneltrap",
                    "usertrap"}

RegsType == [a0 : Value, caller : Value, callee : Value, sp : Value, tp : Value]
StatusType == [spp : {"U", "S"}, spie : BOOLEAN, sie : BOOLEAN]
FrameType == [regs : RegsType, sepc : Place \cup {Junk}, sstatus : StatusType]
FrameOfUser == [regs : RegsType, epc : UserPc, sp : Value, hartid : Value]
UserType == [regs : RegsType, pc : UserPc]
ContextType == [ra : Place \cup {"none"}, sp : Value, callee : Value]
CpuType ==
  [run : Contexts, pc : Place, regs : RegsType, satp : Procs \cup {"kernel"},
   stvec : {"uservec", "kernelvec"}, sepc : Place \cup {Junk}, sstatus : StatusType]

TypeOK ==
  /\ cpu \in [Harts -> CpuType]
  /\ tf \in [Procs -> FrameOfUser]
  /\ ctx \in [Contexts -> ContextType]
  /\ stack \in [Contexts -> Seq(FrameType)]
  /\ runnable \subseteq Procs
  /\ want \in [Procs -> UserType]

\* A process runs on one hart, or waits for one.
Single ==
  /\ \A h \in Harts : cpu[h].run \in Procs \cup {h} /\ cpu[h].run \notin runnable
  /\ \A g, h \in Harts : cpu[g].run = cpu[h].run => g = h

\* The one frame on the kernel stack of context k, interrupted with its registers
\* in place and interrupts on; callee is what swtch() or the hart has for it.
Interrupted(k, s, callee) ==
  /\ Len(s) = 1
  /\ s[1].regs.a0 = k /\ s[1].regs.caller = k /\ s[1].regs.sp = k
  /\ s[1].sstatus.spie
  /\ s[1].sepc \in IF k \in Procs THEN {"forkret", "syscall", "usertrapret"} ELSE {"scheduler"}
  /\ s[1].sepc # "forkret" => callee = k

\* What hart h should have, by where it is.
Running(h) ==
  LET c == cpu[h] IN
  IF InUser(c)
  THEN /\ c.run \in Procs /\ stack[c.run] = <<>>
       /\ c.regs = want[c.run].regs /\ c.pc = want[c.run].pc
       /\ c.satp = c.run /\ c.stvec = "uservec"
       /\ tf[c.run].hartid = h /\ tf[c.run].sp = c.run
  ELSE /\ c.pc # "usertrap"
       /\ c.regs.tp = h /\ c.regs.sp = c.run
       /\ c.satp = "kernel" /\ c.stvec = "kernelvec"
       /\ c.pc = "scheduler" <=> c.run = h /\ c.pc # "kerneltrap"
       /\ IF c.pc = "kerneltrap" THEN Interrupted(c.run, stack[c.run], c.regs.callee)
          ELSE stack[c.run] = <<>> /\ c.regs.a0 = c.run /\ c.regs.caller = c.run
       /\ c.pc \notin {"kerneltrap", "forkret"} => c.regs.callee = c.run
       /\ c.pc \in {"scheduler", "syscall"} => c.sstatus.sie
       /\ c.pc \in {"kerneltrap", "yield"} => ~c.sstatus.sie

\* The scheduler of a hart that runs a process can be switched to.
Switched(h) ==
  cpu[h].run # h =>
    ctx[h].ra = "scheduler" /\ ctx[h].sp = h /\ ctx[h].callee = h /\ stack[h] = <<>>

\* A process that waits for a hart can be switched to.
Parked(p) ==
  /\ ctx[p].ra \in {"forkret", "syscall", "usertrapret", "kerneltrap"}
  /\ ctx[p].sp = p
  /\ ctx[p].ra \in {"syscall", "usertrapret"} => ctx[p].callee = p
  /\ IF ctx[p].ra = "kerneltrap" THEN Interrupted(p, stack[p], ctx[p].callee)
     ELSE stack[p] = <<>>

\* The trapframe of a process in the kernel has what the process will find.
Framed(p) ==
  \/ \E h \in Harts : cpu[h].run = p /\ InUser(cpu[h])
  \/ tf[p].regs = want[p].regs /\ tf[p].epc = want[p].pc

IInv ==
  /\ TypeOK
  /\ Single
  /\ \A h \in Harts : Running(h) /\ Switched(h)
  /\ \A p \in runnable : Parked(p)
  /\ \A p \in Procs : Framed(p)

-----------------------------------------------------------------------------
(* What a step leaves alone *)

\* A step of hart h changes nothing but what belongs to h and to context k, which
\* runs on h or waits for a hart, before and after.
Local(h, k) ==
  /\ k \in Procs \cup {h}
  /\ cpu[h].run \in {h, k} /\ cpu'[h].run \in {h, k}
  /\ k # h => /\ k \in runnable <=> cpu[h].run # k
              /\ k \in runnable' <=> cpu'[h].run # k
  /\ runnable' \ {k} = runnable \ {k}
  /\ k = h => h \notin runnable'
  /\ \A g \in Harts \ {h} : cpu'[g] = cpu[g]
  /\ \A j \in Contexts \ {h, k} : ctx'[j] = ctx[j] /\ stack'[j] = stack[j]
  /\ \A p \in Procs \ {k} : tf'[p] = tf[p] /\ want'[p] = want[p]

\* So the invariant has to be shown for h and k only.
LEMMA Elsewhere ==
  ASSUME Disjoint, IInv, TypeOK', NEW h \in Harts, NEW k, Local(h, k),
         Running(h)', Switched(h)',
         k \in runnable' => Parked(k)',
         k \in Procs => Framed(k)'
  PROVE  IInv'
<1>1. k \in Contexts /\ (k \in Harts => k = h)
  BY DEF Disjoint, Local, Contexts
<1>2. Single'
  <2>1. \A g \in Harts \ {h} : cpu[g].run \in Procs \cup {g} /\ cpu[g].run \notin {h, k}
    BY <1>1, SMTT(60) DEF IInv, Single, Local, Disjoint
  <2>2. \A g \in Harts : cpu'[g].run \in Procs \cup {g}
    BY <2>1, SMTT(60) DEF Local
  <2>3. \A g \in Harts : cpu'[g].run \notin runnable'
    <3>1. \A g \in Harts \ {h} : cpu'[g].run \notin runnable'
      BY <2>1 DEF IInv, Single, Local
    <3>2. h \notin runnable'
      BY DEF TypeOK, Disjoint
    <3>3. cpu'[h].run \notin runnable'
      BY <3>2 DEF Local
    <3> QED  BY <3>1, <3>3
  <2>4. \A f, g \in Harts : cpu'[f].run = cpu'[g].run => f = g
    BY <2>1, SMTT(60) DEF IInv, Single, Local
  <2> QED  BY <2>2, <2>3, <2>4 DEF Single
<1>3. ASSUME NEW g \in Harts, g # h
      PROVE  Running(g)' /\ Switched(g)'
  <2>1. cpu'[g] = cpu[g] /\ cpu[g].run \in Contexts \ {h, k} /\ g \in Contexts \ {h, k}
    BY <1>1, <1>3, SMTT(60) DEF IInv, Single, Local, Disjoint, Contexts
  <2>2. /\ stack'[cpu[g].run] = stack[cpu[g].run]
        /\ stack'[g] = stack[g] /\ ctx'[g] = ctx[g]
        /\ cpu[g].run \in Procs => /\ tf'[cpu[g].run] = tf[cpu[g].run]
                                   /\ want'[cpu[g].run] = want[cpu[g].run]
    BY <2>1 DEF Local
  <2>3. Running(g) /\ Switched(g)
    BY DEF IInv
  <2>4. Running(g)'
    BY <2>1, <2>2, <2>3, SMTT(60) DEF Running
  <2>5. Switched(g)'
    BY <2>1, <2>2, <2>3 DEF Switched
  <2> QED  BY <2>4, <2>5
<1>4. ASSUME NEW p \in runnable', p # k
      PROVE  Parked(p)'
  <2>1. p \in runnable /\ p \in Contexts \ {h, k}
    BY <1>1, <1>4 DEF Local, IInv, TypeOK, Contexts, Disjoint
  <2>2. ctx'[p] = ctx[p] /\ stack'[p] = stack[p]
    BY <2>1 DEF Local
  <2> QED  BY <2>1, <2>2 DEF IInv, Parked
<1>5. ASSUME NEW p \in Procs, p # k
      PROVE  Framed(p)'
  <2>1. tf'[p] = tf[p] /\ want'[p] = want[p]
    BY <1>5 DEF Local
  <2>2. \A g \in Harts : cpu[g].run = p => cpu'[g] = cpu[g]
    BY <1>5 DEF Local, Disjoint
  <2>3. Framed(p)
    BY DEF IInv
  <2> QED  BY <2>1, <2>2, <2>3 DEF Framed
<1> QED  BY <1>2, <1>3, <1>4, <1>5 DEF IInv

-----------------------------------------------------------------------------
(* What the pieces of code that run with interrupts off do to the registers *)

\* A hart's registers are replaced.
LEMMA Replaced ==
  ASSUME TypeOK, NEW h \in Harts, NEW n \in CpuType, cpu' = [cpu EXCEPT ![h] = n]
  PROVE  /\ cpu' \in [Harts -> CpuType] /\ cpu'[h] = n
         /\ \A g \in Harts \ {h} : cpu'[g] = cpu[g]
  BY DEF TypeOK

\* The only element of a sequence is taken off.
LEMMA OneFrame ==
  ASSUME NEW S, NEW s \in Seq(S), Len(s) = 1
  PROVE  Head(s) = s[1] /\ s[1] \in S /\ Tail(s) = <<>>
<1>1. s # <<>>
  BY EmptySeq, SMTT(60)
<1>2. Tail(s) \in Seq(S) /\ Len(Tail(s)) = 0
  BY <1>1, SMTT(60)
<1>3. Tail(s) = <<>>
  BY <1>2, EmptySeq
<1>4. Head(s) = s[1] /\ s[1] \in S
  BY <1>1, SMTT(60)
<1> QED  BY <1>3, <1>4

\* Junk and the contexts can be in a register.
LEMMA Values == Junk \in Value /\ Contexts \subseteq Value
  BY DEF Value

\* The caller's registers are loaded again.
LEMMA Reloading ==
  ASSUME NEW regs \in RegsType, NEW k \in Contexts
  PROVE  LET n == Reloaded(regs, k)
         IN /\ n \in RegsType /\ n.a0 = k /\ n.caller = k
            /\ n.callee = regs.callee /\ n.sp = regs.sp /\ n.tp = regs.tp
  BY Values DEF Reloaded, RegsType

\* swtch() loads the stack pointer and the callee's registers.
LEMMA Switching ==
  ASSUME NEW c \in CpuType, NEW saved \in ContextType, saved.ra \in Place
  PROVE  LET n == swtch(c, saved)
         IN /\ n \in CpuType /\ n.pc = saved.ra /\ n.run = c.run
            /\ n.satp = c.satp /\ n.stvec = c.stvec /\ n.sstatus = c.sstatus
            /\ n.regs.tp = c.regs.tp /\ n.regs.sp = saved.sp /\ n.regs.callee = saved.callee
<1> DEFINE regs == [c.regs EXCEPT !.callee = saved.callee, !.sp = saved.sp,
                                  !.caller = Junk, !.a0 = Junk]
<1>1. swtch(c, saved) = [c EXCEPT !.pc = saved.ra, !.regs = regs]
  BY DEF swtch, CpuType
<1>2. /\ regs \in RegsType
      /\ regs.tp = c.regs.tp /\ regs.sp = saved.sp /\ regs.callee = saved.callee
  BY Values DEF CpuType, RegsType, ContextType
<1> HIDE DEF regs
<1> QED  BY <1>1, <1>2 DEF CpuType

\* What a trap makes of the hart and of the trapframe.
Entered(c, t, cause) ==
  LET entry == uservec(Trapped(c, "usertrap"), t)
  IN  usertrap(entry.c, entry.tf, cause)

\* uservec and usertrap(): the user's registers are in the trapframe, the hart has
\* the kernel's.
Enters(c, t, cause, u) ==
  /\ u.c \in CpuType /\ u.c.run = c.run
  /\ u.c.pc \in {"syscall", "yield", "usertrapret"}
  /\ u.c.pc = "syscall" <=> cause = "ecall"
  /\ u.c.stvec = "kernelvec" /\ u.c.satp = "kernel"
  /\ u.c.sstatus.sie = (cause = "ecall")
  /\ u.c.regs.a0 = c.run /\ u.c.regs.caller = c.run /\ u.c.regs.callee = c.run
  /\ u.c.regs.sp = t.sp /\ u.c.regs.tp = t.hartid
  /\ u.tf \in FrameOfUser /\ u.tf.regs = c.regs

\* A trap does that.
LEMMA EntersKernel ==
  ASSUME NEW c \in CpuType, InUser(c), c.run \in Procs, NEW t \in FrameOfUser,
         NEW cause \in {"ecall", "timer", "device"}
  PROVE  Enters(c, t, cause, Entered(c, t, cause))
<1> DEFINE trapped == Trapped(c, "usertrap")
           entry == uservec(trapped, t)
           u == usertrap(entry.c, entry.tf, cause)
<1>1. /\ trapped \in CpuType /\ trapped.run = c.run /\ trapped.regs = c.regs
      /\ trapped.sepc \in UserPc
  BY DEF Trapped, InUser, CpuType, Sstatus, StatusType, Place, UserPc
<1> HIDE DEF trapped
<1>2. /\ entry.c \in CpuType /\ entry.c.run = trapped.run /\ entry.c.satp = "kernel"
      /\ entry.c.sepc = trapped.sepc
      /\ entry.c.regs.sp = t.sp /\ entry.c.regs.tp = t.hartid
  BY <1>1 DEF uservec, CpuType, RegsType, FrameOfUser
<1>3. entry.tf \in FrameOfUser /\ entry.tf.regs = trapped.regs
  BY <1>1 DEF uservec, CpuType, FrameOfUser, Value
<1> HIDE DEF entry
<1>4. u.tf \in FrameOfUser /\ u.tf.regs = entry.tf.regs
  BY <1>1, <1>2, <1>3 DEF usertrap, FrameOfUser, UserPc
<1> DEFINE pc1 == CASE cause = "ecall" -> "syscall"
                    [] cause = "timer" -> "yield"
                    [] OTHER -> "usertrapret"
           status == Sstatus("U", TRUE, cause = "ecall")
           loaded == Reloaded(entry.c.regs, entry.c.run)
           regs == [loaded EXCEPT !.callee = entry.c.run]
<1>5. pc1 \in Place /\ status \in StatusType /\ status.sie = (cause = "ecall")
  BY DEF Place, Sstatus, StatusType
<1>6. /\ loaded \in RegsType /\ loaded.a0 = c.run /\ loaded.caller = c.run
      /\ loaded.sp = entry.c.regs.sp /\ loaded.tp = entry.c.regs.tp
  <2>1. entry.c.regs \in RegsType /\ entry.c.run \in Contexts
    BY <1>1, <1>2 DEF CpuType
  <2> QED  BY <1>1, <1>2, <2>1, Reloading
<1>7. u.c = [entry.c EXCEPT !.stvec = "kernelvec", !.pc = pc1, !.sepc = Junk,
                            !.sstatus = status, !.regs = regs]
  BY <1>2 DEF usertrap, CpuType
<1> HIDE DEF loaded, pc1, status, u
<1>8. /\ regs \in RegsType /\ regs.a0 = c.run /\ regs.caller = c.run /\ regs.callee = c.run
      /\ regs.sp = entry.c.regs.sp /\ regs.tp = entry.c.regs.tp
  BY <1>1, <1>2, <1>6, Values DEF RegsType, Contexts
<1> HIDE DEF regs
<1>9. /\ u.c \in CpuType /\ u.c.run = entry.c.run /\ u.c.pc = pc1
      /\ u.c.stvec = "kernelvec" /\ u.c.satp = entry.c.satp
      /\ u.c.sstatus = status /\ u.c.regs = regs
  BY <1>2, <1>5, <1>7, <1>8 DEF CpuType
<1> QED  BY <1>1, <1>2, <1>3, <1>4, <1>5, <1>8, <1>9 DEF trapped, entry, u, pc1, Entered, Enters

\* usertrapret() and userret: the hart has the user's registers again.
LEMMA LeavesKernel ==
  ASSUME NEW c \in CpuType, c.run \in Procs, NEW t \in FrameOfUser
  PROVE  LET n == userret([c EXCEPT !.stvec = "uservec", !.sepc = t.epc,
                                    !.sstatus = Sstatus("U", TRUE, FALSE)], t)
         IN /\ n \in CpuType /\ n.run = c.run /\ n.regs = t.regs /\ n.pc = t.epc
            /\ n.satp = c.run /\ n.stvec = "uservec"
<1> DEFINE back == [c EXCEPT !.stvec = "uservec", !.sepc = t.epc,
                             !.sstatus = Sstatus("U", TRUE, FALSE)]
<1>1. /\ back \in CpuType /\ back.run = c.run /\ back.sepc = t.epc /\ back.stvec = "uservec"
  BY DEF CpuType, FrameOfUser, Sstatus, StatusType, Place
<1> HIDE DEF back
<1>2. /\ userret(back, t) \in CpuType
      /\ userret(back, t).run = back.run /\ userret(back, t).regs = t.regs
      /\ userret(back, t).pc = t.epc
      /\ userret(back, t).satp = back.run /\ userret(back, t).stvec = "uservec"
  BY <1>1 DEF userret, sret, CpuType, FrameOfUser, Sstatus, StatusType, Place
<1> QED  BY <1>1, <1>2 DEF back

\* swtch() back to the scheduler of hart h.
LEMMA BackToScheduler ==
  ASSUME NEW h \in Harts, NEW c \in CpuType, ctx[h] \in ContextType,
         ctx[h].ra = "scheduler", ctx[h].sp = h, ctx[h].callee = h,
         c.regs.tp = h, c.satp = "kernel", c.stvec = "kernelvec"
  PROVE  LET n == Scheduling(h, c)
         IN /\ n \in CpuType /\ n.run = h /\ n.pc = "scheduler" /\ n.sstatus.sie
            /\ n.satp = "kernel" /\ n.stvec = "kernelvec"
            /\ n.regs = KernelRegs(h, h)
<1> DEFINE s == swtch(c, ctx[h])
<1>1. /\ s \in CpuType /\ s.pc = "scheduler" /\ s.regs.callee = h /\ s.regs.sp = h
      /\ s.regs.tp = h /\ s.satp = "kernel" /\ s.stvec = "kernelvec"
  BY Switching DEF Place
<1> HIDE DEF s
<1>2. Scheduling(h, c) = [s EXCEPT !.run = h, !.sstatus = Sstatus("U", TRUE, TRUE),
                                   !.sepc = Junk, !.regs = Reloaded(@, h)]
  BY DEF Scheduling, s
<1> DEFINE n == [s EXCEPT !.run = h, !.sstatus = Sstatus("U", TRUE, TRUE),
                          !.sepc = Junk, !.regs = Reloaded(@, h)]
<1>3. Reloaded(s.regs, h) = KernelRegs(h, h) /\ Reloaded(s.regs, h) \in RegsType
  <2>1. s.regs \in RegsType /\ h \in Contexts
    BY <1>1 DEF CpuType, Contexts
  <2>2. /\ Reloaded(s.regs, h) \in RegsType
        /\ Reloaded(s.regs, h).a0 = h /\ Reloaded(s.regs, h).caller = h
        /\ Reloaded(s.regs, h).callee = h /\ Reloaded(s.regs, h).sp = h
        /\ Reloaded(s.regs, h).tp = h
    BY <1>1, <2>1, Reloading
  <2> QED  BY <2>2 DEF RegsType, KernelRegs, Regs
<1>4. /\ n \in CpuType /\ n.run = h /\ n.pc = "scheduler" /\ n.sstatus.sie
      /\ n.satp = "kernel" /\ n.stvec = "kernelvec"
      /\ n.regs = Reloaded(s.regs, h)
  BY <1>1, <1>3 DEF CpuType, Sstatus, StatusType, Contexts
<1> QED  BY <1>2, <1>3, <1>4

\* swtch() to a process p.
LEMMA ToProcess ==
  ASSUME NEW c \in CpuType, NEW p \in Procs, NEW saved \in ContextType,
         saved.ra \in {"forkret", "syscall", "usertrapret", "kerneltrap"}
  PROVE  LET n == Resumed(c, p, saved)
         IN /\ n \in CpuType /\ n.run = p /\ n.pc = saved.ra
            /\ n.sstatus.sie = (saved.ra \in {"syscall", "forkret"})
            /\ n.satp = c.satp /\ n.stvec = c.stvec
            /\ n.regs.tp = c.regs.tp /\ n.regs.sp = saved.sp /\ n.regs.callee = saved.callee
            /\ saved.ra # "kerneltrap" => n.regs.a0 = p /\ n.regs.caller = p
<1> DEFINE s == swtch(c, saved)
           regs == IF saved.ra = "kerneltrap" THEN s.regs ELSE Reloaded(s.regs, p)
           sie == saved.ra \in {"syscall", "forkret"}
<1>1. /\ s \in CpuType /\ s.pc = saved.ra /\ s.satp = c.satp /\ s.stvec = c.stvec
      /\ s.regs.tp = c.regs.tp /\ s.regs.sp = saved.sp /\ s.regs.callee = saved.callee
  BY Switching DEF Place
<1> HIDE DEF s
<1>2. /\ regs \in RegsType
      /\ regs.tp = s.regs.tp /\ regs.sp = s.regs.sp /\ regs.callee = s.regs.callee
      /\ saved.ra # "kerneltrap" => regs.a0 = p /\ regs.caller = p
  <2>1. s.regs \in RegsType /\ p \in Contexts
    BY <1>1 DEF CpuType, Contexts
  <2> QED  BY <2>1, Reloading
<1>3. sie \in BOOLEAN
  BY SMTT(60)
<1> HIDE DEF regs, sie
<1> DEFINE n == [s EXCEPT !.run = p, !.sstatus.sie = sie, !.regs = regs]
<1>4. /\ n \in CpuType /\ n.run = p /\ n.pc = s.pc /\ n.sstatus.sie = sie
      /\ n.satp = s.satp /\ n.stvec = s.stvec /\ n.regs = regs
  BY <1>1, <1>2, <1>3 DEF CpuType, StatusType, Contexts
<1>5. Resumed(c, p, saved) = n
  BY DEF Resumed, s, regs, sie
<1> HIDE DEF n
<1> QED  BY <1>1, <1>2, <1>4, <1>5 DEF sie

-----------------------------------------------------------------------------
(* The steps *)

\* Hart h in the kernel after a step, with n in its registers.
LEMMA InKernel ==
  ASSUME NEW h \in Harts, NEW n, cpu'[h] = n, ~InUser(n), n.pc # "usertrap",
         n.regs.tp = h, n.regs.sp = n.run, n.satp = "kernel", n.stvec = "kernelvec",
         n.pc = "scheduler" <=> n.run = h /\ n.pc # "kerneltrap",
         n.pc = "kerneltrap" => Interrupted(n.run, stack'[n.run], n.regs.callee),
         n.pc # "kerneltrap" => stack'[n.run] = <<>> /\ n.regs.a0 = n.run /\ n.regs.caller = n.run,
         n.pc \notin {"kerneltrap", "forkret"} => n.regs.callee = n.run,
         n.pc \in {"scheduler", "syscall"} => n.sstatus.sie,
         n.pc \in {"kerneltrap", "yield"} => ~n.sstatus.sie
  PROVE  Running(h)'
  BY DEF Running

\* Hart h back in its scheduler after a step.
LEMMA BackInScheduler ==
  ASSUME NEW h \in Harts, NEW n, cpu'[h] = n, n.pc = "scheduler", n.run = h,
         n.regs = KernelRegs(h, h), n.satp = "kernel", n.stvec = "kernelvec",
         n.sstatus.sie, stack'[h] = <<>>
  PROVE  Running(h)'
<1>1. /\ n.regs.tp = h /\ n.regs.sp = h /\ n.regs.a0 = h /\ n.regs.caller = h
      /\ n.regs.callee = h
  BY SMTT(60) DEF KernelRegs, Regs
<1>2. ~InUser(n)
  BY DEF InUser, UserPc
<1> QED  BY <1>1, <1>2, InKernel

\* Hart h in user mode after a step.
LEMMA InUserMode ==
  ASSUME NEW h \in Harts, NEW n, cpu'[h] = n, InUser(n), n.run \in Procs,
         stack'[n.run] = <<>>, n.regs = want'[n.run].regs, n.pc = want'[n.run].pc,
         n.satp = n.run, n.stvec = "uservec",
         tf'[n.run].hartid = h, tf'[n.run].sp = n.run
  PROVE  Running(h)'
  BY DEF Running

\* A new process has only its trapframe.
LEMMA InitHolds == Disjoint /\ Init => IInv
<1> SUFFICES ASSUME Disjoint, Init PROVE IInv
  OBVIOUS
<1> USE DEF Init, Disjoint, Contexts
<1>1. TypeOK
  <2>1. cpu \in [Harts -> CpuType]
    BY DEF CpuType, RegsType, StatusType, Value, Place, Regs, Sstatus
  <2>2. \A p \in Procs : UserRegs(p, 0) \in RegsType
    BY DEF UserRegs, RegsType, Value, Regs
  <2>3. tf \in [Procs -> FrameOfUser] /\ want \in [Procs -> UserType]
    BY <2>2, Values DEF FrameOfUser, NewFrame, NewUser, UserPc, UserType
  <2>4. ctx \in [Contexts -> ContextType]
    BY Values DEF ContextType, NoContext, Forkret, Place
  <2>5. stack \in [Contexts -> Seq(FrameType)]
    BY SMTT(60)
  <2> QED  BY <2>1, <2>3, <2>4, <2>5 DEF TypeOK
<1>2. Single
  BY DEF Single
<1>3. \A h \in Harts : Running(h) /\ Switched(h)
  BY DEF Running, Switched, InUser, UserPc, Regs, Sstatus
<1>4. \A p \in runnable : Parked(p)
  BY DEF Parked, Forkret
<1>5. \A p \in Procs : Framed(p)
  BY DEF Framed, NewFrame, NewUser
<1> QED  BY <1>1, <1>2, <1>3, <1>4, <1>5 DEF IInv

\* The process that runs on a hart.
LEMMA OnHart ==
  ASSUME Disjoint, IInv, NEW h \in Harts
  PROVE  /\ TypeOK /\ cpu[h] \in CpuType /\ Running(h) /\ Switched(h)
         /\ h \in Contexts /\ h \notin Procs /\ h \notin runnable
         /\ cpu[h].run \in Contexts /\ cpu[h].run \notin runnable
         /\ cpu[h].run \in Procs => cpu[h].run # h /\ tf[cpu[h].run] \in FrameOfUser
         /\ cpu[h].run \notin Procs => cpu[h].run = h
  BY DEF IInv, TypeOK, Disjoint, Single, Contexts

\* User code changes its own registers.
LEMMA user_Holds ==
  ASSUME Disjoint, IInv, NEW h \in Harts, user(h)
  PROVE  IInv'
<1>. PICK p : p = cpu[h].run
  OBVIOUS
<1>1. PICK v \in {0, 1} :
        /\ cpu' = [cpu EXCEPT ![h].regs = UserRegs(p, v)]
        /\ want' = [want EXCEPT ![p].regs = UserRegs(p, v)]
  BY DEF user
<1>2. InUser(cpu[h]) /\ UNCHANGED <<tf, ctx, stack, runnable>>
  BY DEF user
<1>3. /\ TypeOK /\ cpu[h] \in CpuType /\ Running(h) /\ Switched(h)
      /\ p \in Procs /\ p # h /\ p \notin runnable
  BY <1>2, OnHart DEF Running
<1> DEFINE r == UserRegs(p, v)
<1>4. r \in RegsType
  BY <1>3 DEF UserRegs, Regs, RegsType, Value
<1> HIDE DEF r
<1>5. /\ cpu' = [cpu EXCEPT ![h].regs = r] /\ want' = [want EXCEPT ![p].regs = r]
  BY <1>1 DEF r
<1>6. /\ cpu' \in [Harts -> CpuType] /\ \A g \in Harts \ {h} : cpu'[g] = cpu[g]
      /\ cpu'[h].run = p /\ cpu'[h].pc = cpu[h].pc /\ cpu'[h].regs = r
      /\ cpu'[h].satp = cpu[h].satp /\ cpu'[h].stvec = cpu[h].stvec
  BY <1>3, <1>4, <1>5 DEF TypeOK, CpuType
<1>7. /\ want' \in [Procs -> UserType]
      /\ want'[p].regs = r /\ want'[p].pc = want[p].pc
      /\ \A q \in Procs \ {p} : want'[q] = want[q]
  BY <1>3, <1>4, <1>5 DEF TypeOK, UserType
<1>8. TypeOK'
  BY <1>2, <1>3, <1>6, <1>7 DEF TypeOK
<1>9. Local(h, p)
  BY <1>2, <1>3, <1>6, <1>7 DEF Local
<1>10. InUser(cpu'[h])
  BY <1>2, <1>6 DEF InUser
<1>11. Running(h)'
  BY <1>2, <1>3, <1>6, <1>7, <1>10 DEF Running
<1>12. Switched(h)'
  BY <1>2, <1>3, <1>6 DEF Switched
<1>13. Framed(p)'
  BY <1>6, <1>10 DEF Framed
<1> QED  BY <1>2, <1>3, <1>8, <1>9, <1>11, <1>12, <1>13, Elsewhere

\* A trap from user mode.
LEMMA trap_Holds ==
  ASSUME Disjoint, IInv, NEW h \in Harts, trap(h)
  PROVE  IInv'
<1>. PICK p : p = cpu[h].run
  OBVIOUS
<1>1. PICK cause \in {"ecall", "timer", "device"} :
        LET u == Entered(cpu[h], tf[p], cause)
        IN  /\ cpu' = [cpu EXCEPT ![h] = u.c]
            /\ tf' = [tf EXCEPT ![p] = u.tf]
            /\ want' = [want EXCEPT ![p].pc = u.tf.epc]
  BY DEF trap, Entered
<1>2. InUser(cpu[h]) /\ UNCHANGED <<ctx, stack, runnable>>
  BY DEF trap
<1>3. /\ TypeOK /\ cpu[h] \in CpuType /\ Running(h) /\ Switched(h) /\ tf[p] \in FrameOfUser
      /\ p \in Procs /\ p # h /\ p \notin runnable
  BY <1>2, OnHart DEF Running
<1> DEFINE n == Entered(cpu[h], tf[p], cause).c
           t == Entered(cpu[h], tf[p], cause).tf
<1>4. /\ n \in CpuType /\ n.run = p
      /\ n.pc \in {"syscall", "yield", "usertrapret"}
      /\ n.pc = "syscall" <=> cause = "ecall"
      /\ n.stvec = "kernelvec" /\ n.satp = "kernel"
      /\ n.sstatus.sie = (cause = "ecall")
      /\ n.regs.a0 = p /\ n.regs.caller = p /\ n.regs.callee = p
      /\ n.regs.sp = tf[p].sp /\ n.regs.tp = tf[p].hartid
      /\ t \in FrameOfUser /\ t.regs = cpu[h].regs
  <2>1. cpu[h] \in CpuType /\ cpu[h].run = p /\ cpu[h].run \in Procs /\ tf[p] \in FrameOfUser
    BY <1>3
  <2> DEFINE e == Entered(cpu[h], tf[p], cause)
  <2>2. Enters(cpu[h], tf[p], cause, e)
    BY <1>2, <2>1, EntersKernel
  <2> HIDE DEF e
  <2>3. /\ e.c \in CpuType /\ e.c.run = p
        /\ e.c.pc \in {"syscall", "yield", "usertrapret"}
        /\ e.c.pc = "syscall" <=> cause = "ecall"
        /\ e.c.stvec = "kernelvec" /\ e.c.satp = "kernel"
        /\ e.c.sstatus.sie = (cause = "ecall")
        /\ e.c.regs.a0 = p /\ e.c.regs.caller = p /\ e.c.regs.callee = p
        /\ e.c.regs.sp = tf[p].sp /\ e.c.regs.tp = tf[p].hartid
        /\ e.tf \in FrameOfUser /\ e.tf.regs = cpu[h].regs
    BY <2>2 DEF Enters
  <2> QED  BY <2>3 DEF e
<1>5. cpu' = [cpu EXCEPT ![h] = n] /\ tf' = [tf EXCEPT ![p] = t]
      /\ want' = [want EXCEPT ![p].pc = t.epc]
  BY <1>1
<1> HIDE DEF n, t
<1>6. /\ cpu' \in [Harts -> CpuType] /\ cpu'[h] = n
      /\ \A g \in Harts \ {h} : cpu'[g] = cpu[g]
  BY <1>3, <1>4, <1>5, Replaced
<1>7. /\ tf' \in [Procs -> FrameOfUser] /\ tf'[p] = t
      /\ \A q \in Procs \ {p} : tf'[q] = tf[q]
  BY <1>3, <1>4, <1>5 DEF TypeOK
<1>8. /\ want' \in [Procs -> UserType]
      /\ want'[p].regs = want[p].regs /\ want'[p].pc = t.epc
      /\ \A q \in Procs \ {p} : want'[q] = want[q]
  BY <1>3, <1>4, <1>5 DEF TypeOK, FrameOfUser, UserType
<1>9. TypeOK'
  BY <1>2, <1>3, <1>6, <1>7, <1>8 DEF TypeOK
<1>10. Local(h, p)
  BY <1>2, <1>3, <1>4, <1>6, <1>7, <1>8 DEF Local
<1>11. /\ tf[p].sp = p /\ tf[p].hartid = h /\ stack[p] = <<>> /\ cpu[h].regs = want[p].regs
  BY <1>2, <1>3 DEF Running
<1>12. ~InUser(n)
  BY <1>4 DEF InUser, UserPc
<1>13. Running(h)'
  <2>2. stack'[n.run] = <<>> /\ n.regs.tp = h /\ n.regs.sp = n.run /\ n.run # h
    BY <1>2, <1>3, <1>4, <1>11
  <2> QED  BY <1>4, <1>6, <1>12, <2>2, InKernel
<1>14. Switched(h)'
  BY <1>2, <1>3, <1>4, <1>6 DEF Switched
<1>15. Framed(p)'
  BY <1>4, <1>7, <1>8, <1>11 DEF Framed
<1> QED  BY <1>2, <1>3, <1>9, <1>10, <1>13, <1>14, <1>15, Elsewhere

\* The result of a system call goes where the process will find it.
LEMMA syscall_Holds ==
  ASSUME Disjoint, IInv, NEW h \in Harts, syscall(h)
  PROVE  IInv'
<1>. PICK p : p = cpu[h].run
  OBVIOUS
<1> DEFINE a == <<p, 2>>
<1>1. /\ cpu[h].pc = "syscall" /\ UNCHANGED <<ctx, stack, runnable>>
      /\ tf' = [tf EXCEPT ![p].regs.a0 = a] /\ want' = [want EXCEPT ![p].regs.a0 = a]
      /\ cpu' = [cpu EXCEPT ![h].pc = "usertrapret"]
  BY DEF syscall
<1>2. ~InUser(cpu[h])
  BY <1>1 DEF InUser, UserPc
<1>3. /\ TypeOK /\ cpu[h] \in CpuType /\ Running(h) /\ Switched(h) /\ tf[p] \in FrameOfUser
      /\ p \in Procs /\ p # h /\ p \notin runnable
  BY <1>1, <1>2, OnHart DEF Running
<1>4. a \in Value
  BY <1>3 DEF Value
<1> HIDE DEF a
<1>5. /\ cpu' \in [Harts -> CpuType] /\ \A g \in Harts \ {h} : cpu'[g] = cpu[g]
      /\ cpu'[h].run = p /\ cpu'[h].pc = "usertrapret" /\ cpu'[h].regs = cpu[h].regs
      /\ cpu'[h].satp = cpu[h].satp /\ cpu'[h].stvec = cpu[h].stvec
  BY <1>1, <1>3 DEF TypeOK, CpuType, Place
<1>6. /\ tf' \in [Procs -> FrameOfUser]
      /\ tf'[p].regs = [tf[p].regs EXCEPT !.a0 = a] /\ tf'[p].epc = tf[p].epc
      /\ \A q \in Procs \ {p} : tf'[q] = tf[q]
  BY <1>1, <1>3, <1>4 DEF TypeOK, FrameOfUser, RegsType
<1>7. /\ want' \in [Procs -> UserType]
      /\ want'[p].regs = [want[p].regs EXCEPT !.a0 = a] /\ want'[p].pc = want[p].pc
      /\ \A q \in Procs \ {p} : want'[q] = want[q]
  <2> DEFINE r == [want[p].regs EXCEPT !.a0 = a]
  <2>1. want[p] \in UserType /\ want[p].regs \in RegsType
    BY <1>3 DEF TypeOK, UserType
  <2>2. r \in RegsType
    BY <1>4, <2>1 DEF RegsType
  <2>3. want' = [want EXCEPT ![p].regs = r]
    BY <1>1, <1>3 DEF TypeOK
  <2> HIDE DEF r
  <2>4. /\ want' \in [Procs -> UserType] /\ want'[p].regs = r /\ want'[p].pc = want[p].pc
        /\ \A q \in Procs \ {p} : want'[q] = want[q]
    BY <1>3, <2>1, <2>2, <2>3 DEF TypeOK, UserType
  <2> QED  BY <2>4 DEF r
<1>8. TypeOK'
  BY <1>1, <1>3, <1>5, <1>6, <1>7 DEF TypeOK
<1>9. Local(h, p)
  BY <1>1, <1>3, <1>5, <1>6, <1>7 DEF Local
<1>10. ~InUser(cpu'[h])
  BY <1>5 DEF InUser, UserPc
<1>11. Running(h)'
  BY <1>1, <1>2, <1>3, <1>5, <1>10, SMTT(60) DEF Running
<1>12. Switched(h)'
  BY <1>1, <1>3, <1>5 DEF Switched
<1>13. tf[p].regs = want[p].regs /\ tf[p].epc = want[p].pc
  <2>1. \A g \in Harts : cpu[g].run = p => ~InUser(cpu[g])
    BY <1>2, <1>3 DEF IInv, Single
  <2> QED  BY <1>3, <2>1 DEF IInv, Framed
<1>14. Framed(p)'
  BY <1>6, <1>7, <1>13 DEF Framed
<1> QED  BY <1>1, <1>3, <1>8, <1>9, <1>11, <1>12, <1>14, Elsewhere

\* A process gives its hart up, to go on at ra.
LEMMA Yielding ==
  ASSUME Disjoint, IInv, NEW h \in Harts, cpu[h].run \in Procs,
         NEW ra \in {"syscall", "usertrapret", "kerneltrap"},
         cpu[h].pc \in {"syscall", "yield", "kerneltrap"},
         cpu[h].pc = "kerneltrap" <=> ra = "kerneltrap",
         Yielded(h, cpu[h], ra), UNCHANGED <<tf, stack, want>>
  PROVE  IInv'
<1>. PICK p : p = cpu[h].run
  OBVIOUS
<1>1. ~InUser(cpu[h])
  BY DEF InUser, UserPc
<1>2. /\ TypeOK /\ cpu[h] \in CpuType /\ Running(h) /\ Switched(h)
      /\ p \in Procs /\ p # h /\ p \notin runnable /\ h \notin Procs /\ h \in Contexts
      /\ p \in Contexts
  BY OnHart
<1>3. /\ cpu[h].regs.tp = h /\ cpu[h].satp = "kernel" /\ cpu[h].stvec = "kernelvec"
      /\ cpu[h].regs.sp = p /\ cpu[h].regs \in RegsType
      /\ ctx[h] \in ContextType
      /\ ctx[h].ra = "scheduler" /\ ctx[h].sp = h /\ ctx[h].callee = h /\ stack[h] = <<>>
  BY <1>1, <1>2 DEF Running, Switched, TypeOK, CpuType
<1> DEFINE n == Scheduling(h, cpu[h])
           saved == Saved(cpu[h], ra)
<1>4. /\ n \in CpuType /\ n.run = h /\ n.pc = "scheduler" /\ n.sstatus.sie
      /\ n.satp = "kernel" /\ n.stvec = "kernelvec" /\ n.regs = KernelRegs(h, h)
  BY <1>2, <1>3, BackToScheduler
<1>5. /\ saved \in ContextType /\ saved.ra = ra /\ saved.sp = p
      /\ saved.callee = cpu[h].regs.callee
  BY <1>3 DEF Saved, ContextType, RegsType, Place
<1>6. NoContext \in ContextType
  BY Values DEF NoContext, ContextType
<1>7. /\ cpu' = [cpu EXCEPT ![h] = n] /\ runnable' = runnable \cup {p}
      /\ ctx' = [ctx EXCEPT ![p] = saved, ![h] = NoContext]
  BY DEF Yielded
<1> HIDE DEF n, saved
<1>8. /\ cpu' \in [Harts -> CpuType] /\ cpu'[h] = n
      /\ \A g \in Harts \ {h} : cpu'[g] = cpu[g]
  BY <1>2, <1>4, <1>7, Replaced
<1>9. /\ ctx' \in [Contexts -> ContextType] /\ ctx'[p] = saved
      /\ \A j \in Contexts \ {h, p} : ctx'[j] = ctx[j]
  BY <1>2, <1>5, <1>6, <1>7 DEF TypeOK
<1>10. TypeOK'
  BY <1>2, <1>7, <1>8, <1>9 DEF TypeOK
<1>11. Local(h, p)
  BY <1>2, <1>4, <1>7, <1>8, <1>9 DEF Local
<1>12. ~InUser(cpu'[h])
  BY <1>4, <1>8 DEF InUser, UserPc
<1>13. Running(h)'
  BY <1>3, <1>4, <1>8, BackInScheduler
<1>14. Switched(h)'
  BY <1>4, <1>8 DEF Switched
<1>15. Parked(p)'
  BY <1>1, <1>2, <1>5, <1>9 DEF Parked, Running
<1>16. Framed(p)'
  <2>1. \A g \in Harts : cpu[g].run = p => ~InUser(cpu[g])
    BY <1>1, <1>2 DEF IInv, Single
  <2> QED  BY <1>2, <2>1 DEF IInv, Framed
<1> QED  BY <1>2, <1>10, <1>11, <1>13, <1>14, <1>15, <1>16, Elsewhere

\* A system call sleeps.
LEMMA sys_sleep_Holds ==
  ASSUME Disjoint, IInv, NEW h \in Harts, sys_sleep(h)
  PROVE  IInv'
<1>1. cpu[h].pc = "syscall" /\ Yielded(h, cpu[h], "syscall") /\ UNCHANGED <<tf, stack, want>>
  BY DEF sys_sleep
<1>2. cpu[h].run \in Procs
  BY <1>1, OnHart DEF Running, InUser, UserPc
<1> QED  BY <1>1, <1>2, Yielding

\* The timer interrupts user code.
LEMMA yield_Holds ==
  ASSUME Disjoint, IInv, NEW h \in Harts, yield(h)
  PROVE  IInv'
<1>1. cpu[h].pc = "yield" /\ Yielded(h, cpu[h], "usertrapret") /\ UNCHANGED <<tf, stack, want>>
  BY DEF yield
<1>2. cpu[h].run \in Procs
  BY <1>1, OnHart DEF Running, InUser, UserPc
<1> QED  BY <1>1, <1>2, Yielding

\* The timer interrupts kernel code.
LEMMA kerneltrap_yield_Holds ==
  ASSUME Disjoint, IInv, NEW h \in Harts, kerneltrap_yield(h)
  PROVE  IInv'
<1>1. /\ cpu[h].pc = "kerneltrap" /\ cpu[h].run \in Procs
      /\ Yielded(h, cpu[h], "kerneltrap") /\ UNCHANGED <<tf, stack, want>>
  BY DEF kerneltrap_yield
<1> QED  BY <1>1, Yielding

\* A process exits and another will start in its place.
LEMMA exit_Holds ==
  ASSUME Disjoint, IInv, NEW h \in Harts, exit(h)
  PROVE  IInv'
<1>. PICK p : p = cpu[h].run
  OBVIOUS
<1>1. ~InUser(cpu[h]) /\ cpu[h].pc \in {"syscall", "usertrapret"} /\ UNCHANGED stack
  BY DEF exit, InUser, UserPc
<1>2. /\ TypeOK /\ cpu[h] \in CpuType /\ Running(h) /\ Switched(h)
      /\ p \in Procs /\ p # h /\ p \notin runnable /\ h \notin Procs /\ h \in Contexts
      /\ p \in Contexts /\ stack[p] = <<>>
  <2>1. /\ TypeOK /\ cpu[h] \in CpuType /\ Running(h) /\ Switched(h)
        /\ p \in Procs \cup {h} /\ p \in Contexts /\ p \notin runnable
        /\ h \notin Procs /\ h \in Contexts
    BY OnHart DEF Contexts
  <2>2. p # h /\ stack[p] = <<>>
    BY <1>1, <2>1 DEF Running
  <2> QED  BY <2>1, <2>2
<1>3. /\ cpu[h].regs.tp = h /\ cpu[h].satp = "kernel" /\ cpu[h].stvec = "kernelvec"
      /\ ctx[h] \in ContextType
      /\ ctx[h].ra = "scheduler" /\ ctx[h].sp = h /\ ctx[h].callee = h /\ stack[h] = <<>>
  BY <1>1, <1>2 DEF Running, Switched, TypeOK
<1> DEFINE n == Scheduling(h, cpu[h])
           saved == Forkret(p)
           t == NewFrame(p)
           u == NewUser(p)
<1>4. /\ n \in CpuType /\ n.run = h /\ n.pc = "scheduler" /\ n.sstatus.sie
      /\ n.satp = "kernel" /\ n.stvec = "kernelvec" /\ n.regs = KernelRegs(h, h)
  BY <1>2, <1>3, BackToScheduler
<1>5. /\ saved \in ContextType /\ saved.ra = "forkret" /\ saved.sp = p
  BY <1>2, Values DEF Forkret, ContextType, Place
<1>6. NoContext \in ContextType
  BY Values DEF NoContext, ContextType
<1>7. t \in FrameOfUser /\ u \in UserType /\ t.regs = u.regs /\ t.epc = u.pc
  <2>1. UserRegs(p, 0) \in RegsType
    BY <1>2 DEF UserRegs, RegsType, Value, Regs
  <2> QED  BY <2>1, Values DEF FrameOfUser, UserType, NewFrame, NewUser, UserPc
<1>8. /\ cpu' = [cpu EXCEPT ![h] = n] /\ runnable' = runnable \cup {p}
      /\ ctx' = [ctx EXCEPT ![p] = saved, ![h] = NoContext]
      /\ tf' = [tf EXCEPT ![p] = t] /\ want' = [want EXCEPT ![p] = u]
  BY DEF exit
<1> HIDE DEF n, saved, t, u
<1>9. /\ cpu' \in [Harts -> CpuType] /\ cpu'[h] = n
      /\ \A g \in Harts \ {h} : cpu'[g] = cpu[g]
  BY <1>2, <1>4, <1>8, Replaced
<1>10. /\ ctx' \in [Contexts -> ContextType] /\ ctx'[p] = saved
       /\ \A j \in Contexts \ {h, p} : ctx'[j] = ctx[j]
  BY <1>2, <1>5, <1>6, <1>8 DEF TypeOK
<1>11. /\ tf' \in [Procs -> FrameOfUser] /\ tf'[p] = t
       /\ want' \in [Procs -> UserType] /\ want'[p] = u
       /\ \A q \in Procs \ {p} : tf'[q] = tf[q] /\ want'[q] = want[q]
  BY <1>2, <1>7, <1>8 DEF TypeOK
<1>12. TypeOK'
  BY <1>1, <1>2, <1>8, <1>9, <1>10, <1>11 DEF TypeOK
<1>13. Local(h, p)
  BY <1>1, <1>2, <1>4, <1>8, <1>9, <1>10, <1>11 DEF Local
<1>14. ~InUser(cpu'[h])
  BY <1>4, <1>9 DEF InUser, UserPc
<1>15. Running(h)'
  BY <1>1, <1>3, <1>4, <1>9, BackInScheduler
<1>16. Switched(h)'
  BY <1>4, <1>9 DEF Switched
<1>17. Parked(p)'
  BY <1>1, <1>2, <1>5, <1>10 DEF Parked
<1>18. Framed(p)'
  BY <1>7, <1>11 DEF Framed
<1> QED  BY <1>2, <1>12, <1>13, <1>15, <1>16, <1>17, <1>18, Elsewhere

\* The process goes back to user mode on the hart that its trapframe now names.
LEMMA usertrapret_Holds ==
  ASSUME Disjoint, IInv, NEW h \in Harts, usertrapret(h)
  PROVE  IInv'
<1>. PICK p : p = cpu[h].run
  OBVIOUS
<1>1. ~InUser(cpu[h]) /\ cpu[h].pc \in {"forkret", "usertrapret"}
      /\ UNCHANGED <<ctx, stack, runnable, want>>
  BY DEF usertrapret, InUser, UserPc
<1>2. /\ TypeOK /\ cpu[h] \in CpuType /\ Running(h) /\ Switched(h) /\ tf[p] \in FrameOfUser
      /\ p \in Procs /\ p # h /\ p \notin runnable /\ stack[p] = <<>> /\ cpu[h].regs.tp = h
  <2>1. /\ TypeOK /\ cpu[h] \in CpuType /\ Running(h) /\ Switched(h)
        /\ p \in Procs \cup {h} /\ p \notin runnable /\ h \notin Procs
    BY OnHart
  <2>2. p # h /\ stack[p] = <<>> /\ cpu[h].regs.tp = h
    BY <1>1, <2>1 DEF Running
  <2> QED  BY <2>1, <2>2 DEF TypeOK
<1>3. tf[p].regs = want[p].regs /\ tf[p].epc = want[p].pc
  <2>1. \A g \in Harts : cpu[g].run = p => ~InUser(cpu[g])
    BY <1>1, <1>2 DEF IInv, Single
  <2> QED  BY <1>2, <2>1 DEF IInv, Framed
<1> DEFINE t == Prepared(cpu[h], tf[p])
           n == userret([cpu[h] EXCEPT !.stvec = "uservec", !.sepc = t.epc,
                                       !.sstatus = Sstatus("U", TRUE, FALSE)], t)
<1>4. /\ t \in FrameOfUser /\ t.regs = tf[p].regs /\ t.epc = tf[p].epc
      /\ t.sp = p /\ t.hartid = h
  <2>1. p \in Value /\ h \in Value
    BY <1>2, Values DEF Contexts
  <2> QED  BY <1>2, <2>1 DEF Prepared, FrameOfUser
<1>5. cpu' = [cpu EXCEPT ![h] = n] /\ tf' = [tf EXCEPT ![p] = t]
  BY DEF usertrapret
<1> HIDE DEF t
<1>6. /\ n \in CpuType /\ n.run = p /\ n.regs = t.regs /\ n.pc = t.epc
      /\ n.satp = p /\ n.stvec = "uservec"
  BY <1>2, <1>4, LeavesKernel
<1> HIDE DEF n
<1>7. /\ cpu' \in [Harts -> CpuType] /\ cpu'[h] = n
      /\ \A g \in Harts \ {h} : cpu'[g] = cpu[g]
  BY <1>2, <1>5, <1>6, Replaced
<1>8. /\ tf' \in [Procs -> FrameOfUser] /\ tf'[p] = t
      /\ \A q \in Procs \ {p} : tf'[q] = tf[q]
  BY <1>2, <1>4, <1>5 DEF TypeOK
<1>9. TypeOK'
  BY <1>1, <1>2, <1>7, <1>8 DEF TypeOK
<1>10. Local(h, p)
  BY <1>1, <1>2, <1>6, <1>7, <1>8 DEF Local
<1>11. InUser(cpu'[h])
  BY <1>4, <1>6, <1>7 DEF InUser, FrameOfUser
<1>12. Running(h)'
  <2>1. /\ n.run \in Procs /\ n.satp = n.run /\ stack'[n.run] = <<>>
        /\ n.regs = want'[n.run].regs /\ n.pc = want'[n.run].pc
        /\ tf'[n.run].hartid = h /\ tf'[n.run].sp = n.run
    BY <1>1, <1>2, <1>3, <1>4, <1>6, <1>8
  <2> QED  BY <1>6, <1>7, <1>11, <2>1, InUserMode
<1>13. Switched(h)'
  BY <1>1, <1>2, <1>6, <1>7 DEF Switched
<1>14. Framed(p)'
  BY <1>6, <1>7, <1>11 DEF Framed
<1> QED  BY <1>1, <1>2, <1>9, <1>10, <1>12, <1>13, <1>14, Elsewhere

\* The scheduler switches to a process that waits for a hart.
LEMMA scheduler_Holds ==
  ASSUME Disjoint, IInv, NEW h \in Harts, scheduler(h)
  PROVE  IInv'
<1> DEFINE saved == Saved(cpu[h], "scheduler")
<1>1. PICK p \in runnable :
        /\ runnable' = runnable \ {p}
        /\ ctx' = [ctx EXCEPT ![h] = saved, ![p] = NoContext]
        /\ cpu' = [cpu EXCEPT ![h] = Resumed(@, p, ctx[p])]
  BY DEF scheduler
<1> DEFINE n == Resumed(cpu[h], p, ctx[p])
<1>2. /\ cpu[h].pc = "scheduler" /\ ~InUser(cpu[h]) /\ UNCHANGED <<tf, stack, want>>
  BY DEF scheduler, InUser, UserPc
<1>3. /\ TypeOK /\ cpu[h] \in CpuType /\ Running(h) /\ cpu[h].run = h
      /\ p \in Procs /\ p # h /\ h \notin Procs /\ h \in Contexts
      /\ p \in Contexts /\ stack[h] = <<>> /\ Parked(p) /\ ctx[p] \in ContextType
  <2>1. TypeOK /\ cpu[h] \in CpuType /\ Running(h) /\ h \notin Procs
    BY OnHart
  <2>2. p \in Procs /\ Parked(p)
    BY <2>1 DEF IInv, TypeOK
  <2>3. h \in Contexts /\ p \in Contexts /\ p # h
    BY <2>1, <2>2 DEF Contexts
  <2>4. cpu[h].run = h /\ stack[h] = <<>>
    BY <1>2, <2>1 DEF Running
  <2>5. ctx[p] \in ContextType
    BY <2>1, <2>3 DEF TypeOK
  <2> QED  BY <2>1, <2>2, <2>3, <2>4, <2>5
<1>4. /\ cpu[h].regs.tp = h /\ cpu[h].satp = "kernel" /\ cpu[h].stvec = "kernelvec"
      /\ cpu[h].regs.sp = h /\ cpu[h].regs.callee = h /\ cpu[h].regs \in RegsType
  BY <1>2, <1>3 DEF Running, CpuType
<1>5. ctx[p].ra \in {"forkret", "syscall", "usertrapret", "kerneltrap"}
  BY <1>3 DEF Parked
<1>6. /\ n \in CpuType /\ n.run = p /\ n.pc = ctx[p].ra
      /\ n.sstatus.sie = (ctx[p].ra \in {"syscall", "forkret"})
      /\ n.satp = cpu[h].satp /\ n.stvec = cpu[h].stvec
      /\ n.regs.tp = cpu[h].regs.tp /\ n.regs.sp = ctx[p].sp
      /\ n.regs.callee = ctx[p].callee
      /\ ctx[p].ra # "kerneltrap" => n.regs.a0 = p /\ n.regs.caller = p
  <2>1. cpu[h] \in CpuType /\ p \in Procs /\ ctx[p] \in ContextType
    BY <1>3
  <2> QED  BY <1>5, <2>1, ToProcess
<1>7. /\ saved \in ContextType /\ saved.ra = "scheduler" /\ saved.sp = h /\ saved.callee = h
  BY <1>4 DEF Saved, ContextType, RegsType, Place
<1>8. NoContext \in ContextType
  BY Values DEF NoContext, ContextType
<1> HIDE DEF n, saved
<1>9. /\ cpu' \in [Harts -> CpuType] /\ cpu'[h] = n
      /\ \A g \in Harts \ {h} : cpu'[g] = cpu[g]
  <2>1. cpu' = [cpu EXCEPT ![h] = n]
    BY <1>1 DEF n
  <2> QED  BY <1>3, <1>6, <2>1, Replaced
<1>10. /\ ctx' \in [Contexts -> ContextType] /\ ctx'[h] = saved
       /\ \A j \in Contexts \ {h, p} : ctx'[j] = ctx[j]
  BY <1>1, <1>3, <1>7, <1>8 DEF TypeOK
<1>11. TypeOK'
  BY <1>1, <1>2, <1>3, <1>9, <1>10 DEF TypeOK
<1>12. Local(h, p)
  BY <1>1, <1>2, <1>3, <1>6, <1>9, <1>10 DEF Local
<1>13. ~InUser(cpu'[h])
  BY <1>5, <1>6, <1>9 DEF InUser, UserPc
<1>14. Running(h)'
  <2>1. /\ n.pc \in {"forkret", "syscall", "usertrapret", "kerneltrap"}
        /\ n.regs.tp = h /\ n.regs.sp = n.run /\ n.satp = "kernel" /\ n.stvec = "kernelvec"
        /\ n.run # h
    BY <1>3, <1>4, <1>5, <1>6 DEF Parked
  <2>2. n.pc = "kerneltrap" => Interrupted(n.run, stack'[n.run], n.regs.callee)
    BY <1>2, <1>3, <1>6 DEF Parked
  <2>3. n.pc # "kerneltrap" => stack'[n.run] = <<>> /\ n.regs.a0 = n.run /\ n.regs.caller = n.run
    BY <1>2, <1>3, <1>6 DEF Parked
  <2>4. n.pc \notin {"kerneltrap", "forkret"} => n.regs.callee = n.run
    BY <1>3, <1>5, <1>6 DEF Parked
  <2>5. /\ n.pc \in {"scheduler", "syscall"} => n.sstatus.sie
        /\ n.pc \in {"kerneltrap", "yield"} => ~n.sstatus.sie
    BY <1>5, <1>6
  <2>6. ~InUser(n)
    BY <1>9, <1>13
  <2> QED  BY <1>9, <2>1, <2>2, <2>3, <2>4, <2>5, <2>6, InKernel
<1>15. Switched(h)'
  BY <1>2, <1>3, <1>7, <1>10 DEF Switched
<1>16. Framed(p)'
  <2>1. \A g \in Harts : cpu[g].run # p
    BY DEF IInv, Single
  <2> QED  BY <1>2, <1>3, <2>1 DEF IInv, Framed
<1>17. p \notin runnable'
  BY <1>1
<1> QED  BY <1>3, <1>11, <1>12, <1>14, <1>15, <1>16, <1>17, Elsewhere

\* Kernel code that is interrupted leaves its registers on its stack.
LEMMA interrupt_Holds ==
  ASSUME Disjoint, IInv, NEW h \in Harts, interrupt(h)
  PROVE  IInv'
<1>. PICK k : k = cpu[h].run
  OBVIOUS
<1>1. ~InUser(cpu[h]) /\ cpu[h].sstatus.sie /\ UNCHANGED <<tf, ctx, runnable, want>>
  BY DEF interrupt
<1>2. /\ TypeOK /\ cpu[h] \in CpuType /\ Running(h) /\ Switched(h)
      /\ k \in Contexts /\ k \in Procs \cup {h} /\ k \notin runnable /\ h \notin runnable
      /\ h \notin Procs
  BY OnHart
<1>3. /\ cpu[h].pc \in {"scheduler", "forkret", "syscall", "usertrapret"}
      /\ k \in Procs <=> cpu[h].pc # "scheduler"
      /\ stack[k] = <<>> /\ cpu[h].regs.a0 = k /\ cpu[h].regs.caller = k
      /\ cpu[h].regs.sp = k /\ cpu[h].regs.tp = h
      /\ cpu[h].satp = "kernel" /\ cpu[h].stvec = "kernelvec"
      /\ cpu[h].pc # "forkret" => cpu[h].regs.callee = k
  BY <1>1, <1>2 DEF Running, CpuType, Place, InUser
<1> DEFINE c == Trapped(cpu[h], "kerneltrap")
           f == [regs |-> c.regs, sepc |-> c.sepc, sstatus |-> c.sstatus]
           n == [c EXCEPT !.regs.caller = Junk, !.regs.a0 = Junk]
<1>4. /\ c \in CpuType /\ c.run = k /\ c.pc = "kerneltrap" /\ c.sepc = cpu[h].pc
      /\ c.regs = cpu[h].regs /\ c.satp = "kernel" /\ c.stvec = "kernelvec"
      /\ c.sstatus.spie /\ ~c.sstatus.sie
  BY <1>1, <1>2, <1>3 DEF Trapped, CpuType, Sstatus, StatusType, Place
<1>5. /\ stack' = [stack EXCEPT ![c.regs.sp] = <<f>> \o @]
      /\ cpu' = [cpu EXCEPT ![h] = n]
  BY DEF interrupt
<1> HIDE DEF c
<1>6. /\ f \in FrameType /\ f.sepc = cpu[h].pc /\ f.regs = cpu[h].regs /\ f.sstatus.spie
  BY <1>4 DEF CpuType, FrameType
<1>7. /\ n \in CpuType /\ n.run = k /\ n.pc = "kerneltrap" /\ ~n.sstatus.sie
      /\ n.satp = "kernel" /\ n.stvec = "kernelvec"
      /\ n.regs.sp = k /\ n.regs.tp = h /\ n.regs.callee = cpu[h].regs.callee
  <2>1. c.regs \in RegsType /\ c.regs.sp = k /\ c.regs.tp = h
        /\ c.regs.callee = cpu[h].regs.callee
    BY <1>3, <1>4 DEF CpuType
  <2> DEFINE r == [c.regs EXCEPT !.caller = Junk, !.a0 = Junk]
  <2>2. r \in RegsType /\ r.sp = k /\ r.tp = h /\ r.callee = cpu[h].regs.callee
    BY <2>1, Values DEF RegsType
  <2>3. n = [c EXCEPT !.regs = r]
    BY <1>4 DEF CpuType
  <2> HIDE DEF r, n
  <2> QED  BY <1>4, <2>2, <2>3 DEF CpuType
<1> HIDE DEF f, n
<1>8. /\ cpu' \in [Harts -> CpuType] /\ cpu'[h] = n
      /\ \A g \in Harts \ {h} : cpu'[g] = cpu[g]
  BY <1>2, <1>5, <1>7, Replaced
<1>9. <<f>> \o stack[k] = <<f>> /\ <<f>> \in Seq(FrameType) /\ <<f>>[1] = f /\ Len(<<f>>) = 1
  BY <1>3, <1>6, SMTT(60)
<1>10. /\ stack' \in [Contexts -> Seq(FrameType)]
       /\ Len(stack'[k]) = 1 /\ stack'[k][1] = f
       /\ \A j \in Contexts \ {k} : stack'[j] = stack[j]
  <2>1. c.regs.sp = k
    BY <1>3, <1>4
  <2>2. stack' = [stack EXCEPT ![k] = <<f>>]
    BY <1>2, <1>5, <1>9, <2>1 DEF TypeOK
  <2> QED  BY <1>2, <1>9, <2>2 DEF TypeOK
<1>11. TypeOK'
  BY <1>1, <1>2, <1>8, <1>10 DEF TypeOK
<1>12. Local(h, k)
  BY <1>1, <1>2, <1>7, <1>8, <1>10 DEF Local
<1>13. ~InUser(cpu'[h])
  BY <1>7, <1>8 DEF InUser, UserPc
<1>14. Interrupted(k, stack'[k], n.regs.callee)
  BY <1>2, <1>3, <1>6, <1>7, <1>10 DEF Interrupted
<1>15. Running(h)'
  <2>1. ~InUser(n) /\ Interrupted(n.run, stack'[n.run], n.regs.callee)
    BY <1>7, <1>8, <1>13, <1>14
  <2> QED  BY <1>7, <1>8, <2>1, InKernel
<1>16. Switched(h)'
  BY <1>1, <1>2, <1>7, <1>8, <1>10 DEF Switched, Contexts
<1>17. k \in Procs => Framed(k)'
  <2>1. \A g \in Harts : cpu[g].run = k => ~InUser(cpu[g])
    BY <1>1, <1>2 DEF IInv, Single
  <2> QED  BY <1>1, <1>2, <2>1 DEF IInv, Framed
<1> QED  BY <1>1, <1>2, <1>11, <1>12, <1>15, <1>16, <1>17, Elsewhere

\* The interrupted code goes on, with tp naming the hart it is on now.
LEMMA kerneltrap_Holds ==
  ASSUME Disjoint, IInv, NEW h \in Harts, kerneltrap(h)
  PROVE  IInv'
<1>. PICK k : k = cpu[h].run
  OBVIOUS
<1>1. /\ ~InUser(cpu[h]) /\ cpu[h].pc = "kerneltrap" /\ UNCHANGED <<tf, ctx, runnable, want>>
  BY DEF kerneltrap, InUser, UserPc
<1>2. /\ TypeOK /\ cpu[h] \in CpuType /\ Running(h) /\ Switched(h)
      /\ k \in Contexts /\ k \in Procs \cup {h} /\ k \notin runnable /\ h \notin runnable
      /\ h \notin Procs
  BY OnHart
<1>3. /\ cpu[h].regs.tp = h /\ cpu[h].regs.sp = k
      /\ cpu[h].satp = "kernel" /\ cpu[h].stvec = "kernelvec"
      /\ Interrupted(k, stack[k], cpu[h].regs.callee) /\ stack[k] \in Seq(FrameType)
  BY <1>1, <1>2 DEF Running, TypeOK
<1> DEFINE f == Head(stack[k])
           r == [f.regs EXCEPT !.tp = cpu[h].regs.tp, !.callee = cpu[h].regs.callee]
           b == Restored(cpu[h], f)
           n == sret(b)
<1>4. f = stack[k][1] /\ f \in FrameType /\ Tail(stack[k]) = <<>>
  <2>1. Len(stack[k]) = 1 /\ stack[k] \in Seq(FrameType)
    BY <1>3 DEF Interrupted
  <2> QED  BY <2>1, OneFrame
<1>5. cpu' = [cpu EXCEPT ![h] = n] /\ stack' = [stack EXCEPT ![k] = <<>>]
  <2>1. /\ cpu' = [cpu EXCEPT ![h] = sret(Restored(@, Head(stack[cpu[h].regs.sp])))]
        /\ stack' = [stack EXCEPT ![cpu[h].regs.sp] = Tail(@)]
    BY DEF kerneltrap
  <2> QED  BY <1>2, <1>3, <1>4, <2>1 DEF TypeOK
<1>6. /\ f.regs \in RegsType /\ f.regs.a0 = k /\ f.regs.caller = k /\ f.regs.sp = k
      /\ f.sstatus \in StatusType /\ f.sstatus.spie
      /\ f.sepc \in IF k \in Procs THEN {"forkret", "syscall", "usertrapret"} ELSE {"scheduler"}
      /\ f.sepc # "forkret" => cpu[h].regs.callee = k
  BY <1>3, <1>4 DEF Interrupted, FrameType
<1> HIDE DEF f
<1>7. /\ r \in RegsType /\ r.a0 = k /\ r.caller = k /\ r.sp = k /\ r.tp = h
      /\ r.callee = cpu[h].regs.callee
  <2>1. cpu[h].regs \in RegsType
    BY <1>2 DEF CpuType
  <2> QED  BY <1>3, <1>6, <2>1 DEF RegsType
<1>8. b = [cpu[h] EXCEPT !.sepc = f.sepc, !.sstatus = f.sstatus, !.regs = r]
  BY DEF Restored
<1> HIDE DEF r, b
<1>9. /\ b \in CpuType /\ b.run = k /\ b.regs = r /\ b.sepc = f.sepc /\ b.sstatus = f.sstatus
      /\ b.satp = "kernel" /\ b.stvec = "kernelvec"
  BY <1>2, <1>3, <1>6, <1>7, <1>8 DEF CpuType, Place
<1>10. /\ n \in CpuType /\ n.run = k /\ n.pc = f.sepc /\ n.regs = r /\ n.sstatus.sie
       /\ n.satp = "kernel" /\ n.stvec = "kernelvec"
  BY <1>6, <1>9 DEF sret, CpuType, Sstatus, StatusType, Place
<1> HIDE DEF n
<1>11. /\ cpu' \in [Harts -> CpuType] /\ cpu'[h] = n
       /\ \A g \in Harts \ {h} : cpu'[g] = cpu[g]
  BY <1>2, <1>5, <1>10, Replaced
<1>12. /\ stack' \in [Contexts -> Seq(FrameType)] /\ stack'[k] = <<>>
       /\ \A j \in Contexts \ {k} : stack'[j] = stack[j]
  BY <1>2, <1>5, SMTT(60) DEF TypeOK
<1>13. TypeOK'
  BY <1>1, <1>2, <1>11, <1>12 DEF TypeOK
<1>14. Local(h, k)
  BY <1>1, <1>2, <1>10, <1>11, <1>12 DEF Local
<1>15. ~InUser(cpu'[h])
  BY <1>6, <1>10, <1>11 DEF InUser, UserPc
<1>16. Running(h)'
  <2>1. ~InUser(n) /\ stack'[n.run] = <<>> /\ n.regs.a0 = n.run /\ n.regs.caller = n.run
        /\ n.regs.tp = h /\ n.regs.sp = n.run
    BY <1>7, <1>10, <1>11, <1>12, <1>15
  <2>2. n.pc = "scheduler" <=> n.run = h
    BY <1>2, <1>6, <1>10
  <2>3. n.pc # "forkret" => n.regs.callee = n.run
    BY <1>6, <1>7, <1>10
  <2>4. n.pc \in {"forkret", "syscall", "usertrapret", "scheduler"}
    BY <1>6, <1>10
  <2> QED  BY <1>10, <1>11, <2>1, <2>2, <2>3, <2>4, InKernel
<1>17. Switched(h)'
  BY <1>1, <1>2, <1>10, <1>11, <1>12 DEF Switched, Contexts
<1>18. k \in Procs => Framed(k)'
  <2>1. \A g \in Harts : cpu[g].run = k => ~InUser(cpu[g])
    BY <1>1, <1>2 DEF IInv, Single
  <2> QED  BY <1>1, <1>2, <2>1 DEF IInv, Framed
<1> QED  BY <1>1, <1>2, <1>13, <1>14, <1>16, <1>17, <1>18, Elsewhere

\* Every step keeps the invariant.
LEMMA NextHolds == Disjoint /\ IInv /\ [Next]_vars => IInv'
<1> SUFFICES ASSUME Disjoint, IInv, [Next]_vars PROVE IInv'
  OBVIOUS
<1>1. CASE UNCHANGED vars
  <2>1. UNCHANGED <<cpu, tf, ctx, stack, runnable, want>>
    BY <1>1 DEF vars
  <2>2. TypeOK' /\ Single'
    BY <2>1 DEF IInv, TypeOK, Single
  <2>3. ASSUME NEW h \in Harts PROVE Running(h)' /\ Switched(h)'
    <3>1. Running(h) /\ Switched(h)
      BY DEF IInv
    <3>2. Running(h)'
      BY <2>1, <3>1 DEF Running
    <3>3. Switched(h)'
      BY <2>1, <3>1 DEF Switched
    <3> QED  BY <3>2, <3>3
  <2>4. ASSUME NEW p \in runnable' PROVE Parked(p)'
    BY <2>1 DEF IInv, Parked
  <2>5. ASSUME NEW p \in Procs PROVE Framed(p)'
    BY <2>1 DEF IInv, Framed
  <2> QED  BY <2>2, <2>3, <2>4, <2>5 DEF IInv
<1>2. CASE Next
  BY <1>2, user_Holds, trap_Holds, syscall_Holds, sys_sleep_Holds, exit_Holds, yield_Holds,
     usertrapret_Holds, scheduler_Holds, interrupt_Holds, kerneltrap_yield_Holds,
     kerneltrap_Holds DEF Next
<1> QED  BY <1>1, <1>2

-----------------------------------------------------------------------------

\* For any number of harts and processes: wherever and whenever a process is
\* interrupted, and on whatever hart it goes on, it finds its registers, its page
\* table and its trap vector, and interrupts as it left them.
THEOREM RegistersKept ==
  ASSUME Disjoint
  PROVE  Spec => []RegistersExact
<1>1. IInv => RegistersExact
  <2> SUFFICES ASSUME IInv, NEW h \in Harts
               PROVE  LET c == cpu[h]
                      IN IF InUser(c)
                         THEN /\ c.regs = want[c.run].regs /\ c.pc = want[c.run].pc
                              /\ c.satp = c.run /\ c.stvec = "uservec"
                              /\ tf[c.run].hartid = h /\ tf[c.run].sp = c.run
                         ELSE /\ c.regs.tp = h /\ c.regs.sp = c.run
                              /\ c.pc \notin {"kerneltrap", "forkret"} =>
                                   c.regs = KernelRegs(c.run, h)
                              /\ c.satp = "kernel" /\ c.stvec = "kernelvec"
                              /\ c.pc \in {"scheduler", "syscall"} => c.sstatus.sie
                              /\ c.pc \in {"kerneltrap", "yield"} => ~c.sstatus.sie
    BY DEF RegistersExact
  <2>1. Running(h) /\ cpu[h].regs \in RegsType
    BY DEF IInv, TypeOK, CpuType
  <2>2. ASSUME ~InUser(cpu[h]), cpu[h].pc \notin {"kerneltrap", "forkret"}
        PROVE  cpu[h].regs = KernelRegs(cpu[h].run, h)
    BY <2>1, <2>2 DEF Running, RegsType, KernelRegs, Regs
  <2> QED  BY <2>1, <2>2 DEF Running
<1>2. Init => IInv
  BY InitHolds
<1>3. IInv /\ [Next]_vars => IInv'
  BY NextHolds
<1> QED  BY <1>1, <1>2, <1>3, PTL DEF Spec
=============================================================================
