----------------------------- MODULE SchedProofs ----------------------------
(***************************************************************************)
(* Proofs about Sched, for any number of CPUs and processes.  A process is *)
(* taken by at most one CPU, the one whose c->proc it is; what that CPU    *)
(* has in noff, intena and its interrupt flag follows from where in        *)
(* sched() and sleep() the process is, and who holds p->lock does too.     *)
(* From this follows that no wakeup() of the clock is lost.                *)
(***************************************************************************)
EXTENDS Sched, TLAPS

\* Zenon proves a step unless it names another prover; it may take this many seconds.
USE ZenonT(60)

CpuType ==
  [proc : Procs \cup {NoProc}, ctx : Procs \cup {Scheduler}, noff : Int, intena : BOOLEAN,
   intr : BOOLEAN, trap : {"none", "clockintr", "wakeup", "handled"}, left : SUBSET Procs]

Places == {"user", "spin", "check", "sleep", "sleep_release", "sleeping", "relock", "respin"}

TypeOK ==
  /\ cpu \in [CPUs -> CpuType]
  /\ state \in [Procs -> {"RUNNABLE", "RUNNING", "SLEEPING", "ZOMBIE"}]
  /\ plock \in [Procs -> CPUs \cup {Free}]
  /\ pc \in [Procs -> Places]
  /\ switch \in [Procs -> {"on", "out", "off", "trap"}]
  /\ why \in [Procs -> {"fork", "sleep", "yield", "exit"}]
  /\ intena \in [Procs -> BOOLEAN]

\* A process is taken by one CPU.
Single == \A c, d \in CPUs : cpu[c].proc = cpu[d].proc /\ cpu[c].proc # NoProc => c = d

\* How p left its CPU, or is about to, with enabled the value sched() saves.
Left(p, enabled) ==
  /\ why[p] = "fork" => pc[p] = "user"
  /\ why[p] = "sleep" => pc[p] = "relock" /\ enabled
  /\ why[p] = "yield" => pc[p] \in {"user", "relock"} /\ ~enabled
  /\ why[p] = "exit" => state[p] = "ZOMBIE"

\* CPU c in the code of p outside sched(), and in the interrupts that it takes there.
OnStack(c, p) ==
  LET r == cpu[c] IN
  IF pc[p] \in {"user", "relock"}
  THEN /\ r.noff = IF r.trap = "wakeup" THEN 1 ELSE 0
       /\ r.trap = "none" => r.intr
       /\ r.trap = "wakeup" => ~r.intena
  ELSE /\ r.trap = "none" /\ ~r.intr /\ r.intena
       /\ r.noff = IF pc[p] = "sleep_release" THEN 2 ELSE 1
       /\ pc[p] \in {"sleep_release", "sleeping"} => plock[p] = c

\* CPU c on the stack of p.
InProcess(c, p) ==
  LET r == cpu[c] IN
  /\ switch[p] \in {"off", "out"} =>
       r.noff = 1 /\ ~r.intr /\ r.trap = "none" /\ plock[p] = c
  /\ switch[p] # "out" => state[p] = "RUNNING"
  /\ switch[p] = "out" => state[p] # "RUNNING" /\ Left(p, r.intena)
  /\ switch[p] = "trap" =>
       r.noff = 0 /\ ~r.intr /\ r.trap = "none" /\ pc[p] \in {"user", "relock"}
  /\ switch[p] = "on" => OnStack(c, p)

\* CPU c in scheduler(), looking for a process or just back from p.
Scanning(c) ==
  /\ cpu[c].noff = IF cpu[c].trap = "wakeup" THEN 1 ELSE 0
  /\ cpu[c].trap = "wakeup" => ~cpu[c].intena

Returning(c, p) ==
  /\ cpu[c].noff = 1 /\ ~cpu[c].intr /\ cpu[c].trap = "none"
  /\ plock[p] = c /\ switch[p] = "off"

OnCpu(c) ==
  /\ cpu[c].ctx \in {Scheduler, cpu[c].proc}
  /\ cpu[c].trap # "none" => ~cpu[c].intr
  /\ cpu[c].ctx = Scheduler =>
       IF cpu[c].proc = NoProc THEN Scanning(c) ELSE Returning(c, cpu[c].proc)
  /\ cpu[c].ctx \in Procs => InProcess(c, cpu[c].ctx)

\* A process that no CPU has taken is in swtch(), and can go on from there.
Rested(p) ==
  /\ (\A c \in CPUs : cpu[c].proc # p) => switch[p] = "off"
  /\ switch[p] = "off" => Left(p, intena[p])

IInv ==
  /\ TypeOK
  /\ Single
  /\ \A c \in CPUs : OnCpu(c)
  /\ \A p \in Procs : Rested(p)
  /\ ~panicked

-----------------------------------------------------------------------------
(* What a step leaves alone *)

\* Processes other than k keep what they have, or are woken when their lock is free.
Others(k) ==
  \A q \in Procs \ {k} :
    /\ switch'[q] = switch[q] /\ why'[q] = why[q] /\ pc'[q] = pc[q]
    /\ intena'[q] = intena[q] /\ plock'[q] = plock[q]
    /\ \/ state'[q] = state[q]
       \/ state[q] = "SLEEPING" /\ state'[q] = "RUNNABLE" /\ plock[q] = Free

\* A step of CPU c changes nothing but what belongs to c and to process k, which
\* c has taken, takes or gives up, and the state of processes it wakes.
Local(c, k) ==
  /\ k \in Procs \cup {NoProc}
  /\ cpu[c].proc \in {NoProc, k} /\ cpu'[c].proc \in {NoProc, k}
  /\ \A d \in CPUs \ {c} : cpu'[d] = cpu[d] /\ (k # NoProc => cpu[d].proc # k)
  /\ Others(k)

\* So the invariant has to be shown for c and k only.
LEMMA Elsewhere ==
  ASSUME IInv, TypeOK', NEW c \in CPUs, NEW k, Local(c, k),
         OnCpu(c)', k # NoProc => Rested(k)', ~panicked'
  PROVE  IInv'
<1>1. Single'
  BY DEF IInv, Single, Local
<1>2. ASSUME NEW d \in CPUs, d # c
      PROVE  OnCpu(d)'
  <2>. PICK p : p = cpu[d].proc
    OBVIOUS
  <2>1. cpu'[d] = cpu[d] /\ OnCpu(d) /\ (k # NoProc => p # k) /\ d # Free
        /\ p \in Procs \cup {NoProc} /\ cpu[d].ctx \in Procs \cup {Scheduler}
    BY <1>2, SchedAssumption DEF Local, IInv, TypeOK, CpuType
  <2>2. ASSUME p \in Procs
        PROVE  /\ switch'[p] = switch[p] /\ why'[p] = why[p] /\ pc'[p] = pc[p]
               /\ intena'[p] = intena[p] /\ plock'[p] = plock[p]
               /\ \/ state'[p] = state[p]
                  \/ state[p] = "SLEEPING" /\ state'[p] = "RUNNABLE" /\ plock[p] = Free
    <3>1. p \in Procs \ {k}
      BY <2>1, <2>2, SchedAssumption DEF Local
    <3> QED  BY <3>1 DEF Local, Others
  <2>3. CASE cpu[d].ctx = Scheduler
    BY <2>1, <2>2, <2>3, SchedAssumption DEF OnCpu, Scanning, Returning
  <2>4. CASE cpu[d].ctx = p /\ p \in Procs
    <3>1. InProcess(d, p)
      BY <2>1, <2>4 DEF OnCpu
    <3>2. Left(p, cpu[d].intena) => Left(p, cpu[d].intena)'
      BY <2>1, <2>2, <2>4 DEF Left
    <3>3. OnStack(d, p) => OnStack(d, p)'
      BY <2>1, <2>2, <2>4 DEF OnStack
    <3>4. InProcess(d, p)'
      BY <2>1, <2>2, <2>4, <3>1, <3>2, <3>3 DEF InProcess
    <3> QED  BY <2>1, <2>4, <3>4, SchedAssumption DEF OnCpu
  <2> QED  BY <2>1, <2>3, <2>4, SchedAssumption DEF OnCpu
<1>3. ASSUME NEW q \in Procs, q # k
      PROVE  Rested(q)'
  <2>1. /\ switch'[q] = switch[q] /\ why'[q] = why[q] /\ pc'[q] = pc[q]
        /\ intena'[q] = intena[q]
        /\ state[q] = "ZOMBIE" => state'[q] = "ZOMBIE"
    BY <1>3 DEF Local, Others
  <2>2. (\A d \in CPUs : cpu'[d].proc # q) => (\A d \in CPUs : cpu[d].proc # q)
    BY <1>3, SchedAssumption DEF Local
  <2>3. Rested(q)
    BY DEF IInv
  <2>4. Left(q, intena[q]) => Left(q, intena[q])'
    BY <2>1 DEF Left
  <2> QED  BY <2>1, <2>2, <2>3, <2>4 DEF Rested
<1>4. \A q \in Procs : Rested(q)'
  BY <1>3, SchedAssumption
<1> QED  BY <1>1, <1>2, <1>4 DEF IInv

-----------------------------------------------------------------------------
(* Records of CPUs *)

\* A CPU's record is replaced.
LEMMA Replaced ==
  ASSUME TypeOK, NEW c \in CPUs, NEW n \in CpuType, cpu' = [cpu EXCEPT ![c] = n]
  PROVE  /\ cpu' \in [CPUs -> CpuType] /\ cpu'[c] = n
         /\ \A d \in CPUs \ {c} : cpu'[d] = cpu[d]
  BY DEF TypeOK

\* push_off() turns interrupts off and counts.
LEMMA Pushing ==
  ASSUME NEW r \in CpuType
  PROVE  /\ Pushed(r) \in CpuType
         /\ Pushed(r).proc = r.proc /\ Pushed(r).ctx = r.ctx /\ Pushed(r).trap = r.trap
         /\ Pushed(r).left = r.left
         /\ Pushed(r).noff = r.noff + 1 /\ ~Pushed(r).intr
         /\ r.noff = 0 => Pushed(r).intena = r.intr
         /\ r.noff # 0 => Pushed(r).intena = r.intena
<1> DEFINE e == IF r.noff = 0 THEN r.intr ELSE r.intena
           m == r.noff + 1
<1>1. Pushed(r) = [r EXCEPT !.noff = m, !.intr = FALSE, !.intena = e]
  BY DEF Pushed
<1>2. e \in BOOLEAN /\ m \in Int
  BY SMTT(60) DEF CpuType
<1> HIDE DEF e, m
<1>3. /\ Pushed(r) \in CpuType
      /\ Pushed(r).proc = r.proc /\ Pushed(r).ctx = r.ctx /\ Pushed(r).trap = r.trap
      /\ Pushed(r).left = r.left
      /\ Pushed(r).noff = m /\ ~Pushed(r).intr /\ Pushed(r).intena = e
  BY <1>1, <1>2 DEF CpuType
<1> QED  BY <1>3 DEF e, m

\* pop_off() counts back, and turns interrupts on if they were at the first push_off().
LEMMA Popping ==
  ASSUME NEW r \in CpuType
  PROVE  /\ Popped(r) \in CpuType
         /\ Popped(r).proc = r.proc /\ Popped(r).ctx = r.ctx /\ Popped(r).trap = r.trap
         /\ Popped(r).left = r.left
         /\ Popped(r).noff = r.noff - 1 /\ Popped(r).intena = r.intena
         /\ r.noff = 1 => Popped(r).intr = r.intena
         /\ r.noff # 1 => Popped(r).intr = r.intr
<1> DEFINE e == IF r.noff = 1 THEN r.intena ELSE r.intr
           m == r.noff - 1
<1>1. Popped(r) = [r EXCEPT !.noff = m, !.intr = e]
  BY DEF Popped
<1>2. e \in BOOLEAN /\ m \in Int
  BY SMTT(60) DEF CpuType
<1> HIDE DEF e, m
<1>3. /\ Popped(r) \in CpuType
      /\ Popped(r).proc = r.proc /\ Popped(r).ctx = r.ctx /\ Popped(r).trap = r.trap
      /\ Popped(r).left = r.left
      /\ Popped(r).noff = m /\ Popped(r).intena = r.intena /\ Popped(r).intr = e
  BY <1>1, <1>2 DEF CpuType
<1> QED  BY <1>3 DEF e, m

\* What is known of a CPU before it takes a step.
LEMMA Before ==
  ASSUME IInv, NEW c \in CPUs
  PROVE  /\ TypeOK /\ cpu[c] \in CpuType /\ OnCpu(c) /\ c # Free
         /\ cpu[c].proc \in Procs \cup {NoProc}
  BY SchedAssumption DEF IInv, TypeOK, CpuType

\* A CPU that executes the code of p has taken p, and no other has.
LEMMA Runs ==
  ASSUME IInv, NEW c \in CPUs, NEW p \in Procs, cpu[c].ctx = p
  PROVE  /\ cpu[c].proc = p /\ InProcess(c, p) /\ p # NoProc /\ p # Scheduler
         /\ \A d \in CPUs \ {c} : cpu[d].proc # p
  BY SchedAssumption DEF IInv, Single, OnCpu

\* A step of the process on CPU c that does not leave its stack.
LEMMA OwnStep ==
  ASSUME IInv, TypeOK', NEW c \in CPUs, NEW p \in Procs, cpu[c].ctx = p,
         NEW n, cpu'[c] = n, n.ctx = p, n.proc = p, n.trap # "none" => ~n.intr,
         \A d \in CPUs \ {c} : cpu'[d] = cpu[d],
         InProcess(c, p)', switch'[p] # "off", Others(p), ~panicked'
  PROVE  IInv'
<1>1. Local(c, p)
  BY Runs DEF Local
<1>2. OnCpu(c)'
  BY SchedAssumption DEF OnCpu
<1>3. Rested(p)'
  BY DEF Rested
<1> QED  BY <1>1, <1>2, <1>3, Elsewhere

\* A process that executes its own code is where pc says.
LEMMA AtPlace ==
  ASSUME IInv, NEW c \in CPUs, NEW p \in Procs, NEW w, At(c, p, w)
  PROVE  /\ cpu[c].ctx = p /\ cpu[c].proc = p /\ cpu[c].trap = "none"
         /\ switch[p] = "on" /\ pc[p] = w /\ state[p] = "RUNNING" /\ OnStack(c, p)
  BY Runs, SMTT(60) DEF At, InProcess

-----------------------------------------------------------------------------
(* The steps *)

\* At first no process is taken.
LEMMA InitHolds == Init => IInv
<1> SUFFICES ASSUME Init PROVE IInv
  OBVIOUS
<1> USE SchedAssumption DEF Init
<1>1. IdleCpu \in CpuType
  BY SMTT(60) DEF IdleCpu, CpuType
<1>2. TypeOK
  BY <1>1 DEF TypeOK, Places
<1>3. Single
  BY DEF Single, IdleCpu
<1>4. \A c \in CPUs : OnCpu(c)
  BY DEF OnCpu, IdleCpu, Scanning
<1>5. \A p \in Procs : Rested(p)
  BY DEF Rested, Left
<1> QED  BY <1>2, <1>3, <1>4, <1>5 DEF IInv

\* scheduler() turns interrupts on.
LEMMA loop_Holds ==
  ASSUME IInv, NEW c \in CPUs, loop(c)
  PROVE  IInv'
<1> DEFINE n == [cpu[c] EXCEPT !.intr = TRUE]
<1>1. /\ cpu[c].ctx = Scheduler /\ cpu[c].trap = "none" /\ cpu[c].proc = NoProc
      /\ cpu' = [cpu EXCEPT ![c] = n]
      /\ UNCHANGED <<procvars, plock, tickslock, panicked>>
  BY DEF loop, InScheduler
<1>2. TypeOK /\ cpu[c] \in CpuType /\ OnCpu(c)
  BY Before
<1>3. /\ n \in CpuType /\ n.proc = NoProc /\ n.ctx = Scheduler /\ n.trap = "none"
      /\ n.noff = cpu[c].noff
  BY <1>1, <1>2 DEF CpuType
<1> HIDE DEF n
<1>4. /\ cpu' \in [CPUs -> CpuType] /\ cpu'[c] = n
      /\ \A d \in CPUs \ {c} : cpu'[d] = cpu[d]
  BY <1>1, <1>2, <1>3, Replaced
<1>5. TypeOK'
  BY <1>1, <1>2, <1>4 DEF TypeOK, procvars
<1>6. Local(c, NoProc)
  BY <1>1, <1>3, <1>4 DEF Local, Others, procvars
<1>7. OnCpu(c)'
  BY <1>1, <1>2, <1>3, <1>4, SchedAssumption DEF OnCpu, Scanning
<1>8. ~panicked'
  BY <1>1 DEF IInv
<1> QED  BY <1>1, <1>5, <1>6, <1>7, <1>8, Elsewhere

\* The scheduler takes a process that no CPU has.
LEMMA dispatch_Holds ==
  ASSUME IInv, NEW c \in CPUs, NEW p \in Procs, dispatch(c, p)
  PROVE  IInv'
<1> DEFINE r == Pushed(cpu[c])
           n == [r EXCEPT !.proc = p, !.ctx = p]
<1>1. /\ cpu[c].ctx = Scheduler /\ cpu[c].trap = "none" /\ cpu[c].proc = NoProc
      /\ plock[p] = Free /\ state[p] = "RUNNABLE"
      /\ plock' = [plock EXCEPT ![p] = c] /\ state' = [state EXCEPT ![p] = "RUNNING"]
      /\ cpu' = [cpu EXCEPT ![c] = n]
      /\ UNCHANGED <<onticks, killed, due, pc, switch, why, intena, tickslock, panicked>>
  BY DEF dispatch, InScheduler, CanLock
<1>2. TypeOK /\ cpu[c] \in CpuType /\ OnCpu(c) /\ p # NoProc /\ p # Scheduler
  BY Before, SchedAssumption
<1>3. cpu[c].noff = 0
  BY <1>1, <1>2 DEF OnCpu, Scanning
<1>4. r \in CpuType /\ r.noff = 1 /\ ~r.intr /\ r.trap = "none"
  BY <1>1, <1>2, <1>3, Pushing, SMTT(60)
<1> HIDE DEF r
<1>5. n \in CpuType /\ n.noff = 1 /\ ~n.intr /\ n.trap = "none" /\ n.proc = p /\ n.ctx = p
  BY <1>4 DEF CpuType
<1> HIDE DEF n
<1>6. /\ cpu' \in [CPUs -> CpuType] /\ cpu'[c] = n
      /\ \A d \in CPUs \ {c} : cpu'[d] = cpu[d]
  BY <1>1, <1>2, <1>5, Replaced
<1>7. /\ plock' \in [Procs -> CPUs \cup {Free}] /\ plock'[p] = c
      /\ state' \in [Procs -> {"RUNNABLE", "RUNNING", "SLEEPING", "ZOMBIE"}]
      /\ state'[p] = "RUNNING"
      /\ \A q \in Procs \ {p} : plock'[q] = plock[q] /\ state'[q] = state[q]
  BY <1>1, <1>2 DEF TypeOK
<1>8. TypeOK'
  BY <1>1, <1>2, <1>6, <1>7 DEF TypeOK
<1>9. \A d \in CPUs : cpu[d].proc # p
  <2> SUFFICES ASSUME NEW d \in CPUs, cpu[d].proc = p PROVE FALSE
    OBVIOUS
  <2>1. OnCpu(d) /\ d # Free
    BY SchedAssumption DEF IInv
  <2>2. CASE cpu[d].ctx = Scheduler
    BY <1>1, <1>2, <2>1, <2>2 DEF OnCpu, Returning
  <2>3. CASE cpu[d].ctx = p
    BY <1>1, <2>1, <2>3 DEF OnCpu, InProcess
  <2> QED  BY <2>1, <2>2, <2>3 DEF OnCpu
<1>10. switch[p] = "off" /\ Left(p, intena[p])
  BY <1>9 DEF IInv, Rested
<1>11. Local(c, p)
  BY <1>1, <1>5, <1>6, <1>7, <1>9 DEF Local, Others
<1>12. InProcess(c, p)'
  BY <1>1, <1>5, <1>6, <1>7, <1>10 DEF InProcess
<1>13. OnCpu(c)'
  BY <1>2, <1>5, <1>6, <1>12 DEF OnCpu
<1>14. Left(p, intena[p])'
  BY <1>1, <1>10 DEF Left
<1>15. Rested(p)'
  BY <1>1, <1>10, <1>14 DEF Rested
<1>16. ~panicked'
  BY <1>1 DEF IInv
<1> QED  BY <1>1, <1>8, <1>11, <1>13, <1>15, <1>16, Elsewhere

\* The scheduler gives up the process whose switch is complete.
LEMMA sched_return_Holds ==
  ASSUME IInv, NEW c \in CPUs, sched_return(c)
  PROVE  IInv'
<1>. PICK p : p = cpu[c].proc
  OBVIOUS
<1> DEFINE r == Popped(cpu[c])
           n == [r EXCEPT !.proc = NoProc]
<1>1. /\ cpu[c].ctx = Scheduler /\ cpu[c].trap = "none" /\ p # NoProc
      /\ plock' = [plock EXCEPT ![p] = Free] /\ cpu' = [cpu EXCEPT ![c] = n]
      /\ UNCHANGED <<procvars, tickslock, panicked>>
  BY DEF sched_return, InScheduler
<1>2. TypeOK /\ cpu[c] \in CpuType /\ OnCpu(c) /\ p \in Procs
  BY <1>1, Before
<1>3. cpu[c].noff = 1 /\ ~cpu[c].intr /\ switch[p] = "off"
  BY <1>1, <1>2 DEF OnCpu, Returning
<1>4. r \in CpuType /\ r.noff = 0 /\ r.trap = "none" /\ r.ctx = Scheduler
  BY <1>1, <1>2, <1>3, Popping, SMTT(60)
<1> HIDE DEF r
<1>5. n \in CpuType /\ n.noff = 0 /\ n.trap = "none" /\ n.ctx = Scheduler /\ n.proc = NoProc
  BY <1>4 DEF CpuType
<1> HIDE DEF n
<1>6. /\ cpu' \in [CPUs -> CpuType] /\ cpu'[c] = n
      /\ \A d \in CPUs \ {c} : cpu'[d] = cpu[d]
  BY <1>1, <1>2, <1>5, Replaced
<1>7. /\ plock' \in [Procs -> CPUs \cup {Free}]
      /\ \A q \in Procs \ {p} : plock'[q] = plock[q]
  BY <1>1, <1>2 DEF TypeOK
<1>8. TypeOK'
  BY <1>1, <1>2, <1>6, <1>7 DEF TypeOK, procvars
<1>9. Local(c, p)
  BY <1>1, <1>2, <1>5, <1>6, <1>7 DEF Local, Others, procvars, IInv, Single
<1>10. OnCpu(c)'
  BY <1>5, <1>6, SchedAssumption DEF OnCpu, Scanning
<1>11. Rested(p)'
  BY <1>1, <1>2, <1>3 DEF IInv, Rested, Left, procvars
<1>12. ~panicked'
  BY <1>1 DEF IInv
<1> QED  BY <1>1, <1>8, <1>9, <1>10, <1>11, <1>12, Elsewhere

\* sched() panics nowhere, and leaves for the scheduler.
LEMMA sched_Holds ==
  ASSUME IInv, NEW c \in CPUs, NEW p \in Procs, sched(c, p)
  PROVE  IInv'
<1> DEFINE n == [cpu[c] EXCEPT !.ctx = Scheduler]
<1>1. cpu[c].ctx = p /\ switch[p] = "out"
  BY DEF sched
<1>2. TypeOK /\ cpu[c] \in CpuType /\ OnCpu(c)
  BY Before
<1>3. /\ cpu[c].proc = p /\ p # NoProc /\ p # Scheduler
      /\ cpu[c].noff = 1 /\ ~cpu[c].intr /\ cpu[c].trap = "none" /\ plock[p] = c
      /\ state[p] # "RUNNING" /\ Left(p, cpu[c].intena)
      /\ \A d \in CPUs \ {c} : cpu[d].proc # p
  BY <1>1, Runs, SMTT(60) DEF InProcess
<1>4. /\ intena' = [intena EXCEPT ![p] = cpu[c].intena]
      /\ switch' = [switch EXCEPT ![p] = "off"] /\ cpu' = [cpu EXCEPT ![c] = n]
      /\ UNCHANGED <<state, onticks, killed, due, pc, why, plock, tickslock, panicked>>
  BY <1>3 DEF sched, SchedPanics
<1>5. /\ n \in CpuType /\ n.ctx = Scheduler /\ n.proc = p /\ n.noff = 1 /\ ~n.intr
      /\ n.trap = "none"
  BY <1>2, <1>3 DEF CpuType
<1> HIDE DEF n
<1>6. /\ cpu' \in [CPUs -> CpuType] /\ cpu'[c] = n
      /\ \A d \in CPUs \ {c} : cpu'[d] = cpu[d]
  BY <1>2, <1>4, <1>5, Replaced
<1>7. cpu[c].intena \in BOOLEAN
  BY <1>2 DEF CpuType
<1>8. /\ intena' \in [Procs -> BOOLEAN] /\ intena'[p] = cpu[c].intena
      /\ switch' \in [Procs -> {"on", "out", "off", "trap"}] /\ switch'[p] = "off"
      /\ \A q \in Procs \ {p} : intena'[q] = intena[q] /\ switch'[q] = switch[q]
  BY <1>2, <1>4, <1>7 DEF TypeOK
<1>9. TypeOK'
  BY <1>2, <1>4, <1>6, <1>8 DEF TypeOK
<1>10. Local(c, p)
  BY <1>3, <1>4, <1>5, <1>6, <1>8 DEF Local, Others
<1>11. OnCpu(c)'
  BY <1>3, <1>4, <1>5, <1>6, <1>8, SchedAssumption DEF OnCpu, Returning
<1>12. Rested(p)'
  BY <1>3, <1>4, <1>8 DEF Rested, Left
<1>13. ~panicked'
  BY <1>4 DEF IInv
<1> QED  BY <1>4, <1>9, <1>10, <1>11, <1>12, <1>13, Elsewhere

\* A process goes on after swtch(), with interrupts as they were for it.
LEMMA resume_Holds ==
  ASSUME IInv, NEW c \in CPUs, NEW p \in Procs, resume(c, p)
  PROVE  IInv'
<1> DEFINE b == [cpu[c] EXCEPT !.intena = IntenaBack(c, p)]
           r == Popped(b)
           n == IF why[p] = "fork" THEN [r EXCEPT !.intr = TRUE] ELSE r
           s == IF why[p] = "yield" THEN "trap" ELSE "on"
<1>1. /\ cpu[c].ctx = p /\ switch[p] = "off"
      /\ switch' = [switch EXCEPT ![p] = s]
      /\ plock' = [plock EXCEPT ![p] = Free]
      /\ cpu' = [cpu EXCEPT ![c] = n]
      /\ UNCHANGED <<state, killed, due, pc, why, intena, tickslock, panicked>>
  BY DEF resume
<1>2. TypeOK /\ cpu[c] \in CpuType /\ OnCpu(c)
  BY Before
<1>3. /\ cpu[c].proc = p /\ cpu[c].noff = 1 /\ ~cpu[c].intr /\ cpu[c].trap = "none"
      /\ state[p] = "RUNNING" /\ Left(p, intena[p])
  BY <1>1, Runs, SMTT(60) DEF InProcess, IInv, Rested
<1>4. IntenaBack(c, p) \in BOOLEAN /\ (why[p] # "fork" => IntenaBack(c, p) = intena[p])
  BY <1>2 DEF IntenaBack, TypeOK, CpuType
<1>5. /\ b \in CpuType /\ b.noff = 1 /\ b.trap = "none" /\ b.ctx = p /\ b.proc = p
      /\ b.intena = IntenaBack(c, p)
  BY <1>1, <1>2, <1>3, <1>4 DEF CpuType
<1> HIDE DEF b
<1>6. /\ r \in CpuType /\ r.noff = 0 /\ r.trap = "none" /\ r.ctx = p /\ r.proc = p
      /\ r.intr = IntenaBack(c, p)
  BY <1>5, Popping, SMTT(60)
<1> HIDE DEF r
<1>7. /\ n \in CpuType /\ n.noff = 0 /\ n.trap = "none" /\ n.ctx = p /\ n.proc = p
      /\ why[p] = "fork" => n.intr
      /\ why[p] # "fork" => n.intr = IntenaBack(c, p)
  BY <1>6 DEF CpuType
<1> HIDE DEF n
<1>8. /\ cpu' \in [CPUs -> CpuType] /\ cpu'[c] = n
      /\ \A d \in CPUs \ {c} : cpu'[d] = cpu[d]
  BY <1>1, <1>2, <1>7, Replaced
<1>9. /\ plock' \in [Procs -> CPUs \cup {Free}]
      /\ switch' \in [Procs -> {"on", "out", "off", "trap"}] /\ switch'[p] = s
      /\ \A q \in Procs \ {p} : plock'[q] = plock[q] /\ switch'[q] = switch[q]
  BY <1>1, <1>2 DEF TypeOK
<1>10. TypeOK'
  BY <1>1, <1>2, <1>8, <1>9 DEF TypeOK
<1>11. Others(p)
  BY <1>1, <1>9 DEF Others
<1>12. why[p] \in {"fork", "sleep", "yield"}
  BY <1>2, <1>3 DEF TypeOK, Left
<1>13. /\ pc[p] \in {"user", "relock"} /\ (why[p] = "yield" => ~n.intr)
       /\ why[p] # "yield" => n.intr
  BY <1>3, <1>4, <1>7, <1>12 DEF Left
<1>14. switch'[p] = "on" => OnStack(c, p)'
  BY <1>1, <1>7, <1>8, <1>9, <1>13 DEF OnStack
<1>15. InProcess(c, p)'
  BY <1>1, <1>3, <1>7, <1>8, <1>9, <1>13, <1>14 DEF InProcess
<1>16. ~panicked'
  BY <1>1 DEF IInv
<1> QED  BY <1>1, <1>7, <1>8, <1>9, <1>10, <1>11, <1>15, <1>16, OwnStep, SMTT(60)

\* The interrupted code goes on.
LEMMA trap_return_Holds ==
  ASSUME IInv, NEW c \in CPUs, NEW p \in Procs, trap_return(c, p)
  PROVE  IInv'
<1> DEFINE n == [cpu[c] EXCEPT !.intr = TRUE]
<1>1. /\ cpu[c].ctx = p /\ switch[p] = "trap"
      /\ switch' = [switch EXCEPT ![p] = "on"] /\ cpu' = [cpu EXCEPT ![c] = n]
      /\ UNCHANGED <<state, onticks, killed, due, pc, why, intena, plock, tickslock, panicked>>
  BY DEF trap_return
<1>2. TypeOK /\ cpu[c] \in CpuType
  BY Before
<1>3. /\ cpu[c].proc = p /\ cpu[c].noff = 0 /\ cpu[c].trap = "none"
      /\ state[p] = "RUNNING" /\ pc[p] \in {"user", "relock"}
  BY <1>1, Runs, SMTT(60) DEF InProcess
<1>4. /\ n \in CpuType /\ n.noff = 0 /\ n.trap = "none" /\ n.ctx = p /\ n.proc = p /\ n.intr
  BY <1>1, <1>2, <1>3 DEF CpuType
<1> HIDE DEF n
<1>5. /\ cpu' \in [CPUs -> CpuType] /\ cpu'[c] = n
      /\ \A d \in CPUs \ {c} : cpu'[d] = cpu[d]
  BY <1>1, <1>2, <1>4, Replaced
<1>6. /\ switch' \in [Procs -> {"on", "out", "off", "trap"}] /\ switch'[p] = "on"
      /\ \A q \in Procs \ {p} : switch'[q] = switch[q]
  BY <1>1, <1>2 DEF TypeOK
<1>7. TypeOK'
  BY <1>1, <1>2, <1>5, <1>6 DEF TypeOK
<1>8. Others(p)
  BY <1>1, <1>6 DEF Others
<1>9. OnStack(c, p)'
  BY <1>1, <1>3, <1>4, <1>5 DEF OnStack
<1>10. InProcess(c, p)'
  BY <1>1, <1>3, <1>6, <1>9 DEF InProcess
<1>11. ~panicked'
  BY <1>1 DEF IInv
<1> QED  BY <1>1, <1>4, <1>5, <1>6, <1>7, <1>8, <1>10, <1>11, OwnStep

\* The process goes on to w in its own code, with n for its CPU.
LEMMA PlaceStep ==
  ASSUME IInv, NEW c \in CPUs, NEW p \in Procs, NEW v, At(c, p, v), NEW n \in CpuType,
         cpu' = [cpu EXCEPT ![c] = n], NEW w \in Places, pc' = [pc EXCEPT ![p] = w],
         n.ctx = p, n.proc = p, n.trap = "none",
         UNCHANGED <<state, switch, why, intena, panicked>>,
         plock' = plock \/ plock' = [plock EXCEPT ![p] = c],
         IF w \in {"user", "relock"} THEN n.noff = 0 /\ n.intr
         ELSE /\ ~n.intr /\ n.intena
              /\ n.noff = IF w = "sleep_release" THEN 2 ELSE 1
              /\ w \in {"sleep_release", "sleeping"} => plock'[p] = c
  PROVE  IInv'
<1>1. TypeOK /\ cpu[c].ctx = p /\ switch[p] = "on" /\ state[p] = "RUNNING"
  BY Before, AtPlace, SMTT(60)
<1>2. /\ cpu' \in [CPUs -> CpuType] /\ cpu'[c] = n
      /\ \A d \in CPUs \ {c} : cpu'[d] = cpu[d]
  BY <1>1, Replaced
<1>3. /\ pc' \in [Procs -> Places] /\ pc'[p] = w
      /\ \A q \in Procs \ {p} : pc'[q] = pc[q]
  BY <1>1 DEF TypeOK
<1>4. /\ plock' \in [Procs -> CPUs \cup {Free}]
      /\ \A q \in Procs \ {p} : plock'[q] = plock[q]
  BY <1>1 DEF TypeOK
<1>5. TypeOK'
  BY <1>1, <1>2, <1>3, <1>4 DEF TypeOK
<1>6. Others(p)
  BY <1>3, <1>4 DEF Others
<1>7. OnStack(c, p)'
  BY <1>2, <1>3 DEF OnStack
<1>8. InProcess(c, p)'
  BY <1>1, <1>7 DEF InProcess
<1>9. ~panicked'
  BY DEF IInv
<1> QED  BY <1>1, <1>2, <1>5, <1>6, <1>8, <1>9, OwnStep

\* acquire(&tickslock) turns interrupts off.
LEMMA Spin_Holds ==
  ASSUME IInv, NEW c \in CPUs, NEW p \in Procs, sys_sleep(c, p) \/ reacquire(c, p)
  PROVE  IInv'
<1> DEFINE n == Pushed(cpu[c])
<1>1. PICK v \in {"user", "relock"}, w \in {"spin", "respin"} : SpinForTicks(c, p, v, w)
  BY DEF sys_sleep, reacquire
<1>2. /\ At(c, p, v) /\ pc' = [pc EXCEPT ![p] = w] /\ cpu' = [cpu EXCEPT ![c] = n]
      /\ UNCHANGED <<state, switch, why, intena, plock, panicked>>
  BY <1>1 DEF SpinForTicks, Goto
<1>3. /\ cpu[c] \in CpuType /\ cpu[c].ctx = p /\ cpu[c].proc = p /\ cpu[c].trap = "none"
      /\ cpu[c].noff = 0 /\ cpu[c].intr
  <2>1. /\ cpu[c].ctx = p /\ cpu[c].proc = p /\ cpu[c].trap = "none"
        /\ pc[p] = v /\ OnStack(c, p)
    BY <1>2, AtPlace, SMTT(60)
  <2>2. cpu[c] \in CpuType
    BY Before
  <2> QED  BY <2>1, <2>2 DEF OnStack
<1>4. /\ n \in CpuType /\ n.ctx = p /\ n.proc = p /\ n.trap = "none" /\ n.noff = 1
      /\ ~n.intr /\ n.intena
  BY <1>3, Pushing, SMTT(60)
<1> HIDE DEF n
<1> QED  BY <1>2, <1>4, PlaceStep DEF Places

\* tickslock is got.
LEMMA take_tickslock_Holds ==
  ASSUME IInv, NEW c \in CPUs, NEW p \in Procs, take_tickslock(c, p)
  PROVE  IInv'
<1>1. PICK v \in {"spin", "respin"} : At(c, p, v)
  BY DEF take_tickslock
<1>2. /\ pc' = [pc EXCEPT ![p] = "check"] /\ cpu' = cpu
      /\ UNCHANGED <<state, switch, why, intena, plock, panicked>>
  BY DEF take_tickslock, Goto
<1>3. /\ cpu[c] \in CpuType /\ cpu[c].ctx = p /\ cpu[c].proc = p /\ cpu[c].trap = "none"
      /\ cpu[c].noff = 1 /\ ~cpu[c].intr /\ cpu[c].intena
  <2>1. /\ cpu[c].ctx = p /\ cpu[c].proc = p /\ cpu[c].trap = "none"
        /\ pc[p] = v /\ OnStack(c, p)
    BY <1>1, AtPlace
  <2>2. cpu[c] \in CpuType
    BY Before
  <2> QED  BY <2>1, <2>2 DEF OnStack
<1>4. cpu' = [cpu EXCEPT ![c] = cpu[c]]
  BY <1>2, Before DEF TypeOK
<1> QED  BY <1>1, <1>2, <1>3, <1>4, PlaceStep DEF Places

\* sys_sleep() returns or calls sleep().
LEMMA check_Holds ==
  ASSUME IInv, NEW c \in CPUs, NEW p \in Procs, check(c, p)
  PROVE  IInv'
<1>1. At(c, p, "check") /\ UNCHANGED <<state, switch, why, intena, plock, panicked>>
  BY DEF check
<1>2. /\ cpu[c] \in CpuType /\ cpu[c].ctx = p /\ cpu[c].proc = p /\ cpu[c].trap = "none"
      /\ cpu[c].noff = 1 /\ ~cpu[c].intr /\ cpu[c].intena
  <2>1. /\ cpu[c].ctx = p /\ cpu[c].proc = p /\ cpu[c].trap = "none"
        /\ pc[p] = "check" /\ OnStack(c, p)
    BY <1>1, AtPlace
  <2>2. cpu[c] \in CpuType
    BY Before
  <2> QED  BY <2>1, <2>2 DEF OnStack
<1>3. CASE pc' = [pc EXCEPT ![p] = "sleep"] /\ cpu' = cpu
  <2>1. cpu' = [cpu EXCEPT ![c] = cpu[c]]
    BY <1>3, Before DEF TypeOK
  <2> QED  BY <1>1, <1>2, <1>3, <2>1, PlaceStep DEF Places
<1>4. CASE pc' = [pc EXCEPT ![p] = "user"] /\ cpu' = [cpu EXCEPT ![c] = Popped(@)]
  <2> DEFINE n == Popped(cpu[c])
  <2>1. /\ n \in CpuType /\ n.ctx = p /\ n.proc = p /\ n.trap = "none" /\ n.noff = 0 /\ n.intr
    BY <1>2, Popping, SMTT(60)
  <2>2. cpu' = [cpu EXCEPT ![c] = n]
    BY <1>4
  <2> HIDE DEF n
  <2> QED  BY <1>1, <1>4, <2>1, <2>2, PlaceStep DEF Places
<1> QED  BY <1>3, <1>4 DEF check, Goto

\* sleep() acquires p->lock, with tickslock held.
LEMMA sleep_lock_Holds ==
  ASSUME IInv, NEW c \in CPUs, NEW p \in Procs, sleep_lock(c, p)
  PROVE  IInv'
<1> DEFINE n == Pushed(cpu[c])
<1>1. /\ At(c, p, "sleep") /\ pc' = [pc EXCEPT ![p] = "sleep_release"]
      /\ plock' = [plock EXCEPT ![p] = c] /\ cpu' = [cpu EXCEPT ![c] = n]
      /\ UNCHANGED <<state, switch, why, intena, panicked>>
  BY DEF sleep_lock, Goto
<1>2. /\ cpu[c] \in CpuType /\ cpu[c].ctx = p /\ cpu[c].proc = p /\ cpu[c].trap = "none"
      /\ cpu[c].noff = 1 /\ cpu[c].intena
  <2>1. /\ cpu[c].ctx = p /\ cpu[c].proc = p /\ cpu[c].trap = "none"
        /\ pc[p] = "sleep" /\ OnStack(c, p)
    BY <1>1, AtPlace
  <2>2. cpu[c] \in CpuType
    BY Before
  <2> QED  BY <2>1, <2>2 DEF OnStack
<1>3. /\ n \in CpuType /\ n.ctx = p /\ n.proc = p /\ n.trap = "none" /\ n.noff = 2
      /\ ~n.intr /\ n.intena
  BY <1>2, Pushing, SMTT(60)
<1>4. plock'[p] = c
  BY <1>1, Before DEF TypeOK
<1> HIDE DEF n
<1> QED  BY <1>1, <1>3, <1>4, PlaceStep DEF Places

\* sleep() releases tickslock, with p->lock held.
LEMMA sleep_release_Holds ==
  ASSUME IInv, NEW c \in CPUs, NEW p \in Procs, sleep_release(c, p)
  PROVE  IInv'
<1> DEFINE n == Popped(cpu[c])
<1>1. /\ At(c, p, "sleep_release") /\ pc' = [pc EXCEPT ![p] = "sleeping"]
      /\ cpu' = [cpu EXCEPT ![c] = n]
      /\ UNCHANGED <<state, switch, why, intena, plock, panicked>>
  BY DEF sleep_release, Goto
<1>2. /\ cpu[c] \in CpuType /\ cpu[c].ctx = p /\ cpu[c].proc = p /\ cpu[c].trap = "none"
      /\ cpu[c].noff = 2 /\ cpu[c].intena /\ ~cpu[c].intr /\ plock[p] = c
  <2>1. /\ cpu[c].ctx = p /\ cpu[c].proc = p /\ cpu[c].trap = "none"
        /\ pc[p] = "sleep_release" /\ OnStack(c, p)
    BY <1>1, AtPlace
  <2>2. cpu[c] \in CpuType
    BY Before
  <2> QED  BY <2>1, <2>2 DEF OnStack
<1>3. /\ n \in CpuType /\ n.ctx = p /\ n.proc = p /\ n.trap = "none" /\ n.noff = 1
      /\ ~n.intr /\ n.intena
  BY <1>2, Popping, SMTT(60)
<1> HIDE DEF n
<1> QED  BY <1>1, <1>2, <1>3, PlaceStep DEF Places

\* The process on CPU c calls sched(), with p->lock held and n for its CPU.
LEMMA Leaving ==
  ASSUME IInv, NEW c \in CPUs, NEW p \in Procs, cpu[c].ctx = p, NEW n \in CpuType,
         cpu' = [cpu EXCEPT ![c] = n], n.ctx = p, n.proc = p, n.trap = "none",
         n.noff = 1, ~n.intr,
         NEW st \in {"RUNNABLE", "SLEEPING", "ZOMBIE"}, NEW reason \in {"sleep", "yield", "exit"},
         CallSched(c, p, st, reason), NEW w \in Places, pc' = [pc EXCEPT ![p] = w],
         plock'[p] = c, plock' = plock \/ plock' = [plock EXCEPT ![p] = c],
         reason = "sleep" => w = "relock" /\ n.intena,
         reason = "yield" => w \in {"user", "relock"} /\ ~n.intena,
         reason = "exit" => st = "ZOMBIE",
         UNCHANGED <<intena, panicked>>
  PROVE  IInv'
<1>1. TypeOK
  BY Before
<1>2. /\ cpu' \in [CPUs -> CpuType] /\ cpu'[c] = n
      /\ \A d \in CPUs \ {c} : cpu'[d] = cpu[d]
  BY <1>1, Replaced
<1>3. /\ pc' \in [Procs -> Places] /\ pc'[p] = w
      /\ \A q \in Procs \ {p} : pc'[q] = pc[q]
  BY <1>1 DEF TypeOK
<1>4. /\ plock' \in [Procs -> CPUs \cup {Free}]
      /\ \A q \in Procs \ {p} : plock'[q] = plock[q]
  BY <1>1 DEF TypeOK
<1>5. /\ state' \in [Procs -> {"RUNNABLE", "RUNNING", "SLEEPING", "ZOMBIE"}] /\ state'[p] = st
      /\ switch' \in [Procs -> {"on", "out", "off", "trap"}] /\ switch'[p] = "out"
      /\ why' \in [Procs -> {"fork", "sleep", "yield", "exit"}] /\ why'[p] = reason
      /\ \A q \in Procs \ {p} : state'[q] = state[q] /\ switch'[q] = switch[q] /\ why'[q] = why[q]
  BY <1>1 DEF TypeOK, CallSched
<1>6. TypeOK'
  BY <1>1, <1>2, <1>3, <1>4, <1>5 DEF TypeOK
<1>7. Others(p)
  BY <1>3, <1>4, <1>5 DEF Others
<1>8. Left(p, cpu[c].intena)'
  BY <1>2, <1>3, <1>5 DEF Left
<1>9. InProcess(c, p)'
  BY <1>2, <1>5, <1>8 DEF InProcess
<1>10. ~panicked'
  BY DEF IInv
<1> QED  BY <1>2, <1>5, <1>6, <1>7, <1>9, <1>10, OwnStep

\* sleep() goes to sleep.
LEMMA sleep_Holds ==
  ASSUME IInv, NEW c \in CPUs, NEW p \in Procs, sleep(c, p)
  PROVE  IInv'
<1>1. /\ At(c, p, "sleeping") /\ CallSched(c, p, "SLEEPING", "sleep")
      /\ pc' = [pc EXCEPT ![p] = "relock"] /\ cpu' = cpu
      /\ UNCHANGED <<intena, plock, panicked>>
  BY DEF sleep, Goto
<1>2. /\ cpu[c] \in CpuType /\ cpu[c].ctx = p /\ cpu[c].proc = p /\ cpu[c].trap = "none"
      /\ cpu[c].noff = 1 /\ cpu[c].intena /\ ~cpu[c].intr /\ plock[p] = c
  <2>1. /\ cpu[c].ctx = p /\ cpu[c].proc = p /\ cpu[c].trap = "none"
        /\ pc[p] = "sleeping" /\ OnStack(c, p)
    BY <1>1, AtPlace
  <2>2. cpu[c] \in CpuType
    BY Before
  <2> QED  BY <2>1, <2>2 DEF OnStack
<1>3. cpu' = [cpu EXCEPT ![c] = cpu[c]]
  BY <1>1, Before DEF TypeOK
<1> QED  BY <1>1, <1>2, <1>3, Leaving DEF Places

\* Interrupts are taken in scheduler()'s scan and where a process has no lock.
Interruptible(c) ==
  \/ cpu[c].ctx = Scheduler /\ cpu[c].proc = NoProc
  \/ /\ cpu[c].ctx \in Procs /\ cpu[c].proc = cpu[c].ctx
     /\ switch[cpu[c].ctx] = "on" /\ pc[cpu[c].ctx] \in {"user", "relock"}

\* So a CPU that has interrupts on, or handles one, is there.
LEMMA Interrupts ==
  ASSUME IInv, NEW c \in CPUs, cpu[c].intr \/ cpu[c].trap # "none"
  PROVE  /\ Interruptible(c)
         /\ cpu[c].noff = IF cpu[c].trap = "wakeup" THEN 1 ELSE 0
         /\ cpu[c].trap = "wakeup" => ~cpu[c].intena
<1>1. OnCpu(c) /\ cpu[c].ctx \in Procs \cup {Scheduler}
  BY Before DEF CpuType
<1>2. CASE cpu[c].ctx = Scheduler
  BY <1>1, <1>2 DEF OnCpu, Scanning, Returning, Interruptible
<1>3. CASE cpu[c].ctx \in Procs
  <2>. PICK p \in Procs : p = cpu[c].ctx
    BY <1>3
  <2>1. InProcess(c, p) /\ cpu[c].proc = p /\ switch[p] \in {"on", "out", "off", "trap"}
    BY Runs DEF IInv, TypeOK
  <2>2. switch[p] = "on" /\ OnStack(c, p)
    BY <2>1 DEF InProcess
  <2> QED  BY <2>1, <2>2 DEF OnStack, Interruptible
<1> QED  BY <1>1, <1>2, <1>3

\* What a handler does, and kill(), to the states of processes.
Woken ==
  \A q \in Procs : \/ state'[q] = state[q]
                   \/ state[q] = "SLEEPING" /\ state'[q] = "RUNNABLE" /\ plock[q] = Free

\* An interrupt, a step of its handler, or kill(), leave the interrupted code where
\* it is.
LEMMA HandlerStep ==
  ASSUME IInv, NEW c \in CPUs, Interruptible(c), NEW n \in CpuType,
         cpu' = [cpu EXCEPT ![c] = n], n.ctx = cpu[c].ctx, n.proc = cpu[c].proc,
         n.noff = IF n.trap = "wakeup" THEN 1 ELSE 0,
         n.trap = "wakeup" => ~n.intena, n.trap # "none" => ~n.intr, n.trap = "none" => n.intr,
         state' \in [Procs -> {"RUNNABLE", "RUNNING", "SLEEPING", "ZOMBIE"}], Woken,
         UNCHANGED <<pc, switch, why, intena, plock, panicked>>
  PROVE  IInv'
<1>1. TypeOK
  BY Before
<1>2. /\ cpu' \in [CPUs -> CpuType] /\ cpu'[c] = n
      /\ \A d \in CPUs \ {c} : cpu'[d] = cpu[d]
  BY <1>1, Replaced
<1>3. TypeOK'
  BY <1>1, <1>2 DEF TypeOK
<1>4. CASE cpu[c].ctx = Scheduler /\ cpu[c].proc = NoProc
  <2>1. Local(c, NoProc)
    BY <1>2, <1>4 DEF Local, Others, Woken
  <2>2. OnCpu(c)'
    BY <1>2, <1>4, SchedAssumption DEF OnCpu, Scanning
  <2>3. ~panicked'
    BY DEF IInv
  <2> QED  BY <1>3, <2>1, <2>2, <2>3, Elsewhere
<1>5. CASE /\ cpu[c].ctx \in Procs /\ cpu[c].proc = cpu[c].ctx
           /\ switch[cpu[c].ctx] = "on" /\ pc[cpu[c].ctx] \in {"user", "relock"}
  <2>. PICK p \in Procs : p = cpu[c].ctx
    BY <1>5
  <2>1. state'[p] = "RUNNING"
    <3>1. InProcess(c, p) /\ switch[p] = "on"
      BY <1>5, Runs
    <3>2. state[p] = "RUNNING"
      BY <3>1 DEF InProcess
    <3> QED  BY <3>2 DEF Woken
  <2>2. OnStack(c, p)'
    BY <1>2, <1>5 DEF OnStack
  <2>3. InProcess(c, p)'
    BY <1>5, <2>1, <2>2 DEF InProcess
  <2>4. Others(p)
    BY DEF Others, Woken
  <2>5. switch'[p] # "off" /\ ~panicked'
    BY <1>5 DEF IInv
  <2>6. n.ctx = p /\ n.proc = p /\ cpu[c].ctx = p
    BY <1>5
  <2> QED  BY <1>2, <1>3, <2>3, <2>4, <2>5, <2>6, OwnStep
<1> QED  BY <1>4, <1>5 DEF Interruptible

\* The timer interrupts.
LEMMA interrupt_Holds ==
  ASSUME IInv, NEW c \in CPUs, interrupt(c)
  PROVE  IInv'
<1> DEFINE t == IF c = Cpu0 THEN "clockintr" ELSE "handled"
           n == [cpu[c] EXCEPT !.intr = FALSE, !.trap = t]
<1>1. /\ cpu[c].intr /\ cpu' = [cpu EXCEPT ![c] = n]
      /\ UNCHANGED <<procvars, plock, tickslock, panicked>>
  BY DEF interrupt
<1>2. TypeOK /\ cpu[c] \in CpuType /\ OnCpu(c)
  BY Before
<1>3. Interruptible(c) /\ cpu[c].noff = IF cpu[c].trap = "wakeup" THEN 1 ELSE 0
  BY <1>1, Interrupts
<1>4. cpu[c].trap = "none"
  BY <1>1, <1>2 DEF OnCpu
<1>5. t \in {"clockintr", "handled"}
  OBVIOUS
<1> HIDE DEF t
<1>6. /\ n \in CpuType /\ n.ctx = cpu[c].ctx /\ n.proc = cpu[c].proc /\ n.noff = 0
      /\ ~n.intr /\ n.trap \in {"clockintr", "handled"}
  BY <1>2, <1>3, <1>4, <1>5 DEF CpuType
<1> HIDE DEF n
<1>7. Woken /\ state' \in [Procs -> {"RUNNABLE", "RUNNING", "SLEEPING", "ZOMBIE"}]
  BY <1>1, <1>2 DEF Woken, procvars, TypeOK
<1> QED  BY <1>1, <1>3, <1>6, <1>7, HandlerStep DEF procvars

\* clockintr() acquires tickslock.
LEMMA clockintr_Holds ==
  ASSUME IInv, NEW c \in CPUs, clockintr(c)
  PROVE  IInv'
<1> DEFINE r == Pushed(cpu[c])
           left == Procs \ {cpu[c].proc}
           n == [r EXCEPT !.trap = "wakeup", !.left = left]
<1>1. /\ cpu[c].trap = "clockintr" /\ cpu' = [cpu EXCEPT ![c] = n]
      /\ UNCHANGED <<state, onticks, killed, pc, switch, why, intena, plock, panicked>>
  BY DEF clockintr
<1>2. TypeOK /\ cpu[c] \in CpuType /\ ~cpu[c].intr
  BY <1>1, Before DEF OnCpu
<1>3. Interruptible(c) /\ cpu[c].noff = 0
  BY <1>1, Interrupts
<1>4. /\ r \in CpuType /\ r.ctx = cpu[c].ctx /\ r.proc = cpu[c].proc /\ r.noff = 1
      /\ ~r.intr /\ ~r.intena
  BY <1>2, <1>3, Pushing, SMTT(60)
<1>5. left \in SUBSET Procs
  OBVIOUS
<1> HIDE DEF r, left
<1>6. /\ n \in CpuType /\ n.ctx = r.ctx /\ n.proc = r.proc /\ n.noff = 1
      /\ ~n.intr /\ ~n.intena /\ n.trap = "wakeup"
  BY <1>4, <1>5 DEF CpuType
<1> HIDE DEF n
<1>7. Woken /\ state' \in [Procs -> {"RUNNABLE", "RUNNING", "SLEEPING", "ZOMBIE"}]
  BY <1>1, <1>2 DEF Woken, TypeOK
<1> QED  BY <1>1, <1>3, <1>4, <1>6, <1>7, HandlerStep

\* wakeup() looks at a process.
LEMMA wakeup_Holds ==
  ASSUME IInv, NEW c \in CPUs, NEW q \in Procs, wakeup(c, q)
  PROVE  IInv'
<1> DEFINE left == cpu[c].left \ {q}
           n == [cpu[c] EXCEPT !.left = left]
<1>1. /\ cpu[c].trap = "wakeup" /\ plock[q] = Free
      /\ state' = [state EXCEPT ![q] = IF @ = "SLEEPING" /\ onticks[q] THEN "RUNNABLE" ELSE @]
      /\ cpu' = [cpu EXCEPT ![c] = n]
      /\ UNCHANGED <<onticks, killed, due, pc, switch, why, intena, plock, tickslock, panicked>>
  BY DEF wakeup, CanLock
<1>2. TypeOK /\ cpu[c] \in CpuType /\ ~cpu[c].intr
  BY <1>1, Before DEF OnCpu
<1>3. Interruptible(c) /\ cpu[c].noff = 1 /\ ~cpu[c].intena
  BY <1>1, Interrupts
<1>4. left \in SUBSET Procs
  BY <1>2 DEF CpuType
<1> HIDE DEF left
<1>5. /\ n \in CpuType /\ n.ctx = cpu[c].ctx /\ n.proc = cpu[c].proc /\ n.noff = 1
      /\ ~n.intr /\ ~n.intena /\ n.trap = "wakeup"
  BY <1>1, <1>2, <1>3, <1>4 DEF CpuType
<1> HIDE DEF n
<1>6. Woken /\ state' \in [Procs -> {"RUNNABLE", "RUNNING", "SLEEPING", "ZOMBIE"}]
  BY <1>1, <1>2 DEF Woken, TypeOK
<1> QED  BY <1>1, <1>3, <1>5, <1>6, HandlerStep

\* clockintr() releases tickslock.
LEMMA clock_done_Holds ==
  ASSUME IInv, NEW c \in CPUs, clock_done(c)
  PROVE  IInv'
<1> DEFINE r == Popped(cpu[c])
           n == [r EXCEPT !.trap = "handled"]
<1>1. /\ cpu[c].trap = "wakeup" /\ cpu' = [cpu EXCEPT ![c] = n]
      /\ UNCHANGED <<procvars, plock, panicked>>
  BY DEF clock_done
<1>2. TypeOK /\ cpu[c] \in CpuType
  BY Before
<1>3. Interruptible(c) /\ cpu[c].noff = 1 /\ ~cpu[c].intena
  BY <1>1, Interrupts
<1>4. /\ r \in CpuType /\ r.ctx = cpu[c].ctx /\ r.proc = cpu[c].proc /\ r.noff = 0 /\ ~r.intr
  BY <1>2, <1>3, Popping, SMTT(60)
<1> HIDE DEF r
<1>5. /\ n \in CpuType /\ n.ctx = r.ctx /\ n.proc = r.proc /\ n.noff = 0
      /\ ~n.intr /\ n.trap = "handled"
  BY <1>4 DEF CpuType
<1> HIDE DEF n
<1>6. Woken /\ state' \in [Procs -> {"RUNNABLE", "RUNNING", "SLEEPING", "ZOMBIE"}]
  BY <1>1, <1>2 DEF Woken, procvars, TypeOK
<1> QED  BY <1>1, <1>3, <1>4, <1>5, <1>6, HandlerStep DEF procvars

\* The handler yields for the process, or goes back to the scheduler.
LEMMA yield_Holds ==
  ASSUME IInv, NEW c \in CPUs, yield(c)
  PROVE  IInv'
<1>1. cpu[c].trap = "handled" /\ UNCHANGED <<tickslock, panicked>>
  BY DEF yield
<1>2. TypeOK /\ cpu[c] \in CpuType /\ ~cpu[c].intr
  BY <1>1, Before DEF OnCpu
<1>3. Interruptible(c) /\ cpu[c].noff = 0
  BY <1>1, Interrupts
<1>4. CASE cpu[c].proc = NoProc
  <2> DEFINE n == [cpu[c] EXCEPT !.trap = "none", !.intr = TRUE]
  <2>1. cpu' = [cpu EXCEPT ![c] = n] /\ UNCHANGED <<procvars, plock>>
    BY <1>4 DEF yield
  <2>2. /\ n \in CpuType /\ n.ctx = cpu[c].ctx /\ n.proc = cpu[c].proc /\ n.noff = 0
        /\ n.intr /\ n.trap = "none"
    BY <1>2, <1>3 DEF CpuType
  <2> HIDE DEF n
  <2>3. Woken /\ state' \in [Procs -> {"RUNNABLE", "RUNNING", "SLEEPING", "ZOMBIE"}]
    BY <1>2, <2>1 DEF Woken, procvars, TypeOK
  <2> QED  BY <1>1, <1>3, <2>1, <2>2, <2>3, HandlerStep DEF procvars
<1>5. CASE cpu[c].proc # NoProc
  <2>. PICK p : p = cpu[c].proc
    OBVIOUS
  <2>1. /\ p \in Procs /\ cpu[c].ctx = p /\ pc[p] \in {"user", "relock"}
    BY <1>3, <1>5 DEF Interruptible
  <2> DEFINE r == Pushed(cpu[c])
             n == [r EXCEPT !.trap = "none"]
  <2>2. /\ plock' = [plock EXCEPT ![p] = c] /\ cpu' = [cpu EXCEPT ![c] = n]
        /\ CallSched(c, p, "RUNNABLE", "yield") /\ UNCHANGED <<pc, intena>>
    BY <1>5 DEF yield
  <2>3. r \in CpuType /\ r.ctx = p /\ r.proc = p /\ r.noff = 1 /\ ~r.intr /\ ~r.intena
    BY <1>2, <1>3, <2>1, Pushing, SMTT(60)
  <2> HIDE DEF r
  <2>4. /\ n \in CpuType /\ n.ctx = p /\ n.proc = p /\ n.noff = 1 /\ ~n.intr /\ ~n.intena
        /\ n.trap = "none"
    BY <2>3 DEF CpuType
  <2> HIDE DEF n
  <2>5. PICK w \in {"user", "relock"} : w = pc[p]
    BY <2>1
  <2>6. w \in Places /\ pc' = [pc EXCEPT ![p] = w] /\ plock'[p] = c
    BY <1>2, <2>1, <2>2, <2>5 DEF TypeOK
  <2> QED  BY <1>1, <2>1, <2>2, <2>4, <2>6, Leaving
<1> QED  BY <1>4, <1>5

\* A process kills another.
LEMMA kill_Holds ==
  ASSUME IInv, NEW c \in CPUs, NEW p \in Procs, NEW q \in Procs, kill(c, p, q)
  PROVE  IInv'
<1>1. /\ At(c, p, "user") /\ plock[q] = Free /\ cpu' = cpu
      /\ state' = [state EXCEPT ![q] = KillState(q)]
      /\ UNCHANGED <<pc, switch, why, intena, plock, panicked>>
  BY DEF kill
<1>2. TypeOK /\ cpu[c] \in CpuType
  BY Before
<1>3. /\ cpu[c].ctx = p /\ cpu[c].proc = p /\ cpu[c].trap = "none" /\ cpu[c].intr
      /\ cpu[c].noff = 0
  <2>1. /\ cpu[c].ctx = p /\ cpu[c].proc = p /\ cpu[c].trap = "none"
        /\ pc[p] = "user" /\ OnStack(c, p)
    BY <1>1, AtPlace
  <2>2. cpu[c] \in CpuType
    BY Before
  <2> QED  BY <2>1, <2>2 DEF OnStack
<1>4. Interruptible(c)
  BY <1>3, Interrupts
<1>5. Woken /\ state' \in [Procs -> {"RUNNABLE", "RUNNING", "SLEEPING", "ZOMBIE"}]
  BY <1>1, <1>2 DEF Woken, TypeOK, KillState
<1>6. cpu' = [cpu EXCEPT ![c] = cpu[c]]
  BY <1>1, <1>2 DEF TypeOK
<1> QED  BY <1>1, <1>2, <1>3, <1>4, <1>5, <1>6, HandlerStep

\* A process that was killed exits.
LEMMA exit_Holds ==
  ASSUME IInv, NEW c \in CPUs, NEW p \in Procs, exit(c, p)
  PROVE  IInv'
<1> DEFINE r == Pushed(cpu[c])
           n == [r EXCEPT !.trap = "none"]
<1>1. /\ cpu[c].ctx = p /\ cpu[c].trap \in {"none", "handled"} /\ switch[p] = "on"
      /\ pc[p] = "user" /\ plock' = [plock EXCEPT ![p] = c] /\ cpu' = [cpu EXCEPT ![c] = n]
      /\ CallSched(c, p, "ZOMBIE", "exit") /\ UNCHANGED <<pc, intena, panicked>>
  BY DEF exit
<1>2. TypeOK /\ cpu[c] \in CpuType
  BY Before
<1>3. cpu[c].proc = p /\ cpu[c].noff = 0
  BY <1>1, Runs, SMTT(60) DEF InProcess, OnStack
<1>4. r \in CpuType /\ r.ctx = p /\ r.proc = p /\ r.noff = 1 /\ ~r.intr
  BY <1>1, <1>2, <1>3, Pushing, SMTT(60)
<1> HIDE DEF r
<1>5. n \in CpuType /\ n.ctx = p /\ n.proc = p /\ n.noff = 1 /\ ~n.intr /\ n.trap = "none"
  BY <1>4 DEF CpuType
<1> HIDE DEF n
<1>6. pc' = [pc EXCEPT ![p] = "user"] /\ "user" \in Places /\ plock'[p] = c
  BY <1>1, <1>2 DEF TypeOK, Places
<1> QED  BY <1>1, <1>5, <1>6, Leaving

\* Every step keeps the invariant.
LEMMA NextHolds == IInv /\ [Next]_vars => IInv'
<1> SUFFICES ASSUME IInv, [Next]_vars PROVE IInv'
  OBVIOUS
<1>1. CASE UNCHANGED vars
  <2>1. UNCHANGED <<cpu, state, plock, pc, switch, why, intena, panicked>>
    BY <1>1 DEF vars, procvars
  <2>2. TypeOK' /\ Single' /\ ~panicked'
    BY <2>1 DEF IInv, TypeOK, Single
  <2>3. ASSUME NEW c \in CPUs PROVE OnCpu(c)'
    BY <2>1 DEF IInv, OnCpu, Scanning, Returning, InProcess, OnStack, Left
  <2>4. ASSUME NEW p \in Procs PROVE Rested(p)'
    BY <2>1 DEF IInv, Rested, Left
  <2> QED  BY <2>2, <2>3, <2>4 DEF IInv
<1>2. CASE Next
  <2>1. PICK c \in CPUs :
          \/ loop(c)
          \/ sched_return(c)
          \/ Trap(c)
          \/ \E p \in Procs : \/ dispatch(c, p)
                              \/ Switch(c, p)
                              \/ Code(c, p)
                              \/ sys_sleep(c, p)
                              \/ \E q \in Procs : kill(c, p, q)
    BY <1>2 DEF Next
  <2>2. CASE loop(c) \/ sched_return(c)
    BY <2>2, loop_Holds, sched_return_Holds
  <2>3. CASE Trap(c)
    BY <2>3, interrupt_Holds, clockintr_Holds, clock_done_Holds, yield_Holds, wakeup_Holds
       DEF Trap
  <2>4. ASSUME NEW p \in Procs, Switch(c, p)
        PROVE  IInv'
    BY <2>4, sched_Holds, resume_Holds, trap_return_Holds DEF Switch
  <2>5. ASSUME NEW p \in Procs, Code(c, p)
        PROVE  IInv'
    BY <2>5, take_tickslock_Holds, check_Holds, sleep_lock_Holds, sleep_release_Holds,
       sleep_Holds, Spin_Holds, exit_Holds DEF Code
  <2>6. ASSUME NEW p \in Procs, dispatch(c, p) \/ sys_sleep(c, p)
        PROVE  IInv'
    BY <2>6, dispatch_Holds, Spin_Holds
  <2>7. ASSUME NEW p \in Procs, NEW q \in Procs, kill(c, p, q)
        PROVE  IInv'
    BY <2>7, kill_Holds
  <2> QED  BY <2>1, <2>2, <2>3, <2>4, <2>5, <2>6, <2>7
<1> QED  BY <1>1, <1>2

-----------------------------------------------------------------------------

\* For any number of CPUs and processes: no kernel stack is executed by two CPUs,
\* interrupts are on and off for each thread where it expects it, on whatever CPU it
\* resumes, and none of sched()'s panics is reached.
THEOREM SwitchingSound == Spec => []SwitchesExact
<1>1. IInv => SwitchesExact
  <2> SUFFICES ASSUME IInv PROVE SwitchesExact
    OBVIOUS
  <2>1. ASSUME NEW c \in CPUs, NEW d \in CPUs, cpu[c].ctx = cpu[d].ctx, cpu[c].ctx # Scheduler
        PROVE  c = d
    <3>1. cpu[c].ctx \in Procs
      BY <2>1, Before DEF CpuType
    <3>2. cpu[c].proc = cpu[c].ctx /\ cpu[d].proc = cpu[c].ctx /\ cpu[c].ctx # NoProc
      BY <2>1, <3>1, Runs
    <3> QED  BY <3>2 DEF IInv, Single
  <2>2. ASSUME NEW c \in CPUs, NEW p \in Procs, cpu[c].ctx = p, cpu[c].trap = "none"
        PROVE  /\ switch[p] = "on" /\ pc[p] \in {"user", "relock"} => cpu[c].intr
               /\ switch[p] = "trap" => ~cpu[c].intr
    <3>1. InProcess(c, p)
      BY <2>2, Runs
    <3> QED  BY <2>2, <3>1 DEF InProcess, OnStack
  <2> QED  BY <2>1, <2>2 DEF SwitchesExact, IInv
<1> QED  BY <1>1, InitHolds, NextHolds, PTL DEF Spec

-----------------------------------------------------------------------------
(* No wakeup is lost *)

\* The places of sys_sleep() and sleep() at which tickslock is held.
Critical == {"check", "sleep", "sleep_release"}

\* Whoever is there has it: the clock's handler, or a process in sys_sleep().
TicksHeld ==
  \A c \in CPUs :
    /\ cpu[c].trap = "wakeup" => tickslock = c
    /\ cpu[c].proc \in Procs /\ pc[cpu[c].proc] \in Critical => tickslock = c

Ended == \A p \in Procs : state[p] = "ZOMBIE" => pc[p] = "user"

\* The time of a process on its way into sleep() has not come while it has tickslock.
NotDue == \A p \in Procs : pc[p] \in {"sleep", "sleep_release"} => ~due[p]

\* The clock's handler has still to look at p.
Called(p) == \E c \in CPUs : cpu[c].trap = "wakeup" /\ p \in cpu[c].left

\* If it comes once sleep() has given tickslock up, wakeup() is still to look.
InTime ==
  \A p \in Procs : due[p] /\ (state[p] = "SLEEPING" \/ pc[p] = "sleeping") => Called(p)

OnChannel == \A p \in Procs : state[p] = "SLEEPING" => onticks[p]

ClockType == onticks \in [Procs -> BOOLEAN] /\ due \in [Procs -> BOOLEAN]

LInv == ClockType /\ TicksHeld /\ Ended /\ NotDue /\ InTime /\ OnChannel

\* No wakeup is lost: a process SLEEPING in sys_sleep() sleeps on &ticks, and if its
\* time has come, a clockintr() in progress has still to look at it.
WakeupNotLost ==
  \A p \in Procs : state[p] = "SLEEPING" => onticks[p] /\ (due[p] => Called(p))

\* At first nobody sleeps.
LEMMA InitWakes == Init => LInv
  BY SchedAssumption, SMTT(60)
     DEF Init, IdleCpu, LInv, ClockType, TicksHeld, Critical, Ended, NotDue, InTime, OnChannel

\* One CPU's record is replaced.
LEMMA CpuStep ==
  ASSUME IInv, NEW c \in CPUs, NEW n, cpu' = [cpu EXCEPT ![c] = n]
  PROVE  cpu'[c] = n /\ \A d \in CPUs \ {c} : cpu'[d] = cpu[d]
  BY DEF IInv, TypeOK

\* A process in sys_sleep() or sleep() with interrupts off is on the stack of a CPU.
LEMMA Inside ==
  ASSUME IInv, Ended, NEW p \in Procs, pc[p] \notin {"user", "relock"}
  PROVE  \E c \in CPUs : /\ cpu[c].ctx = p /\ cpu[c].proc = p /\ cpu[c].trap = "none"
                         /\ switch[p] = "on" /\ state[p] = "RUNNING" /\ OnStack(c, p)
<1>1. \A e : ~Left(p, e)
  <2>1. why[p] \in {"fork", "sleep", "yield", "exit"}
    BY DEF IInv, TypeOK
  <2> QED  BY <2>1 DEF Left, Ended
<1>2. switch[p] # "off" /\ switch[p] \in {"on", "out", "off", "trap"}
  BY <1>1 DEF IInv, TypeOK, Rested
<1>3. PICK c \in CPUs : cpu[c].proc = p
  BY <1>2 DEF IInv, Rested
<1>4. OnCpu(c) /\ p # NoProc /\ p # Scheduler
  BY SchedAssumption DEF IInv
<1>5. cpu[c].ctx = p
  BY <1>2, <1>3, <1>4 DEF OnCpu, Returning
<1>6. InProcess(c, p)
  BY <1>5, Runs
<1>7. switch[p] = "on" /\ state[p] = "RUNNING" /\ OnStack(c, p)
  BY <1>1, <1>2, <1>6 DEF InProcess
<1>8. cpu[c].trap = "none"
  BY <1>7 DEF OnStack
<1> QED  BY <1>3, <1>5, <1>7, <1>8

-----------------------------------------------------------------------------
(* Steps that are none of the clock's *)

\* Such a step leaves tickslock, the clock, the places in sys_sleep() and the work of
\* wakeup() alone, and puts nobody to sleep.
QuietCpu(d) ==
  /\ \/ cpu'[d].proc \in {cpu[d].proc, NoProc}
     \/ cpu'[d].proc \in Procs /\ pc[cpu'[d].proc] \notin Critical
  /\ \/ cpu'[d].trap = cpu[d].trap /\ cpu'[d].left = cpu[d].left
     \/ cpu[d].trap # "wakeup" /\ cpu'[d].trap # "wakeup"

QuietProc(p) ==
  \/ state'[p] = state[p] /\ (state[p] = "SLEEPING" => onticks'[p] = onticks[p])
  \/ state'[p] \in {"RUNNABLE", "RUNNING"}
  \/ state'[p] = "ZOMBIE" /\ pc[p] = "user"

\* So all that is said of sleepers stays true.
LEMMA QuietKeeps ==
  ASSUME IInv, LInv, UNCHANGED <<tickslock, due, pc>>, onticks' \in [Procs -> BOOLEAN],
         \A d \in CPUs : QuietCpu(d), \A p \in Procs : QuietProc(p)
  PROVE  LInv'
<1>1. TicksHeld'
  BY SchedAssumption DEF LInv, TicksHeld, QuietCpu
<1>2. Ended' /\ OnChannel'
  BY DEF LInv, Ended, OnChannel, QuietProc
<1>3. NotDue' /\ ClockType'
  BY DEF LInv, NotDue, ClockType
<1>4. \A p \in Procs : Called(p) => Called(p)'
  BY DEF Called, QuietCpu
<1>5. InTime'
  BY <1>4 DEF LInv, InTime, QuietProc
<1> QED  BY <1>1, <1>2, <1>3, <1>5 DEF LInv

\* The form most of them have: one CPU's record changes.
LEMMA QuietStep ==
  ASSUME IInv, LInv, UNCHANGED <<tickslock, due, pc>>, onticks' \in [Procs -> BOOLEAN],
         NEW c \in CPUs, NEW n, cpu' = [cpu EXCEPT ![c] = n],
         \/ n.proc \in {cpu[c].proc, NoProc}
         \/ n.proc \in Procs /\ pc[n.proc] \notin Critical,
         \/ n.trap = cpu[c].trap /\ n.left = cpu[c].left
         \/ cpu[c].trap # "wakeup" /\ n.trap # "wakeup",
         \A p \in Procs : QuietProc(p)
  PROVE  LInv'
<1>1. cpu'[c] = n /\ \A d \in CPUs \ {c} : cpu'[d] = cpu[d]
  BY CpuStep
<1>2. \A d \in CPUs : QuietCpu(d)
  BY <1>1 DEF QuietCpu
<1> QED  BY <1>2, QuietKeeps

\* scheduler() turns interrupts on, and takes processes.
LEMMA Scheduler_Wakes ==
  ASSUME IInv, LInv, NEW c \in CPUs,
         loop(c) \/ sched_return(c) \/ \E p \in Procs : dispatch(c, p)
  PROVE  LInv'
<1>1. cpu[c] \in CpuType
  BY Before
<1>2. CASE loop(c)
  <2> DEFINE n == [cpu[c] EXCEPT !.intr = TRUE]
  <2>1. cpu' = [cpu EXCEPT ![c] = n] /\ UNCHANGED <<procvars, tickslock>>
    BY <1>2 DEF loop
  <2>2. n.proc = cpu[c].proc /\ n.trap = cpu[c].trap /\ n.left = cpu[c].left
    BY <1>1 DEF CpuType
  <2> HIDE DEF n
  <2>3. /\ UNCHANGED <<tickslock, due, pc>> /\ onticks' \in [Procs -> BOOLEAN]
        /\ \A p \in Procs : QuietProc(p)
    BY <2>1 DEF procvars, QuietProc, LInv, ClockType
  <2> QED  BY <2>1, <2>2, <2>3, QuietStep
<1>3. CASE sched_return(c)
  <2> DEFINE r == Popped(cpu[c])
             n == [r EXCEPT !.proc = NoProc]
  <2>1. cpu' = [cpu EXCEPT ![c] = n] /\ UNCHANGED <<procvars, tickslock>>
    BY <1>3 DEF sched_return
  <2>2. r \in CpuType /\ r.trap = cpu[c].trap /\ r.left = cpu[c].left
    BY <1>1, Popping
  <2> HIDE DEF r
  <2>3. n.proc = NoProc /\ n.trap = r.trap /\ n.left = r.left
    BY <2>2 DEF CpuType
  <2> HIDE DEF n
  <2>4. /\ UNCHANGED <<tickslock, due, pc>> /\ onticks' \in [Procs -> BOOLEAN]
        /\ \A p \in Procs : QuietProc(p)
    BY <2>1 DEF procvars, QuietProc, LInv, ClockType
  <2> QED  BY <2>1, <2>2, <2>3, <2>4, QuietStep
<1>4. ASSUME NEW p \in Procs, dispatch(c, p)
      PROVE  LInv'
  <2> DEFINE r == Pushed(cpu[c])
             n == [r EXCEPT !.proc = p, !.ctx = p]
  <2>1. /\ cpu' = [cpu EXCEPT ![c] = n] /\ state' = [state EXCEPT ![p] = "RUNNING"]
        /\ state[p] = "RUNNABLE"
        /\ UNCHANGED <<onticks, due, pc, tickslock>>
    BY <1>4 DEF dispatch
  <2>2. r \in CpuType /\ r.trap = cpu[c].trap /\ r.left = cpu[c].left
    BY <1>1, Pushing
  <2> HIDE DEF r
  <2>3. n.proc = p /\ n.trap = r.trap /\ n.left = r.left
    BY <2>2, SchedAssumption DEF CpuType
  <2> HIDE DEF n
  <2>4. pc[p] \notin Critical
    BY <2>1, Inside DEF LInv, Critical
  <2>5. onticks' \in [Procs -> BOOLEAN] /\ \A q \in Procs : QuietProc(q)
    BY <2>1 DEF IInv, TypeOK, QuietProc, LInv, ClockType
  <2> QED  BY <2>1, <2>2, <2>3, <2>4, <2>5, QuietStep
<1> QED  BY <1>2, <1>3, <1>4

\* sched(), its return, and the return from a trap.
LEMMA Switch_Wakes ==
  ASSUME IInv, LInv, NEW c \in CPUs, NEW p \in Procs, Switch(c, p)
  PROVE  LInv'
<1>1. cpu[c] \in CpuType
  BY Before
<1>2. CASE sched(c, p)
  <2>1. CASE SchedPanics(c, p)
    <3>1. UNCHANGED <<cpu, procvars, tickslock>>
      BY <1>2, <2>1 DEF sched
    <3>2. /\ UNCHANGED <<tickslock, due, pc>> /\ onticks' \in [Procs -> BOOLEAN]
          /\ \A q \in Procs : QuietProc(q)
      BY <3>1 DEF procvars, QuietProc, LInv, ClockType
    <3>3. \A d \in CPUs : QuietCpu(d)
      BY <3>1 DEF QuietCpu
    <3> QED  BY <3>2, <3>3, QuietKeeps
  <2>2. CASE ~SchedPanics(c, p)
    <3> DEFINE n == [cpu[c] EXCEPT !.ctx = Scheduler]
    <3>1. cpu' = [cpu EXCEPT ![c] = n] /\ UNCHANGED <<state, onticks, due, pc, tickslock>>
      BY <1>2, <2>2 DEF sched
    <3>2. n.proc = cpu[c].proc /\ n.trap = cpu[c].trap /\ n.left = cpu[c].left
      BY <1>1 DEF CpuType
    <3> HIDE DEF n
    <3>3. onticks' \in [Procs -> BOOLEAN] /\ \A q \in Procs : QuietProc(q)
      BY <3>1 DEF QuietProc, LInv, ClockType
    <3> QED  BY <3>1, <3>2, <3>3, QuietStep
  <2> QED  BY <2>1, <2>2
<1>3. CASE resume(c, p)
  <2> DEFINE b == [cpu[c] EXCEPT !.intena = IntenaBack(c, p)]
             r == Popped(b)
             n == IF why[p] = "fork" THEN [r EXCEPT !.intr = TRUE] ELSE r
  <2>1. /\ cpu' = [cpu EXCEPT ![c] = n] /\ UNCHANGED <<state, due, pc, tickslock>>
        /\ onticks' = [onticks EXCEPT ![p] = @ /\ why[p] # "sleep"]
        /\ cpu[c].ctx = p /\ switch[p] = "off"
    BY <1>3 DEF resume
  <2>2. IntenaBack(c, p) \in BOOLEAN
    BY <1>1 DEF IntenaBack, IInv, TypeOK, CpuType
  <2>3. b \in CpuType /\ b.proc = cpu[c].proc /\ b.trap = cpu[c].trap /\ b.left = cpu[c].left
    BY <1>1, <2>2 DEF CpuType
  <2> HIDE DEF b
  <2>4. r \in CpuType /\ r.proc = b.proc /\ r.trap = b.trap /\ r.left = b.left
    BY <2>3, Popping
  <2> HIDE DEF r
  <2>5. n.proc = r.proc /\ n.trap = r.trap /\ n.left = r.left
    BY <2>4 DEF CpuType
  <2> HIDE DEF n
  <2>6. state[p] = "RUNNING"
    BY <2>1, Runs DEF InProcess
  <2>7. onticks' \in [Procs -> BOOLEAN] /\ \A q \in Procs : QuietProc(q)
    BY <2>1, <2>6 DEF QuietProc, LInv, ClockType
  <2> QED  BY <2>1, <2>3, <2>4, <2>5, <2>7, QuietStep
<1>4. CASE trap_return(c, p)
  <2> DEFINE n == [cpu[c] EXCEPT !.intr = TRUE]
  <2>1. cpu' = [cpu EXCEPT ![c] = n] /\ UNCHANGED <<state, onticks, due, pc, tickslock>>
    BY <1>4 DEF trap_return
  <2>2. n.proc = cpu[c].proc /\ n.trap = cpu[c].trap /\ n.left = cpu[c].left
    BY <1>1 DEF CpuType
  <2> HIDE DEF n
  <2>3. onticks' \in [Procs -> BOOLEAN] /\ \A q \in Procs : QuietProc(q)
    BY <2>1 DEF QuietProc, LInv, ClockType
  <2> QED  BY <2>1, <2>2, <2>3, QuietStep
<1> QED  BY <1>2, <1>3, <1>4 DEF Switch

\* The timer interrupts a CPU, and the handler yields or goes back.
LEMMA Handler_Wakes ==
  ASSUME IInv, LInv, NEW c \in CPUs, interrupt(c) \/ yield(c)
  PROVE  LInv'
<1>1. cpu[c] \in CpuType /\ OnCpu(c)
  BY Before
<1>2. CASE interrupt(c)
  <2> DEFINE t == IF c = Cpu0 THEN "clockintr" ELSE "handled"
             n == [cpu[c] EXCEPT !.intr = FALSE, !.trap = t]
  <2>1. cpu[c].intr /\ cpu' = [cpu EXCEPT ![c] = n] /\ UNCHANGED <<procvars, tickslock>>
    BY <1>2 DEF interrupt
  <2>2. cpu[c].trap # "wakeup"
    BY <1>1, <2>1 DEF OnCpu
  <2>3. n.proc = cpu[c].proc /\ n.trap # "wakeup"
    BY <1>1 DEF CpuType
  <2> HIDE DEF n
  <2>4. /\ UNCHANGED <<tickslock, due, pc>> /\ onticks' \in [Procs -> BOOLEAN]
        /\ \A p \in Procs : QuietProc(p)
    BY <2>1 DEF procvars, QuietProc, LInv, ClockType
  <2> QED  BY <2>1, <2>2, <2>3, <2>4, QuietStep
<1>3. CASE yield(c) /\ cpu[c].proc = NoProc
  <2> DEFINE n == [cpu[c] EXCEPT !.trap = "none", !.intr = TRUE]
  <2>1. /\ cpu[c].trap = "handled" /\ cpu' = [cpu EXCEPT ![c] = n]
        /\ UNCHANGED <<procvars, tickslock>>
    BY <1>3 DEF yield
  <2>2. n.proc = cpu[c].proc /\ n.trap = "none"
    BY <1>1 DEF CpuType
  <2> HIDE DEF n
  <2>3. /\ UNCHANGED <<tickslock, due, pc>> /\ onticks' \in [Procs -> BOOLEAN]
        /\ \A p \in Procs : QuietProc(p)
    BY <2>1 DEF procvars, QuietProc, LInv, ClockType
  <2> QED  BY <2>1, <2>2, <2>3, QuietStep
<1>4. CASE yield(c) /\ cpu[c].proc # NoProc
  <2> DEFINE r == Pushed(cpu[c])
             n == [r EXCEPT !.trap = "none"]
  <2>1. /\ cpu[c].trap = "handled" /\ cpu' = [cpu EXCEPT ![c] = n]
        /\ state' = [state EXCEPT ![cpu[c].proc] = "RUNNABLE"]
        /\ UNCHANGED <<onticks, due, pc, tickslock>>
    BY <1>4 DEF yield, CallSched
  <2>2. r \in CpuType /\ r.proc = cpu[c].proc
    BY <1>1, Pushing
  <2> HIDE DEF r
  <2>3. n.proc = r.proc /\ n.trap = "none"
    BY <2>2 DEF CpuType
  <2> HIDE DEF n
  <2>4. onticks' \in [Procs -> BOOLEAN] /\ \A q \in Procs : QuietProc(q)
    BY <2>1 DEF IInv, TypeOK, QuietProc, LInv, ClockType
  <2> QED  BY <2>1, <2>2, <2>3, <2>4, QuietStep
<1> QED  BY <1>2, <1>3, <1>4

\* A process kills another, or exits.
LEMMA Killed_Wakes ==
  ASSUME IInv, LInv, NEW c \in CPUs, NEW p \in Procs,
         exit(c, p) \/ \E q \in Procs : kill(c, p, q)
  PROVE  LInv'
<1>1. CASE exit(c, p)
  <2> DEFINE r == Pushed(cpu[c])
             n == [r EXCEPT !.trap = "none"]
  <2>1. /\ cpu[c].trap # "wakeup" /\ cpu' = [cpu EXCEPT ![c] = n] /\ pc[p] = "user"
        /\ state' = [state EXCEPT ![p] = "ZOMBIE"]
        /\ UNCHANGED <<onticks, due, pc, tickslock>>
    BY <1>1 DEF exit, CallSched
  <2>2. r \in CpuType /\ r.proc = cpu[c].proc
    BY Before, Pushing
  <2> HIDE DEF r
  <2>3. n.proc = r.proc /\ n.trap = "none"
    BY <2>2 DEF CpuType
  <2> HIDE DEF n
  <2>4. onticks' \in [Procs -> BOOLEAN] /\ \A q \in Procs : QuietProc(q)
    BY <2>1 DEF IInv, TypeOK, QuietProc, LInv, ClockType
  <2> QED  BY <2>1, <2>2, <2>3, <2>4, QuietStep
<1>2. ASSUME NEW q \in Procs, kill(c, p, q)
      PROVE  LInv'
  <2>1. /\ state' = [state EXCEPT ![q] = KillState(q)]
        /\ UNCHANGED <<cpu, onticks, due, pc, tickslock>>
    BY <1>2 DEF kill
  <2>2. onticks' \in [Procs -> BOOLEAN] /\ \A k \in Procs : QuietProc(k)
    BY <2>1 DEF IInv, TypeOK, QuietProc, KillState, LInv, ClockType
  <2>3. \A d \in CPUs : QuietCpu(d)
    BY <2>1 DEF QuietCpu
  <2> QED  BY <2>1, <2>2, <2>3, QuietKeeps
<1> QED  BY <1>1, <1>2

-----------------------------------------------------------------------------
(* The clock and sys_sleep() *)

\* A process moves on in sys_sleep() or sleep(), with n for its CPU; what it may find
\* behind it and before it is left to the step.
LEMMA SleepStep ==
  ASSUME IInv, LInv, NEW c \in CPUs, NEW p \in Procs, cpu[c].proc = p, NEW n,
         cpu' = [cpu EXCEPT ![c] = n], n.proc = p, n.trap = "none", cpu[c].trap = "none",
         NEW w \in Places, pc' = [pc EXCEPT ![p] = w],
         \/ state[p] = "RUNNING" /\ state' = state
         \/ w = "relock" /\ state' = [state EXCEPT ![p] = "SLEEPING"],
         onticks' = onticks \/ onticks' = [onticks EXCEPT ![p] = TRUE],
         state'[p] = "SLEEPING" => onticks'[p],
         due' = due \/ due' = [due EXCEPT ![p] = FALSE],
         w \in {"sleep", "sleep_release"} => ~due'[p],
         w \in {"relock", "sleeping"} /\ due'[p] => Called(p),
         \/ tickslock' = tickslock /\ (w \in Critical => tickslock = c)
         \/ tickslock = Free /\ tickslock' = c
         \/ tickslock = c /\ tickslock' = Free /\ w \notin Critical
  PROVE  LInv'
<1>1. cpu'[c] = n /\ \A d \in CPUs \ {c} : cpu'[d] = cpu[d]
  BY CpuStep
<1>2. /\ pc'[p] = w /\ \A q \in Procs \ {p} : pc'[q] = pc[q]
      /\ \A q \in Procs \ {p} : state'[q] = state[q]
      /\ state'[p] \in {"RUNNING", "SLEEPING"} /\ (state'[p] = "SLEEPING" => w = "relock")
  BY SMTT(60) DEF IInv, TypeOK
<1>3. ClockType' /\ \A q \in Procs \ {p} : due'[q] = due[q] /\ onticks'[q] = onticks[q]
  BY DEF LInv, ClockType
<1>4. TicksHeld'
  <2> SUFFICES ASSUME NEW d \in CPUs
               PROVE  /\ cpu'[d].trap = "wakeup" => tickslock' = d
                      /\ cpu'[d].proc \in Procs /\ pc'[cpu'[d].proc] \in Critical => tickslock' = d
    BY DEF TicksHeld
  <2>1. CASE d = c
    BY <1>1, <1>2, <2>1, SMTT(60)
  <2>2. CASE d # c
    <3>1. cpu'[d] = cpu[d] /\ cpu[d].proc # p /\ d # Free
      BY <1>1, <2>2, SchedAssumption, SMTT(60) DEF IInv, Single
    <3>2. /\ cpu[d].trap = "wakeup" => tickslock = d
          /\ cpu[d].proc \in Procs /\ pc[cpu[d].proc] \in Critical => tickslock = d
      BY DEF LInv, TicksHeld
    <3>3. tickslock = d => tickslock' = d
      BY <2>2, <3>1
    <3> QED  BY <1>2, <3>1, <3>2, <3>3, SMTT(60)
  <2> QED  BY <2>1, <2>2
<1>5. Ended' /\ NotDue' /\ OnChannel'
  BY <1>2, <1>3, SMTT(60) DEF LInv, Ended, NotDue, OnChannel
<1>6. \A q \in Procs : Called(q) => Called(q)'
  BY <1>1 DEF Called
<1>7. InTime'
  BY <1>2, <1>3, <1>6 DEF LInv, InTime
<1> QED  BY <1>3, <1>4, <1>5, <1>7 DEF LInv

\* The steps of sys_sleep() and sleep().
LEMMA Code_Wakes ==
  ASSUME IInv, LInv, NEW c \in CPUs, NEW p \in Procs, Code(c, p) \/ sys_sleep(c, p)
  PROVE  LInv'
<1>0. cpu[c] \in CpuType /\ c # Free
  BY Before
<1>1. CASE exit(c, p)
  BY <1>1, Killed_Wakes
<1>2. ASSUME NEW v, NEW w \in {"spin", "respin"}, SpinForTicks(c, p, v, w)
      PROVE  LInv'
  <2> DEFINE n == Pushed(cpu[c])
  <2>1. /\ At(c, p, v) /\ pc' = [pc EXCEPT ![p] = w] /\ cpu' = [cpu EXCEPT ![c] = n]
        /\ UNCHANGED <<state, onticks, due, tickslock>>
    BY <1>2 DEF SpinForTicks, Goto
  <2>2. cpu[c].proc = p /\ cpu[c].trap = "none" /\ state[p] = "RUNNING"
    BY <2>1, AtPlace
  <2>3. n.proc = p /\ n.trap = "none"
    BY <1>0, <2>2, Pushing
  <2> HIDE DEF n
  <2> QED  BY <2>1, <2>2, <2>3, SleepStep DEF Places, Critical
<1>3. CASE take_tickslock(c, p)
  <2>1. PICK v : At(c, p, v)
    BY <1>3 DEF take_tickslock
  <2>2. /\ pc' = [pc EXCEPT ![p] = "check"] /\ UNCHANGED <<cpu, state, onticks>>
        /\ due' = due \/ due' = [due EXCEPT ![p] = FALSE]
        /\ tickslock = Free /\ tickslock' = c
    BY <1>3 DEF take_tickslock, Goto
  <2>3. cpu[c].proc = p /\ cpu[c].trap = "none" /\ state[p] = "RUNNING"
    BY <2>1, AtPlace
  <2>4. cpu' = [cpu EXCEPT ![c] = cpu[c]]
    BY <2>2 DEF IInv, TypeOK
  <2> QED  BY <2>2, <2>3, <2>4, SleepStep DEF Places, Critical
<1>4. CASE check(c, p)
  <2>1. At(c, p, "check") /\ UNCHANGED <<state, onticks, due>>
    BY <1>4 DEF check
  <2>2. cpu[c].proc = p /\ cpu[c].trap = "none" /\ state[p] = "RUNNING" /\ pc[p] = "check"
    BY <2>1, AtPlace
  <2>3. tickslock = c
    BY <2>2 DEF LInv, TicksHeld, Critical
  <2>4. CASE ~due[p] /\ ~killed[p]
    <3>1. pc' = [pc EXCEPT ![p] = "sleep"] /\ UNCHANGED <<cpu, tickslock>>
      BY <1>4, <2>4 DEF check, Goto
    <3>2. cpu' = [cpu EXCEPT ![c] = cpu[c]]
      BY <3>1 DEF IInv, TypeOK
    <3> QED  BY <2>1, <2>2, <2>3, <2>4, <3>1, <3>2, SleepStep DEF Places, Critical
  <2>5. CASE ~(~due[p] /\ ~killed[p])
    <3> DEFINE n == Popped(cpu[c])
    <3>1. pc' = [pc EXCEPT ![p] = "user"] /\ cpu' = [cpu EXCEPT ![c] = n] /\ tickslock' = Free
      BY <1>4, <2>5 DEF check, Goto
    <3>2. n.proc = p /\ n.trap = "none"
      BY <1>0, <2>2, Popping
    <3> HIDE DEF n
    <3> QED  BY <2>1, <2>2, <2>3, <3>1, <3>2, SleepStep DEF Places, Critical
  <2> QED  BY <2>4, <2>5
<1>5. CASE sleep_lock(c, p)
  <2> DEFINE n == Pushed(cpu[c])
  <2>1. /\ At(c, p, "sleep") /\ pc' = [pc EXCEPT ![p] = "sleep_release"]
        /\ cpu' = [cpu EXCEPT ![c] = n] /\ UNCHANGED <<state, onticks, due, tickslock>>
    BY <1>5 DEF sleep_lock, Goto
  <2>2. cpu[c].proc = p /\ cpu[c].trap = "none" /\ state[p] = "RUNNING" /\ pc[p] = "sleep"
    BY <2>1, AtPlace
  <2>3. n.proc = p /\ n.trap = "none"
    BY <1>0, <2>2, Pushing
  <2> HIDE DEF n
  <2>4. tickslock = c /\ ~due[p]
    BY <2>2 DEF LInv, TicksHeld, NotDue, Critical
  <2> QED  BY <2>1, <2>2, <2>3, <2>4, SleepStep DEF Places, Critical
<1>6. CASE sleep_release(c, p)
  <2> DEFINE n == Popped(cpu[c])
  <2>1. /\ At(c, p, "sleep_release") /\ pc' = [pc EXCEPT ![p] = "sleeping"]
        /\ cpu' = [cpu EXCEPT ![c] = n] /\ tickslock' = Free
        /\ UNCHANGED <<state, onticks, due>>
    BY <1>6 DEF sleep_release, Goto
  <2>2. /\ cpu[c].proc = p /\ cpu[c].trap = "none" /\ state[p] = "RUNNING"
        /\ pc[p] = "sleep_release"
    BY <2>1, AtPlace
  <2>3. n.proc = p /\ n.trap = "none"
    BY <1>0, <2>2, Popping
  <2> HIDE DEF n
  <2>4. tickslock = c /\ ~due[p]
    BY <2>2 DEF LInv, TicksHeld, NotDue, Critical
  <2> QED  BY <2>1, <2>2, <2>3, <2>4, SleepStep DEF Places, Critical
<1>7. CASE sleep(c, p)
  <2>1. /\ At(c, p, "sleeping") /\ pc' = [pc EXCEPT ![p] = "relock"]
        /\ state' = [state EXCEPT ![p] = "SLEEPING"] /\ onticks' = [onticks EXCEPT ![p] = TRUE]
        /\ UNCHANGED <<cpu, due, tickslock>>
    BY <1>7 DEF sleep, Goto, CallSched
  <2>2. cpu[c].proc = p /\ cpu[c].trap = "none" /\ pc[p] = "sleeping"
    BY <2>1, AtPlace
  <2>3. cpu' = [cpu EXCEPT ![c] = cpu[c]] /\ onticks'[p]
    BY <2>1 DEF IInv, TypeOK, LInv, ClockType
  <2>4. due'[p] => Called(p)
    BY <2>1, <2>2 DEF LInv, InTime
  <2> QED  BY <2>1, <2>2, <2>3, <2>4, SleepStep DEF Places, Critical
<1> QED  BY <1>1, <1>2, <1>3, <1>4, <1>5, <1>6, <1>7 DEF Code, sys_sleep, reacquire

\* clockintr() takes tickslock: nobody is between its test and giving tickslock up,
\* and everybody whose time comes is to be looked at.
LEMMA clockintr_Wakes ==
  ASSUME IInv, LInv, NEW c \in CPUs, clockintr(c)
  PROVE  LInv'
<1> DEFINE r == Pushed(cpu[c])
           left == Procs \ {cpu[c].proc}
           n == [r EXCEPT !.trap = "wakeup", !.left = left]
<1>1. /\ cpu[c].trap = "clockintr" /\ cpu' = [cpu EXCEPT ![c] = n]
      /\ tickslock = Free /\ tickslock' = c
      /\ due' = [p \in Procs |-> p \notin Forever]
      /\ UNCHANGED <<state, onticks, pc>>
  BY DEF clockintr
<1>2. cpu[c] \in CpuType /\ Interruptible(c)
  BY <1>1, Before, Interrupts
<1>3. r \in CpuType /\ r.proc = cpu[c].proc
  BY <1>2, Pushing
<1> HIDE DEF r
<1>4. n.proc = cpu[c].proc /\ n.trap = "wakeup" /\ n.left = left
  BY <1>3 DEF CpuType
<1> HIDE DEF n
<1>5. cpu'[c] = n /\ \A d \in CPUs \ {c} : cpu'[d] = cpu[d]
  BY <1>1, CpuStep
<1>6. \A d \in CPUs : /\ cpu[d].trap # "wakeup"
                      /\ cpu[d].proc \in Procs => pc[cpu[d].proc] \notin Critical
  BY <1>1, SchedAssumption DEF LInv, TicksHeld
<1>7. \A p \in Procs : pc[p] \notin Critical
  <2> SUFFICES ASSUME NEW p \in Procs, pc[p] \in Critical PROVE FALSE
    OBVIOUS
  <2>1. PICK d \in CPUs : cpu[d].proc = p
    BY Inside DEF LInv, Critical
  <2> QED  BY <1>6, <2>1
<1>8. TicksHeld'
  BY <1>1, <1>4, <1>5, <1>6, <1>7 DEF TicksHeld
<1>9. ClockType' /\ Ended' /\ OnChannel' /\ NotDue'
  BY <1>1, <1>7 DEF LInv, ClockType, Ended, OnChannel, NotDue, Critical
<1>10. ASSUME NEW p \in Procs, state[p] = "SLEEPING" \/ pc[p] = "sleeping"
       PROVE  p # cpu[c].proc
  <2> SUFFICES ASSUME p = cpu[c].proc PROVE FALSE
    OBVIOUS
  <2>1. cpu[c].ctx = p /\ switch[p] = "on" /\ pc[p] \in {"user", "relock"}
    BY <1>2, SchedAssumption DEF Interruptible
  <2>2. state[p] = "RUNNING"
    BY <2>1, Runs DEF InProcess
  <2> QED  BY <1>10, <2>1, <2>2
<1>11. InTime'
  BY <1>1, <1>4, <1>5, <1>10 DEF InTime, Called
<1> QED  BY <1>8, <1>9, <1>11 DEF LInv

\* wakeup() looks at q with q's p->lock: q sleeps and is woken, or is not on its way
\* into sleep(), for there it has the lock.
LEMMA wakeup_Wakes ==
  ASSUME IInv, LInv, NEW c \in CPUs, NEW q \in Procs, wakeup(c, q)
  PROVE  LInv'
<1> DEFINE left == cpu[c].left \ {q}
           n == [cpu[c] EXCEPT !.left = left]
<1>1. /\ cpu[c].trap = "wakeup" /\ plock[q] = Free
      /\ state' = [state EXCEPT ![q] = IF @ = "SLEEPING" /\ onticks[q] THEN "RUNNABLE" ELSE @]
      /\ cpu' = [cpu EXCEPT ![c] = n]
      /\ UNCHANGED <<onticks, due, pc, tickslock>>
  BY DEF wakeup, CanLock
<1>2. cpu[c] \in CpuType
  BY Before
<1>3. n.proc = cpu[c].proc /\ n.trap = "wakeup" /\ n.left = left
  BY <1>1, <1>2 DEF CpuType
<1> HIDE DEF n
<1>4. cpu'[c] = n /\ \A d \in CPUs \ {c} : cpu'[d] = cpu[d]
  BY <1>1, CpuStep
<1>5. pc[q] # "sleeping"
  <2> SUFFICES ASSUME pc[q] = "sleeping" PROVE FALSE
    OBVIOUS
  <2>1. PICK d \in CPUs : OnStack(d, q)
    BY Inside DEF LInv
  <2> QED  BY <1>1, <2>1, SchedAssumption DEF OnStack
<1>6. /\ \A p \in Procs \ {q} : state'[p] = state[p]
      /\ state'[q] # "SLEEPING" /\ (state'[q] = "ZOMBIE" => state[q] = "ZOMBIE")
  BY <1>1 DEF IInv, TypeOK, LInv, OnChannel
<1>7. TicksHeld'
  BY <1>1, <1>3, <1>4 DEF LInv, TicksHeld
<1>8. ClockType' /\ Ended' /\ OnChannel' /\ NotDue'
  BY <1>1, <1>6 DEF LInv, ClockType, Ended, OnChannel, NotDue
<1>9. \A p \in Procs \ {q} : Called(p) => Called(p)'
  BY <1>1, <1>3, <1>4 DEF Called
<1>10. InTime'
  BY <1>1, <1>5, <1>6, <1>9 DEF LInv, InTime
<1> QED  BY <1>7, <1>8, <1>10 DEF LInv

\* clockintr() releases tickslock when it has looked at everybody.
LEMMA clock_done_Wakes ==
  ASSUME IInv, LInv, NEW c \in CPUs, clock_done(c)
  PROVE  LInv'
<1> DEFINE r == Popped(cpu[c])
           n == [r EXCEPT !.trap = "handled"]
<1>1. /\ cpu[c].trap = "wakeup" /\ cpu[c].left = {} /\ cpu' = [cpu EXCEPT ![c] = n]
      /\ tickslock' = Free /\ UNCHANGED procvars
  BY DEF clock_done
<1>2. cpu[c] \in CpuType
  BY Before
<1>3. r \in CpuType /\ r.proc = cpu[c].proc
  BY <1>2, Popping
<1> HIDE DEF r
<1>4. n.proc = cpu[c].proc /\ n.trap = "handled"
  BY <1>3 DEF CpuType
<1> HIDE DEF n
<1>5. cpu'[c] = n /\ \A d \in CPUs \ {c} : cpu'[d] = cpu[d]
  BY <1>1, CpuStep
<1>6. tickslock = c
  BY <1>1 DEF LInv, TicksHeld
<1>7. cpu[c].proc \in Procs => pc[cpu[c].proc] \notin Critical
  <2>1. Interruptible(c)
    BY <1>1, Interrupts
  <2> QED  BY <2>1, SchedAssumption DEF Interruptible, Critical
<1>8. TicksHeld'
  BY <1>1, <1>4, <1>5, <1>6, <1>7 DEF LInv, TicksHeld, procvars
<1>9. ClockType' /\ Ended' /\ OnChannel' /\ NotDue'
  BY <1>1 DEF LInv, ClockType, Ended, OnChannel, NotDue, procvars
<1>10. \A p \in Procs : Called(p) => Called(p)'
  BY <1>1, <1>5 DEF Called
<1>11. InTime'
  BY <1>1, <1>10 DEF LInv, InTime, procvars
<1> QED  BY <1>8, <1>9, <1>11 DEF LInv

\* Every step keeps what there is to know of sleepers.
LEMMA NextWakes == IInv /\ LInv /\ [Next]_vars => LInv'
<1> SUFFICES ASSUME IInv, LInv, [Next]_vars PROVE LInv'
  OBVIOUS
<1>1. CASE UNCHANGED vars
  <2>1. UNCHANGED <<cpu, state, onticks, due, pc, tickslock>>
    BY <1>1 DEF vars, procvars
  <2>2. onticks' \in [Procs -> BOOLEAN] /\ \A p \in Procs : QuietProc(p)
    BY <2>1 DEF QuietProc, LInv, ClockType
  <2>3. \A d \in CPUs : QuietCpu(d)
    BY <2>1 DEF QuietCpu
  <2> QED  BY <2>1, <2>2, <2>3, QuietKeeps
<1>2. CASE Next
  <2>1. PICK c \in CPUs :
          \/ loop(c)
          \/ sched_return(c)
          \/ Trap(c)
          \/ \E p \in Procs : \/ dispatch(c, p)
                              \/ Switch(c, p)
                              \/ Code(c, p)
                              \/ sys_sleep(c, p)
                              \/ \E q \in Procs : kill(c, p, q)
    BY <1>2 DEF Next
  <2>2. CASE loop(c) \/ sched_return(c) \/ \E p \in Procs : dispatch(c, p)
    BY <2>2, Scheduler_Wakes
  <2>3. CASE Trap(c)
    BY <2>3, Handler_Wakes, clockintr_Wakes, clock_done_Wakes, wakeup_Wakes DEF Trap
  <2>4. ASSUME NEW p \in Procs,
               Switch(c, p) \/ Code(c, p) \/ sys_sleep(c, p) \/ \E q \in Procs : kill(c, p, q)
        PROVE  LInv'
    BY <2>4, Switch_Wakes, Code_Wakes, Killed_Wakes
  <2> QED  BY <2>1, <2>2, <2>3, <2>4
<1> QED  BY <1>1, <1>2

\* sleep() loses no wakeup(), for any number of CPUs and processes, although it gives
\* tickslock up before the process is SLEEPING: whoever is asleep when its time has
\* come is one that the clockintr() in progress will find asleep on &ticks.
THEOREM SleepersAreCalled == Spec => []WakeupNotLost
<1>1. LInv => WakeupNotLost
  BY DEF LInv, OnChannel, InTime, WakeupNotLost
<1> QED  BY <1>1, InitHolds, NextHolds, InitWakes, NextWakes, PTL DEF Spec
=============================================================================
