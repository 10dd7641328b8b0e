------------------------------ MODULE ProcLife ------------------------------
(***************************************************************************)
(* The life of a process in kernel/proc.c: fork(), exit(), wait(), kill()  *)
(* and the table they share.  wait_lock is explicit; a critical section of *)
(* p->lock is one step, except that an exiting process keeps its p->lock   *)
(* until it has left its kernel stack.  Whether a process that can run is  *)
(* on a CPU is the business of Sched: RUNNABLE stands for RUNNING too.     *)
(***************************************************************************)
EXTENDS Integers, FiniteSets

CONSTANTS
  Slots,     \* proc[]
  InitProc,  \* initproc
  None,      \* no process: a null parent, a free lock, no new child
  MaxPid,    \* bound on nextpid
  KillPids   \* arguments kill() is called with

ASSUME ProcLifeAssumption ==
  /\ InitProc \in Slots
  /\ None \notin Slots
  /\ MaxPid \in Nat
  /\ KillPids \subseteq Nat

VARIABLES
  state,     \* p->state
  pid,       \* p->pid, 0 for an UNUSED slot
  parent,    \* p->parent
  killed,    \* p->killed
  nextpid,
  waitlock,  \* the process holding wait_lock
  pc,        \* where the process is
  np,        \* fork()'s new process
  asked      \* slots whose present process kill() or setkilled() was asked for

procvars == <<state, pid, parent, killed>>
vars == <<procvars, nextpid, waitlock, pc, np, asked>>

\* After userinit().
Init ==
  /\ state = [s \in Slots |-> IF s = InitProc THEN "RUNNABLE" ELSE "UNUSED"]
  /\ pid = [s \in Slots |-> IF s = InitProc THEN 1 ELSE 0]
  /\ parent = [s \in Slots |-> None]
  /\ killed = [s \in Slots |-> FALSE]
  /\ nextpid = 2
  /\ waitlock = None
  /\ pc = [s \in Slots |-> "user"]
  /\ np = [s \in Slots |-> None]
  /\ asked = {}

\* Process p can execute and is at a given place.
At(p, where) == state[p] = "RUNNABLE" /\ pc[p] = where

Goto(p, where) == pc' = [pc EXCEPT ![p] = where]

\* p->lock of slot s is free: its process is not between ZOMBIE and swtch().
Unlocked(s) == pc[s] # "swtch"

Children(p) == {s \in Slots : parent[s] = p}

Awake(s) == IF s = "SLEEPING" THEN "RUNNABLE" ELSE s

-----------------------------------------------------------------------------
(* fork() *)

\* allocproc() finds slot s and everything can be copied: s is left USED, with
\* a pid and without a parent.
fork(p, s) ==
  /\ At(p, "user")
  /\ nextpid <= MaxPid
  /\ state[s] = "UNUSED"
  /\ state' = [state EXCEPT ![s] = "USED"]
  /\ pid' = [pid EXCEPT ![s] = nextpid]
  /\ nextpid' = nextpid + 1
  /\ np' = [np EXCEPT ![p] = s]
  /\ Goto(p, "fork_parent")
  /\ UNCHANGED <<parent, killed, waitlock, asked>>

\* Memory runs out in allocproc() or uvmcopy(): freeproc() and return -1.
fork_fails(p, s) ==
  /\ At(p, "user")
  /\ nextpid <= MaxPid
  /\ state[s] = "UNUSED"
  /\ nextpid' = nextpid + 1
  /\ killed' = [killed EXCEPT ![s] = FALSE]
  /\ asked' = asked \ {s}
  /\ UNCHANGED <<state, pid, parent, waitlock, pc, np>>

\* np->parent = p under wait_lock.
fork_parent(p) ==
  /\ At(p, "fork_parent")
  /\ waitlock = None
  /\ parent' = [parent EXCEPT ![np[p]] = p]
  /\ Goto(p, "fork_runnable")
  /\ UNCHANGED <<state, pid, killed, nextpid, waitlock, np, asked>>

\* np->state = RUNNABLE under np->lock.
fork_runnable(p) ==
  /\ At(p, "fork_runnable")
  /\ state' = [state EXCEPT ![np[p]] = "RUNNABLE"]
  /\ np' = [np EXCEPT ![p] = None]
  /\ Goto(p, "user")
  /\ UNCHANGED <<pid, parent, killed, nextpid, waitlock, asked>>

-----------------------------------------------------------------------------
(* exit() *)

exit(p) ==
  /\ At(p, "user")
  /\ p # InitProc
  /\ waitlock = None
  /\ waitlock' = p
  /\ Goto(p, "exit")
  /\ UNCHANGED <<procvars, nextpid, np, asked>>

\* reparent(p): the children go to init.
Adopted(p) == [s \in Slots |-> IF parent[s] = p THEN InitProc ELSE parent[s]]

WokenByExit_ParentOnly(p) == {parent[p]}

\* Who is woken: init for an adopted child, and p's parent.
WokenByExit(p) ==
  {parent[p]} \cup (IF Children(p) # {} THEN {InitProc} ELSE {})

\* reparent(); wakeup(p->parent); ZOMBIE; release(&wait_lock), keeping p->lock.
zombie(p) ==
  /\ At(p, "exit")
  /\ parent' = Adopted(p)
  /\ state' = [s \in Slots |-> IF s = p THEN "ZOMBIE"
                               ELSE IF s \in WokenByExit(p) THEN Awake(state[s])
                               ELSE state[s]]
  /\ waitlock' = None
  /\ Goto(p, "swtch")
  /\ UNCHANGED <<pid, killed, nextpid, np, asked>>

\* sched() has left p's stack and the scheduler releases p->lock.
swtch(p) ==
  /\ pc[p] = "swtch"
  /\ Goto(p, "user")
  /\ UNCHANGED <<procvars, nextpid, waitlock, np, asked>>

-----------------------------------------------------------------------------
(* wait() *)

wait(p) ==
  /\ At(p, "user") \/ At(p, "wait_again")
  /\ waitlock = None
  /\ waitlock' = p
  /\ Goto(p, "scan")
  /\ UNCHANGED <<procvars, nextpid, np, asked>>

Reapable_NoLock(p, s) == parent[s] = p /\ state[s] = "ZOMBIE"

Reapable(p, s) == parent[s] = p /\ Unlocked(s) /\ state[s] = "ZOMBIE"

\* An exited child is found and freeproc()ed.
wait_reap(p, s) ==
  /\ At(p, "scan")
  /\ Reapable(p, s)
  /\ state' = [state EXCEPT ![s] = "UNUSED"]
  /\ pid' = [pid EXCEPT ![s] = 0]
  /\ parent' = [parent EXCEPT ![s] = None]
  /\ killed' = [killed EXCEPT ![s] = FALSE]
  /\ asked' = asked \ {s}
  /\ waitlock' = None
  /\ Goto(p, "user")
  /\ UNCHANGED <<nextpid, np>>

\* An exited child is found but its status cannot be copied out.
wait_copyout_fails(p, s) ==
  /\ At(p, "scan")
  /\ Reapable(p, s)
  /\ waitlock' = None
  /\ Goto(p, "user")
  /\ UNCHANGED <<procvars, nextpid, np, asked>>

NoneExited(p) == \A s \in Children(p) : Unlocked(s) /\ state[s] # "ZOMBIE"

\* Nothing to wait for, or killed(p): return -1; otherwise go on to sleep().
wait_none(p) ==
  /\ At(p, "scan")
  /\ NoneExited(p)
  /\ IF Children(p) = {} \/ killed[p]
     THEN waitlock' = None /\ Goto(p, "user")
     ELSE UNCHANGED waitlock /\ Goto(p, "wait_sleep")
  /\ UNCHANGED <<procvars, nextpid, np, asked>>

\* sleep(p, &wait_lock).
wait_sleep(p) ==
  /\ At(p, "wait_sleep")
  /\ state' = [state EXCEPT ![p] = "SLEEPING"]
  /\ waitlock' = None
  /\ Goto(p, "wait_again")
  /\ UNCHANGED <<pid, parent, killed, nextpid, np, asked>>

-----------------------------------------------------------------------------
(* kill() *)

\* Process q calls kill(n); victim is the slot the scan stops at.
kill(q, n, victim) ==
  /\ At(q, "user")
  /\ pid[victim] = n
  /\ Unlocked(victim)
  /\ killed' = [killed EXCEPT ![victim] = TRUE]
  /\ state' = [state EXCEPT ![victim] = Awake(@)]
  /\ asked' = IF state[victim] = "UNUSED" THEN asked ELSE asked \cup {victim}
  /\ UNCHANGED <<pid, parent, nextpid, waitlock, pc, np>>

-----------------------------------------------------------------------------

\* A system call that has begun.
InCall(p) ==
  \/ fork_parent(p) \/ fork_runnable(p)
  \/ zombie(p) \/ swtch(p)
  \/ wait_none(p) \/ wait_sleep(p)
  \/ \E s \in Slots : wait_reap(p, s)
  \/ wait(p) /\ pc[p] = "wait_again"

Next ==
  \E p \in Slots :
    \/ InCall(p)
    \/ wait(p)
    \/ exit(p)
    \/ \E s \in Slots : \/ fork(p, s)
                        \/ fork_fails(p, s)
                        \/ wait_copyout_fails(p, s)
                        \/ \E n \in KillPids : kill(p, n, s)

Spec == Init /\ [][Next]_vars

\* Processes that can run do run, wait_lock is got by whoever wants it (its
\* critical sections are short), a killed process exits on its next return to
\* user space, and user/init.c calls wait() for ever.
Fairness ==
  /\ \A p \in Slots : SF_vars(InCall(p)) /\ SF_vars(exit(p) /\ killed[p])
  /\ SF_vars(wait(InitProc))

FairSpec == Spec /\ Fairness

-----------------------------------------------------------------------------
(* Properties *)

\* The family tree is sound although parents exit while their children fork and
\* exit.  No orphans: the parent of a process that has begun to run, or has
\* exited, has not exited.  No exit is missed: a process asleep in wait() has a
\* child to wait for and none that has exited.  And a slot is not freed, let
\* alone reused, while its old process still runs on its kernel stack on the
\* way out of exit().
FamilyExact ==
  /\ \A s \in Slots :
       state[s] \in {"RUNNABLE", "SLEEPING", "ZOMBIE"} /\ s # InitProc =>
         parent[s] # None /\ state[parent[s]] \in {"RUNNABLE", "SLEEPING"}
  /\ \A p \in Slots : state[p] = "SLEEPING" =>
       Children(p) # {} /\ \A s \in Children(p) : state[s] # "ZOMBIE"
  /\ \A s \in Slots : pc[s] = "swtch" => state[s] = "ZOMBIE"

\* A process is marked killed only if kill() named it since it was allocated.
KilledWasAsked ==
  \A s \in Slots : killed[s] /\ state[s] # "UNUSED" => s \in asked

\* An exited process that init has adopted is reaped.
OrphansReaped ==
  \A s \in Slots : (state[s] = "ZOMBIE" /\ parent[s] = InitProc) ~> (state[s] = "UNUSED")

\* kill() makes its victim exit: a process that can run or sleeps in wait()
\* does not stay marked killed.
KilledExits ==
  \A s \in Slots : (killed[s] /\ state[s] \in {"RUNNABLE", "SLEEPING"})
                     ~> (state[s] \in {"ZOMBIE", "UNUSED"})
=============================================================================
