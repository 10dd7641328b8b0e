--------------------------- MODULE ProcLifeProofs ---------------------------
(***************************************************************************)
(* Proofs about ProcLife, for a process table of any size: the family tree *)
(* stays sound through every interleaving of fork(), exit() and wait().    *)
(***************************************************************************)
EXTENDS ProcLife, TLAPS

\* The provers may take this many seconds, on a busy machine.
USE SMTT(60), ZenonT(60)

Live == {"RUNNABLE", "SLEEPING"}
Forks == {"fork_parent", "fork_runnable"}
Critical == {"exit", "scan", "wait_sleep"}

TypeOK ==
  /\ state \in [Slots -> {"UNUSED", "USED", "RUNNABLE", "SLEEPING", "ZOMBIE"}]
  /\ parent \in [Slots -> Slots \cup {None}]
  /\ pc \in [Slots -> Forks \cup Critical \cup {"user", "wait_again", "swtch"}]
  /\ np \in [Slots -> Slots \cup {None}]

\* The state of a process fits the place where it is, and init goes on.
Placed ==
  /\ \A p \in Slots :
       /\ pc[p] \in Forks \cup Critical => state[p] = "RUNNABLE"
       /\ pc[p] = "wait_again" => state[p] \in Live
       /\ pc[p] = "swtch" => state[p] = "ZOMBIE"
       /\ state[p] = "SLEEPING" => pc[p] = "wait_again"
  /\ state[InitProc] \in Live /\ pc[InitProc] # "exit"

\* The critical sections of wait_lock exclude each other.
Alone == \A p \in Slots : pc[p] \in Critical => waitlock = p

\* A new process is in the hands of the one fork() that allocated it.
Forking ==
  \A p \in Slots :
    /\ pc[p] \in Forks <=> np[p] # None
    /\ np[p] # None =>
         /\ state[np[p]] = "USED"
         /\ parent[np[p]] = IF pc[p] = "fork_parent" THEN None ELSE p
         /\ \A q \in Slots : np[q] = np[p] => q = p

\* Parents have not exited, and only new and free slots have none.
Parents ==
  \A s \in Slots :
    /\ parent[s] # None => state[parent[s]] \in Live
    /\ state[s] = "UNUSED" => parent[s] = None
    /\ state[s] \in Live \cup {"ZOMBIE"} /\ s # InitProc => parent[s] # None

\* Whoever sleeps in wait(), or is about to, has children and none has exited.
Awaited ==
  \A p \in Slots : state[p] = "SLEEPING" \/ pc[p] = "wait_sleep" =>
    /\ \E s \in Slots : parent[s] = p
    /\ \A s \in Slots : parent[s] = p => state[s] # "ZOMBIE"

IInv == TypeOK /\ Placed /\ Alone /\ Forking /\ Parents /\ Awaited

-----------------------------------------------------------------------------
(* The steps *)

\* The invariant holds after userinit().
LEMMA InitHolds == Init => IInv
  BY ProcLifeAssumption
     DEF Init, IInv, TypeOK, Placed, Alone, Forking, Parents, Awaited, Live, Forks, Critical

\* allocproc() takes a free slot, which nobody's fork() or family refers to.
LEMMA fork_Holds ==
  ASSUME IInv, NEW p \in Slots, NEW s \in Slots, fork(p, s)
  PROVE  IInv'
<1> USE ProcLifeAssumption DEF fork, At, Goto
<1>1. s # p /\ parent[s] = None /\ np[p] = None /\ \A q \in Slots : np[q] # s
  BY DEF IInv, Parents, Forking, Forks
<1>2. TypeOK'
  BY DEF IInv, TypeOK, Forks
<1>3. Placed' /\ Alone'
  BY <1>1 DEF IInv, TypeOK, Placed, Alone, Live, Forks, Critical
<1>4. Forking'
  BY <1>1 DEF IInv, TypeOK, Forking, Forks
<1>5. Parents'
  BY <1>1 DEF IInv, TypeOK, Parents, Live
<1>6. Awaited'
  BY <1>1 DEF IInv, TypeOK, Awaited, Forks
<1> QED  BY <1>2, <1>3, <1>4, <1>5, <1>6 DEF IInv

\* The child gets its parent while wait_lock keeps exits out.
LEMMA fork_parent_Holds ==
  ASSUME IInv, NEW p \in Slots, fork_parent(p)
  PROVE  IInv'
<1> USE ProcLifeAssumption DEF fork_parent, At, Goto
<1>1. /\ np[p] \in Slots /\ state[np[p]] = "USED" /\ parent[np[p]] = None
      /\ \A q \in Slots : np[q] = np[p] => q = p
  BY DEF IInv, TypeOK, Forking, Forks
<1>2. TypeOK'
  BY <1>1 DEF IInv, TypeOK, Forks
<1>3. Placed' /\ Alone'
  BY DEF IInv, TypeOK, Placed, Alone, Live, Forks, Critical
<1>4. Forking'
  BY <1>1 DEF IInv, TypeOK, Forking, Forks
<1>5. Parents'
  BY <1>1 DEF IInv, TypeOK, Parents, Live
<1>6. Awaited'
  BY <1>1 DEF IInv, TypeOK, Placed, Awaited, Forks
<1> QED  BY <1>2, <1>3, <1>4, <1>5, <1>6 DEF IInv

\* The child begins to run with its parent in place.
LEMMA fork_runnable_Holds ==
  ASSUME IInv, NEW p \in Slots, fork_runnable(p)
  PROVE  IInv'
<1> USE ProcLifeAssumption DEF fork_runnable, At, Goto
<1>1. /\ np[p] \in Slots /\ state[np[p]] = "USED" /\ parent[np[p]] = p
      /\ \A q \in Slots : np[q] = np[p] => q = p
      /\ np[p] # p /\ np[p] # InitProc
  BY DEF IInv, TypeOK, Placed, Forking, Forks, Live
<1>2. TypeOK'
  BY <1>1 DEF IInv, TypeOK
<1>3. Placed' /\ Alone'
  BY <1>1 DEF IInv, TypeOK, Placed, Alone, Live, Forks, Critical
<1>4. Forking'
  BY <1>1 DEF IInv, TypeOK, Placed, Forking, Forks
<1>5. Parents'
  BY <1>1 DEF IInv, TypeOK, Parents, Live
<1>6. Awaited'
  BY <1>1 DEF IInv, TypeOK, Awaited
<1> QED  BY <1>2, <1>3, <1>4, <1>5, <1>6 DEF IInv

\* wait_lock is taken, by exit() or wait().
LEMMA locking_Holds ==
  ASSUME IInv, NEW p \in Slots, exit(p) \/ wait(p)
  PROVE  IInv'
<1> DEFINE where == IF exit(p) THEN "exit" ELSE "scan"
<1>1. /\ pc' = [pc EXCEPT ![p] = where] /\ where \in {"exit", "scan"}
      /\ UNCHANGED <<state, parent, np>> /\ waitlock = None /\ waitlock' = p
      /\ state[p] = "RUNNABLE" /\ pc[p] \in {"user", "wait_again"}
      /\ where = "exit" => p # InitProc
  BY DEF exit, wait, At, Goto, procvars
<1> HIDE DEF where
<1>2. \A q \in Slots : pc[q] \notin Critical
  BY ProcLifeAssumption, <1>1 DEF IInv, Alone
<1>3. TypeOK' /\ Placed' /\ Alone'
  BY <1>1, <1>2 DEF IInv, TypeOK, Placed, Alone, Live, Forks, Critical
<1>4. Forking'
  BY <1>1 DEF IInv, TypeOK, Forking, Forks
<1>5. Parents' /\ Awaited'
  BY <1>1 DEF IInv, TypeOK, Parents, Awaited
<1> QED  BY <1>3, <1>4, <1>5 DEF IInv

\* A process exits: its children go to init, and whoever waits for it or gets a
\* child is awake.
LEMMA zombie_Holds ==
  ASSUME IInv, NEW p \in Slots, zombie(p)
  PROVE  IInv'
<1> USE ProcLifeAssumption DEF At, Goto
<1>1. /\ state[p] = "RUNNABLE" /\ pc[p] = "exit" /\ p # InitProc /\ waitlock = p
      /\ \A q \in Slots : q # p => pc[q] \notin Critical
      /\ np[p] = None
  BY DEF zombie, IInv, TypeOK, Placed, Alone, Forking, Forks, Critical
<1>2. /\ \A s \in Slots : parent'[s] = IF parent[s] = p THEN InitProc ELSE parent[s]
      /\ state'[p] = "ZOMBIE"
      /\ \A s \in Slots : s # p => \/ state'[s] = state[s]
                                   \/ state[s] = "SLEEPING" /\ state'[s] = "RUNNABLE"
      /\ \A s \in Slots : s # p /\ s \in WokenByExit(p) => state'[s] # "SLEEPING"
      /\ pc' = [pc EXCEPT ![p] = "swtch"] /\ np' = np /\ waitlock' = None
  BY DEF zombie, Adopted, Awake
<1>3. TypeOK'
  <2>1. parent' \in [Slots -> Slots \cup {None}]
    BY DEF zombie, Adopted, IInv, TypeOK
  <2>2. state' \in [Slots -> {"UNUSED", "USED", "RUNNABLE", "SLEEPING", "ZOMBIE"}]
    BY DEF zombie, Awake, IInv, TypeOK
  <2> QED  BY <1>2, <2>1, <2>2, ZenonT(60) DEF IInv, TypeOK
<1>4. Placed' /\ Alone'
  BY <1>1, <1>2 DEF IInv, TypeOK, Placed, Alone, Live, Forks, Critical
<1>5. Forking'
  BY <1>1, <1>2 DEF IInv, TypeOK, Placed, Forking, Forks
<1>6. Parents'
  BY <1>1, <1>2 DEF IInv, TypeOK, Placed, Parents, Live
<1>7. Awaited'
  <2> SUFFICES ASSUME NEW q \in Slots, state'[q] = "SLEEPING" \/ pc'[q] = "wait_sleep"
               PROVE  /\ \E s \in Slots : parent'[s] = q
                      /\ \A s \in Slots : parent'[s] = q => state'[s] # "ZOMBIE"
    BY DEF Awaited
  <2>1. q # p /\ state[q] = "SLEEPING" /\ q \notin WokenByExit(p)
    BY <1>1, <1>2 DEF IInv, TypeOK, Critical
  <2>2. parent[p] # q /\ (q = InitProc => \A s \in Slots : parent[s] # p)
    BY <2>1 DEF WokenByExit, Children
  <2>3. \A s \in Slots : parent'[s] = q <=> parent[s] = q
    BY <1>2, <2>1, <2>2
  <2>4. \A s \in Slots : parent[s] = q => s # p /\ state[s] # "ZOMBIE"
    BY <2>1, <2>2 DEF IInv, Awaited
  <2> QED  BY <1>2, <2>1, <2>3, <2>4 DEF IInv, Awaited
<1> QED  BY <1>3, <1>4, <1>5, <1>6, <1>7 DEF IInv

\* An exited child without children of its own is freed.
LEMMA wait_reap_Holds ==
  ASSUME IInv, NEW p \in Slots, NEW s \in Slots, wait_reap(p, s)
  PROVE  IInv'
<1> USE ProcLifeAssumption DEF wait_reap, At, Goto, Reapable, Unlocked
<1>1. /\ s # p /\ s # InitProc /\ pc[s] = "user" /\ np[s] = None /\ np[p] = None
      /\ \A q \in Slots : parent[q] # s /\ np[q] # s
  BY DEF IInv, TypeOK, Placed, Forking, Parents, Live, Forks, Critical
<1>2. \A q \in Slots : q # p => pc[q] \notin Critical
  BY DEF IInv, Alone, Critical
<1>3. TypeOK'
  BY DEF IInv, TypeOK
<1>4. Placed' /\ Alone'
  BY <1>1, <1>2 DEF IInv, TypeOK, Placed, Alone, Live, Forks, Critical
<1>5. Forking'
  BY <1>1 DEF IInv, TypeOK, Forking, Forks
<1>6. Parents'
  BY <1>1 DEF IInv, TypeOK, Parents, Live
<1>7. Awaited'
  BY <1>1 DEF IInv, TypeOK, Awaited
<1> QED  BY <1>3, <1>4, <1>5, <1>6, <1>7 DEF IInv

\* wait() returns without a child, or is about to sleep with none that has exited.
LEMMA wait_none_Holds ==
  ASSUME IInv, NEW p \in Slots, wait_none(p)
  PROVE  IInv'
<1> DEFINE where == IF Children(p) = {} \/ killed[p] THEN "user" ELSE "wait_sleep"
<1>1. /\ pc' = [pc EXCEPT ![p] = where] /\ where \in {"user", "wait_sleep"}
      /\ UNCHANGED <<state, parent, np>> /\ pc[p] = "scan" /\ state[p] = "RUNNABLE"
      /\ waitlock' = IF where = "user" THEN None ELSE waitlock
      /\ where = "wait_sleep" => /\ \E s \in Slots : parent[s] = p
                                 /\ \A s \in Slots : parent[s] = p => state[s] # "ZOMBIE"
  BY DEF wait_none, At, Goto, procvars, NoneExited, Children
<1> HIDE DEF where
<1>2. \A q \in Slots : q # p => pc[q] \notin Critical
  BY <1>1 DEF IInv, Alone, Critical
<1>3. TypeOK' /\ Placed' /\ Alone'
  BY <1>1, <1>2 DEF IInv, TypeOK, Placed, Alone, Live, Forks, Critical
<1>4. Forking'
  BY <1>1 DEF IInv, TypeOK, Forking, Forks
<1>5. Parents' /\ Awaited'
  BY <1>1 DEF IInv, TypeOK, Parents, Awaited
<1> QED  BY <1>3, <1>4, <1>5 DEF IInv

\* wait() sleeps.
LEMMA wait_sleep_Holds ==
  ASSUME IInv, NEW p \in Slots, wait_sleep(p)
  PROVE  IInv'
<1> USE ProcLifeAssumption DEF wait_sleep, At, Goto
<1>1. \A q \in Slots : q # p => pc[q] \notin Critical
  BY DEF IInv, Alone, Critical
<1>2. TypeOK' /\ Placed' /\ Alone'
  BY <1>1 DEF IInv, TypeOK, Placed, Alone, Live, Forks, Critical
<1>3. Forking'
  BY DEF IInv, TypeOK, Forking, Forks
<1>4. Parents'
  BY DEF IInv, TypeOK, Parents, Live
<1>5. Awaited'
  BY DEF IInv, TypeOK, Awaited
<1> QED  BY <1>2, <1>3, <1>4, <1>5 DEF IInv

\* wait() fails to copy the status out and leaves the child.
LEMMA wait_copyout_fails_Holds ==
  ASSUME IInv, NEW p \in Slots, NEW s \in Slots, wait_copyout_fails(p, s)
  PROVE  IInv'
<1> USE DEF wait_copyout_fails, At, Goto, procvars
<1>1. \A q \in Slots : q # p => pc[q] \notin Critical
  BY DEF IInv, Alone, Critical
<1>2. TypeOK' /\ Placed' /\ Alone'
  BY <1>1 DEF IInv, TypeOK, Placed, Alone, Live, Forks, Critical
<1>3. Forking'
  BY DEF IInv, TypeOK, Forking, Forks
<1>4. Parents' /\ Awaited'
  BY DEF IInv, TypeOK, Parents, Awaited
<1> QED  BY <1>2, <1>3, <1>4 DEF IInv

\* The stack of an exited process is left.
LEMMA swtch_Holds ==
  ASSUME IInv, NEW p \in Slots, swtch(p)
  PROVE  IInv'
<1> USE DEF swtch, Goto, procvars
<1>1. TypeOK' /\ Placed' /\ Alone'
  BY DEF IInv, TypeOK, Placed, Alone, Live, Forks, Critical
<1>2. Forking'
  BY DEF IInv, TypeOK, Forking, Forks
<1>3. Parents' /\ Awaited'
  BY DEF IInv, TypeOK, Parents, Awaited
<1> QED  BY <1>1, <1>2, <1>3 DEF IInv

\* kill() may wake its victim.
LEMMA kill_Holds ==
  ASSUME IInv, NEW q \in Slots, NEW n, NEW p \in Slots, kill(q, n, p)
  PROVE  IInv'
<1>1. /\ \A s \in Slots : \/ state'[s] = state[s]
                          \/ state[s] = "SLEEPING" /\ state'[s] = "RUNNABLE"
      /\ UNCHANGED <<parent, waitlock, pc, np>>
      /\ state' \in [Slots -> {"UNUSED", "USED", "RUNNABLE", "SLEEPING", "ZOMBIE"}]
  BY DEF kill, Awake, IInv, TypeOK
<1>2. TypeOK' /\ Placed' /\ Alone'
  BY <1>1, ProcLifeAssumption
     DEF IInv, TypeOK, Placed, Alone, Live, Forks, Critical
<1>3. Forking'
  BY <1>1 DEF IInv, TypeOK, Forking
<1>4. Parents'
  BY <1>1 DEF IInv, TypeOK, Parents, Live
<1>5. Awaited'
  BY <1>1 DEF IInv, TypeOK, Awaited
<1> QED  BY <1>2, <1>3, <1>4, <1>5 DEF IInv

\* A step that leaves the table alone.
LEMMA Unmoved ==
  ASSUME IInv, UNCHANGED <<state, parent, waitlock, pc, np>>
  PROVE  IInv'
  BY DEF IInv, TypeOK, Placed, Alone, Forking, Parents, Awaited

\* Every step keeps the invariant.
LEMMA NextHolds == IInv /\ [Next]_vars => IInv'
<1> SUFFICES ASSUME IInv, [Next]_vars PROVE IInv'
  OBVIOUS
<1>1. CASE UNCHANGED vars
  BY <1>1, Unmoved DEF vars, procvars
<1>2. ASSUME NEW p \in Slots, InCall(p) \/ wait(p) \/ exit(p)
      PROVE  IInv'
  BY <1>2, fork_parent_Holds, fork_runnable_Holds, zombie_Holds, swtch_Holds,
     wait_none_Holds, wait_sleep_Holds, wait_reap_Holds, locking_Holds DEF InCall
<1>3. ASSUME NEW p \in Slots, NEW s \in Slots, fork(p, s) \/ wait_copyout_fails(p, s)
      PROVE  IInv'
  BY <1>3, fork_Holds, wait_copyout_fails_Holds
<1>4. ASSUME NEW p \in Slots, NEW s \in Slots, fork_fails(p, s)
      PROVE  IInv'
  BY <1>4, Unmoved DEF fork_fails
<1>5. ASSUME NEW p \in Slots, NEW s \in Slots, NEW n \in KillPids, kill(p, n, s)
      PROVE  IInv'
  BY <1>5, kill_Holds
<1> QED  BY <1>1, <1>2, <1>3, <1>4, <1>5 DEF Next

-----------------------------------------------------------------------------

\* For a process table of any size: a process that runs or has exited has a
\* parent that has not exited; nobody sleeps in wait() while a child has exited
\* or without a child; and no slot is freed while its process is on its stack.
THEOREM FamilySound == Spec => []FamilyExact
<1>1. IInv => FamilyExact
  <2> SUFFICES ASSUME IInv PROVE FamilyExact
    OBVIOUS
  <2>1. \A s \in Slots : state[s] \in {"RUNNABLE", "SLEEPING", "ZOMBIE"} /\ s # InitProc =>
          parent[s] # None /\ state[parent[s]] \in {"RUNNABLE", "SLEEPING"}
    BY DEF IInv, Parents, Live
  <2>2. \A p \in Slots : state[p] = "SLEEPING" =>
          Children(p) # {} /\ \A s \in Children(p) : state[s] # "ZOMBIE"
    BY DEF IInv, Awaited, Children
  <2>3. \A s \in Slots : pc[s] = "swtch" => state[s] = "ZOMBIE"
    BY DEF IInv, Placed
  <2> QED  BY <2>1, <2>2, <2>3 DEF FamilyExact
<1> QED  BY <1>1, InitHolds, NextHolds, PTL DEF Spec
=============================================================================
