----------------------------- MODULE AtomicDisk -----------------------------
(***************************************************************************)
(* What the logging layer promises its callers: file-system operations     *)
(* write blocks of a disk whose durable image only ever moves from one     *)
(* state with no operation in progress to another.  A crash brings the     *)
(* durable image back, so an operation's writes survive all together or    *)
(* not at all.                                                             *)
(***************************************************************************)
CONSTANTS Procs, Blocks, Vals

VARIABLES
  durable,   \* the disk a reboot at this moment would bring back
  volatile,  \* the disk the running kernel sees
  active     \* processes between begin_op() and end_op()

vars == <<durable, volatile, active>>

Init ==
  /\ durable \in [Blocks -> Vals]
  /\ volatile = durable
  /\ active = {}

Begin(p) ==
  /\ active' = active \cup {p}
  /\ UNCHANGED <<durable, volatile>>

Write(p, b, v) ==
  /\ p \in active
  /\ volatile' = [volatile EXCEPT ![b] = v]
  /\ UNCHANGED <<durable, active>>

End(p) ==
  /\ p \in active
  /\ active' = active \ {p}
  /\ UNCHANGED <<durable, volatile>>

\* Group commit: only between operations.
Commit ==
  /\ active = {}
  /\ durable' = volatile
  /\ UNCHANGED <<volatile, active>>

Crash ==
  /\ active' = {}
  /\ volatile' = durable
  /\ UNCHANGED durable

Next ==
  \/ \E p \in Procs :
       \/ Begin(p)
       \/ End(p)
       \/ \E b \in Blocks, v \in Vals : Write(p, b, v)
  \/ Commit
  \/ Crash

Spec == Init /\ [][Next]_vars
=============================================================================
