----------------------------- MODULE LogProofs ------------------------------
(***************************************************************************)
(* Proofs about Log, for any number of processes and blocks and any sizes: *)
(* a commit is alone, pins balance, sleepers have a waker, nothing panics, *)
(* and the log implements AtomicDisk, whatever crashes.                    *)
(***************************************************************************)
EXTENDS Log, FiniteSetTheorems, TLAPS

\* Zenon proves a step unless it names another prover; it may take this many seconds.
USE ZenonT(60)

-----------------------------------------------------------------------------
(* The inductive invariant *)

\* Until recovery is over no process has done anything.
Quiet ==
  mode \in {"boot", "recover"} =>
    /\ \A p \in Procs : pc[p] = "idle"
    /\ pins = [b \in Blocks |-> 0]
    /\ ~committing

\* log.committing is set exactly while one process is in commit(), and no
\* operation is in progress then.
Committer ==
  /\ committing => InOp = {} /\ \E p \in Procs : InCommit = {p}
  /\ ~committing => InCommit = {}

\* log.outstanding counts the operations in progress.
Counted == outstanding = Cardinality(InOp)

\* An operation's blocks are in the log; a block is listed once.
Listed ==
  /\ \A p \in Procs : /\ pc[p] = "op" => wrote[p] \subseteq Entries(lh)
                      /\ pc[p] # "op" => wrote[p] = {} /\ held[p] = None
  /\ mode \in {"run", "panic"} =>
       \A i, j \in 1..Len(lh) : lh[i] = lh[j] => i = j

\* When commit() is over the log is empty.
Tidy ==
  mode = "run" => \A p \in Procs : pc[p] = "finish" => lh = <<>>

IInv == TypeOK /\ Quiet /\ Committer /\ Counted /\ Listed /\ Tidy /\ PinsBalanced

-----------------------------------------------------------------------------
(* Facts about the operators of Log *)

\* The number of entries of the log stays representable.
LEMMA SlotsUp ==
  ASSUME NEW n \in Nat, n < LOGSIZE, n < NLog - 1
  PROVE  n + 1 \in Slots
  BY LogAssumption, SMTT(60) DEF Slots

\* Every index into a log that fits is a slot.
LEMMA SlotsDown ==
  ASSUME NEW n \in {0} \cup Slots, NEW i \in 1..n
  PROVE  i \in Slots
  BY LogAssumption, SMTT(60) DEF Slots

\* Appending adds exactly the appended element.
LEMMA EntriesAppend ==
  ASSUME NEW s \in Seq(Blocks), NEW b \in Blocks
  PROVE  Entries(Append(s, b)) = Entries(s) \cup {b}
<1> DEFINE t == Append(s, b)
<1>1. /\ Len(t) = Len(s) + 1 /\ Len(s) \in Nat
      /\ \A i \in 1..Len(s) : t[i] = s[i]
      /\ t[Len(s) + 1] = b
  BY SMTT(60)
<1>2. Entries(t) \subseteq Entries(s) \cup {b}
  BY <1>1, SMTT(60) DEF Entries
<1>3. Entries(s) \cup {b} \subseteq Entries(t)
  <2>1. ASSUME NEW i \in 1..Len(s) PROVE s[i] \in Entries(t)
    <3>1. i \in 1..Len(t) /\ t[i] = s[i]
      BY <1>1, SMTT(60)
    <3> QED BY <3>1 DEF Entries
  <2>2. b \in Entries(t)
    <3>1. Len(s) + 1 \in 1..Len(t)
      BY <1>1, SMTT(60)
    <3> QED BY <1>1, <3>1 DEF Entries
  <2> QED BY <2>1, <2>2 DEF Entries
<1> QED BY <1>2, <1>3

\* Log entries are blocks, and operations in progress are finitely many.
LEMMA EntriesType ==
  ASSUME NEW s \in Seq(Blocks)
  PROVE  Entries(s) \subseteq Blocks
  BY SMTT(60) DEF Entries

\* Finitely many operations are in progress.
LEMMA InOpFinite == IsFiniteSet(InOp) /\ Cardinality(InOp) \in Nat
<1>1. InOp \in SUBSET Procs
  BY DEF InOp
<1>2. IsFiniteSet(InOp)
  BY <1>1, LogAssumption, FS_Subset
<1> QED BY <1>2, FS_CardinalityType

-----------------------------------------------------------------------------
(* The invariant holds initially and every action preserves it. *)

USE DEF opvars, logvars, bufvars, diskvars

\* Some process is in install_trans(): PinsBalanced speaks of it.
Installing == \E p \in Procs : pc[p] = "install_trans"

\* The image mkfs wrote and a fresh memory satisfy the invariant.
LEMMA InitIInv == Init => IInv
<1> SUFFICES ASSUME Init PROVE IInv
  OBVIOUS
<1>1. TypeOK
  <2>1. PICK v \in Vals : logblk = [i \in Slots |-> v] /\ home = [b \in Blocks |-> v]
    BY DEF Init
  <2>2. <<>> \in Seq(Blocks) /\ Len(<<>>) = 0
    BY SMTT(60)
  <2>3. pins \in [Blocks -> Nat] /\ cache \in [Blocks -> Vals \cup {Absent}]
    BY DEF Init
  <2>4. wrote \in [Procs -> SUBSET Blocks] /\ held \in [Procs -> Blocks \cup {None}]
    BY DEF Init
  <2>5. logblk \in [Slots -> Vals] /\ home \in [Blocks -> Vals]
    BY <2>1
  <2>6. lh \in Seq(Blocks) /\ Len(lh) = 0 /\ hdr \in Seq(Blocks) /\ Len(hdr) = 0
    BY <2>2 DEF Init
  <2>7. tail \in 0..Len(lh)
    BY <2>6, SMTT(60) DEF Init
  <2>8. pc \in [Procs -> {"idle", "begin", "asleep", "op", "commit", "write_log",
                         "install_trans", "finish"}]
    BY DEF Init
  <2>9. mode \in {"boot", "recover", "run", "panic"} /\ outstanding \in Nat /\ committing \in BOOLEAN
    BY DEF Init
  <2> QED BY <2>3, <2>4, <2>5, <2>6, <2>7, <2>8, <2>9 DEF TypeOK
<1>2. InOp = {} /\ InCommit = {}
  BY DEF Init, InOp, InCommit
<1>3. Quiet /\ Committer /\ Tidy
  BY <1>2 DEF Init, Quiet, Committer, Tidy
<1>4. Counted
  BY <1>2, FS_EmptySet DEF Init, Counted
<1>5. Listed
  BY DEF Init, Listed
<1>6. PinsBalanced
  BY DEF Init, PinsBalanced
<1> QED BY <1>1, <1>3, <1>4, <1>5, <1>6 DEF IInv

\* begin_op() admits p only when nobody commits, and counts it.
LEMMA BeginOpIInv ==
  ASSUME IInv, NEW p \in Procs, begin_op(p)
  PROVE  IInv'
<1> USE DEF IInv
<1>1. TypeOK'
  BY SMTT(60) DEF TypeOK, begin_op
<1>2. Quiet'
  BY DEF Quiet, begin_op
<1>3. /\ InCommit' = InCommit
      /\ \/ MustWait /\ InOp' = InOp
         \/ ~MustWait /\ InOp' = InOp \cup {p} /\ p \notin InOp
  BY DEF TypeOK, begin_op, InCommit, InOp
<1>4. Committer'
  BY <1>3 DEF Committer, begin_op, MustWait
<1>5. Counted'
  BY <1>3, InOpFinite, FS_AddElement DEF Counted, begin_op
<1>6. Listed'
  BY DEF Listed, begin_op, TypeOK
<1>7. Tidy'
  BY DEF Tidy, begin_op, TypeOK
<1>8. PinsBalanced'
  <2>1. Installing' <=> Installing
    BY DEF Installing, begin_op, TypeOK
  <2> QED BY <2>1 DEF PinsBalanced, Installing, begin_op
<1> QED BY <1>1, <1>2, <1>4, <1>5, <1>6, <1>7, <1>8

\* Modifying a buffer touches neither the log nor the pins.
LEMMA ModifyIInv ==
  ASSUME IInv, NEW p \in Procs, NEW b \in Blocks, NEW v \in Vals, Modify(p, b, v)
  PROVE  IInv'
<1> USE DEF IInv
<1>1. TypeOK'
  BY DEF TypeOK, Modify
<1>2. Quiet' /\ Tidy'
  BY DEF Quiet, Tidy, Modify
<1>3. InCommit' = InCommit /\ InOp' = InOp
  BY DEF Modify, InCommit, InOp
<1>4. Committer' /\ Counted'
  BY <1>3 DEF Committer, Counted, Modify
<1>5. Listed'
  BY SMTT(60) DEF Listed, Modify, TypeOK, Entries
<1>6. PinsBalanced'
  BY DEF PinsBalanced, Modify
<1> QED BY <1>1, <1>2, <1>4, <1>5, <1>6

\* panic() stops the machine where it is.
LEMMA PanicIInv ==
  ASSUME IInv, mode = "run", Panic
  PROVE  IInv'
<1>1. TypeOK' /\ Quiet' /\ Tidy' /\ Listed' /\ PinsBalanced'
  BY SMTT(60) DEF IInv, TypeOK, Quiet, Tidy, Listed, PinsBalanced, Panic, Entries
<1>2. InCommit' = InCommit /\ InOp' = InOp
  BY DEF Panic, InCommit, InOp
<1> QED BY <1>1, <1>2 DEF IInv, Committer, Counted, Panic

\* log_write() lists and pins a block together, and only once.
LEMMA LogWriteIInv ==
  ASSUME IInv, NEW p \in Procs, log_write(p)
  PROVE  IInv'
<1> USE DEF IInv
<1>1. CASE TooBig \/ outstanding < 1
  BY <1>1, PanicIInv DEF log_write
<1>2. CASE ~(TooBig \/ outstanding < 1)
  <2> DEFINE b == held[p]
  <2>1. /\ mode = "run" /\ mode' = mode /\ pc[p] = "op" /\ b \in Blocks
        /\ Absorb(b)
        /\ wrote' = [wrote EXCEPT ![p] = @ \cup {b}]
        /\ held' = [held EXCEPT ![p] = None]
        /\ UNCHANGED <<mode, pc, outstanding, committing, tail, cache, diskvars>>
    BY <1>2 DEF log_write, TypeOK
  <2>2. ~committing /\ ~Installing /\ ~Installing'
    BY <2>1 DEF Committer, InOp, InCommit, Installing
  <2>3. InCommit' = InCommit /\ InOp' = InOp
    BY <2>1 DEF InCommit, InOp
  <2>4. Quiet' /\ Committer' /\ Counted'
    BY <2>1, <2>3 DEF Quiet, Committer, Counted
  <2>5. Tidy'
    BY <2>1, <2>2 DEF Tidy, Committer, InCommit
  <2>6. CASE b \in Entries(lh)
    <3>1. lh' = lh /\ pins' = pins
      BY <2>1, <2>6 DEF Absorb
    <3>2. TypeOK'
      BY <2>1, <3>1 DEF TypeOK
    <3>3. Listed'
      BY <2>1, <2>6, <3>1, SMTT(60) DEF Listed, TypeOK, Entries
    <3>4. PinsBalanced'
      BY <2>1, <3>1 DEF PinsBalanced
    <3> QED BY <2>4, <2>5, <3>2, <3>3, <3>4
  <2>7. CASE b \notin Entries(lh)
    <3>1. lh' = Append(lh, b) /\ pins' = [pins EXCEPT ![b] = @ + 1]
      BY <2>1, <2>7 DEF Absorb
    <3>2. /\ lh' \in Seq(Blocks) /\ Len(lh) \in Nat /\ Len(lh') = Len(lh) + 1
          /\ \A i \in 1..Len(lh) : lh'[i] = lh[i]
          /\ lh'[Len(lh) + 1] = b
      BY <2>1, <3>1, SMTT(60) DEF TypeOK
    <3>3. Entries(lh') = Entries(lh) \cup {b}
      BY <2>1, <3>1, EntriesAppend DEF TypeOK
    <3>4. TypeOK'
      <4>1. Len(lh') \in Slots
        BY <1>2, <3>2, SlotsUp, LogAssumption, SMTT(60) DEF TooBig
      <4>2. tail' \in 0..Len(lh')
        BY <2>1, <3>2, SMTT(60) DEF TypeOK
      <4> QED BY <2>1, <3>1, <3>2, <4>1, <4>2, SMTT(60) DEF TypeOK
    <3>5. Listed'
      <4>1. \A i, j \in 1..Len(lh') : lh'[i] = lh'[j] => i = j
        BY <2>1, <2>7, <3>2, SMTT(60) DEF Listed, Entries
      <4>2. \A q \in Procs : pc'[q] = "op" => wrote'[q] \subseteq Entries(lh')
        BY <2>1, <3>3 DEF Listed, TypeOK
      <4>3. \A q \in Procs : pc'[q] # "op" => wrote'[q] = {} /\ held'[q] = None
        BY <2>1 DEF Listed, TypeOK
      <4> QED BY <4>1, <4>2, <4>3, <2>1 DEF Listed
    <3>6. PinsBalanced'
      <4>1. \A c \in Blocks : pins[c] = IF c \in Entries(lh) THEN 1 ELSE 0
        BY <2>1, <2>2 DEF PinsBalanced, Entries, Installing
      <4>2. \A c \in Blocks : pins'[c] = IF c \in Entries(lh') THEN 1 ELSE 0
        BY <4>1, <2>7, <2>1, <3>1, <3>3, SMTT(60) DEF TypeOK
      <4> QED BY <4>2, <2>2 DEF PinsBalanced, Entries, Installing
    <3> QED BY <2>4, <2>5, <3>4, <3>5, <3>6
  <2> QED BY <2>6, <2>7
<1> QED BY <1>1, <1>2

\* wakeup() moves sleepers and the caller, who was not installing, only.
LEMMA WakeupFacts ==
  ASSUME TypeOK, NEW p \in Procs, Wakeup(p, "idle")
  PROVE  /\ pc' \in [Procs -> {"idle", "begin", "asleep", "op", "commit", "write_log",
                               "install_trans", "finish"}]
         /\ InOp' = InOp \ {p}
         /\ InCommit' = InCommit \ {p}
         /\ pc'[p] = "idle"
         /\ \A q \in Procs : pc[q] # "op" => pc'[q] # "op"
         /\ \A q \in Procs \ {p} : pc[q] = "op" => pc'[q] = "op"
         /\ \A q \in Procs \ {p} : pc[q] = "install_trans" <=> pc'[q] = "install_trans"
         /\ \A q \in Procs \ {p} : pc[q] = "finish" <=> pc'[q] = "finish"
  BY DEF TypeOK, Wakeup, InOp, InCommit

\* end_op() uncounts p; the last operation out becomes the committer.
LEMMA EndOpIInv ==
  ASSUME IInv, NEW p \in Procs, end_op(p)
  PROVE  IInv'
<1> USE DEF IInv
<1>1. CASE committing
  BY <1>1, PanicIInv DEF end_op
<1>2. CASE ~committing
  <2>1. /\ mode = "run" /\ mode' = "run" /\ pc[p] = "op" /\ held[p] = None
        /\ outstanding' = outstanding - 1
        /\ EndOpEffect(p)
        /\ wrote' = [wrote EXCEPT ![p] = {}]
        /\ UNCHANGED <<held, lh, tail, bufvars, diskvars>>
    BY <1>2 DEF end_op
  <2>2. /\ p \in InOp /\ InCommit = {}
        /\ IsFiniteSet(InOp) /\ Cardinality(InOp) \in Nat
        /\ Cardinality(InOp \ {p}) = outstanding - 1
    BY <1>2, <2>1, InOpFinite, FS_RemoveElement DEF InOp, Committer, Counted
  <2>3. outstanding' \in Nat
    BY <2>1, <2>2, FS_RemoveElement, FS_CardinalityType, SMTT(60)
  <2>4. CASE outstanding = 1
    <3>1. committing' = TRUE /\ pc' = [pc EXCEPT ![p] = "commit"]
      BY <2>1, <2>4 DEF EndOpEffect
    <3>2. InOp' = InOp \ {p} /\ InCommit' = {p}
      BY <2>2, <3>1 DEF InOp, InCommit, TypeOK
    <3>3. InOp' = {}
      BY <2>2, <2>4, <3>2, FS_EmptySet, FS_RemoveElement, SMTT(60)
    <3>4. TypeOK'
      BY <2>1, <2>3, <3>1 DEF TypeOK
    <3>5. Quiet' /\ Committer' /\ Counted'
      BY <2>1, <2>2, <3>1, <3>2, <3>3 DEF Quiet, Committer, Counted
    <3>6. Listed'
      BY <2>1, <3>1, SMTT(60) DEF Listed, TypeOK, Entries
    <3>7. Tidy'
      BY <2>1, <2>2, <3>1 DEF Tidy, TypeOK, InCommit
    <3>8. Installing' <=> Installing
      BY <2>1, <3>1 DEF Installing, TypeOK
    <3>9. PinsBalanced'
      BY <2>1, <3>8 DEF PinsBalanced, Installing
    <3> QED BY <3>4, <3>5, <3>6, <3>7, <3>9
  <2>5. CASE outstanding # 1
    <3>1. committing' = committing /\ Wakeup(p, "idle")
      BY <2>1, <2>5 DEF EndOpEffect
    <3> HIDE DEF IInv
    <3>2. /\ pc' \in [Procs -> {"idle", "begin", "asleep", "op", "commit", "write_log",
                                "install_trans", "finish"}]
          /\ InOp' = InOp \ {p}
          /\ InCommit' = InCommit \ {p}
          /\ pc'[p] = "idle"
          /\ \A q \in Procs : pc[q] # "op" => pc'[q] # "op"
          /\ \A q \in Procs \ {p} : pc[q] = "op" => pc'[q] = "op"
          /\ \A q \in Procs \ {p} : pc[q] = "install_trans" <=> pc'[q] = "install_trans"
          /\ \A q \in Procs \ {p} : pc[q] = "finish" <=> pc'[q] = "finish"
      BY <3>1, WakeupFacts DEF IInv
    <3> USE DEF IInv
    <3>3. TypeOK'
      BY <2>1, <2>3, <3>1, <3>2 DEF TypeOK
    <3>4. Quiet' /\ Committer' /\ Counted'
      BY <1>2, <2>1, <2>2, <3>1, <3>2 DEF Quiet, Committer, Counted
    <3>5. Listed'
      BY <2>1, <3>2, SMTT(60) DEF Listed, TypeOK, Entries
    <3>6. Tidy'
      BY <2>1, <3>2 DEF Tidy
    <3>7. Installing' <=> Installing
      BY <2>1, <3>2 DEF Installing
    <3>8. PinsBalanced'
      BY <2>1, <3>7 DEF PinsBalanced, Installing
    <3> QED BY <3>3, <3>4, <3>5, <3>6, <3>8
  <2> QED BY <2>4, <2>5
<1> QED BY <1>1, <1>2

\* Whoever is in commit() is there alone, with no operation in progress.
LEMMA CommitterIsAlone ==
  ASSUME IInv, NEW p \in InCommit
  PROVE  committing /\ InOp = {} /\ InCommit = {p}
  BY DEF IInv, Committer

\* A step of the committer from one place in commit() to another keeps what
\* does not depend on the log's contents.
LEMMA StayInCommit ==
  ASSUME IInv, NEW p \in InCommit,
         NEW to \in {"commit", "write_log", "install_trans", "finish"},
         pc' = [pc EXCEPT ![p] = to], mode = "run",
         UNCHANGED <<mode, outstanding, committing>>
  PROVE  /\ InOp' = InOp /\ InCommit' = InCommit
         /\ Quiet' /\ Committer' /\ Counted'
         /\ \A q \in Procs : pc'[q] = "op" <=> pc[q] = "op"
         /\ \A q \in Procs \ {p} : pc'[q] \notin {"install_trans", "finish"}
         /\ pc'[p] = to
         /\ pc' \in [Procs -> {"idle", "begin", "asleep", "op", "commit", "write_log",
                               "install_trans", "finish"}]
<1>1. InOp' = InOp /\ InCommit' = InCommit
  BY DEF IInv, TypeOK, InOp, InCommit
<1>2. Quiet' /\ Committer' /\ Counted'
  BY <1>1 DEF IInv, Quiet, Committer, Counted
<1>3. \A q \in Procs \ {p} : pc'[q] \notin {"install_trans", "finish"}
  BY <1>1, CommitterIsAlone DEF InCommit
<1> QED BY <1>1, <1>2, <1>3 DEF IInv, TypeOK, InCommit

\* A step that neither touches the log's list nor starts or ends an operation.
LEMMA ListedKept ==
  ASSUME Listed, UNCHANGED <<mode, wrote, held, lh>>,
         \A q \in Procs : pc'[q] = "op" <=> pc[q] = "op"
  PROVE  Listed'
<1>1. Entries(lh)' = Entries(lh)
  BY DEF Entries
<1>2. \A q \in Procs : /\ pc'[q] = "op" => wrote'[q] \subseteq Entries(lh)'
                       /\ pc'[q] # "op" => wrote'[q] = {} /\ held'[q] = None
  BY <1>1 DEF Listed
<1>3. mode' \in {"run", "panic"} => \A i, j \in 1..Len(lh') : lh'[i] = lh'[j] => i = j
  BY DEF Listed
<1> QED BY <1>2, <1>3 DEF Listed

\* commit() starts write_log() if the log has entries, and is over otherwise.
LEMMA CommitIInv ==
  ASSUME IInv, NEW p \in Procs, commit(p)
  PROVE  IInv'
<1> DEFINE to == IF Len(lh) > 0 THEN "write_log" ELSE "finish"
<1>1. /\ p \in InCommit /\ pc[p] = "commit" /\ mode = "run" /\ tail' = 0
      /\ pc' = [pc EXCEPT ![p] = to]
      /\ UNCHANGED <<mode, wrote, held, lh, outstanding, committing, bufvars, diskvars>>
  BY DEF commit, Goto, InCommit
<1>2. to \in {"commit", "write_log", "install_trans", "finish"}
  OBVIOUS
<1> HIDE DEF to
<1>3. /\ InOp' = InOp /\ InCommit' = InCommit
      /\ Quiet' /\ Committer' /\ Counted'
      /\ \A q \in Procs : pc'[q] = "op" <=> pc[q] = "op"
      /\ \A q \in Procs \ {p} : pc'[q] \notin {"install_trans", "finish"}
      /\ pc'[p] = to
      /\ pc' \in [Procs -> {"idle", "begin", "asleep", "op", "commit", "write_log",
                            "install_trans", "finish"}]
  BY <1>1, <1>2, StayInCommit
<1>4. TypeOK'
  BY <1>1, <1>3, SMTT(60) DEF IInv, TypeOK
<1>5. Listed'
  BY <1>1, <1>3, ListedKept DEF IInv
<1>6. Tidy'
  <2>1. Len(lh) = 0 => lh = <<>>
    BY SMTT(60) DEF IInv, TypeOK
  <2>2. to = "finish" => Len(lh) = 0
    BY SMTT(60) DEF IInv, TypeOK, to
  <2> QED BY <1>1, <1>3, <2>1, <2>2 DEF Tidy
<1>7. PinsBalanced'
  <2>1. ~Installing
    BY <1>1, CommitterIsAlone DEF Installing, InCommit
  <2>2. ~Installing'
    BY <1>3 DEF Installing, to
  <2> QED BY <1>1, <2>1, <2>2 DEF IInv, PinsBalanced, Installing
<1> QED BY <1>3, <1>4, <1>5, <1>6, <1>7 DEF IInv

\* write_log() copies one block and moves the loop variable.
LEMMA WriteLogIInv ==
  ASSUME IInv, NEW p \in Procs, write_log(p)
  PROVE  IInv'
<1>1. /\ p \in InCommit /\ pc[p] = "write_log" /\ mode = "run" /\ tail < Len(lh)
      /\ tail' = tail + 1
      /\ UNCHANGED <<mode, opvars, lh, outstanding, committing, pins, hdr, home>>
  BY DEF write_log, InCommit
<1>2. InCommit' = InCommit /\ InOp' = InOp
  BY <1>1 DEF InCommit, InOp
<1>3. ~Installing /\ ~Installing'
  BY <1>1, CommitterIsAlone DEF Installing, InCommit
<1>4. TypeOK'
  <2>1. /\ tail + 1 \in 1..Len(lh) /\ lh[tail + 1] \in Blocks
    BY <1>1, SMTT(60) DEF IInv, TypeOK
  <2>2. tail + 1 \in Slots
    BY <2>1, SlotsDown DEF IInv, TypeOK
  <2>3. bread(lh[tail + 1]) \in Vals
    BY <2>1 DEF IInv, TypeOK, bread
  <2>4. logblk' \in [Slots -> Vals] /\ cache' \in [Blocks -> Vals \cup {Absent}]
    BY <2>1, <2>2, <2>3 DEF IInv, TypeOK, write_log
  <2> QED BY <1>1, <2>1, <2>4, SMTT(60) DEF IInv, TypeOK
<1>5. Quiet' /\ Committer' /\ Counted' /\ Tidy'
  BY <1>1, <1>2 DEF IInv, Quiet, Committer, Counted, Tidy
<1>6. Listed'
  BY <1>1 DEF IInv, Listed, Entries
<1>7. PinsBalanced'
  BY <1>1, <1>3 DEF IInv, PinsBalanced, Installing
<1> QED BY <1>4, <1>5, <1>6, <1>7 DEF IInv

\* write_head() puts the header on disk and starts install_trans().
LEMMA WriteHeadIInv ==
  ASSUME IInv, NEW p \in Procs, write_head(p)
  PROVE  IInv'
<1>1. /\ p \in InCommit /\ pc[p] = "write_log" /\ mode = "run" /\ tail' = 0 /\ hdr' = lh
      /\ pc' = [pc EXCEPT ![p] = "install_trans"]
      /\ UNCHANGED <<mode, wrote, held, lh, outstanding, committing, bufvars, logblk, home>>
  BY DEF write_head, Goto, InCommit
<1>2. /\ Quiet' /\ Committer' /\ Counted'
      /\ \A q \in Procs : pc'[q] = "op" <=> pc[q] = "op"
      /\ \A q \in Procs \ {p} : pc'[q] \notin {"install_trans", "finish"}
      /\ pc'[p] = "install_trans"
      /\ pc' \in [Procs -> {"idle", "begin", "asleep", "op", "commit", "write_log",
                            "install_trans", "finish"}]
  BY <1>1, StayInCommit
<1>3. TypeOK'
  BY <1>1, <1>2, SMTT(60) DEF IInv, TypeOK
<1>4. Listed'
  BY <1>1, <1>2, ListedKept DEF IInv
<1>5. Tidy'
  BY <1>2 DEF Tidy
<1>6. PinsBalanced'
  <2>1. ~Installing
    BY <1>1, CommitterIsAlone DEF Installing, InCommit
  <2>2. \A i \in 1..Len(lh) : i > tail'
    BY <1>1, SMTT(60) DEF IInv, TypeOK
  <2> QED BY <1>1, <2>1, <2>2 DEF IInv, PinsBalanced, Installing
<1> QED BY <1>2, <1>3, <1>4, <1>5, <1>6 DEF IInv

\* One block of install_trans() is written home; in a commit it is unpinned.
LEMMA InstallBlockType ==
  ASSUME TypeOK, NEW r \in BOOLEAN, InstallBlock(r), UNCHANGED mode,
         r \/ pins[lh[tail + 1]] = 1
  PROVE  /\ TypeOK' /\ tail + 1 \in 1..Len(lh) /\ lh[tail + 1] \in Blocks
         /\ pins' = [pins EXCEPT ![lh[tail + 1]] = IF r THEN @ ELSE @ - 1]
         /\ tail' = tail + 1
         /\ UNCHANGED <<opvars, lh, outstanding, committing, hdr, logblk>>
<1>1. /\ tail + 1 \in 1..Len(lh) /\ lh[tail + 1] \in Blocks
  BY SMTT(60) DEF TypeOK, InstallBlock
<1>2. tail + 1 \in Slots
  BY <1>1, SlotsDown DEF TypeOK
<1>3. /\ home' \in [Blocks -> Vals] /\ cache' \in [Blocks -> Vals \cup {Absent}]
  BY <1>1, <1>2 DEF TypeOK, InstallBlock
<1>4. pins' \in [Blocks -> Nat]
  BY <1>1, SMTT(60) DEF TypeOK, InstallBlock
<1>5. tail' \in 0..Len(lh')
  BY <1>1, SMTT(60) DEF TypeOK, InstallBlock
<1> QED BY <1>1, <1>3, <1>4, <1>5 DEF TypeOK, InstallBlock

\* install_trans() unpins the block it installs, which is listed only once.
LEMMA InstallTransIInv ==
  ASSUME IInv, NEW p \in Procs, install_trans(p)
  PROVE  IInv'
<1> DEFINE b == lh[tail + 1]
<1>1. /\ pc[p] = "install_trans" /\ mode = "run" /\ mode' = mode /\ InstallBlock(FALSE)
  BY DEF install_trans
<1>2. tail + 1 \in 1..Len(lh) /\ b \in Blocks
  BY <1>1, SMTT(60) DEF IInv, TypeOK, InstallBlock
<1>3. \A c \in Blocks : pins[c] = IF \E i \in 1..Len(lh) : lh[i] = c /\ i > tail THEN 1 ELSE 0
  BY <1>1 DEF IInv, PinsBalanced
<1>4. pins[b] = 1
  BY <1>2, <1>3, SMTT(60) DEF IInv, TypeOK
<1>5. /\ TypeOK'
      /\ pins' = [pins EXCEPT ![b] = @ - 1]
      /\ tail' = tail + 1
      /\ UNCHANGED <<opvars, lh, outstanding, committing, hdr, logblk>>
  BY <1>1, <1>4, InstallBlockType DEF IInv
<1>6. InCommit' = InCommit /\ InOp' = InOp
  BY <1>5 DEF InCommit, InOp
<1>7. Quiet' /\ Committer' /\ Counted' /\ Tidy'
  BY <1>1, <1>5, <1>6 DEF IInv, Quiet, Committer, Counted, Tidy
<1>8. Listed'
  BY <1>1, <1>5 DEF IInv, Listed, Entries
<1>9. PinsBalanced'
  <2>1. \A i, j \in 1..Len(lh) : lh[i] = lh[j] => i = j
    BY <1>1 DEF IInv, Listed
  <2>2. \A c \in Blocks : pins'[c] = IF \E i \in 1..Len(lh) : lh[i] = c /\ i > tail + 1 THEN 1 ELSE 0
    <3> SUFFICES ASSUME NEW c \in Blocks
                 PROVE  pins'[c] = IF \E i \in 1..Len(lh) : lh[i] = c /\ i > tail + 1 THEN 1 ELSE 0
      OBVIOUS
    <3>1. CASE c = b
      <4>1. ~ \E i \in 1..Len(lh) : lh[i] = c /\ i > tail + 1
        BY <1>2, <2>1, <3>1, SMTT(60) DEF IInv, TypeOK
      <4>2. pins'[c] = 0
        BY <1>4, <1>5, <3>1, <1>2, SMTT(60) DEF IInv, TypeOK
      <4> QED BY <4>1, <4>2
    <3>2. CASE c # b
      <4>1. pins'[c] = pins[c]
        BY <1>5, <3>2, <1>2 DEF IInv, TypeOK
      <4>2. \A i \in 1..Len(lh) : lh[i] = c => (i > tail <=> i > tail + 1)
        BY <1>2, <3>2, SMTT(60) DEF IInv, TypeOK
      <4> QED BY <1>3, <4>1, <4>2
    <3> QED BY <3>1, <3>2
  <2>3. Installing' /\ lh' = lh /\ tail' = tail + 1
    BY <1>1, <1>5 DEF Installing
  <2> QED BY <2>2, <2>3 DEF PinsBalanced, Installing
<1> QED BY <1>5, <1>7, <1>8, <1>9 DEF IInv

\* Clearing the header leaves a log with no entries.
LEMMA ClearLogType ==
  ASSUME TypeOK, ClearLog, mode' \in {"boot", "recover", "run", "panic"},
         pc' \in [Procs -> {"idle", "begin", "asleep", "op", "commit", "write_log",
                            "install_trans", "finish"}]
  PROVE  TypeOK' /\ Len(lh') = 0
<1>1. lh' \in Seq(Blocks) /\ Len(lh') = 0 /\ hdr' \in Seq(Blocks) /\ Len(hdr') = 0
  BY SMTT(60) DEF ClearLog
<1>2. tail' \in 0..Len(lh')
  BY <1>1, SMTT(60) DEF ClearLog
<1> QED BY <1>1, <1>2 DEF TypeOK, ClearLog

\* The last write of commit(): every block was installed, so no pin is left.
LEMMA ClearHeadIInv ==
  ASSUME IInv, NEW p \in Procs, clear_head(p)
  PROVE  IInv'
<1>1. /\ p \in InCommit /\ pc[p] = "install_trans" /\ mode = "run" /\ ClearLog
      /\ pc' = [pc EXCEPT ![p] = "finish"]
      /\ UNCHANGED <<mode, wrote, held, outstanding, committing, bufvars>>
      /\ lh' = <<>> /\ tail = Len(lh)
  BY DEF clear_head, Goto, InCommit, ClearLog
<1>2. /\ Quiet' /\ Committer' /\ Counted'
      /\ \A q \in Procs : pc'[q] = "op" <=> pc[q] = "op"
      /\ \A q \in Procs \ {p} : pc'[q] \notin {"install_trans", "finish"}
      /\ pc'[p] = "finish"
      /\ pc' \in [Procs -> {"idle", "begin", "asleep", "op", "commit", "write_log",
                            "install_trans", "finish"}]
  BY <1>1, StayInCommit
<1>3. TypeOK' /\ Len(lh') = 0
  BY <1>1, <1>2, ClearLogType DEF IInv, TypeOK
<1>4. \A q \in Procs : pc'[q] # "op"
  BY <1>1, <1>2, CommitterIsAlone DEF InOp
<1>5. Listed'
  <2>1. \A q \in Procs : wrote'[q] = {} /\ held'[q] = None
    <3>1. \A q \in Procs : pc[q] # "op"
      BY <1>2, <1>4
    <3> QED BY <3>1, <1>1 DEF IInv, Listed
  <2>2. \A i, j \in 1..Len(lh') : lh'[i] = lh'[j] => i = j
    BY <1>3, SMTT(60)
  <2> QED BY <1>4, <2>1, <2>2 DEF Listed
<1>6. Tidy'
  BY <1>1 DEF Tidy
<1>7. PinsBalanced'
  <2>1. \A c \in Blocks : pins[c] = 0
    <3>1. \A i \in 1..Len(lh) : ~(i > tail)
      BY <1>1, SMTT(60) DEF IInv, TypeOK
    <3>2. \A c \in Blocks : pins[c] = IF \E i \in 1..Len(lh) : lh[i] = c /\ i > tail
                                      THEN 1 ELSE 0
      BY <1>1 DEF IInv, PinsBalanced
    <3> QED BY <3>1, <3>2
  <2> QED BY <1>1, <1>3, <2>1, SMTT(60) DEF PinsBalanced
<1> QED BY <1>2, <1>3, <1>5, <1>6, <1>7 DEF IInv

\* The end of end_op(): the committer leaves and the flag is cleared together.
LEMMA FinishIInv ==
  ASSUME IInv, NEW p \in Procs, finish(p)
  PROVE  IInv'
<1>1. /\ p \in InCommit /\ pc[p] = "finish" /\ mode = "run" /\ committing' = FALSE
      /\ Wakeup(p, "idle")
      /\ UNCHANGED <<mode, wrote, held, lh, outstanding, tail, bufvars, diskvars>>
  BY DEF finish, FinishWakeup, InCommit
<1>2. /\ pc' \in [Procs -> {"idle", "begin", "asleep", "op", "commit", "write_log",
                            "install_trans", "finish"}]
      /\ InOp' = InOp \ {p}
      /\ InCommit' = InCommit \ {p}
      /\ \A q \in Procs : pc[q] # "op" => pc'[q] # "op"
  BY <1>1, WakeupFacts DEF IInv
<1>3. InOp = {} /\ InCommit = {p}
  BY <1>1, CommitterIsAlone
<1>4. InOp' = InOp /\ InCommit' = {}
  BY <1>2, <1>3
<1>5. TypeOK'
  BY <1>1, <1>2 DEF IInv, TypeOK
<1>6. Quiet' /\ Committer' /\ Counted'
  BY <1>1, <1>4 DEF IInv, Quiet, Committer, Counted
<1>7. Listed'
  <2>1. \A q \in Procs : pc[q] # "op" /\ pc'[q] # "op"
    BY <1>3, <1>4 DEF InOp
  <2> QED BY <1>1, <2>1 DEF IInv, Listed
<1>8. Tidy'
  BY <1>4 DEF Tidy, InCommit
<1>9. PinsBalanced'
  <2>1. lh = <<>>
    BY <1>1 DEF IInv, Tidy
  <2>2. Len(lh) = 0
    BY <2>1
  <2>3. \A c \in Blocks : pins[c] = 0
    BY <1>1, <2>2, SMTT(60) DEF IInv, PinsBalanced
  <2> QED BY <1>1, <2>2, <2>3, SMTT(60) DEF PinsBalanced
<1> QED BY <1>5, <1>6, <1>7, <1>8, <1>9 DEF IInv

\* recover_from_log() runs while no process has started.
LEMMA RecoveryIInv ==
  ASSUME IInv, Recovery
  PROVE  IInv'
<1>1. CASE read_head
  <2>1. /\ mode = "boot" /\ mode' = "recover" /\ lh' = hdr /\ tail' = 0
        /\ UNCHANGED <<opvars, outstanding, committing, bufvars, diskvars>>
    BY <1>1 DEF read_head
  <2>2. TypeOK'
    BY <2>1, SMTT(60) DEF IInv, TypeOK
  <2>3. InCommit' = InCommit /\ InOp' = InOp
    BY <2>1 DEF InCommit, InOp
  <2>4. Quiet' /\ Committer' /\ Counted'
    BY <2>1, <2>3 DEF IInv, Quiet, Committer, Counted
  <2>5. Listed' /\ Tidy' /\ PinsBalanced'
    BY <2>1 DEF IInv, Quiet, Listed, Tidy, PinsBalanced
  <2> QED BY <2>2, <2>4, <2>5 DEF IInv
<1>2. CASE recover_install
  <2>1. mode = "recover" /\ mode' = mode /\ InstallBlock(TRUE)
    BY <1>2 DEF recover_install
  <2>2. /\ TypeOK' /\ lh[tail + 1] \in Blocks
        /\ pins' = [pins EXCEPT ![lh[tail + 1]] = @]
        /\ UNCHANGED <<opvars, lh, outstanding, committing>>
    BY <2>1, InstallBlockType DEF IInv
  <2>3. pins' = pins
    BY <2>2 DEF IInv, TypeOK
  <2>4. InCommit' = InCommit /\ InOp' = InOp
    BY <2>2 DEF InCommit, InOp
  <2>5. Quiet' /\ Committer' /\ Counted'
    BY <2>1, <2>2, <2>3, <2>4 DEF IInv, Quiet, Committer, Counted
  <2>6. Listed' /\ Tidy' /\ PinsBalanced'
    BY <2>1, <2>2 DEF IInv, Quiet, Listed, Tidy, PinsBalanced
  <2> QED BY <2>2, <2>5, <2>6 DEF IInv
<1>3. CASE recover_clear
  <2>1. /\ mode = "recover" /\ mode' = "run" /\ ClearLog
        /\ UNCHANGED <<pc, wrote, held, outstanding, committing, bufvars>>
    BY <1>3 DEF recover_clear, ClearLog
  <2>2. TypeOK' /\ Len(lh') = 0
    BY <2>1, ClearLogType DEF IInv, TypeOK
  <2>3. InCommit' = InCommit /\ InOp' = InOp
    BY <2>1 DEF InCommit, InOp
  <2>4. Quiet' /\ Committer' /\ Counted'
    BY <2>1, <2>3 DEF IInv, Quiet, Committer, Counted
  <2>5. Listed' /\ Tidy'
    BY <2>1, <2>2, SMTT(60) DEF IInv, Quiet, Listed, Tidy
  <2>6. PinsBalanced'
    BY <2>1, <2>2, SMTT(60) DEF IInv, Quiet, PinsBalanced
  <2> QED BY <2>2, <2>4, <2>5, <2>6 DEF IInv
<1> QED BY <1>1, <1>2, <1>3 DEF Recovery

\* A power failure leaves a fresh memory and the disk as it was.
LEMMA CrashIInv ==
  ASSUME IInv, Crash
  PROVE  IInv'
<1>1. TypeOK'
  <2>1. lh' \in Seq(Blocks) /\ Len(lh') = 0
    BY SMTT(60) DEF Crash, PowerUp
  <2>2. tail' \in 0..Len(lh')
    BY <2>1, SMTT(60) DEF Crash, PowerUp
  <2>3. /\ pins' \in [Blocks -> Nat] /\ cache' \in [Blocks -> Vals \cup {Absent}]
        /\ wrote' \in [Procs -> SUBSET Blocks] /\ held' \in [Procs -> Blocks \cup {None}]
    BY DEF Crash, PowerUp
  <2>4. /\ pc' \in [Procs -> {"idle", "begin", "asleep", "op", "commit", "write_log",
                              "install_trans", "finish"}]
        /\ mode' = "boot" /\ outstanding' \in Nat /\ committing' \in BOOLEAN
    BY DEF Crash, PowerUp
  <2>5. UNCHANGED <<hdr, logblk, home>>
    BY DEF Crash
  <2> QED BY <2>1, <2>2, <2>3, <2>4, <2>5 DEF IInv, TypeOK
<1>2. InOp' = {} /\ InCommit' = {}
  BY DEF Crash, PowerUp, InOp, InCommit
<1>3. Quiet' /\ Committer' /\ Tidy' /\ PinsBalanced'
  BY <1>2 DEF Crash, PowerUp, Quiet, Committer, Tidy, PinsBalanced
<1>4. Counted'
  BY <1>2, FS_EmptySet DEF Crash, PowerUp, Counted
<1>5. Listed'
  BY DEF Crash, PowerUp, Listed
<1> QED BY <1>1, <1>3, <1>4, <1>5 DEF IInv

\* Reading a block in, or recycling its buffer, changes nothing but the cache.
LEMMA CacheIInv ==
  ASSUME IInv, NEW b \in Blocks, Read(b) \/ Recycle(b)
  PROVE  IInv'
<1>1. UNCHANGED <<mode, opvars, logvars, pins, diskvars>>
  BY DEF Read, Recycle
<1>2. cache' \in [Blocks -> Vals \cup {Absent}]
  BY DEF IInv, TypeOK, Read, Recycle
<1>3. TypeOK'
  BY <1>1, <1>2 DEF IInv, TypeOK
<1>4. InCommit' = InCommit /\ InOp' = InOp
  BY <1>1 DEF InCommit, InOp
<1>5. Quiet' /\ Committer' /\ Counted' /\ Tidy' /\ PinsBalanced'
  BY <1>1, <1>4 DEF IInv, Quiet, Committer, Counted, Tidy, PinsBalanced
<1>6. Listed'
  BY <1>1 DEF IInv, Listed, Entries
<1> QED BY <1>3, <1>5, <1>6 DEF IInv

\* Every step, or none, preserves the invariant.
LEMMA NextIInv == IInv /\ [Next]_vars => IInv'
<1> SUFFICES ASSUME IInv, [Next]_vars PROVE IInv'
  OBVIOUS
<1>1. ASSUME NEW p \in Procs,
             begin_op(p) \/ log_write(p) \/ end_op(p)
               \/ \E b \in Blocks, v \in Vals : Modify(p, b, v)
      PROVE  IInv'
  BY <1>1, BeginOpIInv, LogWriteIInv, EndOpIInv, ModifyIInv
<1>2. ASSUME NEW p \in Procs, CommitStep(p) PROVE IInv'
  BY <1>2, CommitIInv, WriteLogIInv, WriteHeadIInv, InstallTransIInv, ClearHeadIInv,
     FinishIInv DEF CommitStep
<1>3. CASE Recovery
  BY <1>3, RecoveryIInv
<1>4. CASE Crash
  BY <1>4, CrashIInv
<1>5. ASSUME NEW b \in Blocks, Read(b) \/ Recycle(b) PROVE IInv'
  BY <1>5, CacheIInv
<1>6. CASE UNCHANGED vars
  <2>1. UNCHANGED <<mode, opvars, logvars, bufvars, diskvars>>
    BY <1>6 DEF vars
  <2>2. InCommit' = InCommit /\ InOp' = InOp
    BY <2>1 DEF InCommit, InOp
  <2>3. TypeOK' /\ Quiet' /\ Committer' /\ Counted' /\ Tidy' /\ PinsBalanced'
    BY <2>1, <2>2 DEF IInv, TypeOK, Quiet, Committer, Counted, Tidy, PinsBalanced
  <2>4. Listed'
    BY <2>1, ListedKept DEF IInv
  <2> QED BY <2>3, <2>4 DEF IInv
<1> QED BY <1>1, <1>2, <1>3, <1>4, <1>5, <1>6 DEF Next

\* The invariant holds in every reachable state.
LEMMA Invariant == Spec => []IInv
  BY InitIInv, NextIInv, PTL DEF Spec

-----------------------------------------------------------------------------
(* What follows from the invariant *)

\* log.c keeps its variables and the disk well formed through every crash: in
\* particular the header never lists more blocks than the log area holds.
THEOREM TypeCorrect == Spec => []TypeOK
<1>1. IInv => TypeOK
  BY DEF IInv
<1> QED BY <1>1, Invariant, PTL

\* commit() runs without the log's lock, but alone: while a process is in it no
\* other is, and no operation is between begin_op() and end_op().
THEOREM CommitsAlone == Spec => []CommitAlone
<1>1. IInv => CommitAlone
  <2> SUFFICES ASSUME IInv, NEW p \in InCommit
               PROVE  InCommit = {p} /\ InOp = {} /\ outstanding = 0
    BY DEF CommitAlone
  <2>1. InOp = {} /\ InCommit = {p}
    BY DEF IInv, Committer
  <2>2. outstanding = 0
    BY <2>1, FS_EmptySet DEF IInv, Counted
  <2> QED BY <2>1, <2>2
<1> QED BY <1>1, Invariant, PTL

\* bpin() in log_write() and bunpin() in install_trans() balance: a block's
\* buffer is pinned once while the log lists it uninstalled, else not at all.
THEOREM PinsAreBalanced == Spec => []PinsBalanced
<1>1. IInv => PinsBalanced
  BY DEF IInv
<1> QED BY <1>1, Invariant, PTL

-----------------------------------------------------------------------------
(* Flow control: begin_op()'s reservation keeps the log from overflowing, and *)
(* whoever it puts to sleep has somebody to wake it                           *)

USE DEF opvars, logvars, bufvars, diskvars

-----------------------------------------------------------------------------
(* Sleepers *)

\* With no operation in progress and no commit under way the log is empty.
Emptied == mode = "run" /\ ~committing /\ InOp = {} => lh = <<>>

\* A sleeper in begin_op() waits for an operation or a commit.
Awaited == (\E p \in Procs : pc[p] = "asleep") => InOp \cup InCommit # {}

\* begin_op() never waits when the log is idle.
LEMMA IdleAdmits ==
  ASSUME IInv, Emptied, mode = "run", ~committing, InOp = {}
  PROVE  ~MustWait
<1>1. lh = <<>>
  BY DEF Emptied
<1>2. Len(lh) = 0
  BY <1>1
<1>3. outstanding = 0
  BY FS_EmptySet DEF IInv, Counted
<1>4. (outstanding + 1) * MAXOPBLOCKS = MAXOPBLOCKS
  BY <1>3, LogAssumption, SMTT(60)
<1> QED BY <1>2, <1>4, LogAssumption, SMTT(60) DEF MustWait

\* begin_op() sleeps only while an operation or a commit is in progress.
LEMMA BeginOpWaker ==
  ASSUME IInv, Emptied, Awaited, NEW p \in Procs, begin_op(p)
  PROVE  Emptied' /\ Awaited'
<1>1. /\ InCommit' = InCommit
      /\ \/ MustWait /\ InOp' = InOp
         \/ ~MustWait /\ InOp' = InOp \cup {p}
  BY DEF IInv, TypeOK, begin_op, InCommit, InOp
<1>2. Emptied'
  BY <1>1 DEF Emptied, begin_op
<1>3. CASE MustWait
  <2>1. committing => InCommit # {}
    BY DEF IInv, Committer
  <2>2. ~committing => InOp # {}
    BY <1>3, IdleAdmits DEF begin_op
  <2> QED BY <1>1, <1>2, <1>3, <2>1, <2>2 DEF Awaited
<1>4. CASE ~MustWait
  BY <1>1, <1>2, <1>4 DEF Awaited
<1> QED BY <1>3, <1>4

\* end_op() either becomes the commit sleepers wait for, or wakes them all.
LEMMA EndOpWaker ==
  ASSUME IInv, Emptied, Awaited, NEW p \in Procs, end_op(p)
  PROVE  Emptied' /\ Awaited'
<1>1. CASE committing
  BY <1>1 DEF end_op, Panic, Emptied, Awaited, InOp, InCommit
<1>2. CASE ~committing
  <2>1. p \in InOp /\ outstanding = Cardinality(InOp) /\ IsFiniteSet(InOp)
    BY InOpFinite DEF IInv, Counted, InOp, end_op
  <2>2. CASE outstanding = 1
    <3>1. committing' = TRUE /\ pc' = [pc EXCEPT ![p] = "commit"]
      BY <1>2, <2>2 DEF end_op, EndOpEffect
    <3>2. p \in InCommit'
      BY <3>1 DEF InCommit, IInv, TypeOK
    <3> QED BY <3>1, <3>2 DEF Emptied, Awaited
  <2>3. CASE outstanding # 1
    <3>1. Wakeup(p, "idle")
      BY <1>2, <2>3 DEF end_op, EndOpEffect
    <3>2. \A q \in Procs : pc'[q] # "asleep"
      BY <3>1 DEF Wakeup
    <3>3. InOp' = InOp \ {p}
      BY <3>1, WakeupFacts DEF IInv
    <3>4. InOp' # {}
      <4>1. Cardinality(InOp \ {p}) = Cardinality(InOp) - 1
        BY <2>1, FS_RemoveElement
      <4>2. Cardinality(InOp) \in Nat /\ Cardinality({}) = 0
        BY InOpFinite, FS_EmptySet
      <4> QED BY <2>1, <2>3, <3>3, <4>1, <4>2, SMTT(60)
    <3> QED BY <3>2, <3>4 DEF Emptied, Awaited
  <2> QED BY <2>2, <2>3
<1> QED BY <1>1, <1>2

\* A commit keeps its process in commit() until finish() wakes everybody.
LEMMA CommitStepWaker ==
  ASSUME IInv, Emptied, Awaited, NEW p \in Procs, CommitStep(p)
  PROVE  Emptied' /\ Awaited'
<1>1. p \in InCommit
  BY DEF CommitStep, commit, write_log, write_head, install_trans, clear_head, finish,
         Goto, InCommit
<1>2. committing /\ InOp = {}
  BY <1>1, CommitterIsAlone
<1>3. CASE finish(p)
  <2>1. Wakeup(p, "idle") /\ lh' = lh /\ lh = <<>>
    BY <1>3 DEF finish, FinishWakeup, IInv, Tidy
  <2> QED BY <2>1 DEF Wakeup, Emptied, Awaited
<1>4. CASE ~finish(p)
  <2>1. committing' = committing /\ p \in InCommit'
    BY <1>4 DEF CommitStep, commit, write_log, write_head, install_trans, clear_head,
         Goto, InCommit, InstallBlock, ClearLog, IInv, TypeOK
  <2> QED BY <1>2, <2>1 DEF Emptied, Awaited
<1> QED BY <1>3, <1>4

\* Every step keeps the log empty when idle, and sleepers awaited.
LEMMA NextWaker == IInv /\ Emptied /\ Awaited /\ [Next]_vars => Emptied' /\ Awaited'
<1> SUFFICES ASSUME IInv, Emptied, Awaited, [Next]_vars PROVE Emptied' /\ Awaited'
  OBVIOUS
<1>1. ASSUME NEW p \in Procs, begin_op(p) \/ end_op(p) \/ CommitStep(p)
      PROVE  Emptied' /\ Awaited'
  BY <1>1, BeginOpWaker, EndOpWaker, CommitStepWaker
<1>2. ASSUME NEW p \in Procs,
             log_write(p) \/ \E b \in Blocks, v \in Vals : Modify(p, b, v)
      PROVE  Emptied' /\ Awaited'
  <2>1. pc' = pc /\ p \in InOp
    BY <1>2 DEF log_write, Modify, Panic, InOp
  <2> QED BY <2>1 DEF Emptied, Awaited, InOp, InCommit
<1>3. CASE Recovery
  <2>1. pc' = pc /\ (mode' = "run" => lh' = <<>>)
    BY <1>3 DEF Recovery, read_head, recover_install, recover_clear, InstallBlock, ClearLog
  <2> QED BY <2>1 DEF Emptied, Awaited, InOp, InCommit
<1>4. CASE Crash
  BY <1>4 DEF Crash, PowerUp, Emptied, Awaited
<1>5. ASSUME NEW b \in Blocks, Read(b) \/ Recycle(b) PROVE Emptied' /\ Awaited'
  BY <1>5 DEF Read, Recycle, Emptied, Awaited, InOp, InCommit
<1>6. CASE UNCHANGED vars
  BY <1>6 DEF vars, Emptied, Awaited, InOp, InCommit
<1> QED BY <1>1, <1>2, <1>3, <1>4, <1>5, <1>6 DEF Next

\* Nobody sleeps in begin_op() unless an operation or a commit is in progress,
\* whose end_op() will wake it: the space reserved by a log at rest never
\* keeps everybody waiting.
THEOREM SleepersHaveWaker == Spec => []SleeperHasWaker
<1>1. Init => Emptied /\ Awaited
  BY DEF Init, Emptied, Awaited
<1>2. IInv /\ Awaited => SleeperHasWaker
  BY DEF Awaited, SleeperHasWaker, InOp, InCommit
<1> QED BY <1>1, <1>2, NextWaker, Invariant, PTL DEF Spec

-----------------------------------------------------------------------------
(* Space *)

\* What an operation may still log: at most OpBlocks distinct blocks in all.
Small ==
  \A p \in Procs :
    /\ IsFiniteSet(wrote[p])
    /\ Cardinality(wrote[p]) <= OpBlocks
    /\ held[p] # None => held[p] \in wrote[p] \/ Cardinality(wrote[p]) < OpBlocks

\* The part of its reservation an operation has not used, and the log entries
\* set aside for all of them.
Unused(p) == MAXOPBLOCKS - Cardinality(wrote[p])

Reserved == {r \in InOp \X (1..MAXOPBLOCKS) : r[2] <= Unused(r[1])}

\* The entries in use and those set aside fit the log.
Fits == mode = "run" => Len(lh) + Cardinality(Reserved) <= LOGSIZE

SInv == NoPanic /\ Small /\ Fits

\* What is set aside is finite and within begin_op()'s product.
LEMMA ReservedBound ==
  ASSUME NEW S, IsFiniteSet(S), NEW R \in SUBSET (S \X (1..MAXOPBLOCKS))
  PROVE  /\ IsFiniteSet(R) /\ Cardinality(R) \in Nat
         /\ Cardinality(R) <= Cardinality(S) * MAXOPBLOCKS
<1>1. IsFiniteSet(1..MAXOPBLOCKS) /\ Cardinality(1..MAXOPBLOCKS) = MAXOPBLOCKS
  BY LogAssumption, FS_Interval, SMTT(60)
<1>2. /\ IsFiniteSet(S \X (1..MAXOPBLOCKS))
      /\ Cardinality(S \X (1..MAXOPBLOCKS)) = Cardinality(S) * MAXOPBLOCKS
  BY <1>1, FS_Product
<1>3. IsFiniteSet(R) /\ Cardinality(R) <= Cardinality(S \X (1..MAXOPBLOCKS))
  BY <1>2, FS_Subset
<1> QED BY <1>2, <1>3, FS_CardinalityType

\* begin_op()'s product is a natural number.
LEMMA ProductType ==
  ASSUME outstanding \in Nat
  PROVE  (outstanding + 1) * MAXOPBLOCKS \in Nat
<1>1. MAXOPBLOCKS \in Nat /\ outstanding + 1 \in Nat
  BY LogAssumption, SMTT(60)
<1>2. \A x, y \in Nat : x * y \in Nat
  BY SMTT(60)
<1> QED BY <1>1, <1>2

\* The entries set aside are finitely many.
LEMMA ReservedFinite == IsFiniteSet(Reserved) /\ Cardinality(Reserved) \in Nat
<1>1. Reserved \in SUBSET (InOp \X (1..MAXOPBLOCKS))
  BY DEF Reserved
<1> QED BY <1>1, InOpFinite, ReservedBound

\* An operation in progress has its unused part set aside, so the log is short
\* of full by at least what operations never use.
LEMMA RoomLeft ==
  ASSUME IInv, SInv, mode = "run", NEW p \in InOp
  PROVE  Len(lh) <= LOGSIZE - (MAXOPBLOCKS - OpBlocks)
<1> DEFINE k == MAXOPBLOCKS - OpBlocks
           R == {p} \X (1..k)
<1>1. k \in Nat /\ p \in Procs /\ Cardinality(wrote[p]) \in Nat
      /\ Cardinality(wrote[p]) <= OpBlocks /\ Len(lh) \in Nat
  BY LogAssumption, FS_CardinalityType, SMTT(60) DEF SInv, Small, InOp, IInv, TypeOK
<1>2. R \in SUBSET Reserved
  BY <1>1, LogAssumption, SMTT(60) DEF Reserved, Unused
<1>3. Cardinality(R) = k
  <2>1. IsFiniteSet(1..k) /\ Cardinality(1..k) = k
    BY <1>1, FS_Interval, SMTT(60)
  <2>2. IsFiniteSet({p}) /\ Cardinality({p}) = 1
    BY FS_Singleton
  <2>3. Cardinality(R) = Cardinality({p}) * Cardinality(1..k)
    BY <2>1, <2>2, FS_Product
  <2> QED BY <1>1, <2>1, <2>2, <2>3, SMTT(60)
<1>4. Cardinality(R) <= Cardinality(Reserved)
  BY <1>2, ReservedFinite, FS_Subset
<1> HIDE DEF R
<1>5. Len(lh) + Cardinality(Reserved) <= LOGSIZE
  BY DEF SInv, Fits
<1> QED BY <1>1, <1>3, <1>4, <1>5, ReservedFinite, LogAssumption, SMTT(60)

\* begin_op() admits an operation only if a whole reservation for it and for
\* each one in progress still fits.
LEMMA BeginOpSpace ==
  ASSUME IInv, IInv', SInv, NEW p \in Procs, begin_op(p)
  PROVE  SInv'
<1>1. NoPanic' /\ Small'
  BY DEF SInv, NoPanic, Small, begin_op
<1>2. CASE MustWait
  <2>1. InOp' = InOp /\ UNCHANGED <<wrote, lh, mode>>
    BY <1>2 DEF begin_op, InOp, IInv, TypeOK
  <2>2. Reserved' = Reserved
    BY <2>1 DEF Reserved, Unused
  <2> QED BY <1>1, <2>1, <2>2 DEF SInv, Fits
<1>3. CASE ~MustWait
  <2>1. outstanding' = outstanding + 1 /\ lh' = lh
        /\ Len(lh) + (outstanding + 1) * MAXOPBLOCKS <= LOGSIZE
    <3>1. (outstanding + 1) * MAXOPBLOCKS \in Nat /\ Len(lh) \in Nat
      BY ProductType, SMTT(60) DEF IInv, TypeOK
    <3> QED BY <1>3, <3>1, LogAssumption, SMTT(60) DEF begin_op, MustWait
  <2>2. Reserved' \in SUBSET (InOp' \X (1..MAXOPBLOCKS))
    BY DEF Reserved
  <2>3. IsFiniteSet(InOp')
    <3>1. InOp' \in SUBSET Procs
      BY DEF InOp
    <3> QED BY <3>1, LogAssumption, FS_Subset
  <2>4. /\ Cardinality(Reserved') \in Nat
        /\ Cardinality(Reserved') <= Cardinality(InOp') * MAXOPBLOCKS
    BY <2>2, <2>3, ReservedBound
  <2>5. Cardinality(InOp') = outstanding + 1
    BY <2>1 DEF IInv, Counted
  <2>6. Len(lh') + Cardinality(Reserved') <= LOGSIZE
    <3> DEFINE m == (outstanding + 1) * MAXOPBLOCKS
    <3>1. m \in Nat /\ Len(lh) \in Nat /\ Cardinality(Reserved') <= m /\ Len(lh) + m <= LOGSIZE
      BY <2>1, <2>4, <2>5, ProductType, SMTT(60) DEF IInv, TypeOK
    <3> HIDE DEF m
    <3> QED BY <2>1, <2>4, <3>1, LogAssumption, SMTT(60)
  <2> QED BY <1>1, <2>6 DEF SInv, Fits
<1> QED BY <1>2, <1>3

\* log_write() finds room, and a new entry comes out of p's own reservation.
LEMMA LogWriteSpace ==
  ASSUME SpaceEnough, IInv, SInv, NEW p \in Procs, log_write(p)
  PROVE  SInv'
<1> DEFINE b == held[p]
<1>1. p \in InOp /\ mode = "run" /\ b \in Blocks /\ b # None
  BY DEF log_write, InOp, IInv, TypeOK
<1>2. ~(TooBig \/ outstanding < 1)
  <2>1. Len(lh) <= LOGSIZE - (MAXOPBLOCKS - OpBlocks) /\ Len(lh) \in Nat
    BY <1>1, RoomLeft, SMTT(60) DEF IInv, TypeOK
  <2>2. ~TooBig
    BY <2>1, LogAssumption, SMTT(60) DEF SpaceEnough, TooBig
  <2>3. outstanding # 0
    BY <1>1, InOpFinite, FS_EmptySet DEF IInv, Counted
  <2> QED BY <2>2, <2>3, SMTT(60) DEF IInv, TypeOK
<1>3. /\ Absorb(b)
      /\ wrote' = [wrote EXCEPT ![p] = @ \cup {b}]
      /\ held' = [held EXCEPT ![p] = None]
      /\ UNCHANGED <<mode, pc>>
  BY <1>2 DEF log_write
<1>4. InOp' = InOp /\ NoPanic'
  BY <1>3 DEF InOp, SInv, NoPanic
<1>5. CASE b \in wrote[p]
  <2>1. wrote' = wrote
    BY <1>3, <1>5 DEF IInv, TypeOK
  <2>2. lh' = lh
    BY <1>1, <1>3, <1>5 DEF IInv, Listed, InOp, Absorb
  <2>3. Reserved' = Reserved
    BY <1>4, <2>1 DEF Reserved, Unused
  <2>4. Small'
    BY <1>3, <2>1 DEF SInv, Small, IInv, TypeOK
  <2> QED BY <1>3, <1>4, <2>2, <2>3, <2>4 DEF SInv, Fits
<1>6. CASE b \notin wrote[p]
  <2> DEFINE u == Unused(p)
  <2>1. /\ IsFiniteSet(wrote[p]) /\ Cardinality(wrote[p]) \in Nat
        /\ Cardinality(wrote[p]) < OpBlocks
    BY <1>1, <1>6, FS_CardinalityType DEF SInv, Small
  <2>2. /\ wrote'[p] = wrote[p] \cup {b}
        /\ \A q \in Procs \ {p} : wrote'[q] = wrote[q] /\ held'[q] = held[q]
        /\ held'[p] = None
    BY <1>3 DEF IInv, TypeOK
  <2>3. IsFiniteSet(wrote'[p]) /\ Cardinality(wrote'[p]) = Cardinality(wrote[p]) + 1
    <3> HIDE DEF b
    <3>1. /\ IsFiniteSet(wrote[p] \cup {b})
          /\ Cardinality(wrote[p] \cup {b}) = Cardinality(wrote[p]) + 1
      BY <1>6, <2>1, FS_AddElement
    <3> QED BY <2>2, <3>1
  <2>4. Small'
    <3>1. Cardinality(wrote'[p]) <= OpBlocks
      BY <2>1, <2>3, LogAssumption, SMTT(60)
    <3>2. ASSUME NEW q \in Procs
          PROVE  /\ IsFiniteSet(wrote'[q])
                 /\ Cardinality(wrote'[q]) <= OpBlocks
                 /\ held'[q] # None =>
                      held'[q] \in wrote'[q] \/ Cardinality(wrote'[q]) < OpBlocks
      <4>1. CASE q = p
        BY <2>2, <2>3, <3>1, <4>1
      <4>2. CASE q # p
        BY <2>2, <4>2 DEF SInv, Small
      <4> QED BY <4>1, <4>2
    <3> QED BY <3>2 DEF Small
  <2>5. u \in 1..MAXOPBLOCKS /\ Unused(p)' = u - 1
    <3> DEFINE k == Cardinality(wrote[p])
    <3>1. u = MAXOPBLOCKS - k /\ Unused(p)' = MAXOPBLOCKS - (k + 1)
      BY <2>3 DEF Unused
    <3>2. k \in Nat /\ k < OpBlocks
      BY <2>1
    <3> HIDE DEF k, u
    <3> QED BY <3>1, <3>2, LogAssumption, SMTT(60)
  <2>6. \A q \in Procs \ {p} : Unused(q)' = Unused(q)
    BY <2>2 DEF Unused
  <2>7. <<p, u>> \in Reserved
    BY <1>1, <2>5, SMTT(60) DEF Reserved
  <2>8. Reserved' = Reserved \ {<<p, u>>}
    <3>1. \A i \in 1..MAXOPBLOCKS : i <= u - 1 <=> i <= u /\ i # u
      BY <2>5, SMTT(60)
    <3>2. InOp \subseteq Procs
      BY DEF InOp
    <3>3. \A q \in InOp, i \in 1..MAXOPBLOCKS :
            i <= Unused(q)' <=> i <= Unused(q) /\ <<q, i>> # <<p, u>>
      BY <2>5, <2>6, <3>1, <3>2
    <3>4. \A r \in InOp \X (1..MAXOPBLOCKS) :
            r[2] <= Unused(r[1])' <=> r[2] <= Unused(r[1]) /\ r # <<p, u>>
      BY <3>3, SMTT(60)
    <3>5. Reserved' = {r \in InOp \X (1..MAXOPBLOCKS) : r[2] <= Unused(r[1])'}
      BY <1>4 DEF Reserved, Unused
    <3> QED BY <3>4, <3>5 DEF Reserved
  <2>9. Cardinality(Reserved') = Cardinality(Reserved) - 1
    BY <2>7, <2>8, ReservedFinite, FS_RemoveElement
  <2>10. Len(lh') \in Nat /\ Len(lh) \in Nat /\ Len(lh') <= Len(lh) + 1
    <3>1. lh' = lh \/ lh' = Append(lh, b)
      BY <1>3 DEF Absorb
    <3> QED BY <1>1, <3>1, SMTT(60) DEF IInv, TypeOK
  <2>11. Fits'
    BY <1>1, <1>3, <2>9, <2>10, ReservedFinite, LogAssumption, SMTT(60) DEF SInv, Fits
  <2> QED BY <1>4, <2>4, <2>11 DEF SInv
<1> QED BY <1>5, <1>6

\* end_op() gives p's reservation back and cannot meet a commit.
LEMMA EndOpSpace ==
  ASSUME IInv, SInv, NEW p \in Procs, end_op(p)
  PROVE  SInv'
<1>1. p \in InOp /\ ~committing
  BY DEF end_op, InOp, IInv, Committer
<1>2. /\ mode' = mode /\ lh' = lh /\ held' = held
      /\ wrote' = [wrote EXCEPT ![p] = {}] /\ EndOpEffect(p)
  BY <1>1 DEF end_op
<1>3. InOp' = InOp \ {p}
  <2>1. CASE outstanding = 1
    BY <1>2, <2>1 DEF EndOpEffect, InOp, IInv, TypeOK
  <2>2. CASE outstanding # 1
    BY <1>2, <2>2, WakeupFacts DEF EndOpEffect, IInv
  <2> QED BY <2>1, <2>2
<1>4. /\ \A q \in Procs \ {p} : wrote'[q] = wrote[q]
      /\ wrote'[p] = {} /\ held[p] = None
  BY <1>2 DEF IInv, TypeOK, end_op
<1>5. Small'
  <2>1. IsFiniteSet({}) /\ Cardinality({}) = 0
    BY FS_EmptySet
  <2>2. ASSUME NEW q \in Procs \ {p}
        PROVE  /\ IsFiniteSet(wrote'[q])
               /\ Cardinality(wrote'[q]) <= OpBlocks
               /\ held'[q] # None =>
                    held'[q] \in wrote'[q] \/ Cardinality(wrote'[q]) < OpBlocks
    BY <1>2, <1>4 DEF SInv, Small
  <2>3. IsFiniteSet(wrote'[p]) /\ Cardinality(wrote'[p]) = 0 /\ held'[p] = None
    BY <1>2, <1>4, <2>1
  <2>4. 0 <= OpBlocks
    BY LogAssumption, SMTT(60)
  <2> QED BY <2>2, <2>3, <2>4 DEF Small
<1>6. Reserved' \in SUBSET Reserved
  BY <1>3, <1>4 DEF Reserved, Unused, InOp
<1>7. Cardinality(Reserved') <= Cardinality(Reserved) /\ Cardinality(Reserved') \in Nat
  BY <1>6, ReservedFinite, FS_Subset, FS_CardinalityType
<1>8. Fits'
  <2>1. Len(lh) \in Nat
    BY SMTT(60) DEF IInv, TypeOK
  <2> QED BY <1>2, <1>7, <2>1, ReservedFinite, LogAssumption, SMTT(60) DEF SInv, Fits
<1> QED BY <1>2, <1>5, <1>8 DEF SInv, NoPanic

\* Modifying a buffer stays within OpBlocks.
LEMMA ModifySpace ==
  ASSUME IInv, SInv, NEW p \in Procs, NEW b \in Blocks, NEW v \in Vals, Modify(p, b, v)
  PROVE  SInv'
<1>1. /\ UNCHANGED <<mode, pc, wrote, lh>>
      /\ held' = [held EXCEPT ![p] = b]
      /\ b \in wrote[p] \/ Cardinality(wrote[p]) < OpBlocks
  BY DEF Modify
<1>2. Small'
  BY <1>1 DEF SInv, Small, IInv, TypeOK
<1>3. Reserved' = Reserved
  BY <1>1 DEF Reserved, Unused, InOp
<1> QED BY <1>1, <1>2, <1>3 DEF SInv, NoPanic, Fits

\* A commit panics nowhere; its log fits, and nothing is set aside meanwhile.
LEMMA CommitStepSpace ==
  ASSUME IInv, IInv', SInv, NEW p \in Procs, CommitStep(p)
  PROVE  SInv'
<1>1. UNCHANGED <<mode, wrote, held>>
  BY DEF CommitStep, commit, write_log, write_head, install_trans, clear_head, finish,
         InstallBlock, ClearLog
<1>2. p \in InCommit
  BY DEF CommitStep, commit, write_log, write_head, install_trans, clear_head, finish,
         Goto, InCommit
<1>3. InOp = {}
  BY <1>2, CommitterIsAlone
<1>4. InOp' = {}
  <2>1. CASE finish(p)
    <3>1. Wakeup(p, "idle")
      BY <2>1 DEF finish, FinishWakeup
    <3> QED BY <1>3, <3>1, WakeupFacts DEF IInv
  <2>2. CASE ~finish(p)
    BY <1>3, <2>2 DEF CommitStep, commit, write_log, write_head, install_trans, clear_head,
         Goto, InstallBlock, ClearLog, InOp, IInv, TypeOK
  <2> QED BY <2>1, <2>2
<1>5. Small' /\ NoPanic'
  BY <1>1 DEF SInv, Small, NoPanic
<1>6. Fits'
  <2>1. Reserved' = {}
    BY <1>4 DEF Reserved
  <2>2. Cardinality(Reserved') = 0
    BY <2>1, FS_EmptySet
  <2>3. Len(lh') \in {0} \cup Slots
    BY DEF IInv, TypeOK
  <2>4. Len(lh') \in Nat /\ Len(lh') <= LOGSIZE
    BY <2>3, LogAssumption, SMTT(60) DEF Slots
  <2> QED BY <2>2, <2>4, LogAssumption, SMTT(60) DEF Fits
<1> QED BY <1>5, <1>6 DEF SInv

\* Recovery and a power failure: no operation is in progress.
LEMMA BootSpace ==
  ASSUME IInv, IInv', SInv, Recovery \/ Crash
  PROVE  SInv'
<1>1. InOp' = {}
  <2>1. CASE Recovery
    <3>1. mode \in {"boot", "recover"} /\ pc' = pc
      BY <2>1 DEF Recovery, read_head, recover_install, recover_clear, InstallBlock
    <3> QED BY <3>1 DEF IInv, Quiet, InOp
  <2>2. CASE Crash
    BY <2>2 DEF Crash, PowerUp, InOp
  <2> QED BY <2>1, <2>2
<1>2. NoPanic'
  BY DEF Recovery, read_head, recover_install, recover_clear, Crash, PowerUp, SInv, NoPanic
<1>3. Small'
  <2>1. CASE Recovery
    <3>1. UNCHANGED <<wrote, held>>
      BY <2>1 DEF Recovery, read_head, recover_install, recover_clear, InstallBlock, ClearLog
    <3> QED BY <3>1 DEF SInv, Small
  <2>2. CASE Crash
    <3>1. \A q \in Procs : wrote'[q] = {} /\ held'[q] = None
      BY <2>2 DEF Crash, PowerUp
    <3> QED BY <3>1, FS_EmptySet, LogAssumption, SMTT(60) DEF Small
  <2> QED BY <2>1, <2>2
<1>4. Fits'
  <2>1. Reserved' = {}
    BY <1>1 DEF Reserved
  <2>2. Cardinality(Reserved') = 0
    BY <2>1, FS_EmptySet
  <2>3. Len(lh') \in Nat /\ Len(lh') <= LOGSIZE
    <3>1. TypeOK'
      BY DEF IInv
    <3> QED BY <3>1, LogAssumption, SMTT(60) DEF TypeOK, Slots
  <2> QED BY <2>2, <2>3, LogAssumption, SMTT(60) DEF Fits
<1> QED BY <1>2, <1>3, <1>4 DEF SInv

\* Steps that touch neither the log nor the operations.
LEMMA QuietSpace ==
  ASSUME SInv, UNCHANGED <<mode, pc, wrote, held, lh>>
  PROVE  SInv'
<1>1. Reserved' = Reserved
  BY DEF Reserved, Unused, InOp
<1> QED BY <1>1 DEF SInv, NoPanic, Small, Fits

\* Every step leaves the log with room for the operations in progress.
LEMMA NextSpace ==
  ASSUME SpaceEnough
  PROVE  IInv /\ IInv' /\ SInv /\ [Next]_vars => SInv'
<1> SUFFICES ASSUME IInv, IInv', SInv, [Next]_vars PROVE SInv'
  OBVIOUS
<1>1. ASSUME NEW p \in Procs,
             begin_op(p) \/ log_write(p) \/ end_op(p) \/ CommitStep(p)
               \/ \E b \in Blocks, v \in Vals : Modify(p, b, v)
      PROVE  SInv'
  BY <1>1, BeginOpSpace, LogWriteSpace, EndOpSpace, CommitStepSpace, ModifySpace
<1>2. CASE Recovery \/ Crash
  BY <1>2, BootSpace
<1>3. ASSUME NEW b \in Blocks, Read(b) \/ Recycle(b) PROVE SInv'
  BY <1>3, QuietSpace DEF Read, Recycle
<1>4. CASE UNCHANGED vars
  BY <1>4, QuietSpace DEF vars
<1> QED BY <1>1, <1>2, <1>3, <1>4 DEF Next

\* If operations leave part of their reservation unused, as SpaceEnough says,
\* begin_op()'s test keeps log_write() and end_op() from every panic, whatever
\* the number of processes and the interleaving of their operations.
THEOREM NoPanics ==
  ASSUME SpaceEnough
  PROVE  Spec => []NoPanic
<1>1. Init => SInv
  <2> SUFFICES ASSUME Init PROVE SInv
    OBVIOUS
  <2>1. \A p \in Procs : wrote[p] = {} /\ held[p] = None
    BY DEF Init
  <2>2. Small
    BY <2>1, FS_EmptySet, LogAssumption, SMTT(60) DEF Small
  <2> QED BY <2>2 DEF Init, SInv, NoPanic, Fits
<1>2. IInv /\ IInv' /\ SInv /\ [Next]_vars => SInv'
  BY NextSpace
<1>3. SInv => NoPanic
  BY DEF SInv
<1> QED BY <1>1, <1>2, <1>3, Invariant, PTL DEF Spec

-----------------------------------------------------------------------------
(* Crash atomicity *)

\* Recovered and Seen as functions of what they read.
Replay(h, l, m) ==
  [b \in Blocks |->
     IF b \in Entries(h)
     THEN l[CHOOSE i \in 1..Len(h) : h[i] = b /\ \A j \in (i + 1)..Len(h) : h[j] # b]
     ELSE m[b]]

View(c, m) == [b \in Blocks |-> IF c[b] = Absent THEN m[b] ELSE c[b]]

Once(h) == \A i, j \in 1..Len(h) : h[i] = h[j] => i = j

\* The cache has nothing for b that its home block has not.
Clean(b) == cache[b] \in {Absent, home[b]}

\* The first n blocks the log lists are in the log's data blocks; the first tail of
\* them are in their home blocks.
Copied(n) == \A i \in 1..n : logblk[i] = View(cache, home)[lh[i]]
Installed == \A i \in 1..tail : home[lh[i]] = logblk[i]

\* The phases of recovery.
Booting == mode = "boot" => \A b \in Blocks : cache[b] = Absent
Recovering == mode = "recover" => lh = hdr /\ Installed /\ \A b \in Blocks : Clean(b)

\* A block whose buffer differs from the disk is pinned or held.
Coherent ==
  mode = "run" => \A b \in Blocks : Clean(b) \/ pins[b] # 0 \/ \E p \in Procs : held[p] = b

\* The phases of commit(): the header is empty except while install_trans() runs,
\* and then the log's data blocks have what the kernel sees.
Committing ==
  mode = "run" =>
    /\ \A p \in Procs : pc[p] = "write_log" => Copied(tail)
    /\ \A p \in Procs : pc[p] = "install_trans" => hdr = lh /\ Copied(Len(lh)) /\ Installed
    /\ ~Installing => hdr = <<>>

DInv == Once(hdr) /\ Booting /\ Recovering /\ Coherent /\ Committing

\* Replay and View are Recovered and Seen.
LEMMA Means ==
  /\ Recovered = Replay(hdr, logblk, home)
  /\ Recovered' = Replay(hdr', logblk', home')
  /\ mode \in {"boot", "recover"} => Seen = Replay(hdr, logblk, home)
  /\ mode' \in {"boot", "recover"} => Seen' = Replay(hdr', logblk', home')
  /\ mode \notin {"boot", "recover"} => Seen = View(cache, home)
  /\ mode' \notin {"boot", "recover"} => Seen' = View(cache', home')
<1>1. Recovered = Replay(hdr, logblk, home) /\ Recovered' = Replay(hdr', logblk', home')
  BY DEF Recovered, Replay
<1>2. /\ [b \in Blocks |-> bread(b)] = View(cache, home)
      /\ [b \in Blocks |-> bread(b)]' = View(cache', home')
  BY DEF View, bread
<1> QED  BY <1>1, <1>2 DEF Seen

\* Where a block is listed, its log block is replayed, elsewhere nothing is.
LEMMA ReplayAt ==
  ASSUME NEW h \in Seq(Blocks), Once(h), NEW l, NEW m
  PROVE  /\ \A i \in 1..Len(h) : Replay(h, l, m)[h[i]] = l[i]
         /\ \A b \in Blocks \ Entries(h) : Replay(h, l, m)[b] = m[b]
<1>1. ASSUME NEW i \in 1..Len(h) PROVE Replay(h, l, m)[h[i]] = l[i]
  <2> DEFINE c == CHOOSE k \in 1..Len(h) : h[k] = h[i] /\ \A j \in (k + 1)..Len(h) : h[j] # h[i]
  <2>1. Len(h) \in Nat /\ h[i] \in Blocks /\ h[i] \in Entries(h)
    BY SMTT(60) DEF Entries
  <2>2. \A j \in (i + 1)..Len(h) : h[j] # h[i]
    <3> SUFFICES ASSUME NEW j \in (i + 1)..Len(h), h[j] = h[i] PROVE FALSE
      OBVIOUS
    <3>1. j \in 1..Len(h) /\ j # i
      BY <2>1, SMTT(60)
    <3> QED  BY <3>1 DEF Once
  <2>3. c \in 1..Len(h) /\ h[c] = h[i]
    BY <2>2
  <2>4. c = i
    BY <2>3 DEF Once
  <2>5. Replay(h, l, m)[h[i]] = l[c]
    BY <2>1 DEF Replay
  <2> QED  BY <2>4, <2>5
<1>2. \A b \in Blocks \ Entries(h) : Replay(h, l, m)[b] = m[b]
  BY DEF Replay
<1> QED  BY <1>1, <1>2

\* That determines it.
LEMMA ReplayIs ==
  ASSUME NEW h \in Seq(Blocks), Once(h), NEW l, NEW m, NEW f \in [Blocks -> Vals],
         \A i \in 1..Len(h) : f[h[i]] = l[i],
         \A b \in Blocks \ Entries(h) : f[b] = m[b]
  PROVE  Replay(h, l, m) = f
<1> DEFINE r == Replay(h, l, m)
<1>1. r = [b \in Blocks |-> r[b]]
  BY SMTT(60) DEF Replay
<1>2. ASSUME NEW b \in Blocks PROVE r[b] = f[b]
  <2>1. CASE b \in Entries(h)
    <3>1. PICK i \in 1..Len(h) : b = h[i]
      BY <2>1 DEF Entries
    <3> QED  BY <3>1, ReplayAt, SMTT(60)
  <2>2. CASE b \notin Entries(h)
    BY <2>2, ReplayAt, SMTT(60)
  <2> QED  BY <2>1, <2>2
<1> HIDE DEF r
<1>3. r = f
  BY <1>1, <1>2
<1> QED  BY <1>3 DEF r

\* It is a disk.
LEMMA ReplayType ==
  ASSUME NEW h \in Seq(Blocks), Len(h) \in {0} \cup Slots, Once(h),
         NEW l \in [Slots -> Vals], NEW m \in [Blocks -> Vals]
  PROVE  Replay(h, l, m) \in [Blocks -> Vals]
<1> DEFINE r == Replay(h, l, m)
<1>1. r = [b \in Blocks |-> r[b]]
  BY SMTT(60) DEF Replay
<1>2. ASSUME NEW b \in Blocks PROVE r[b] \in Vals
  <2>1. CASE b \in Entries(h)
    <3>1. PICK i \in 1..Len(h) : b = h[i]
      BY <2>1 DEF Entries
    <3>2. i \in Slots
      BY SlotsDown
    <3> QED  BY <3>1, <3>2, ReplayAt, SMTT(60)
  <2>2. CASE b \notin Entries(h)
    BY <2>2, ReplayAt, SMTT(60)
  <2> QED  BY <2>1, <2>2
<1> HIDE DEF r
<1>3. r \in [Blocks -> Vals]
  BY <1>1, <1>2
<1> QED  BY <1>3 DEF r

\* An empty log replays nothing.
LEMMA ReplayNone ==
  ASSUME NEW l, NEW m \in [Blocks -> Vals]
  PROVE  Replay(<<>>, l, m) = m
<1> DEFINE h == <<>>
<1>1. h \in Seq(Blocks) /\ Len(h) = 0
  BY SMTT(60)
<1> HIDE DEF h
<1>2. \A i \in 1..Len(h) : FALSE
  BY <1>1, SMTT(60)
<1>3. Once(h) /\ Entries(h) = {}
  BY <1>2 DEF Once, Entries
<1>4. Replay(h, l, m) = m
  BY <1>1, <1>2, <1>3, ReplayIs
<1> QED  BY <1>4 DEF h

\* Installing a listed block changes nothing of what a replay gives.
LEMMA ReplayInstall ==
  ASSUME NEW h \in Seq(Blocks), Len(h) \in {0} \cup Slots, Once(h),
         NEW l \in [Slots -> Vals], NEW m \in [Blocks -> Vals], NEW n,
         \A b \in Blocks \ Entries(h) : n[b] = m[b]
  PROVE  Replay(h, l, n) = Replay(h, l, m)
<1> DEFINE f == Replay(h, l, m)
<1>1. f \in [Blocks -> Vals] /\ \A i \in 1..Len(h) : f[h[i]] = l[i]
  BY ReplayType, ReplayAt, SMTT(60)
<1>2. \A b \in Blocks \ Entries(h) : f[b] = m[b]
  BY ReplayAt, SMTT(60)
<1>3. \A b \in Blocks \ Entries(h) : f[b] = n[b]
  BY <1>2
<1> HIDE DEF f
<1>4. Replay(h, l, n) = f
  BY <1>1, <1>3, ReplayIs, SMTT(60)
<1> QED  BY <1>4 DEF f

\* The types the lemmas below need.
LEMMA DiskTypes ==
  ASSUME IInv
  PROVE  /\ lh \in Seq(Blocks) /\ hdr \in Seq(Blocks)
         /\ Len(lh) \in {0} \cup Slots /\ Len(hdr) \in {0} \cup Slots
         /\ logblk \in [Slots -> Vals] /\ home \in [Blocks -> Vals]
         /\ cache \in [Blocks -> Vals \cup {Absent}] /\ tail \in 0..Len(lh)
         /\ View(cache, home) \in [Blocks -> Vals]
<1>1. /\ lh \in Seq(Blocks) /\ hdr \in Seq(Blocks)
      /\ Len(lh) \in {0} \cup Slots /\ Len(hdr) \in {0} \cup Slots
      /\ logblk \in [Slots -> Vals] /\ home \in [Blocks -> Vals]
      /\ cache \in [Blocks -> Vals \cup {Absent}] /\ tail \in 0..Len(lh)
  BY DEF IInv, TypeOK
<1>2. \A b \in Blocks : cache[b] \in Vals \cup {Absent} /\ home[b] \in Vals
  BY <1>1
<1>3. View(cache, home) \in [Blocks -> Vals]
  BY <1>2 DEF View
<1> QED  BY <1>1, <1>3

-----------------------------------------------------------------------------
(* Every step is one of AtomicDisk, or none *)

\* Steps that only move processes, outside write_log() and install_trans().
LEMMA MoveAtomic ==
  ASSUME DInv, UNCHANGED <<mode, held, lh, tail, bufvars, diskvars>>,
         \A q \in Procs : \A s \in {"write_log", "install_trans"} : pc'[q] = s <=> pc[q] = s
  PROVE  DInv' /\ Recovered' = Recovered /\ Seen' = Seen
<1>1. Recovered' = Recovered /\ Seen' = Seen
  BY Means DEF View
<1>2. Once(hdr)' /\ Booting' /\ Recovering' /\ Coherent'
  BY DEF DInv, Once, Booting, Recovering, Coherent, Installed, Clean
<1>3. Committing'
  BY DEF DInv, Committing, Copied, Installed, Installing
<1> QED  BY <1>2, <1>3, <1>1 DEF DInv

\* A panic leaves everything as it is.
LEMMA PanicAtomic ==
  ASSUME DInv, mode = "run", Panic
  PROVE  DInv' /\ Recovered' = Recovered /\ Seen' = Seen /\ InOp' = InOp
<1>1. mode' = "panic" /\ UNCHANGED <<opvars, logvars, bufvars, diskvars>>
  BY DEF Panic
<1>2. Recovered' = Recovered /\ Seen' = Seen /\ InOp' = InOp
  BY <1>1, Means DEF View, InOp
<1>3. DInv'
  BY <1>1, SMTT(60) DEF DInv, Once, Booting, Recovering, Coherent, Committing
<1> QED  BY <1>2, <1>3

\* begin_op() begins an operation, or waits.
LEMMA BeginOpAtomic ==
  ASSUME IInv, DInv, NEW p \in Procs, begin_op(p)
  PROVE  /\ DInv' /\ Recovered' = Recovered /\ Seen' = Seen
         /\ InOp' = InOp \/ InOp' = InOp \cup {p}
<1>1. InOp' = InOp \/ InOp' = InOp \cup {p}
  BY DEF IInv, TypeOK, begin_op, InOp
<1>2. \A q \in Procs : \A s \in {"write_log", "install_trans"} : pc'[q] = s <=> pc[q] = s
  BY DEF IInv, TypeOK, begin_op
<1> QED  BY <1>1, <1>2, MoveAtomic DEF begin_op

\* While an operation is in progress nobody commits, and the header is empty.
LEMMA NoCommit ==
  ASSUME IInv, DInv, mode = "run", NEW p \in Procs, pc[p] = "op"
  PROVE  /\ \A q \in Procs : pc[q] \notin {"write_log", "install_trans"}
         /\ ~Installing /\ hdr = <<>>
<1>1. \A q \in Procs : pc[q] \notin {"write_log", "install_trans"}
  BY DEF IInv, Committer, InOp, InCommit
<1> QED  BY <1>1 DEF DInv, Committing, Installing

\* Modifying a buffer is a write of the operation.
LEMMA ModifyAtomic ==
  ASSUME IInv, DInv, NEW p \in Procs, NEW b \in Blocks, NEW v \in Vals, Modify(p, b, v)
  PROVE  /\ DInv' /\ Recovered' = Recovered /\ InOp' = InOp
         /\ p \in InOp /\ Seen' = [Seen EXCEPT ![b] = v]
<1>1. /\ mode = "run" /\ pc[p] = "op" /\ held[p] = None
      /\ cache' = [cache EXCEPT ![b] = v] /\ held' = [held EXCEPT ![p] = b]
      /\ UNCHANGED <<mode, pc, wrote, logvars, pins, diskvars>>
  BY DEF Modify
<1>2. /\ held \in [Procs -> Blocks \cup {None}] /\ cache \in [Blocks -> Vals \cup {Absent}]
      /\ Absent \notin Vals /\ None \notin Blocks
  BY LogAssumption DEF IInv, TypeOK
<1>3. Recovered' = Recovered /\ InOp' = InOp /\ p \in InOp
  BY <1>1, Means DEF InOp
<1>4. Seen = View(cache, home) /\ Seen' = View(cache', home)
  BY <1>1, Means
<1>5. View(cache', home) = [View(cache, home) EXCEPT ![b] = v]
  BY <1>1, <1>2 DEF View
<1>6. Coherent'
  <2>1. ASSUME NEW c \in Blocks
        PROVE  Clean(c)' \/ pins'[c] # 0 \/ \E q \in Procs : held'[q] = c
    <3>1. CASE c = b
      BY <3>1, <1>1, <1>2
    <3>2. CASE c # b
      <4>1. Clean(c) \/ pins[c] # 0 \/ \E q \in Procs : held[q] = c
        BY <1>1 DEF DInv, Coherent
      <4>2. Clean(c) => Clean(c)'
        BY <3>2, <1>1, <1>2 DEF Clean
      <4>3. \A q \in Procs : held[q] = c => held'[q] = c
        BY <1>1, <1>2
      <4> QED  BY <4>1, <4>2, <4>3, <1>1
    <3> QED  BY <3>1, <3>2
  <2> QED  BY <2>1 DEF Coherent
<1>7. Committing'
  BY <1>1, NoCommit DEF Committing, Installing
<1>8. Once(hdr)' /\ Booting' /\ Recovering'
  BY <1>1 DEF DInv, Once, Booting, Recovering
<1> QED  BY <1>3, <1>4, <1>5, <1>6, <1>7, <1>8 DEF DInv

\* log_write() pins what it releases.
LEMMA LogWriteAtomic ==
  ASSUME IInv, DInv, NEW p \in Procs, log_write(p)
  PROVE  DInv' /\ Recovered' = Recovered /\ Seen' = Seen /\ InOp' = InOp
<1>1. mode = "run" /\ pc[p] = "op" /\ held[p] # None
  BY DEF log_write
<1>2. CASE TooBig \/ outstanding < 1
  BY <1>1, <1>2, PanicAtomic DEF log_write
<1>3. CASE ~(TooBig \/ outstanding < 1)
  <2>1. PICK b \in Blocks : b = held[p]
    BY <1>1 DEF IInv, TypeOK
  <2>2. /\ Absorb(b) /\ held' = [held EXCEPT ![p] = None]
        /\ UNCHANGED <<mode, pc, outstanding, committing, tail, cache, diskvars>>
    BY <1>3, <2>1 DEF log_write
  <2>3. Recovered' = Recovered /\ Seen' = Seen /\ InOp' = InOp
    BY <2>2, Means DEF InOp
  <2>4. /\ pins \in [Blocks -> Nat] /\ held \in [Procs -> Blocks \cup {None}]
        /\ None \notin Blocks /\ lh \in Seq(Blocks)
    BY LogAssumption DEF IInv, TypeOK
  <2>5. \A c \in Blocks : pins[c] # 0 => pins'[c] # 0
    BY <2>2, <2>4, SMTT(60) DEF Absorb
  <2>6. pins'[b] # 0
    <3>1. CASE b \in Entries(lh)
      <4>1. ~Installing
        BY <1>1, NoCommit
      <4>2. pins[b] = 1
        BY <3>1, <4>1, <1>1 DEF IInv, PinsBalanced, Entries, Installing
      <4> QED  BY <4>2, <2>5, SMTT(60)
    <3>2. CASE b \notin Entries(lh)
      BY <3>2, <2>2, <2>4, SMTT(60) DEF Absorb
    <3> QED  BY <3>1, <3>2
  <2>7. Coherent'
    <3>1. ASSUME NEW c \in Blocks
          PROVE  Clean(c)' \/ pins'[c] # 0 \/ \E q \in Procs : held'[q] = c
      <4>1. CASE c = b
        BY <4>1, <2>6
      <4>2. CASE c # b
        <5>1. Clean(c) \/ pins[c] # 0 \/ \E q \in Procs : held[q] = c
          BY <1>1 DEF DInv, Coherent
        <5>2. Clean(c)' = Clean(c)
          BY <2>2 DEF Clean
        <5>3. \A q \in Procs : held[q] = c => held'[q] = c
          BY <4>2, <2>1, <2>2, <2>4
        <5> QED  BY <5>1, <5>2, <5>3, <2>5
      <4> QED  BY <4>1, <4>2
    <3> QED  BY <3>1 DEF Coherent
  <2>8. Committing'
    BY <1>1, <2>2, NoCommit DEF Committing, Installing
  <2>9. Once(hdr)' /\ Booting' /\ Recovering'
    BY <1>1, <2>2 DEF DInv, Once, Booting, Recovering
  <2> QED  BY <2>3, <2>7, <2>8, <2>9 DEF DInv
<1> QED  BY <1>2, <1>3

\* end_op() ends the operation.
LEMMA EndOpAtomic ==
  ASSUME IInv, DInv, NEW p \in Procs, end_op(p)
  PROVE  /\ DInv' /\ Recovered' = Recovered /\ Seen' = Seen
         /\ InOp' = InOp \/ (p \in InOp /\ InOp' = InOp \ {p})
<1>1. mode = "run" /\ pc[p] = "op" /\ p \in InOp
  BY DEF end_op, InOp
<1>2. CASE committing
  BY <1>1, <1>2, PanicAtomic DEF end_op
<1>3. CASE ~committing
  <2>1. EndOpEffect(p) /\ UNCHANGED <<mode, held, lh, tail, bufvars, diskvars>>
    BY <1>3 DEF end_op
  <2>2. pc \in [Procs -> {"idle", "begin", "asleep", "op", "commit", "write_log",
                          "install_trans", "finish"}]
    BY DEF IInv, TypeOK
  <2>3. InOp' = InOp \ {p}
    BY <2>1, <2>2, <1>1 DEF EndOpEffect, Wakeup, InOp
  <2>4. \A q \in Procs : \A s \in {"write_log", "install_trans"} : pc'[q] = s <=> pc[q] = s
    BY <2>1, <2>2, <1>1 DEF EndOpEffect, Wakeup
  <2> QED  BY <1>1, <2>1, <2>3, <2>4, MoveAtomic
<1> QED  BY <1>2, <1>3

\* The committer is the only process in commit(), before and after its step.
LEMMA CommitterMoves ==
  ASSUME IInv, NEW p \in InCommit, NEW to, pc' = [pc EXCEPT ![p] = to]
  PROVE  /\ InOp = {} /\ \A q \in Procs \ {p} : pc'[q] = pc[q] /\ q \notin InCommit
         /\ p \in Procs /\ pc'[p] = to
BY CommitterIsAlone DEF IInv, TypeOK, InCommit

\* commit() starts.
LEMMA CommitAtomic ==
  ASSUME IInv, DInv, NEW p \in Procs, commit(p)
  PROVE  DInv' /\ Recovered' = Recovered /\ Seen' = Seen /\ InOp' = InOp
<1>1. /\ mode = "run" /\ pc[p] = "commit" /\ p \in InCommit /\ tail' = 0
      /\ UNCHANGED <<mode, held, lh, bufvars, diskvars>>
  BY DEF commit, Goto, InCommit
<1>2. PICK to \in {"write_log", "finish"} : pc' = [pc EXCEPT ![p] = to]
  BY DEF commit, Goto
<1>3. /\ InOp = {} /\ \A q \in Procs \ {p} : pc'[q] = pc[q] /\ q \notin InCommit
      /\ pc'[p] = to
  BY <1>1, <1>2, CommitterMoves
<1>4. ~Installing /\ ~Installing' /\ InOp' = InOp
  BY <1>1, <1>2, <1>3 DEF Installing, InCommit, InOp
<1>5. Committing'
  <2>1. hdr' = <<>>
    BY <1>1, <1>4 DEF DInv, Committing
  <2>2. Copied(tail)'
    BY <1>1, SMTT(60) DEF Copied
  <2> QED  BY <1>4, <2>1, <2>2 DEF Committing, Installing
<1>6. Once(hdr)' /\ Booting' /\ Recovering' /\ Coherent'
  BY <1>1 DEF DInv, Once, Booting, Recovering, Coherent, Clean
<1>7. Recovered' = Recovered /\ Seen' = Seen
  BY <1>1, Means
<1> QED  BY <1>4, <1>5, <1>6, <1>7 DEF DInv

\* A listed block is pinned until install_trans() starts.
LEMMA ListedIsPinned ==
  ASSUME IInv, mode = "run", NEW k \in 1..Len(lh), ~Installing
  PROVE  pins[lh[k]] # 0
<1>1. lh[k] \in Blocks
  BY SMTT(60) DEF IInv, TypeOK
<1> QED  BY <1>1, SMTT(60) DEF IInv, PinsBalanced, Installing

\* write_log() copies the next block to the log.
LEMMA WriteLogAtomic ==
  ASSUME IInv, DInv, NEW p \in Procs, write_log(p)
  PROVE  DInv' /\ Recovered' = Recovered /\ Seen' = Seen /\ InOp' = InOp
<1> DEFINE k == tail + 1
           b == lh[k]
<1>1. /\ mode = "run" /\ pc[p] = "write_log" /\ tail < Len(lh)
      /\ logblk' = [logblk EXCEPT ![k] = bread(b)]
      /\ cache' = [cache EXCEPT ![b] = bread(b)]
      /\ tail' = k
      /\ UNCHANGED <<mode, opvars, lh, outstanding, committing, pins, hdr, home>>
  BY DEF write_log
<1>2. /\ tail \in Nat /\ k \in 1..Len(lh) /\ b \in Blocks /\ k \in Slots
      /\ logblk \in [Slots -> Vals] /\ home \in [Blocks -> Vals]
      /\ cache \in [Blocks -> Vals \cup {Absent}] /\ Absent \notin Vals
  <2>1. tail \in Nat /\ k \in 1..Len(lh)
    BY <1>1, DiskTypes, SMTT(60)
  <2>2. b \in Blocks /\ k \in Slots
    BY <2>1, DiskTypes, SlotsDown, SMTT(60)
  <2> QED  BY <2>1, <2>2, DiskTypes, LogAssumption
<1>3. ~Installing /\ hdr = <<>>
  <2>1. p \in InCommit
    BY <1>1 DEF InCommit
  <2>2. InCommit = {p}
    BY <2>1, CommitterIsAlone
  <2>3. ~Installing
    BY <1>1, <2>2 DEF InCommit, Installing
  <2> QED  BY <1>1, <2>3 DEF DInv, Committing
<1>4. pins[b] # 0
  BY <1>1, <1>2, <1>3, ListedIsPinned
<1>5. bread(b) = View(cache, home)[b] /\ bread(b) \in Vals
  BY <1>2 DEF bread, View
<1> HIDE DEF b, k
<1>6. View(cache', home') = View(cache, home)
  BY <1>1, <1>2, <1>5 DEF View
<1>7. Recovered' = Recovered
  BY <1>1, <1>2, <1>3, Means, ReplayNone
<1>8. Seen' = Seen /\ InOp' = InOp
  BY <1>1, <1>6, Means DEF InOp
<1>9. \A i \in 1..k : logblk'[i] = View(cache', home')[lh'[i]]
  <2>1. Copied(tail)
    BY <1>1 DEF DInv, Committing
  <2>2. ASSUME NEW i \in 1..k PROVE logblk'[i] = View(cache', home')[lh'[i]]
    <3>1. CASE i = k
      BY <3>1, <1>1, <1>2, <1>5, <1>6 DEF b
    <3>2. CASE i # k
      <4>1. i \in 1..tail
        BY <3>2, <1>2, SMTT(60) DEF k
      <4>2. logblk'[i] = logblk[i]
        BY <3>2, <1>1, <1>2, SMTT(60)
      <4> QED  BY <4>1, <4>2, <2>1, <1>1, <1>6 DEF Copied
    <3> QED  BY <3>1, <3>2
  <2> QED  BY <2>2
<1>10. Coherent'
  <2>1. ASSUME NEW c \in Blocks
        PROVE  Clean(c)' \/ pins'[c] # 0 \/ \E q \in Procs : held'[q] = c
    <3>1. Clean(c) \/ pins[c] # 0 \/ \E q \in Procs : held[q] = c
      BY <1>1 DEF DInv, Coherent
    <3>2. c # b => Clean(c)' = Clean(c)
      BY <1>1, <1>2 DEF Clean
    <3> QED  BY <3>1, <3>2, <1>1, <1>4
  <2> QED  BY <2>1 DEF Coherent
<1>11. Committing'
  <2>1. Copied(tail)'
    BY <1>1, <1>9 DEF Copied
  <2> QED  BY <2>1, <1>1, <1>3 DEF Committing, Installing
<1>12. Once(hdr)' /\ Booting' /\ Recovering'
  BY <1>1 DEF DInv, Once, Booting, Recovering
<1> QED  BY <1>7, <1>8, <1>10, <1>11, <1>12 DEF DInv

\* write_head() commits: the header makes the log blocks count.
LEMMA WriteHeadAtomic ==
  ASSUME IInv, DInv, NEW p \in Procs, write_head(p)
  PROVE  DInv' /\ InOp = {} /\ InOp' = {} /\ Recovered' = Seen /\ Seen' = Seen
<1>1. /\ mode = "run" /\ pc[p] = "write_log" /\ tail = Len(lh) /\ p \in InCommit
      /\ pc' = [pc EXCEPT ![p] = "install_trans"]
      /\ hdr' = lh /\ tail' = 0
      /\ UNCHANGED <<mode, held, lh, bufvars, logblk, home>>
  BY DEF write_head, CommitReady, Goto, InCommit
<1>2. /\ InOp = {} /\ \A q \in Procs \ {p} : pc'[q] = pc[q] /\ q \notin InCommit
      /\ pc'[p] = "install_trans"
  BY <1>1, CommitterMoves
<1>3. InOp' = {} /\ ~Installing
  BY <1>1, <1>2 DEF InOp, InCommit, Installing
<1>4. Once(lh) /\ Copied(Len(lh)) /\ lh \in Seq(Blocks)
  BY <1>1, DiskTypes DEF IInv, Listed, Once, DInv, Committing
<1>5. ASSUME NEW b \in Blocks \ Entries(lh) PROVE View(cache, home)[b] = home[b]
  <2>1. pins[b] = 0
    BY <1>1 DEF IInv, PinsBalanced, Entries
  <2>2. \A q \in Procs : held[q] # b
    BY <1>2, LogAssumption DEF IInv, Listed, InOp
  <2>3. Clean(b)
    BY <1>1, <2>1, <2>2 DEF DInv, Coherent
  <2> QED  BY <2>3 DEF Clean, View
<1>6. Replay(lh, logblk, home) = View(cache, home)
  BY <1>4, <1>5, DiskTypes, ReplayIs, SMTT(60) DEF Copied
<1>7. Recovered' = Seen /\ Seen' = Seen
  BY <1>1, <1>6, Means
<1>8. Committing'
  <2>1. Copied(Len(lh))' /\ Installed' /\ Copied(tail)'
    BY <1>1, <1>4, SMTT(60) DEF Copied, Installed
  <2>2. Installing'
    BY <1>2 DEF Installing
  <2> QED  BY <2>1, <2>2, <1>1 DEF Committing
<1>9. Once(hdr)' /\ Booting' /\ Recovering' /\ Coherent'
  BY <1>1, <1>4 DEF DInv, Once, Booting, Recovering, Coherent, Clean
<1> QED  BY <1>2, <1>3, <1>7, <1>8, <1>9 DEF DInv

\* A change of home blocks the header lists changes nothing of what recovery brings.
LEMMA ListedInstalled ==
  ASSUME IInv, Once(hdr), \A c \in Blocks \ Entries(hdr) : home'[c] = home[c]
  PROVE  Replay(hdr, logblk, home') = Replay(hdr, logblk, home)
<1>1. /\ hdr \in Seq(Blocks) /\ Len(hdr) \in {0} \cup Slots
      /\ logblk \in [Slots -> Vals] /\ home \in [Blocks -> Vals]
  BY DiskTypes
<1> QED  BY <1>1, ReplayInstall

\* Entry k of the log goes home to block b: recovery would still bring the same disk.
GoesHome(k, b) ==
  /\ Recovered' = Recovered /\ Installed' /\ b \in Blocks /\ logblk[k] \in Vals
  /\ Clean(b)' /\ \A c \in Blocks \ {b} : Clean(c)' = Clean(c)
  /\ home'[b] = logblk[k] /\ cache'[b] = logblk[k]
  /\ \A c \in Blocks \ {b} : home'[c] = home[c] /\ cache'[c] = cache[c]

\* Installing a block of the header, in commit() or in recovery.
LEMMA InstallAtomic ==
  ASSUME IInv, Once(hdr), hdr = lh, Installed, NEW k, k = tail + 1, k \in 1..Len(lh),
         NEW b, b = lh[k],
         home' = [home EXCEPT ![b] = logblk[k]], cache' = [cache EXCEPT ![b] = logblk[k]],
         tail' = k, UNCHANGED <<lh, hdr, logblk>>
  PROVE  GoesHome(k, b)
<1>1. /\ tail \in Nat /\ b \in Blocks /\ k \in Slots /\ logblk[k] \in Vals
  <2>1. b \in Blocks /\ k \in Slots
    BY DiskTypes, SlotsDown, SMTT(60)
  <2> QED  BY <2>1, DiskTypes, SMTT(60)
<1>2. /\ home'[b] = logblk[k] /\ cache'[b] = logblk[k]
      /\ \A c \in Blocks \ {b} : home'[c] = home[c] /\ cache'[c] = cache[c]
  BY <1>1, DiskTypes
<1>3. Recovered' = Recovered
  <2>1. b \in Entries(hdr)
    BY DEF Entries
  <2>2. \A c \in Blocks \ Entries(hdr) : home'[c] = home[c]
    BY <1>2, <2>1
  <2>3. Replay(hdr, logblk, home') = Replay(hdr, logblk, home)
    BY <2>2, ListedInstalled
  <2> QED  BY <2>3, Means
<1>4. Installed'
  <2>1. ASSUME NEW i \in 1..k PROVE home'[lh[i]] = logblk[i]
    <3>1. CASE i = k
      BY <3>1, <1>2
    <3>2. CASE i # k
      <4>1. i \in 1..tail /\ i \in 1..Len(lh)
        BY <3>2, <1>1, DiskTypes, SMTT(60)
      <4>2. lh[i] \in Blocks /\ lh[i] # b
        BY <3>2, <4>1, DiskTypes, SMTT(60) DEF Once
      <4> QED  BY <4>1, <4>2, <1>2 DEF Installed
    <3> QED  BY <3>1, <3>2
  <2> QED  BY <2>1 DEF Installed
<1>5. Clean(b)' /\ \A c \in Blocks \ {b} : Clean(c)' = Clean(c)
  BY <1>2 DEF Clean
<1> QED  BY <1>1, <1>2, <1>3, <1>4, <1>5 DEF GoesHome

\* install_trans() changes neither what recovery would bring nor what is seen.
LEMMA InstallTransAtomic ==
  ASSUME IInv, DInv, NEW p \in Procs, install_trans(p)
  PROVE  DInv' /\ Recovered' = Recovered /\ Seen' = Seen /\ InOp' = InOp
<1>1. PICK k : k = tail + 1
  OBVIOUS
<1>2. PICK b : b = lh[k]
  OBVIOUS
<1>3. /\ mode = "run" /\ pc[p] = "install_trans" /\ tail < Len(lh)
      /\ home' = [home EXCEPT ![b] = logblk[k]] /\ cache' = [cache EXCEPT ![b] = logblk[k]]
      /\ pins' = [pins EXCEPT ![b] = @ - 1]
      /\ tail' = k
      /\ UNCHANGED <<mode, opvars, lh, hdr, logblk>>
  BY <1>1, <1>2 DEF install_trans, InstallBlock
<1>4. k \in 1..Len(lh)
  BY <1>1, <1>3, DiskTypes, SMTT(60)
<1>5. Once(hdr) /\ hdr = lh /\ Copied(Len(lh)) /\ Installed
  BY <1>3 DEF DInv, Committing
<1>6. /\ Recovered' = Recovered /\ Installed' /\ b \in Blocks /\ logblk[k] \in Vals
      /\ Clean(b)' /\ \A c \in Blocks \ {b} : Clean(c)' = Clean(c)
      /\ home'[b] = logblk[k] /\ cache'[b] = logblk[k]
      /\ \A c \in Blocks \ {b} : home'[c] = home[c] /\ cache'[c] = cache[c]
  <2>1. GoesHome(k, b)
    BY <1>1, <1>2, <1>3, <1>4, <1>5, InstallAtomic
  <2> QED  BY <2>1 DEF GoesHome
<1>7. View(cache', home') = View(cache, home)
  <2>1. View(cache, home)[b] = logblk[k]
    BY <1>2, <1>4, <1>5 DEF Copied
  <2>2. View(cache', home')[b] = logblk[k]
    BY <1>6, LogAssumption DEF View
  <2>3. \A c \in Blocks \ {b} : View(cache', home')[c] = View(cache, home)[c]
    BY <1>6 DEF View
  <2>4. \A c \in Blocks : View(cache', home')[c] = View(cache, home)[c]
    BY <2>1, <2>2, <2>3
  <2> QED  BY <2>4 DEF View
<1>8. Seen' = Seen /\ InOp' = InOp
  BY <1>3, <1>7, Means DEF InOp
<1>9. Coherent'
  <2>1. ASSUME NEW c \in Blocks
        PROVE  Clean(c)' \/ pins'[c] # 0 \/ \E q \in Procs : held'[q] = c
    <3>1. Clean(c) \/ pins[c] # 0 \/ \E q \in Procs : held[q] = c
      BY <1>3 DEF DInv, Coherent
    <3>2. c # b => pins'[c] = pins[c]
      BY <1>3 DEF IInv, TypeOK
    <3> QED  BY <3>1, <3>2, <1>3, <1>6
  <2> QED  BY <2>1 DEF Coherent
<1>10. Committing'
  <2>1. Copied(Len(lh))'
    BY <1>3, <1>5, <1>7 DEF Copied
  <2>2. Installing /\ Installing' = Installing
    BY <1>3 DEF Installing
  <2>3. \A q \in Procs : pc'[q] # "write_log"
    <3>1. InCommit = {p}
      BY <1>3, CommitterIsAlone DEF InCommit
    <3> QED  BY <1>3, <3>1 DEF InCommit
  <2> QED  BY <2>1, <2>2, <2>3, <1>3, <1>5, <1>6 DEF Committing
<1>11. Once(hdr)' /\ Booting' /\ Recovering'
  BY <1>3, <1>5, SMTT(60) DEF Once, Booting, Recovering
<1> QED  BY <1>6, <1>8, <1>9, <1>10, <1>11 DEF DInv

\* When all blocks are installed a replay of the log gives the home blocks.
LEMMA AllInstalled ==
  ASSUME IInv, Once(hdr), hdr = lh, Installed, tail = Len(lh)
  PROVE  Replay(hdr, logblk, home) = home
<1>1. \A b \in Blocks \ Entries(hdr) : home[b] = home[b]
  OBVIOUS
<1>2. \A i \in 1..Len(hdr) : home[hdr[i]] = logblk[i]
  BY DEF Installed
<1> QED  BY <1>1, <1>2, DiskTypes, ReplayIs, SMTT(60)

\* clear_head() drops a log that has been installed.
LEMMA ClearHeadAtomic ==
  ASSUME IInv, DInv, NEW p \in Procs, clear_head(p)
  PROVE  DInv' /\ Recovered' = Recovered /\ Seen' = Seen /\ InOp' = InOp
<1>1. /\ mode = "run" /\ pc[p] = "install_trans" /\ tail = Len(lh) /\ p \in InCommit
      /\ pc' = [pc EXCEPT ![p] = "finish"]
      /\ lh' = <<>> /\ hdr' = <<>> /\ tail' = 0
      /\ UNCHANGED <<mode, held, bufvars, logblk, home>>
  BY DEF clear_head, ClearLog, Goto, InCommit
<1>2. /\ InOp = {} /\ \A q \in Procs \ {p} : pc'[q] = pc[q] /\ q \notin InCommit
      /\ pc'[p] = "finish"
  BY <1>1, CommitterMoves
<1>3. InOp' = InOp /\ ~Installing'
  BY <1>1, <1>2 DEF InOp, InCommit, Installing
<1>4. Replay(hdr, logblk, home) = home
  BY <1>1, AllInstalled DEF DInv, Committing
<1>5. Recovered' = Recovered
  BY <1>1, <1>4, DiskTypes, ReplayNone, Means
<1>6. Seen' = Seen
  BY <1>1, Means
<1>7. Committing'
  <2>1. Copied(tail)'
    BY <1>1, SMTT(60) DEF Copied
  <2> QED  BY <2>1, <1>1, <1>3 DEF Committing, Installing
<1>8. Once(hdr)' /\ Booting' /\ Recovering' /\ Coherent'
  BY <1>1, SMTT(60) DEF DInv, Once, Booting, Recovering, Coherent, Clean
<1> QED  BY <1>3, <1>5, <1>6, <1>7, <1>8 DEF DInv

\* commit() is over.
LEMMA FinishAtomic ==
  ASSUME IInv, DInv, NEW p \in Procs, finish(p)
  PROVE  DInv' /\ Recovered' = Recovered /\ Seen' = Seen /\ InOp' = InOp
<1>1. /\ pc[p] = "finish" /\ Wakeup(p, "idle")
      /\ UNCHANGED <<mode, held, lh, tail, bufvars, diskvars>>
  BY DEF finish, FinishWakeup
<1>2. InOp' = InOp
  BY <1>1 DEF Wakeup, InOp
<1>3. \A q \in Procs : \A s \in {"write_log", "install_trans"} : pc'[q] = s <=> pc[q] = s
  BY <1>1 DEF Wakeup
<1> QED  BY <1>1, <1>2, <1>3, MoveAtomic

\* Recovery brings back the disk that it began with.
LEMMA RecoveryAtomic ==
  ASSUME IInv, DInv, Recovery
  PROVE  DInv' /\ Recovered' = Recovered /\ Seen' = Seen /\ InOp' = InOp
<1>1. CASE read_head
  <2>1. /\ mode = "boot" /\ mode' = "recover" /\ lh' = hdr /\ tail' = 0
        /\ UNCHANGED <<opvars, bufvars, diskvars>>
    BY <1>1 DEF read_head
  <2>2. Recovered' = Recovered /\ Seen' = Seen /\ InOp' = InOp
    BY <2>1, Means DEF InOp
  <2>3. Recovering'
    BY <2>1, SMTT(60) DEF DInv, Booting, Recovering, Installed, Clean
  <2>4. Once(hdr)' /\ Booting' /\ Coherent' /\ Committing'
    BY <2>1, SMTT(60) DEF DInv, Once, Booting, Coherent, Committing
  <2> QED  BY <2>2, <2>3, <2>4 DEF DInv
<1>2. CASE recover_install
  <2>1. PICK k : k = tail + 1
    OBVIOUS
  <2>2. PICK b : b = lh[k]
    OBVIOUS
  <2>3. /\ mode = "recover" /\ tail < Len(lh)
        /\ home' = [home EXCEPT ![b] = logblk[k]] /\ cache' = [cache EXCEPT ![b] = logblk[k]]
        /\ tail' = k
        /\ UNCHANGED <<mode, opvars, lh, hdr, logblk>>
    BY <1>2, <2>1, <2>2 DEF recover_install, InstallBlock
  <2>4. k \in 1..Len(lh)
    BY <2>1, <2>3, DiskTypes, SMTT(60)
  <2>5. Once(hdr) /\ hdr = lh /\ Installed /\ \A c \in Blocks : Clean(c)
    BY <2>3 DEF DInv, Recovering
  <2>6. /\ Recovered' = Recovered /\ Installed'
        /\ Clean(b)' /\ \A c \in Blocks \ {b} : Clean(c)' = Clean(c)
    <3>1. GoesHome(k, b)
      BY <2>1, <2>2, <2>3, <2>4, <2>5, InstallAtomic
    <3> QED  BY <3>1 DEF GoesHome
  <2>7. Seen' = Seen /\ InOp' = InOp
    BY <2>3, <2>6, Means DEF InOp
  <2>8. Recovering'
    BY <2>3, <2>5, <2>6 DEF Recovering
  <2>9. Once(hdr)' /\ Booting' /\ Coherent' /\ Committing'
    BY <2>3, <2>5, SMTT(60) DEF Once, Booting, Coherent, Committing
  <2> QED  BY <2>6, <2>7, <2>8, <2>9 DEF DInv
<1>3. CASE recover_clear
  <2>1. /\ mode = "recover" /\ mode' = "run" /\ tail = Len(lh)
        /\ lh' = <<>> /\ hdr' = <<>> /\ tail' = 0
        /\ UNCHANGED <<pc, held, bufvars, logblk, home>>
    BY <1>3 DEF recover_clear, ClearLog
  <2>2. Once(hdr) /\ hdr = lh /\ Installed /\ \A c \in Blocks : Clean(c)
    BY <2>1 DEF DInv, Recovering
  <2>3. Replay(hdr, logblk, home) = home
    BY <2>1, <2>2, AllInstalled
  <2>4. View(cache, home) = home
    <3>1. \A c \in Blocks : View(cache, home)[c] = home[c]
      BY <2>2 DEF Clean, View
    <3>2. home \in [Blocks -> Vals] /\ View(cache, home) \in [Blocks -> Vals]
      BY DiskTypes
    <3> QED  BY <3>1, <3>2, SMTT(60)
  <2>5. Replay(<<>>, logblk, home) = home
    BY DiskTypes, ReplayNone
  <2>6. Recovered' = Recovered /\ Seen' = Seen /\ InOp' = InOp
    BY <2>1, <2>3, <2>4, <2>5, Means DEF InOp
  <2>7. \A q \in Procs : pc'[q] = "idle"
    BY <2>1 DEF IInv, Quiet
  <2>8. Committing'
    BY <2>1, <2>7 DEF Committing, Installing
  <2>9. Once(hdr)' /\ Booting' /\ Recovering' /\ Coherent'
    BY <2>1, <2>2, SMTT(60) DEF Once, Booting, Recovering, Coherent, Clean
  <2> QED  BY <2>6, <2>8, <2>9 DEF DInv
<1> QED  BY <1>1, <1>2, <1>3 DEF Recovery

\* A power failure brings back what was committed.
LEMMA CrashAtomic ==
  ASSUME IInv, DInv, Crash
  PROVE  DInv' /\ Recovered' = Recovered /\ Seen' = Recovered /\ InOp' = {}
<1>1. /\ mode' = "boot" /\ pc' = [p \in Procs |-> "idle"]
      /\ cache' = [b \in Blocks |-> Absent] /\ UNCHANGED diskvars
  BY DEF Crash, PowerUp
<1>2. Recovered' = Recovered /\ Seen' = Recovered
  BY <1>1, Means
<1>3. InOp' = {}
  BY <1>1 DEF InOp
<1>4. DInv'
  BY <1>1, SMTT(60) DEF DInv, Once, Booting, Recovering, Coherent, Committing
<1> QED  BY <1>2, <1>3, <1>4

\* Bringing a block in, and recycling a clean one, change nothing.
LEMMA CacheAtomic ==
  ASSUME IInv, DInv, NEW b \in Blocks, Read(b) \/ Recycle(b)
  PROVE  DInv' /\ Recovered' = Recovered /\ Seen' = Seen /\ InOp' = InOp
<1>1. /\ mode = "run" /\ UNCHANGED <<mode, opvars, logvars, pins, diskvars>>
  BY DEF Read, Recycle
<1>2. /\ cache'[b] \in {Absent, home[b]}
      /\ \A c \in Blocks \ {b} : cache'[c] = cache[c]
  BY DiskTypes DEF Read, Recycle
<1>3. Clean(b)
  <2>1. CASE Read(b)
    BY <2>1 DEF Read, Clean
  <2>2. CASE Recycle(b)
    BY <2>2 DEF Recycle, DInv, Coherent
  <2> QED  BY <2>1, <2>2
<1>4. View(cache', home') = View(cache, home)
  <2>1. \A c \in Blocks : View(cache', home')[c] = View(cache, home)[c]
    BY <1>1, <1>2, <1>3 DEF View, Clean
  <2> QED  BY <2>1 DEF View
<1>5. Recovered' = Recovered /\ Seen' = Seen /\ InOp' = InOp
  BY <1>1, <1>4, Means DEF InOp
<1>6. Coherent'
  <2>1. \A c \in Blocks : Clean(c) => Clean(c)'
    BY <1>1, <1>2 DEF Clean
  <2> QED  BY <1>1, <2>1 DEF DInv, Coherent
<1>7. Committing'
  <2>2. Copied(tail)' = Copied(tail) /\ Copied(Len(lh))' = Copied(Len(lh))
    BY <1>1, <1>4 DEF Copied
  <2>3. Installed' = Installed /\ Installing' = Installing
    BY <1>1 DEF Installed, Installing
  <2> QED  BY <1>1, <2>2, <2>3 DEF DInv, Committing
<1>8. Once(hdr)' /\ Booting' /\ Recovering'
  BY <1>1 DEF DInv, Once, Booting, Recovering
<1> QED  BY <1>5, <1>6, <1>7, <1>8 DEF DInv

\* The image mkfs wrote.
LEMMA InitAtomic == ASSUME Init PROVE DInv /\ Atomic!Init
<1>1. DInv
  BY SMTT(60) DEF Init, DInv, Once, Booting, Recovering, Coherent, Committing
<1>2. Recovered = home /\ home \in [Blocks -> Vals]
  <2>1. home \in [Blocks -> Vals] /\ hdr = <<>>
    BY DEF Init
  <2> QED  BY <2>1, ReplayNone, Means
<1>3. Seen = Recovered /\ InOp = {}
  BY Means DEF Init, InOp
<1> QED  BY <1>1, <1>2, <1>3 DEF Atomic!Init

\* Every step keeps the invariant and is a step of AtomicDisk, or none.
LEMMA NextAtomic ==
  ASSUME IInv, DInv, [Next]_vars
  PROVE  DInv' /\ [Atomic!Next]_<<Recovered, Seen, InOp>>
<1>1. ASSUME NEW p \in Procs, begin_op(p) PROVE DInv' /\ [Atomic!Next]_<<Recovered, Seen, InOp>>
  BY <1>1, BeginOpAtomic DEF Atomic!Next, Atomic!Begin
<1>2. ASSUME NEW p \in Procs, end_op(p) PROVE DInv' /\ [Atomic!Next]_<<Recovered, Seen, InOp>>
  BY <1>2, EndOpAtomic DEF Atomic!Next, Atomic!End
<1>3. ASSUME NEW p \in Procs, NEW b \in Blocks, NEW v \in Vals, Modify(p, b, v)
      PROVE  DInv' /\ [Atomic!Next]_<<Recovered, Seen, InOp>>
  BY <1>3, ModifyAtomic, SMTT(60) DEF Atomic!Next, Atomic!Write
<1>4. ASSUME NEW p \in Procs, write_head(p) PROVE DInv' /\ [Atomic!Next]_<<Recovered, Seen, InOp>>
  BY <1>4, WriteHeadAtomic DEF Atomic!Next, Atomic!Commit
<1>5. ASSUME NEW p \in Procs,
             log_write(p) \/ commit(p) \/ write_log(p) \/ install_trans(p) \/ clear_head(p) \/ finish(p)
      PROVE  DInv' /\ UNCHANGED <<Recovered, Seen, InOp>>
  BY <1>5, LogWriteAtomic, CommitAtomic, WriteLogAtomic, InstallTransAtomic, ClearHeadAtomic,
     FinishAtomic
<1>6. CASE Recovery
  BY <1>6, RecoveryAtomic
<1>7. CASE Crash
  BY <1>7, CrashAtomic DEF Atomic!Next, Atomic!Crash
<1>8. ASSUME NEW b \in Blocks, Read(b) \/ Recycle(b) PROVE DInv' /\ UNCHANGED <<Recovered, Seen, InOp>>
  BY <1>8, CacheAtomic
<1>9. CASE UNCHANGED vars
  <2>1. UNCHANGED <<mode, opvars, logvars, bufvars, diskvars>>
    BY <1>9 DEF vars
  <2> QED  BY <2>1, MoveAtomic DEF InOp
<1> QED  BY <1>1, <1>2, <1>3, <1>4, <1>5, <1>6, <1>7, <1>8, <1>9 DEF Next, CommitStep

\* The log of log.c implements AtomicDisk, for any number of processes and blocks
\* and any sizes: wherever a crash comes, in a commit or in the recovery from an
\* earlier crash, the disk after recovery has all the writes of an operation or none.
THEOREM ImplementsAtomicDisk == Spec => CrashAtomicity
<1>1. Init => DInv /\ Atomic!Init
  BY InitAtomic
<1>2. IInv /\ DInv /\ [Next]_vars => DInv' /\ [Atomic!Next]_<<Recovered, Seen, InOp>>
  BY NextAtomic
<1>3. UNCHANGED <<Recovered, Seen, InOp>> <=> UNCHANGED Atomic!vars
  BY DEF Atomic!vars
<1> QED  BY <1>1, <1>2, <1>3, Invariant, PTL DEF Spec, CrashAtomicity, Atomic!Spec, Atomic!vars
=============================================================================
