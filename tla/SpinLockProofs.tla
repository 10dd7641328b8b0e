--------------------------- MODULE SpinLockProofs ---------------------------
(***************************************************************************)
(* Proofs about SpinLock, for any number of CPUs and locks.  Each CPU has  *)
(* an invariant of its own, Local: noff counts what the running context    *)
(* has open, the other context has nothing open, interrupts are off while  *)
(* anything is, and intena or old keep the setting to go back to.          *)
(***************************************************************************)
EXTENDS SpinLock, FiniteSetTheorems, TLAPS

\* Zenon proves a step unless it names another prover; it may take this many seconds.
USE ZenonT(60)

Places == {"run", "intr_off", "count", "spin", "own", "unlock", "pop_off"}

TypeOK ==
  /\ locked \in [Locks -> BOOLEAN]
  /\ owner \in [Locks -> CPUs \cup {NoCpu}]
  /\ intr \in [CPUs -> BOOLEAN]
  /\ noff \in [CPUs -> Nat]
  /\ intena \in [CPUs -> BOOLEAN]
  /\ running \in [CPUs -> Contexts]
  /\ pc \in [CPUs -> [Contexts -> Places]]
  /\ arg \in [CPUs -> [Contexts -> Locks \cup {NoLock}]]
  /\ old \in [CPUs -> [Contexts -> BOOLEAN]]
  /\ held \in [CPUs -> [Contexts -> SUBSET Locks]]
  /\ bare \in [CPUs -> [Contexts -> Nat]]
  /\ want \in [CPUs -> [Contexts -> BOOLEAN]]

\* A lock has one holder, is locked while it has one, and lk->cpu names the CPU
\* inside the critical section.
Exclusive ==
  \A l \in Locks, c, d \in CPUs, x, y \in Contexts :
    Has(c, x, l) => locked[l] /\ (Has(d, y, l) => c = d /\ x = y)
Owned ==
  \A l \in Locks, c \in CPUs : owner[l] = c <=> \E x \in Contexts : l \in held[c][x]

\* What a context is about to do fits the locks that it holds.
Aims(c, x) ==
  /\ pc[c][x] \in {"spin", "own", "unlock"} => arg[c][x] \in Locks
  /\ pc[c][x] \in {"intr_off", "count", "spin", "own"} /\ arg[c][x] \in Locks
       => \A k \in held[c][x] : k < arg[c][x]
  /\ pc[c][x] = "unlock" => arg[c][x] \notin held[c][x]

\* The push_off()s that a context has to undo.
Pending(c, x) == IF pc[c][x] \in {"spin", "own", "unlock", "pop_off"} THEN 1 ELSE 0
Depth(c, x) == Cardinality(held[c][x]) + bare[c][x] + Pending(c, x)

\* A thread is interrupted only where it has nothing to undo, with interrupts on.
Interrupted(c) ==
  /\ ~want[c]["handler"]
  /\ running[c] = "thread" => Idle(c, "handler")
  /\ running[c] = "handler" =>
       /\ held[c]["thread"] = {} /\ bare[c]["thread"] = 0
       /\ pc[c]["thread"] \in {"run", "intr_off"}
       /\ want[c]["thread"]
       /\ pc[c]["thread"] = "intr_off" => old[c]["thread"]

\* Where the setting to go back to is kept.
Saved(c, x) ==
  /\ noff[c] > 0 => intena[c] = want[c][x]
  /\ noff[c] = 0 /\ pc[c][x] \in {"run", "intr_off"} => intr[c] = want[c][x]
  /\ noff[c] = 0 /\ pc[c][x] \in {"intr_off", "count"} => old[c][x] = want[c][x]

Local(c) ==
  /\ Interrupted(c)
  /\ noff[c] = Depth(c, running[c])
  /\ noff[c] > 0 \/ pc[c][running[c]] = "count" => ~intr[c]
  /\ Saved(c, running[c])
  /\ \A x \in Contexts : Aims(c, x)

IInv ==
  /\ ~panicked
  /\ TypeOK
  /\ Exclusive
  /\ Owned
  /\ \A c \in CPUs : Local(c)

-----------------------------------------------------------------------------
(* Sets of locks *)

\* The set of locks that a context holds has a size.
LEMMA HeldFinite ==
  ASSUME TypeOK, NEW c \in CPUs, NEW x \in Contexts
  PROVE  IsFiniteSet(held[c][x]) /\ Cardinality(held[c][x]) \in Nat
  BY SpinLockAssumption, FS_Subset, FS_CardinalityType, SMTT(60) DEF TypeOK

\* A context without anything to undo holds no lock.
LEMMA NothingOpen ==
  ASSUME TypeOK, NEW c \in CPUs, NEW x \in Contexts
  PROVE  /\ Depth(c, x) \in Nat
         /\ Depth(c, x) = 0 <=> /\ held[c][x] = {} /\ bare[c][x] = 0
                                /\ pc[c][x] \in {"run", "intr_off", "count"}
<1>1. Cardinality(held[c][x]) = 0 <=> held[c][x] = {}
  BY HeldFinite, FS_EmptySet
<1>2. Cardinality(held[c][x]) \in Nat /\ bare[c][x] \in Nat /\ pc[c][x] \in Places
  BY HeldFinite DEF TypeOK
<1>3. /\ Pending(c, x) \in {0, 1}
      /\ Pending(c, x) = 0 <=> pc[c][x] \in {"run", "intr_off", "count"}
  BY <1>2, SMTT(60) DEF Pending, Places
<1>4. \A a, b \in Nat, p \in {0, 1} :
        a + b + p \in Nat /\ (a + b + p = 0 <=> a = 0 /\ b = 0 /\ p = 0)
  BY SMTT(60)
<1>5. /\ Depth(c, x) \in Nat
      /\ Depth(c, x) = 0 <=>
           Cardinality(held[c][x]) = 0 /\ bare[c][x] = 0 /\ Pending(c, x) = 0
  BY <1>2, <1>3, <1>4 DEF Depth
<1> QED  BY <1>1, <1>3, <1>5

\* A step of another CPU leaves what is local to d alone.
LEMMA Elsewhere ==
  ASSUME NEW d \in CPUs, Local(d),
         intr'[d] = intr[d], noff'[d] = noff[d], intena'[d] = intena[d],
         running'[d] = running[d], pc'[d] = pc[d], arg'[d] = arg[d], old'[d] = old[d],
         held'[d] = held[d], bare'[d] = bare[d], want'[d] = want[d]
  PROVE  Local(d)'
  BY DEF Local, Interrupted, Idle, Depth, Pending, Saved, Aims

\* Only the context that runs on a CPU is inside spinlock.c.
LEMMA OtherRests ==
  ASSUME IInv, NEW c \in CPUs, NEW x \in Contexts, x # running[c]
  PROVE  held[c][x] = {} /\ pc[c][x] \in {"run", "intr_off"}
  BY SMTT(60) DEF IInv, Local, Interrupted, Idle, TypeOK, Contexts

\* A step that touches no lock leaves the owners alone.
LEMMA SameHolders ==
  ASSUME Exclusive, Owned, locked' = locked, owner' = owner, held' = held,
         \A d \in CPUs, y \in Contexts, k \in Locks : Has(d, y, k)' <=> Has(d, y, k)
  PROVE  Exclusive' /\ Owned'
<1>1. Exclusive'
  BY SMTT(60) DEF Exclusive
<1>2. Owned'
  BY DEF Owned
<1> QED  BY <1>1, <1>2

\* Where noff is zero the setting is in the register, and in old on the way in.
LEMMA SavedOutside ==
  ASSUME NEW c \in CPUs, NEW x \in Contexts, noff'[c] = 0, pc'[c][x] # "count",
         intr'[c] = want'[c][x], pc'[c][x] = "intr_off" => old'[c][x] = want'[c][x]
  PROVE  Saved(c, x)'
<1>1. ~(noff'[c] > 0)
  BY SMTT(60)
<1> QED  BY <1>1 DEF Saved

\* What a context does leaves the other one of its CPU where it rests.
LEMMA StillInterrupted ==
  ASSUME NEW c \in CPUs, TypeOK, Interrupted(c),
         running'[c] = running[c], want'[c] = want[c],
         \A y \in Contexts \ {running[c]} :
           /\ pc'[c][y] = pc[c][y] /\ old'[c][y] = old[c][y]
           /\ held'[c][y] = held[c][y] /\ bare'[c][y] = bare[c][y]
  PROVE  Interrupted(c)'
<1>1. CASE running[c] = "thread"
  BY <1>1 DEF Interrupted, Idle, Contexts
<1>2. CASE running[c] = "handler"
  BY <1>2 DEF Interrupted, Idle, Contexts
<1> QED  BY <1>1, <1>2 DEF TypeOK, Contexts

\* The order of locks is irreflexive.
LEMMA LessIrreflexive == \A n \in Int : ~(n < n)
  BY SMTT(60)

-----------------------------------------------------------------------------
(* The steps *)

\* The invariant holds when the kernel starts: nobody is inside spinlock.c.
LEMMA InitHolds == Init => IInv
<1> SUFFICES ASSUME Init PROVE IInv  OBVIOUS
<1>1. TypeOK
  BY SpinLockAssumption DEF Init, TypeOK, Contexts, Places
<1>2. Exclusive /\ Owned
  BY SpinLockAssumption DEF Init, Exclusive, Owned, Has
<1>3. ASSUME NEW c \in CPUs PROVE Local(c)
  <2>1. Depth(c, "thread") = 0
    BY FS_EmptySet, SMTT(60) DEF Init, Depth, Pending, Contexts
  <2> QED  BY <2>1 DEF Init, Local, Interrupted, Idle, Saved, Aims, Contexts
<1> QED  BY <1>1, <1>2, <1>3 DEF IInv, Init

\* Entering push_off() keeps the order of locks; old is the setting to go back to.
LEMMA call_push_off_Holds ==
  ASSUME IInv, NEW c \in CPUs, NEW x \in Contexts, NEW l \in Locks \cup {NoLock},
         call_push_off(c, x, l)
  PROVE  IInv'
<1> USE DEF call_push_off, At, Goto, lockvars, cpuvars
<1>1. TypeOK'
  BY DEF IInv, TypeOK, Places
<1>2. \A d \in CPUs, y \in Contexts, k \in Locks : Has(d, y, k)' <=> Has(d, y, k)
  BY DEF IInv, TypeOK, Has, Places
<1>3. Exclusive' /\ Owned'
  BY <1>2, SMTT(60) DEF IInv, Exclusive, Owned
<1>4. ASSUME NEW d \in CPUs PROVE Local(d)'
  <2>1. CASE d # c
    BY <2>1, Elsewhere DEF IInv, TypeOK
  <2>2. CASE d = c
    <3>1. Depth(c, x)' = Depth(c, x)
      BY DEF IInv, TypeOK, Depth, Pending
    <3>2. (\A y \in Contexts : Aims(c, y))'
      BY SpinLockAssumption DEF IInv, TypeOK, Local, Aims
    <3>3. Interrupted(c)'
      BY StillInterrupted DEF IInv, TypeOK, Local
    <3>4. Saved(c, running[c])'
      BY DEF IInv, TypeOK, Local, Saved
    <3> QED  BY <2>2, <3>1, <3>2, <3>3, <3>4 DEF IInv, TypeOK, Local
  <2> QED  BY <2>1, <2>2
<1> QED  BY <1>1, <1>3, <1>4 DEF IInv

\* After intr_off() no interrupt comes in, with noff still uncounted.
LEMMA intr_off_Holds ==
  ASSUME IInv, NEW c \in CPUs, NEW x \in Contexts, intr_off(c, x)
  PROVE  IInv'
<1> USE DEF intr_off, At, Goto, lockvars, IntrAfterOff
<1>1. TypeOK'
  BY DEF IInv, TypeOK, Places
<1>2. \A d \in CPUs, y \in Contexts, k \in Locks : Has(d, y, k)' <=> Has(d, y, k)
  BY DEF IInv, TypeOK, Has, Places
<1>3. Exclusive' /\ Owned'
  BY <1>2, SMTT(60) DEF IInv, Exclusive, Owned
<1>4. ASSUME NEW d \in CPUs PROVE Local(d)'
  <2>1. CASE d # c
    BY <2>1, Elsewhere DEF IInv, TypeOK
  <2>2. CASE d = c
    <3>1. Depth(c, x)' = Depth(c, x)
      BY DEF IInv, TypeOK, Depth, Pending
    <3>2. (\A y \in Contexts : Aims(c, y))'
      BY DEF IInv, TypeOK, Local, Aims
    <3>3. Interrupted(c)'
      BY StillInterrupted DEF IInv, TypeOK, Local
    <3>4. Saved(c, running[c])'
      BY DEF IInv, TypeOK, Local, Saved
    <3> QED  BY <2>2, <3>1, <3>2, <3>3, <3>4 DEF IInv, TypeOK, Local
  <2> QED  BY <2>1, <2>2
<1> QED  BY <1>1, <1>3, <1>4 DEF IInv

\* The test for a recursive acquire() does not panic.
LEMMA count_Holds ==
  ASSUME IInv, NEW c \in CPUs, NEW x \in Contexts, count(c, x)
  PROVE  IInv'
<1> USE DEF At, Goto, lockvars
<1>0. ~(arg[c][x] # NoLock /\ holding(c, arg[c][x]))
  <2> SUFFICES ASSUME arg[c][x] # NoLock, holding(c, arg[c][x]) PROVE FALSE
    OBVIOUS
  <2>1. arg[c][x] \in Locks /\ pc[c][x] = "count" /\ running[c] = x
    BY SMTT(60) DEF IInv, TypeOK, count
  <2>2. PICK y \in Contexts : arg[c][x] \in held[c][y]
    BY <2>1 DEF IInv, Owned, holding
  <2>3. y = x
    BY <2>1, <2>2, OtherRests
  <2>4. arg[c][x] < arg[c][x]
    BY <2>1, <2>2, <2>3 DEF IInv, Local, Aims
  <2> QED  BY <2>1, <2>4, LessIrreflexive, SpinLockAssumption
<1>1. /\ intena' = [intena EXCEPT ![c] = Intena(c, x)]
      /\ noff' = [noff EXCEPT ![c] = noff[c] + 1]
      /\ pc' = [pc EXCEPT ![c][x] = IF arg[c][x] = NoLock THEN "run" ELSE "spin"]
      /\ bare' = IF arg[c][x] = NoLock THEN [bare EXCEPT ![c][x] = @ + 1] ELSE bare
      /\ UNCHANGED <<lockvars, intr, running, arg, old, held, want, panicked>>
      /\ running[c] = x /\ pc[c][x] = "count"
  BY <1>0 DEF count, Noff
<1>2. TypeOK'
  BY <1>1, SMTT(60) DEF IInv, TypeOK, Places, Intena
<1>3. \A d \in CPUs, y \in Contexts, k \in Locks : Has(d, y, k)' <=> Has(d, y, k)
  BY <1>1 DEF IInv, TypeOK, Has, Places
<1>4. Exclusive' /\ Owned'
  BY <1>1, <1>3, SMTT(60) DEF IInv, Exclusive, Owned
<1>5. ASSUME NEW d \in CPUs PROVE Local(d)'
  <2>1. CASE d # c
    BY <1>1, <2>1, Elsewhere DEF IInv, TypeOK
  <2>2. CASE d = c
    <3>1. Depth(c, x)' = Depth(c, x) + 1
      <4>1. Cardinality(held[c][x]) \in Nat /\ bare[c][x] \in Nat
        BY HeldFinite DEF IInv, TypeOK
      <4>2. /\ Pending(c, x) = 0
            /\ Pending(c, x)' = IF arg[c][x] = NoLock THEN 0 ELSE 1
            /\ bare'[c][x] = IF arg[c][x] = NoLock THEN bare[c][x] + 1 ELSE bare[c][x]
            /\ held' = held
        BY <1>1 DEF IInv, TypeOK, Pending
      <4> QED  BY <4>1, <4>2, SMTT(60) DEF Depth
    <3>2. (\A y \in Contexts : Aims(c, y))'
      BY <1>1, SMTT(60) DEF IInv, TypeOK, Local, Aims
    <3>3. Interrupted(c)'
      BY <1>1, StillInterrupted DEF IInv, TypeOK, Local
    <3>4. Saved(c, running[c])'
      BY <1>1, SMTT(60) DEF IInv, TypeOK, Local, Saved, Intena
    <3>5. noff'[c] = Depth(c, running[c])' /\ ~intr'[c]
      BY <1>1, <3>1 DEF IInv, TypeOK, Local
    <3> QED  BY <2>2, <3>2, <3>3, <3>4, <3>5 DEF Local
  <2> QED  BY <2>1, <2>2
<1> QED  BY <1>1, <1>2, <1>4, <1>5 DEF IInv

\* The swap takes a lock that nobody has, or changes nothing.
LEMMA test_and_set_Holds ==
  ASSUME IInv, NEW c \in CPUs, NEW x \in Contexts, test_and_set(c, x)
  PROVE  IInv'
<1> USE DEF test_and_set, At, Goto, cpuvars, CanSet
<1>0. arg[c][x] \in Locks
  BY DEF IInv, Local, Aims
<1>1. TypeOK'
  BY <1>0 DEF IInv, TypeOK, Places
<1>2. Owned'
  BY DEF IInv, Owned
<1>3. Exclusive'
  <2>1. \A d \in CPUs, y \in Contexts, k \in Locks :
          Has(d, y, k)' <=> \/ Has(d, y, k)
                            \/ ~locked[arg[c][x]] /\ d = c /\ y = x /\ k = arg[c][x]
    BY <1>0 DEF IInv, TypeOK, Has, Places
  <2>2. \A k \in Locks : locked[k] => locked'[k]
    BY <1>0 DEF IInv, TypeOK
  <2>3. locked'[arg[c][x]]
    BY <1>0 DEF IInv, TypeOK
  <2> QED  BY <2>1, <2>2, <2>3, SMTT(60) DEF IInv, Exclusive
<1>4. ASSUME NEW d \in CPUs PROVE Local(d)'
  <2>1. CASE d # c
    BY <2>1, Elsewhere DEF IInv, TypeOK
  <2>2. CASE d = c
    <3>1. Depth(c, x)' = Depth(c, x)
      BY DEF IInv, TypeOK, Depth, Pending
    <3>2. (\A y \in Contexts : Aims(c, y))'
      BY DEF IInv, TypeOK, Local, Aims
    <3>3. Interrupted(c)'
      BY StillInterrupted DEF IInv, TypeOK, Local
    <3>4. Saved(c, running[c])'
      BY DEF IInv, TypeOK, Local, Saved
    <3> QED  BY <2>2, <3>1, <3>2, <3>3, <3>4 DEF IInv, TypeOK, Local
  <2> QED  BY <2>1, <2>2
<1> QED  BY <1>1, <1>2, <1>3, <1>4 DEF IInv

\* The lock enters the set of held ones; noff already counts it.
LEMMA set_owner_Holds ==
  ASSUME IInv, NEW c \in CPUs, NEW x \in Contexts, set_owner(c, x)
  PROVE  IInv'
<1> USE DEF set_owner, At, Goto, cpuvars
<1>0. arg[c][x] \in Locks /\ arg[c][x] \notin held[c][x]
  <2>1. arg[c][x] \in Locks /\ \A k \in held[c][x] : k < arg[c][x]
    BY DEF IInv, Local, Aims
  <2> QED  BY <2>1, LessIrreflexive, SpinLockAssumption
<1>1. TypeOK'
  BY <1>0, SMTT(60) DEF IInv, TypeOK, Places
<1>2. \A d \in CPUs, y \in Contexts, k \in Locks : Has(d, y, k)' <=> Has(d, y, k)
  BY <1>0 DEF IInv, TypeOK, Has, Places
<1>3. Exclusive'
  BY <1>2, SMTT(60) DEF IInv, Exclusive
<1>4. Owned'
  <2>1. Has(c, x, arg[c][x])
    BY DEF Has
  <2>2. \A d \in CPUs, y \in Contexts : arg[c][x] \in held[d][y] => d = c /\ y = x
    BY <1>0, <2>1, SMTT(60) DEF IInv, Exclusive, Has
  <2> QED  BY <1>0, <2>2, SpinLockAssumption, SMTT(60) DEF IInv, Owned, TypeOK
<1>5. ASSUME NEW d \in CPUs PROVE Local(d)'
  <2>1. CASE d # c
    BY <2>1, Elsewhere DEF IInv, TypeOK
  <2>2. CASE d = c
    <3>1. Depth(c, x)' = Depth(c, x)
      <4>1. /\ held'[c][x] = held[c][x] \cup {arg[c][x]} /\ bare' = bare
            /\ Pending(c, x) = 1 /\ Pending(c, x)' = 0
        BY DEF IInv, TypeOK, Pending
      <4>2. Cardinality(held[c][x] \cup {arg[c][x]}) = Cardinality(held[c][x]) + 1
        BY <1>0, HeldFinite, FS_AddElement DEF IInv
      <4>3. Cardinality(held[c][x]) \in Nat /\ bare[c][x] \in Nat
        BY HeldFinite DEF IInv, TypeOK
      <4>4. \A a, b \in Nat : (a + 1) + b + 0 = a + b + 1
        BY SMTT(60)
      <4>5. Depth(c, x)' = (Cardinality(held[c][x]) + 1) + bare[c][x] + 0
        BY <4>1, <4>2 DEF Depth
      <4>6. Depth(c, x) = Cardinality(held[c][x]) + bare[c][x] + 1
        BY <4>1 DEF Depth
      <4> QED  BY <4>3, <4>4, <4>5, <4>6
    <3>2. (\A y \in Contexts : Aims(c, y))'
      BY DEF IInv, TypeOK, Local, Aims
    <3>3. Interrupted(c)'
      BY StillInterrupted DEF IInv, TypeOK, Local
    <3>4. Saved(c, running[c])'
      <4>1. noff[c] > 0
        <5>1. Depth(c, x) # 0 /\ Depth(c, x) \in Nat
          BY NothingOpen DEF IInv
        <5> QED  BY <5>1, SMTT(60) DEF IInv, Local
      <4> QED  BY <4>1, SMTT(60) DEF IInv, TypeOK, Local, Saved
    <3> QED  BY <2>2, <3>1, <3>2, <3>3, <3>4 DEF IInv, TypeOK, Local
  <2> QED  BY <2>1, <2>2
<1> QED  BY <1>1, <1>3, <1>4, <1>5 DEF IInv

\* release() finds the lock held.
LEMMA call_release_Holds ==
  ASSUME IInv, NEW c \in CPUs, NEW x \in Contexts, NEW l \in Locks, call_release(c, x, l)
  PROVE  IInv'
<1> USE DEF At, Goto, cpuvars, OwnerAfterRelease
<1>0. Has(c, x, l) /\ holding(c, l) /\ l \in held[c][x]
  BY DEF IInv, Owned, Exclusive, Has, holding, call_release
<1>1. /\ owner' = [owner EXCEPT ![l] = NoCpu]
      /\ held' = [held EXCEPT ![c][x] = @ \ {l}]
      /\ arg' = [arg EXCEPT ![c][x] = l]
      /\ pc' = [pc EXCEPT ![c][x] = "unlock"]
      /\ UNCHANGED <<locked, cpuvars, old, bare, want, panicked>>
      /\ running[c] = x /\ pc[c][x] = "run"
  BY <1>0 DEF call_release
<1>2. TypeOK'
  BY <1>1, SMTT(60) DEF IInv, TypeOK, Places
<1>3. \A d \in CPUs, y \in Contexts, k \in Locks : Has(d, y, k)' <=> Has(d, y, k)
  BY <1>0, <1>1 DEF IInv, TypeOK, Has, Places
<1>4. Exclusive'
  BY <1>1, <1>3, SMTT(60) DEF IInv, Exclusive
<1>5. Owned'
  <2>1. \A d \in CPUs, y \in Contexts : l \in held[d][y] => d = c /\ y = x
    BY <1>0 DEF IInv, Exclusive, Has
  <2> QED  BY <1>1, <2>1, SpinLockAssumption, SMTT(60) DEF IInv, Owned, TypeOK
<1>6. ASSUME NEW d \in CPUs PROVE Local(d)'
  <2>1. CASE d # c
    BY <1>1, <2>1, Elsewhere DEF IInv, TypeOK
  <2>2. CASE d = c
    <3>1. Depth(c, x)' = Depth(c, x)
      <4>1. /\ held'[c][x] = held[c][x] \ {l} /\ bare' = bare
            /\ Pending(c, x) = 0 /\ Pending(c, x)' = 1
        BY <1>1 DEF IInv, TypeOK, Pending
      <4>2. Cardinality(held[c][x] \ {l}) = Cardinality(held[c][x]) - 1
        BY <1>0, HeldFinite, FS_RemoveElement DEF IInv
      <4>3. Cardinality(held[c][x]) \in Nat /\ bare[c][x] \in Nat
        BY HeldFinite DEF IInv, TypeOK
      <4>4. \A a, b \in Nat : (a - 1) + b + 1 = a + b + 0
        BY SMTT(60)
      <4>5. Depth(c, x)' = (Cardinality(held[c][x]) - 1) + bare[c][x] + 1
        BY <4>1, <4>2 DEF Depth
      <4>6. Depth(c, x) = Cardinality(held[c][x]) + bare[c][x] + 0
        BY <4>1 DEF Depth
      <4> QED  BY <4>3, <4>4, <4>5, <4>6
    <3>2. (\A y \in Contexts : Aims(c, y))'
      BY <1>1 DEF IInv, TypeOK, Local, Aims
    <3>3. Interrupted(c)'
      BY <1>0, <1>1, StillInterrupted DEF IInv, TypeOK, Local
    <3>4. Saved(c, running[c])'
      BY <1>1 DEF IInv, TypeOK, Local, Saved
    <3> QED  BY <1>1, <2>2, <3>1, <3>2, <3>3, <3>4 DEF IInv, TypeOK, Local
  <2> QED  BY <2>1, <2>2
<1> QED  BY <1>1, <1>2, <1>4, <1>5, <1>6 DEF IInv

\* The second swap of release() takes the lock from its one holder.
LEMMA unlock_Holds ==
  ASSUME IInv, NEW c \in CPUs, NEW x \in Contexts, unlock(c, x)
  PROVE  IInv'
<1> USE DEF unlock, At, Goto, cpuvars
<1>0. arg[c][x] \in Locks /\ arg[c][x] \notin held[c][x] /\ Has(c, x, arg[c][x])
  BY DEF IInv, Local, Aims, Has
<1>1. TypeOK'
  BY <1>0 DEF IInv, TypeOK, Places
<1>2. Owned'
  BY DEF IInv, Owned
<1>3. Exclusive'
  <2>1. \A d \in CPUs, y \in Contexts, k \in Locks :
          Has(d, y, k)' <=> Has(d, y, k) /\ ~(d = c /\ y = x /\ k = arg[c][x])
    BY <1>0 DEF IInv, TypeOK, Has, Places
  <2>2. \A d \in CPUs, y \in Contexts, k \in Locks :
          Has(d, y, k)' => k # arg[c][x]
    BY <1>0, <2>1, SMTT(60) DEF IInv, Exclusive
  <2>3. \A k \in Locks : k # arg[c][x] => locked'[k] = locked[k]
    BY <1>0 DEF IInv, TypeOK
  <2> QED  BY <2>1, <2>2, <2>3, SMTT(60) DEF IInv, Exclusive
<1>4. ASSUME NEW d \in CPUs PROVE Local(d)'
  <2>1. CASE d # c
    BY <2>1, Elsewhere DEF IInv, TypeOK
  <2>2. CASE d = c
    <3>1. Depth(c, x)' = Depth(c, x)
      BY DEF IInv, TypeOK, Depth, Pending
    <3>2. (\A y \in Contexts : Aims(c, y))'
      BY DEF IInv, TypeOK, Local, Aims
    <3>3. Interrupted(c)'
      BY StillInterrupted DEF IInv, TypeOK, Local
    <3>4. Saved(c, running[c])'
      BY DEF IInv, TypeOK, Local, Saved
    <3> QED  BY <2>2, <3>1, <3>2, <3>3, <3>4 DEF IInv, TypeOK, Local
  <2> QED  BY <2>1, <2>2
<1> QED  BY <1>1, <1>2, <1>3, <1>4 DEF IInv

\* Entering pop_off() alone leaves one push_off() to undo.
LEMMA call_pop_off_Holds ==
  ASSUME IInv, NEW c \in CPUs, NEW x \in Contexts, call_pop_off(c, x)
  PROVE  IInv'
<1> USE DEF call_pop_off, At, Goto, lockvars, cpuvars
<1>1. TypeOK'
  BY SMTT(60) DEF IInv, TypeOK, Places
<1>2. \A d \in CPUs, y \in Contexts, k \in Locks : Has(d, y, k)' <=> Has(d, y, k)
  BY DEF IInv, TypeOK, Has, Places
<1>3. Exclusive' /\ Owned'
  BY <1>2, SMTT(60) DEF IInv, Exclusive, Owned
<1>4. ASSUME NEW d \in CPUs PROVE Local(d)'
  <2>1. CASE d # c
    BY <2>1, Elsewhere DEF IInv, TypeOK
  <2>2. CASE d = c
    <3>1. Depth(c, x)' = Depth(c, x)
      <4>1. /\ held' = held /\ bare'[c][x] = bare[c][x] - 1
            /\ Pending(c, x) = 0 /\ Pending(c, x)' = 1
        BY DEF IInv, TypeOK, Pending
      <4>2. Cardinality(held[c][x]) \in Nat /\ bare[c][x] \in Nat
        BY HeldFinite DEF IInv, TypeOK
      <4>3. \A a, b \in Nat : a + (b - 1) + 1 = a + b + 0
        BY SMTT(60)
      <4> QED  BY <4>1, <4>2, <4>3, SMTT(60) DEF Depth
    <3>2. (\A y \in Contexts : Aims(c, y))'
      BY DEF IInv, TypeOK, Local, Aims
    <3>3. Interrupted(c)'
      BY StillInterrupted DEF IInv, TypeOK, Local
    <3>4. Saved(c, running[c])'
      BY DEF IInv, TypeOK, Local, Saved
    <3> QED  BY <2>2, <3>1, <3>2, <3>3, <3>4 DEF IInv, TypeOK, Local
  <2> QED  BY <2>1, <2>2
<1> QED  BY <1>1, <1>3, <1>4 DEF IInv

\* pop_off() finds interrupts off and a count to take down.
LEMMA pop_off_Holds ==
  ASSUME IInv, NEW c \in CPUs, NEW x \in Contexts, pop_off(c, x)
  PROVE  IInv'
<1> USE DEF At, Goto, lockvars
<1>0. noff[c] \in Nat /\ noff[c] > 0 /\ ~intr[c] /\ noff[c] = Depth(c, x)
  <2>1. pc[c][x] = "pop_off" /\ running[c] = x /\ Local(c) /\ TypeOK
    BY DEF IInv, pop_off
  <2>2. Depth(c, x) \in Nat /\ Depth(c, x) # 0
    BY <2>1, NothingOpen
  <2>3. noff[c] = Depth(c, x)
    BY <2>1 DEF Local
  <2>4. \A n \in Nat : n # 0 => n > 0
    BY SMTT(60)
  <2> QED  BY <2>1, <2>2, <2>3, <2>4 DEF Local
<1>1. /\ noff' = [noff EXCEPT ![c] = noff[c] - 1]
      /\ intr' = [intr EXCEPT ![c] = noff[c] = 1 /\ intena[c]]
      /\ pc' = [pc EXCEPT ![c][x] = "run"]
      /\ UNCHANGED <<lockvars, intena, running, arg, old, held, bare, want, panicked>>
      /\ running[c] = x /\ pc[c][x] = "pop_off"
  BY <1>0, SMTT(60) DEF pop_off
<1>2. TypeOK'
  BY <1>0, <1>1, SMTT(60) DEF IInv, TypeOK, Places
<1>3. \A d \in CPUs, y \in Contexts, k \in Locks : Has(d, y, k)' <=> Has(d, y, k)
  BY <1>1 DEF IInv, TypeOK, Has, Places
<1>4. Exclusive' /\ Owned'
  BY <1>1, <1>3, SMTT(60) DEF IInv, Exclusive, Owned
<1>5. ASSUME NEW d \in CPUs PROVE Local(d)'
  <2>1. CASE d # c
    BY <1>1, <2>1, Elsewhere DEF IInv, TypeOK
  <2>2. CASE d = c
    <3>1. noff'[c] = Depth(c, x)'
      <4>1. /\ held' = held /\ bare' = bare
            /\ Pending(c, x) = 1 /\ Pending(c, x)' = 0
        BY <1>1 DEF IInv, TypeOK, Pending
      <4>2. Cardinality(held[c][x]) \in Nat /\ bare[c][x] \in Nat
        BY HeldFinite DEF IInv, TypeOK
      <4>3. \A a, b \in Nat : a + b + 1 - 1 = a + b + 0
        BY SMTT(60)
      <4>4. noff'[c] = Depth(c, x) - 1
        BY <1>0, <1>1 DEF IInv, TypeOK
      <4> QED  BY <4>1, <4>2, <4>3, <4>4, SMTT(60) DEF Depth
    <3>2. (\A y \in Contexts : Aims(c, y))'
      BY <1>1 DEF IInv, TypeOK, Local, Aims
    <3>3. Interrupted(c)'
      BY <1>1, StillInterrupted DEF IInv, TypeOK, Local
    <3>4. /\ noff'[c] > 0 => noff[c] # 1
          /\ noff'[c] = 0 => noff[c] = 1
      BY <1>0, <1>1, SMTT(60) DEF IInv, TypeOK
    <3>5. /\ intr'[c] = (noff[c] = 1 /\ intena[c])
          /\ intena[c] = want[c][x] /\ want[c][x] \in BOOLEAN
          /\ pc'[c][x] = "run" /\ intena' = intena /\ want' = want /\ running' = running
      BY <1>0, <1>1 DEF IInv, TypeOK, Local, Saved
    <3>6. Saved(c, running[c])'
      BY <1>1, <3>4, <3>5 DEF Saved
    <3>7. (noff[c] > 0 \/ pc[c][running[c]] = "count" => ~intr[c])'
      BY <1>1, <3>4, <3>5
    <3> QED  BY <1>1, <2>2, <3>1, <3>2, <3>3, <3>6, <3>7 DEF Local
  <2> QED  BY <2>1, <2>2
<1> QED  BY <1>1, <1>2, <1>4, <1>5 DEF IInv

\* An idle thread has nothing to undo.
LEMMA IdleNoff ==
  ASSUME IInv, NEW c \in CPUs, Idle(c, running[c])
  PROVE  noff[c] = 0
  BY NothingOpen DEF IInv, TypeOK, Local, Idle

\* The trap path and scheduler() switch interrupts only with nothing to undo.
LEMMA intr_switch_Holds ==
  ASSUME IInv, NEW c \in CPUs, NEW on \in BOOLEAN, intr_switch(c, on)
  PROVE  IInv'
<1> USE DEF intr_switch, At, lockvars, ctxvars
<1>1. TypeOK'
  BY DEF IInv, TypeOK, Contexts
<1>2. Exclusive' /\ Owned'
  <2>1. \A d \in CPUs, y \in Contexts, k \in Locks : Has(d, y, k)' <=> Has(d, y, k)
    BY DEF Has
  <2> QED  BY <2>1, SameHolders DEF IInv
<1>3. ASSUME NEW d \in CPUs PROVE Local(d)'
  <2>1. CASE d # c
    BY <2>1, Elsewhere DEF IInv, TypeOK
  <2>2. CASE d = c
    <3>1. noff[c] = 0
      BY IdleNoff
    <3>2. \A y \in Contexts : Depth(c, y)' = Depth(c, y)
      BY DEF Depth, Pending
    <3>3. (\A y \in Contexts : Aims(c, y))'
      BY DEF IInv, Local, Aims
    <3>4. Interrupted(c)'
      <4>1. /\ running'[c] = "thread" /\ ~want'[c]["handler"]
            /\ pc' = pc /\ held' = held /\ bare' = bare /\ Idle(c, "handler")
        BY SMTT(60) DEF IInv, TypeOK, Local, Interrupted, Contexts
      <4> QED  BY <4>1 DEF Interrupted, Idle
    <3>5. Saved(c, running[c])'
      BY <3>1, SMTT(60) DEF IInv, TypeOK, Saved, Contexts
    <3> QED  BY <2>2, <3>1, <3>2, <3>3, <3>4, <3>5, SMTT(60) DEF IInv, TypeOK, Local
  <2> QED  BY <2>1, <2>2
<1> QED  BY <1>1, <1>2, <1>3 DEF IInv

\* An interrupt finds a thread with nothing to undo.
LEMMA interrupt_Holds ==
  ASSUME IInv, NEW c \in CPUs, interrupt(c)
  PROVE  IInv'
<1> USE DEF interrupt, lockvars, ctxvars
<1>1. TypeOK'
  BY DEF IInv, TypeOK, Contexts
<1>2. Exclusive' /\ Owned'
  <2>1. \A d \in CPUs, y \in Contexts, k \in Locks : Has(d, y, k)' <=> Has(d, y, k)
    BY DEF Has
  <2> QED  BY <2>1, SameHolders DEF IInv
<1>3. ASSUME NEW d \in CPUs PROVE Local(d)'
  <2>1. CASE d # c
    BY <2>1, Elsewhere DEF IInv, TypeOK
  <2>2. CASE d = c
    <3>1. noff[c] = 0 /\ pc[c]["thread"] # "count"
      <4>1. noff[c] \in Nat /\ ~(noff[c] > 0)
        BY DEF IInv, TypeOK, Local
      <4>2. \A n \in Nat : ~(n > 0) => n = 0
        BY SMTT(60)
      <4> QED  BY <4>1, <4>2 DEF IInv, Local
    <3>2. /\ held[c]["thread"] = {} /\ bare[c]["thread"] = 0
          /\ pc[c]["thread"] \in {"run", "intr_off"}
      BY <3>1, NothingOpen DEF IInv, Local, Contexts
    <3>3. want[c]["thread"] /\ (pc[c]["thread"] = "intr_off" => old[c]["thread"])
      BY <3>1, <3>2 DEF IInv, Local, Saved
    <3>4. Idle(c, "handler") /\ ~want[c]["handler"]
      BY DEF IInv, Local, Interrupted
    <3>5. running'[c] = "handler" /\ ~intr'[c] /\ noff'[c] = 0
      BY <3>1 DEF IInv, TypeOK
    <3>6. Depth(c, "handler")' = 0
      BY <3>4, NothingOpen DEF IInv, Idle, Depth, Pending, Contexts
    <3>7. (\A y \in Contexts : Aims(c, y))'
      BY DEF IInv, Local, Aims
    <3>8. Interrupted(c)'
      BY <3>2, <3>3, <3>4, <3>5 DEF Interrupted
    <3>9. Saved(c, "handler")'
      <4>1. intr'[c] = FALSE /\ want'[c]["handler"] = FALSE /\ pc'[c]["handler"] = "run"
        BY <3>4, SMTT(60) DEF IInv, TypeOK, Idle, Contexts
      <4> QED  BY <3>5, <4>1, SavedOutside DEF Contexts
    <3> QED  BY <2>2, <3>4, <3>5, <3>6, <3>7, <3>8, <3>9 DEF Local, Idle
  <2> QED  BY <2>1, <2>2
<1> QED  BY <1>1, <1>2, <1>3 DEF IInv

\* The thread goes on where it was, with the setting it had.
LEMMA return_from_trap_Holds ==
  ASSUME IInv, NEW c \in CPUs, return_from_trap(c)
  PROVE  IInv'
<1> USE DEF return_from_trap, At, lockvars, ctxvars
<1>1. TypeOK'
  BY DEF IInv, TypeOK, Contexts
<1>2. Exclusive' /\ Owned'
  <2>1. \A d \in CPUs, y \in Contexts, k \in Locks : Has(d, y, k)' <=> Has(d, y, k)
    BY DEF Has
  <2> QED  BY <2>1, SameHolders DEF IInv
<1>3. ASSUME NEW d \in CPUs PROVE Local(d)'
  <2>1. CASE d # c
    BY <2>1, Elsewhere DEF IInv, TypeOK
  <2>2. CASE d = c
    <3>1. noff[c] = 0
      BY IdleNoff
    <3>2. /\ held[c]["thread"] = {} /\ bare[c]["thread"] = 0
          /\ pc[c]["thread"] \in {"run", "intr_off"} /\ want[c]["thread"]
          /\ pc[c]["thread"] = "intr_off" => old[c]["thread"]
          /\ ~want[c]["handler"]
      BY DEF IInv, Local, Interrupted
    <3>3. running'[c] = "thread" /\ intr'[c] /\ noff'[c] = 0
      BY <3>1 DEF IInv, TypeOK
    <3>4. Depth(c, "thread")' = 0
      BY <3>2, NothingOpen DEF IInv, Depth, Pending, Contexts
    <3>5. (\A y \in Contexts : Aims(c, y))'
      BY DEF IInv, Local, Aims
    <3>6. Interrupted(c)'
      BY <3>2, <3>3 DEF Interrupted, Idle
    <3>7. Saved(c, "thread")'
      <4>1. /\ intr'[c] = TRUE /\ want'[c]["thread"] = TRUE
            /\ pc'[c]["thread"] = "intr_off" => old'[c]["thread"] = TRUE
            /\ pc'[c]["thread"] # "count"
        BY <3>2 DEF IInv, TypeOK, Contexts
      <4>2. /\ noff'[c] = 0 /\ intr'[c] = want'[c]["thread"]
            /\ pc'[c]["thread"] = "intr_off" => old'[c]["thread"] = want'[c]["thread"]
        BY <3>3, <4>1
      <4>3. "thread" \in Contexts
        BY DEF Contexts
      <4> HIDE DEF return_from_trap
      <4> QED  BY <4>1, <4>2, <4>3, SavedOutside
    <3>8. pc'[c]["thread"] # "count" /\ ~(noff'[c] > 0)
      BY <3>2, <3>3, SMTT(60)
    <3> HIDE DEF return_from_trap
    <3> QED  BY <2>2, <3>3, <3>4, <3>5, <3>6, <3>7, <3>8 DEF Local
  <2> QED  BY <2>1, <2>2
<1> QED  BY <1>1, <1>2, <1>3 DEF IInv

\* Every step keeps the invariant.
LEMMA NextHolds == IInv /\ [Next]_vars => IInv'
<1> SUFFICES ASSUME IInv, [Next]_vars PROVE IInv'
  OBVIOUS
<1>1. CASE UNCHANGED vars
  <2> USE <1>1 DEF vars, lockvars, cpuvars, ctxvars
  <2>1. TypeOK'
    BY DEF IInv, TypeOK
  <2>2. \A d \in CPUs, y \in Contexts, k \in Locks : Has(d, y, k)' <=> Has(d, y, k)
    BY DEF Has
  <2>3. Exclusive' /\ Owned'
    BY <2>2, SameHolders DEF IInv
  <2>4. \A d \in CPUs : Local(d)'
    BY Elsewhere DEF IInv
  <2> QED  BY <2>1, <2>3, <2>4 DEF IInv
<1>2. ASSUME NEW c \in CPUs, NEW x \in Contexts, Step(c, x)
      PROVE  IInv'
  BY <1>2, intr_off_Holds, count_Holds, test_and_set_Holds, set_owner_Holds,
     unlock_Holds, pop_off_Holds DEF Step
<1>3. ASSUME NEW c \in CPUs, NEW x \in Contexts, Leave(c, x)
      PROVE  IInv'
  BY <1>3, call_release_Holds, call_pop_off_Holds DEF Leave
<1> QED  BY <1>1, <1>2, <1>3, call_push_off_Holds, intr_switch_Holds, interrupt_Holds,
            return_from_trap_Holds DEF Next

\* The invariant holds in every reachable state.
LEMMA Always == Spec => []IInv
  BY InitHolds, NextHolds, PTL DEF Spec

-----------------------------------------------------------------------------
(* What follows *)

\* At most one context of one CPU is between acquire()'s swap and release()'s,
\* and holding() is true for exactly the CPU in the critical section, for any
\* number of CPUs and locks.
THEOREM Exclusion == Spec => []MutualExclusion
<1>1. IInv => MutualExclusion
  <2> SUFFICES ASSUME IInv PROVE MutualExclusion
    OBVIOUS
  <2>1. \A l \in Locks, c \in CPUs : holding(c, l) <=> \E x \in Contexts : l \in held[c][x]
    BY DEF IInv, Owned, Exclusive, Has, holding
  <2> QED  BY <2>1 DEF IInv, Exclusive, MutualExclusion
<1> QED  BY <1>1, Always, PTL

\* push_off() and pop_off() put interrupts back to what they were, however they
\* nest and wherever interrupts come in.
THEOREM Restored == Spec => []InterruptsRestored
<1>1. IInv => InterruptsRestored
  <2> SUFFICES ASSUME IInv, NEW c \in CPUs, Idle(c, running[c])
               PROVE  intr[c] = want[c][running[c]]
    BY DEF InterruptsRestored
  <2> QED  BY IdleNoff DEF IInv, Local, Saved, Idle
<1> QED  BY <1>1, Always, PTL

\* A handler never waits for a lock of the CPU that it runs on, and no panic of
\* spinlock.c is reached.
THEOREM NoDeadlocks == Spec => []NoSelfDeadlock
<1>1. IInv => NoSelfDeadlock
  <2> SUFFICES ASSUME IInv, NEW c \in CPUs, NEW x \in Contexts, NEW y \in Contexts,
                      pc[c][x] = "spin", Has(c, y, arg[c][x])
               PROVE  FALSE
    BY DEF NoSelfDeadlock, IInv
  <2>1. x = running[c]
    BY OtherRests
  <2>2. y = x
    BY <2>1, OtherRests DEF Has
  <2>3. arg[c][x] \in Locks /\ arg[c][x] \in held[c][x]
    BY <2>2 DEF IInv, Local, Aims, Has
  <2>4. arg[c][x] < arg[c][x]
    BY <2>3 DEF IInv, Local, Aims
  <2> QED  BY <2>3, <2>4, LessIrreflexive, SpinLockAssumption
<1> QED  BY <1>1, Always, PTL
=============================================================================
