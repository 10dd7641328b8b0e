------------------------------ MODULE BioProofs ------------------------------
(***************************************************************************)
(* Proofs about Bio, for any numbers of processes, buffers and blocks: a   *)
(* block has one buffer and its holder sees the current contents, nothing  *)
(* that was written is lost, and bget() panics only if the cache is full.  *)
(***************************************************************************)
EXTENDS Bio, FiniteSetTheorems, FunctionTheorems, WellFoundedInduction, TLAPS

\* Zenon proves a step unless it names another prover; it may take this many seconds.
USE ZenonT(60)

-----------------------------------------------------------------------------
(* The inductive invariant *)

Locking == {"read", "hold", "dirty"}
Places == Locking \cup {"idle", "acquiresleep", "brelse"}

TypeOK ==
  /\ blockno \in [Bufs -> Blocks \cup {None}]
  /\ valid \in [Bufs -> BOOLEAN]
  /\ refcnt \in [Bufs -> Nat]
  /\ lock \in [Bufs -> Procs \cup {None}]
  /\ lru \in Seq(Bufs)
  /\ current \subseteq Bufs /\ ondisk \subseteq Blocks /\ pinned \subseteq Blocks
  /\ pc \in [Procs -> Places]
  /\ buf \in [Procs -> Bufs \cup {None}]

\* A block is cached once.
Unique == \A a, b \in Bufs : blockno[a] = blockno[b] /\ blockno[a] # None => a = b

\* A process inside bread() to brelse() has a buffer, which has a block; it has the
\* buffer's lock from acquiresleep() to releasesleep(), and what it has locked is
\* valid unless it is about to read it.
Working(p) ==
  /\ pc[p] = "idle" <=> buf[p] = None
  /\ pc[p] # "idle" => blockno[buf[p]] \in Blocks
  /\ pc[p] \in Locking => lock[buf[p]] = p /\ (valid[buf[p]] <=> pc[p] # "read")

Locked(b) == lock[b] # None => buf[lock[b]] = b /\ pc[lock[b]] \in Locking

\* What is valid is current.
Fresh(b) == valid[b] => b \in current /\ blockno[b] \in Blocks

Users(b) == {p \in Procs : buf[p] = b}
Pins(b) == IF blockno[b] \in pinned THEN 1 ELSE 0
Counted(b) == refcnt[b] = Cardinality(Users(b)) + Pins(b)

\* A pinned block is cached.  A block that differs from the disk is pinned, or
\* whoever changed it has yet to write or to pin it.
Pinned(n) == n \in pinned => \E b \in Bufs : blockno[b] = n /\ valid[b]
Dirty(n) == n \in ondisk \/ n \in pinned \/ \E p \in Procs : pc[p] = "dirty" /\ blockno[buf[p]] = n

\* Every buffer is in the list.
Linked == \A b \in Bufs : \E i \in 1..Len(lru) : lru[i] = b

Full == Cardinality({p \in Procs : buf[p] # None}) + Cardinality(pinned) >= Cardinality(Bufs)

IInv ==
  /\ Distinct
  /\ TypeOK
  /\ Unique
  /\ \A p \in Procs : Working(p)
  /\ \A b \in Bufs : Locked(b) /\ Fresh(b) /\ Counted(b)
  /\ \A n \in Blocks : Pinned(n) /\ Dirty(n)
  /\ Linked
  /\ IsFiniteSet(pinned)
  /\ panicked => Full

-----------------------------------------------------------------------------
(* The list *)

\* The list binit() makes has every buffer.
LEMMA ChainedAll ==
  ASSUME IsFiniteSet(Bufs)
  PROVE  /\ Chained \in Seq(Bufs)
         /\ \A b \in Bufs : \E i \in 1..Len(Chained) : Chained[i] = b
<1> DEFINE n == Cardinality(Bufs)
<1>1. n \in Nat /\ \E f \in [1..n -> Bufs] : \A b \in Bufs : \E i \in DOMAIN f : f[i] = b
  BY FS_CardinalityType, SMTT(60) DEF ExistsBijection, Bijection, Surjection
<1>2. Chained \in [1..n -> Bufs] /\ \A b \in Bufs : \E i \in DOMAIN Chained : Chained[i] = b
  BY <1>1 DEF Chained
<1>3. Chained \in Seq(Bufs) /\ Len(Chained) = n
  BY <1>1, <1>2, SMTT(60)
<1> QED  BY <1>2, <1>3

\* Moving a buffer to the front loses none.
LEMMA Moved ==
  ASSUME lru \in Seq(Bufs), Linked, NEW b \in Bufs
  PROVE  /\ MoveToFront(b) \in Seq(Bufs)
         /\ \A x \in Bufs : \E i \in 1..Len(MoveToFront(b)) : MoveToFront(b)[i] = x
<1> DEFINE i == CHOOSE j \in 1..Len(lru) : lru[j] = b
           n == Len(lru)
           s == SubSeq(lru, 1, i - 1)
           t == SubSeq(lru, i + 1, n)
           m == <<b>> \o (s \o t)
<1>1. i \in 1..n /\ lru[i] = b /\ n \in Nat
  BY SMTT(60) DEF Linked
<1>2. m = MoveToFront(b)
  BY DEF MoveToFront
<1> HIDE DEF i
<1>3. s \in Seq(Bufs) /\ Len(s) = i - 1 /\ \A j \in 1..(i - 1) : s[j] = lru[j]
  BY <1>1, SMTT(60)
<1>4. t \in Seq(Bufs) /\ Len(t) = n - i /\ \A j \in 1..(n - i) : t[j] = lru[i + j]
  BY <1>1, SMTT(60)
<1> HIDE DEF s, t
<1>5. /\ s \o t \in Seq(Bufs) /\ Len(s \o t) = n - 1
      /\ \A j \in 1..(i - 1) : (s \o t)[j] = lru[j]
      /\ \A j \in i..(n - 1) : (s \o t)[j] = lru[j + 1]
  <2>0. s \o t \in Seq(Bufs) /\ Len(s \o t) = Len(s) + Len(t)
    <3>1. s \in Seq(Bufs) /\ t \in Seq(Bufs)
      BY <1>3, <1>4
    <3> QED  BY <3>1, SMTT(60)
  <2>1. s \o t \in Seq(Bufs) /\ Len(s \o t) = n - 1
    BY <2>0, <1>1, <1>3, <1>4, SMTT(60)
  <2>2. \A j \in 1..(i - 1) : (s \o t)[j] = lru[j]
    BY <1>1, <1>3, <1>4, SMTT(60)
  <2>3. ASSUME NEW j \in i..(n - 1) PROVE (s \o t)[j] = lru[j + 1]
    <3>1. /\ j \in 1..(Len(s) + Len(t)) /\ ~(j <= Len(s)) /\ j - Len(s) = j - i + 1
          /\ j - i + 1 \in 1..(n - i) /\ i + (j - i + 1) = j + 1
      BY <1>1, <1>3, <1>4, SMTT(60)
    <3>2. (s \o t)[j] = t[j - Len(s)]
      BY <3>1, <1>3, <1>4, SMTT(60)
    <3>3. t[j - i + 1] = lru[i + (j - i + 1)]
      BY <3>1, <1>4
    <3> QED  BY <3>1, <3>2, <3>3
  <2> QED  BY <2>1, <2>2, <2>3
<1> DEFINE r == s \o t
<1> HIDE DEF r
<1>6. /\ <<b>> \o r \in Seq(Bufs) /\ Len(<<b>> \o r) = n
      /\ (<<b>> \o r)[1] = b
      /\ \A j \in 1..(n - 1) : (<<b>> \o r)[j + 1] = r[j]
  <2>1. r \in Seq(Bufs) /\ Len(r) = n - 1
    BY <1>5 DEF r
  <2> QED  BY <1>1, <2>1, SMTT(60)
<1>7. ASSUME NEW x \in Bufs PROVE \E j \in 1..n : m[j] = x
  <2>1. PICK k \in 1..n : lru[k] = x
    BY DEF Linked
  <2>2. CASE k = i
    <3>1. m[1] = x /\ 1 \in 1..n
      BY <2>1, <2>2, <1>1, <1>6, SMTT(60) DEF r
    <3> QED  BY <3>1
  <2>3. CASE k < i
    <3>1. k \in 1..(n - 1) /\ k + 1 \in 1..n /\ r[k] = x
      BY <2>1, <2>3, <1>1, <1>5, SMTT(60) DEF r
    <3>2. m[k + 1] = x
      BY <3>1, <1>6 DEF r
    <3> QED  BY <3>1, <3>2
  <2>4. CASE k > i
    <3>0. k - 1 \in 1..(n - 1) /\ k - 1 \in i..(n - 1) /\ (k - 1) + 1 = k
      BY <2>1, <2>4, <1>1, SMTT(60)
    <3>1. k - 1 \in 1..(n - 1) /\ r[k - 1] = lru[(k - 1) + 1] /\ (k - 1) + 1 = k
      BY <3>0, <1>5 DEF r
    <3>2. m[(k - 1) + 1] = r[k - 1]
      BY <3>1, <1>6 DEF r
    <3>3. m[k] = x
      BY <3>1, <3>2, <2>1
    <3> QED  BY <3>3
  <2>5. k = i \/ k < i \/ k > i
    BY <2>1, <1>1, SMTT(60)
  <2> HIDE DEF m
  <2> QED  BY <2>2, <2>3, <2>4, <2>5
<1>8. m \in Seq(Bufs) /\ Len(m) = n
  BY <1>6 DEF r
<1> HIDE DEF m
<1> QED  BY <1>2, <1>7, <1>8

\* If bget() finds no buffer to recycle, all have references.
LEMMA NoneFree ==
  ASSUME IInv, LeastRecent = {}
  PROVE  \A b \in Bufs : refcnt[b] # 0
<1> SUFFICES ASSUME NEW b \in Bufs, refcnt[b] = 0 PROVE FALSE
  OBVIOUS
<1> DEFINE n == Len(lru)
           J == {j \in 1..n : refcnt[lru[j]] = 0}
           T == {m \in Nat : n - m \in J}
           R == OpToRel(<, Nat)
<1>1. n \in Nat
  BY SMTT(60) DEF IInv, TypeOK
<1>2. PICK k \in 1..n : lru[k] = b
  BY DEF IInv, Linked
<1>3. T # {}
  <2>1. n - k \in Nat /\ n - (n - k) = k
    BY <1>1, SMTT(60)
  <2>2. n - k \in T
    BY <2>1, <1>2
  <2> QED  BY <2>2
<1>4. PICK m \in T : \A y \in T : <<y, m>> \notin R
  <2>1. IsWellFoundedOn(R, Nat)
    BY NatLessThanWellFounded
  <2>2. T \subseteq Nat
    OBVIOUS
  <2> HIDE DEF R, T
  <2> QED  BY <2>1, <2>2, <1>3, WFMin
<1>5. \A y \in T : ~(y < m)
  BY <1>4 DEF OpToRel
<1> DEFINE i == n - m
<1>6. i \in J /\ m \in Nat
  OBVIOUS
<1>7. ASSUME NEW j \in (i + 1)..n PROVE refcnt[lru[j]] # 0
  <2>1. j \in 1..n /\ n - j \in Nat /\ n - j < m /\ n - (n - j) = j
    BY <1>1, <1>6, SMTT(60)
  <2>2. n - j \notin T
    BY <2>1, <1>5
  <2> QED  BY <2>1, <2>2
<1>8. lru[i] \in LeastRecent
  BY <1>6, <1>7 DEF LeastRecent
<1> QED  BY <1>8

\* If all buffers have references, users and pins take up the cache.
LEMMA CacheFull ==
  ASSUME IInv, \A b \in Bufs : refcnt[b] # 0
  PROVE  Full
<1> DEFINE X == {p \in Procs : buf[p] # None}
           H == {b \in Bufs : Users(b) # {}}
           N == {b \in Bufs : blockno[b] \in pinned}
<1>1. IsFiniteSet(Procs) /\ IsFiniteSet(Bufs) /\ IsFiniteSet(pinned) /\ None \notin Bufs \cup Blocks
  BY DEF IInv, Distinct
<1>2. IsFiniteSet(X) /\ IsFiniteSet(H) /\ IsFiniteSet(N)
  <2>1. X \in SUBSET Procs /\ H \in SUBSET Bufs /\ N \in SUBSET Bufs
    OBVIOUS
  <2> HIDE DEF X, H, N
  <2> QED  BY <1>1, <2>1, FS_Subset
<1>3. Cardinality(H) <= Cardinality(X)
  <2> DEFINE f == [b \in H |-> CHOOSE p \in Procs : buf[p] = b]
  <2>1. \A b \in H : f[b] \in Procs /\ buf[f[b]] = b
    BY DEF Users
  <2>2. \A b \in H : f[b] \in X
    BY <2>1, <1>1, SMTT(60)
  <2>3. f \in Injection(H, X)
    <3>1. f \in [H -> X]
      BY <2>2
    <3> HIDE DEF f, X, H
    <3>2. \A a, b \in H : f[a] = f[b] => a = b
      BY <2>1
    <3> QED  BY <3>1, <3>2 DEF Injection, IsInjective
  <2> HIDE DEF f, X, H
  <2> QED  BY <1>2, <2>3, FS_Injection
<1>4. Cardinality(N) <= Cardinality(pinned)
  <2> DEFINE f == [b \in N |-> blockno[b]]
  <2>1. f \in [N -> pinned]
    OBVIOUS
  <2>2. \A a, b \in N : f[a] = f[b] => a = b
    BY <1>1 DEF IInv, TypeOK, Unique
  <2>3. f \in Injection(N, pinned)
    <3> HIDE DEF f, N
    <3> QED  BY <2>1, <2>2 DEF Injection, IsInjective
  <2> HIDE DEF f, N
  <2> QED  BY <1>1, <2>3, FS_Injection
<1>5. Bufs = H \cup N
  <2>1. ASSUME NEW b \in Bufs, b \notin N PROVE b \in H
    <3>1. refcnt[b] = Cardinality(Users(b)) + 0
      BY <2>1 DEF IInv, Counted, Pins
    <3>2. Users(b) # {}
      BY <3>1, FS_EmptySet, SMTT(60)
    <3> QED  BY <3>2
  <2> QED  BY <2>1
<1>6. Cardinality(H \cup N) <= Cardinality(H) + Cardinality(N)
  <2> HIDE DEF H, N
  <2>1. /\ Cardinality(H \cup N) = Cardinality(H) + Cardinality(N) - Cardinality(H \cap N)
        /\ IsFiniteSet(H \cap N)
    BY <1>2, FS_Union, FS_Intersection
  <2>2. Cardinality(H) \in Nat /\ Cardinality(N) \in Nat /\ Cardinality(H \cap N) \in Nat
    BY <1>2, <2>1, FS_CardinalityType
  <2> QED  BY <2>1, <2>2, SMTT(60)
<1>7. /\ Cardinality(X) \in Nat /\ Cardinality(H) \in Nat /\ Cardinality(N) \in Nat
      /\ Cardinality(pinned) \in Nat /\ Cardinality(Bufs) \in Nat
  <2> HIDE DEF X, H, N
  <2> QED  BY <1>1, <1>2, FS_CardinalityType
<1>8. Cardinality(X) + Cardinality(pinned) >= Cardinality(Bufs)
  <2> HIDE DEF X, H, N
  <2> QED  BY <1>3, <1>4, <1>5, <1>6, <1>7, SMTT(60)
<1> QED  BY <1>8 DEF Full

-----------------------------------------------------------------------------
(* The invariant is inductive *)

\* A process that is not idle has a buffer with a block.
LEMMA HasBuffer ==
  ASSUME IInv, NEW p \in Procs, pc[p] # "idle"
  PROVE  buf[p] \in Bufs /\ blockno[buf[p]] \in Blocks /\ p \in Users(buf[p])
BY DEF IInv, TypeOK, Working, Users

\* A buffer's lock excludes.
LEMMA Alone ==
  ASSUME IInv, NEW p \in Procs, NEW q \in Procs, pc[p] \in Locking, pc[q] \in Locking,
         buf[p] = buf[q]
  PROVE  p = q
BY DEF IInv, Working

\* Whoever refers to a buffer is counted, and so is a pin.
LEMMA Referenced ==
  ASSUME IInv, NEW b \in Bufs
  PROVE  /\ IsFiniteSet(Users(b)) /\ Cardinality(Users(b)) \in Nat
         /\ \A p \in Users(b) : Cardinality(Users(b)) >= 1
         /\ refcnt[b] = Cardinality(Users(b)) + Pins(b)
         /\ refcnt[b] = 0 => Users(b) = {} /\ blockno[b] \notin pinned
<1>1. IsFiniteSet(Procs) /\ Users(b) \in SUBSET Procs
  BY DEF IInv, Distinct, Users
<1>2. IsFiniteSet(Users(b)) /\ Cardinality(Users(b)) \in Nat
  BY <1>1, FS_Subset, FS_CardinalityType
<1>3. ASSUME NEW p \in Users(b) PROVE Cardinality(Users(b)) >= 1
  <2>1. Cardinality(Users(b)) # 0
    BY <1>2, FS_EmptySet
  <2> QED  BY <1>2, <2>1, SMTT(60)
<1>4. refcnt[b] = Cardinality(Users(b)) + Pins(b)
  BY DEF IInv, Counted
<1>5. ASSUME refcnt[b] = 0 PROVE Users(b) = {} /\ blockno[b] \notin pinned
  <2>1. Cardinality(Users(b)) = 0 /\ Pins(b) = 0
    BY <1>2, <1>4, <1>5, SMTT(60) DEF Pins
  <2> QED  BY <1>2, <2>1, FS_EmptySet, SMTT(60) DEF Pins
<1> QED  BY <1>2, <1>3, <1>4, <1>5

\* The invariant holds after binit().
LEMMA InitHolds == ASSUME Distinct, Init PROVE IInv
<1>1. lru \in Seq(Bufs) /\ Linked
  BY ChainedAll DEF Distinct, Init, Linked
<1>2. TypeOK
  BY <1>1 DEF Init, TypeOK, Places
<1>3. Unique /\ \A p \in Procs : Working(p)
  BY DEF Init, Unique, Working, Locking
<1>4. ASSUME NEW b \in Bufs PROVE Locked(b) /\ Fresh(b) /\ Counted(b)
  <2>1. Users(b) = {}
    BY DEF Init, Users, Distinct
  <2>2. Cardinality(Users(b)) = 0
    BY <2>1, FS_EmptySet
  <2> QED  BY <2>2, SMTT(60) DEF Init, Locked, Fresh, Counted, Pins
<1>5. \A n \in Blocks : Pinned(n) /\ Dirty(n)
  BY DEF Init, Pinned, Dirty
<1>6. IsFiniteSet(pinned) /\ ~panicked
  BY FS_EmptySet DEF Init
<1> QED  BY <1>1, <1>2, <1>3, <1>4, <1>5, <1>6 DEF IInv

\* Steps that touch neither the list nor the references.
LEMMA Unmoved ==
  ASSUME IInv, UNCHANGED <<blockno, refcnt, lru, pinned, buf, panicked>>, ~panicked
  PROVE  /\ Distinct /\ Unique' /\ Linked' /\ IsFiniteSet(pinned') /\ ~panicked'
         /\ \A b \in Bufs : Counted(b)'
<1>1. Unique' /\ Linked' /\ IsFiniteSet(pinned') /\ ~panicked'
  BY DEF IInv, Unique, Linked
<1>2. \A b \in Bufs : Counted(b)' = Counted(b)
  BY DEF Counted, Users, Pins
<1> QED  BY <1>1, <1>2 DEF IInv

\* The buffer's lock is taken.
LEMMA acquiresleep_Holds ==
  ASSUME IInv, NEW p \in Procs, acquiresleep(p)
  PROVE  IInv'
<1>1. ~panicked /\ pc[p] = "acquiresleep"
  BY DEF acquiresleep, At
<1>2. PICK b \in Bufs : b = buf[p]
  BY <1>1, HasBuffer
<1>3. /\ lock[b] = None
      /\ lock' = [lock EXCEPT ![b] = p]
      /\ pc' = [pc EXCEPT ![p] = IF valid[b] THEN "hold" ELSE "read"]
      /\ blockno' = blockno /\ valid' = valid /\ refcnt' = refcnt /\ lru' = lru
      /\ current' = current /\ ondisk' = ondisk /\ pinned' = pinned /\ buf' = buf /\ panicked' = panicked
  BY <1>2 DEF acquiresleep, LockFree, Goto, datavars
<1>4. /\ lock \in [Bufs -> Procs \cup {None}] /\ pc \in [Procs -> Places]
      /\ valid \in [Bufs -> BOOLEAN] /\ None \notin Procs
  BY DEF IInv, TypeOK, Distinct
<1>5. /\ lock'[b] = p /\ \A c \in Bufs \ {b} : lock'[c] = lock[c]
      /\ pc'[p] = (IF valid[b] THEN "hold" ELSE "read") /\ \A q \in Procs \ {p} : pc'[q] = pc[q]
  BY <1>3, <1>4
<1>6. TypeOK'
  <2>1. lock' \in [Bufs -> Procs \cup {None}] /\ pc' \in [Procs -> Places]
    BY <1>3, <1>4 DEF Places, Locking
  <2> QED  BY <2>1, <1>3 DEF IInv, TypeOK
<1>7. ASSUME NEW q \in Procs PROVE Working(q)'
  <2>0. Working(q)
    BY DEF IInv
  <2>1. CASE q = p
    BY <2>0, <2>1, <1>1, <1>2, <1>3, <1>4, <1>5 DEF Working, Locking
  <2>2. CASE q # p
    <3>1. pc[q] \in Locking => buf[q] # b /\ buf[q] \in Bufs
      BY <2>0, <1>3, <1>4, HasBuffer DEF Working, Locking
    <3> QED  BY <2>0, <2>2, <3>1, <1>3, <1>5 DEF Working
  <2> QED  BY <2>1, <2>2
<1>8. ASSUME NEW c \in Bufs PROVE Locked(c)'
  <2>0. Locked(c)
    BY DEF IInv
  <2>1. CASE c = b
    BY <2>1, <1>2, <1>3, <1>5 DEF Locked, Locking
  <2>2. CASE c # b
    BY <2>0, <2>2, <1>1, <1>3, <1>4, <1>5 DEF Locked, Locking
  <2> QED  BY <2>1, <2>2
<1>9. ASSUME NEW n \in Blocks PROVE Dirty(n)'
  BY <1>1, <1>3, <1>5 DEF IInv, Dirty
<1>10. \A c \in Bufs : Fresh(c)'
  BY <1>3 DEF IInv, Fresh
<1>11. \A n \in Blocks : Pinned(n)'
  BY <1>3 DEF IInv, Pinned
<1> QED  BY <1>1, <1>3, <1>6, <1>7, <1>8, <1>9, <1>10, <1>11, Unmoved DEF IInv

\* A block that is read is current on the disk: no other copy is newer.
LEMMA ReadsCurrent ==
  ASSUME IInv, NEW p \in Procs, pc[p] = "read"
  PROVE  blockno[buf[p]] \in ondisk
<1>1. PICK b \in Bufs : b = buf[p]
  BY HasBuffer
<1>2. PICK n \in Blocks : n = blockno[b]
  BY <1>1, HasBuffer
<1>3. ~valid[b] /\ n # None
  BY <1>1 DEF IInv, Working, Locking, Distinct
<1>4. Pinned(n) /\ Dirty(n) /\ Unique
  BY DEF IInv
<1>5. n \notin pinned
  BY <1>2, <1>3, <1>4 DEF Pinned, Unique
<1>6. ASSUME NEW q \in Procs, pc[q] = "dirty", blockno[buf[q]] = n PROVE FALSE
  <2>1. buf[q] \in Bufs
    BY <1>6, HasBuffer
  <2>2. buf[q] = b
    BY <2>1, <1>2, <1>3, <1>4, <1>6 DEF Unique
  <2>3. q = p
    BY <2>2, <1>1, <1>6, Alone DEF Locking
  <2> QED  BY <2>3, <1>6
<1> QED  BY <1>1, <1>2, <1>4, <1>5, <1>6 DEF Dirty

\* bread() reads a block into its buffer.
LEMMA disk_read_Holds ==
  ASSUME IInv, NEW p \in Procs, disk_read(p)
  PROVE  IInv'
<1>1. ~panicked /\ pc[p] = "read"
  BY DEF disk_read, At
<1>2. PICK b \in Bufs : b = buf[p]
  BY <1>1, HasBuffer
<1>3. blockno[b] \in ondisk /\ blockno[b] \in Blocks
  BY <1>1, <1>2, HasBuffer, ReadsCurrent
<1>4. /\ valid' = [valid EXCEPT ![b] = TRUE]
      /\ current' = current \cup {b}
      /\ pc' = [pc EXCEPT ![p] = "hold"]
      /\ blockno' = blockno /\ refcnt' = refcnt /\ lock' = lock /\ lru' = lru
      /\ ondisk' = ondisk /\ pinned' = pinned /\ buf' = buf /\ panicked' = panicked
  BY <1>2, <1>3 DEF disk_read, BlockOf, Goto
<1>5. pc \in [Procs -> Places] /\ valid \in [Bufs -> BOOLEAN]
  BY DEF IInv, TypeOK
<1>6. /\ valid'[b] /\ \A c \in Bufs \ {b} : valid'[c] = valid[c]
      /\ pc'[p] = "hold" /\ \A q \in Procs \ {p} : pc'[q] = pc[q]
  BY <1>4, <1>5
<1>7. TypeOK'
  <2>1. valid' \in [Bufs -> BOOLEAN] /\ pc' \in [Procs -> Places] /\ current' \subseteq Bufs
    BY <1>4, <1>5 DEF IInv, TypeOK, Places, Locking
  <2> QED  BY <2>1, <1>4 DEF IInv, TypeOK
<1>8. ASSUME NEW q \in Procs PROVE Working(q)'
  <2>0. Working(q)
    BY DEF IInv
  <2>1. CASE q = p
    BY <2>0, <2>1, <1>1, <1>2, <1>4, <1>6 DEF Working, Locking
  <2>2. CASE q # p
    <3>1. pc[q] \in Locking => buf[q] # b /\ buf[q] \in Bufs
      BY <2>2, <1>1, <1>2, HasBuffer, Alone DEF Locking
    <3> QED  BY <2>0, <2>2, <3>1, <1>4, <1>6 DEF Working
  <2> QED  BY <2>1, <2>2
<1>9. ASSUME NEW c \in Bufs PROVE Locked(c)' /\ Fresh(c)'
  <2>0. Locked(c) /\ Fresh(c) /\ lock[c] \in Procs \cup {None}
    BY DEF IInv, TypeOK
  <2>1. Locked(c)'
    BY <2>0, <1>4, <1>6 DEF Locked, Locking
  <2>2. Fresh(c)'
    BY <2>0, <1>3, <1>4, <1>6 DEF Fresh
  <2> QED  BY <2>1, <2>2
<1>10. ASSUME NEW n \in Blocks PROVE Pinned(n)' /\ Dirty(n)'
  <2>0. Pinned(n) /\ Dirty(n)
    BY DEF IInv
  <2>1. Pinned(n)'
    BY <2>0, <1>4, <1>6 DEF Pinned
  <2>2. Dirty(n)'
    BY <2>0, <1>1, <1>4, <1>6 DEF Dirty
  <2> QED  BY <2>1, <2>2
<1> QED  BY <1>1, <1>4, <1>7, <1>8, <1>9, <1>10, Unmoved DEF IInv

\* A locked buffer is changed; there is no other buffer of the block.
LEMMA modify_Holds ==
  ASSUME IInv, NEW p \in Procs, modify(p)
  PROVE  IInv'
<1>1. ~panicked /\ pc[p] = "hold"
  BY DEF modify, At
<1>2. PICK b \in Bufs : b = buf[p]
  BY <1>1, HasBuffer
<1>3. PICK m \in Blocks : m = blockno[b]
  BY <1>1, <1>2, HasBuffer
<1>4. b \in current /\ m # None
  BY <1>1, <1>2 DEF IInv, Working, Fresh, Locking, Distinct
<1>5. CachedIn(m) = {b}
  BY <1>3, <1>4 DEF IInv, Unique, CachedIn
<1>6. /\ current' = current
      /\ ondisk' = ondisk \ {m}
      /\ pc' = [pc EXCEPT ![p] = "dirty"]
      /\ blockno' = blockno /\ valid' = valid /\ refcnt' = refcnt /\ lock' = lock /\ lru' = lru
      /\ pinned' = pinned /\ buf' = buf /\ panicked' = panicked
  BY <1>2, <1>3, <1>4, <1>5 DEF modify, BlockOf, Goto, bufvars
<1>7. pc \in [Procs -> Places]
  BY DEF IInv, TypeOK
<1>8. pc'[p] = "dirty" /\ \A q \in Procs \ {p} : pc'[q] = pc[q]
  BY <1>6, <1>7
<1>9. TypeOK'
  <2>1. pc' \in [Procs -> Places] /\ ondisk' \subseteq Blocks
    BY <1>6, <1>7 DEF IInv, TypeOK, Places, Locking
  <2> QED  BY <2>1, <1>6 DEF IInv, TypeOK
<1>10. ASSUME NEW q \in Procs PROVE Working(q)'
  BY <1>1, <1>6, <1>8 DEF IInv, Working, Locking
<1>11. ASSUME NEW c \in Bufs PROVE Locked(c)' /\ Fresh(c)'
  <2>0. Locked(c) /\ Fresh(c) /\ lock[c] \in Procs \cup {None}
    BY DEF IInv, TypeOK
  <2> QED  BY <2>0, <1>6, <1>8 DEF Locked, Fresh, Locking
<1>12. ASSUME NEW n \in Blocks PROVE Pinned(n)' /\ Dirty(n)'
  <2>0. Pinned(n) /\ Dirty(n)
    BY DEF IInv
  <2>1. Pinned(n)'
    BY <2>0, <1>6 DEF Pinned
  <2>2. CASE n = m
    <3>1. pc'[p] = "dirty" /\ blockno'[buf'[p]] = n
      BY <2>2, <1>2, <1>3, <1>6, <1>8
    <3> QED  BY <2>1, <3>1 DEF Dirty
  <2>3. CASE n # m
    <3>1. \A q \in Procs : pc[q] = "dirty" => pc'[q] = "dirty"
      BY <1>1, <1>8
    <3>2. n \in ondisk => n \in ondisk'
      BY <2>3, <1>6
    <3> QED  BY <2>0, <2>1, <3>1, <3>2, <1>6 DEF Dirty
  <2> QED  BY <2>1, <2>2, <2>3
<1> QED  BY <1>1, <1>6, <1>9, <1>10, <1>11, <1>12, Unmoved DEF IInv

\* A locked buffer is written.
LEMMA bwrite_Holds ==
  ASSUME IInv, NEW p \in Procs, bwrite(p)
  PROVE  IInv'
<1>1. ~panicked /\ pc[p] \in {"hold", "dirty"}
  BY DEF bwrite, At
<1>2. PICK b \in Bufs : b = buf[p]
  BY <1>1, HasBuffer
<1>3. PICK m \in Blocks : m = blockno[b]
  BY <1>1, <1>2, HasBuffer
<1>4. b \in current /\ lock[b] = p
  BY <1>1, <1>2 DEF IInv, Working, Fresh, Locking
<1>5. /\ ondisk' = ondisk \cup {m}
      /\ pc' = [pc EXCEPT ![p] = "hold"]
      /\ blockno' = blockno /\ valid' = valid /\ refcnt' = refcnt /\ lock' = lock /\ lru' = lru
      /\ current' = current /\ pinned' = pinned /\ buf' = buf /\ panicked' = panicked
  BY <1>2, <1>3, <1>4 DEF bwrite, BlockOf, Goto, bufvars
<1>6. pc \in [Procs -> Places]
  BY DEF IInv, TypeOK
<1>7. pc'[p] = "hold" /\ \A q \in Procs \ {p} : pc'[q] = pc[q]
  BY <1>5, <1>6
<1>8. TypeOK'
  <2>1. pc' \in [Procs -> Places] /\ ondisk' \subseteq Blocks
    BY <1>5, <1>6 DEF IInv, TypeOK, Places, Locking
  <2> QED  BY <2>1, <1>5 DEF IInv, TypeOK
<1>9. ASSUME NEW q \in Procs PROVE Working(q)'
  BY <1>1, <1>5, <1>7 DEF IInv, Working, Locking
<1>10. ASSUME NEW c \in Bufs PROVE Locked(c)' /\ Fresh(c)'
  <2>0. Locked(c) /\ Fresh(c) /\ lock[c] \in Procs \cup {None}
    BY DEF IInv, TypeOK
  <2> QED  BY <2>0, <1>5, <1>7 DEF Locked, Fresh, Locking
<1>11. ASSUME NEW n \in Blocks PROVE Pinned(n)' /\ Dirty(n)'
  <2>0. Pinned(n) /\ Dirty(n)
    BY DEF IInv
  <2>1. Pinned(n)'
    BY <2>0, <1>5 DEF Pinned
  <2>2. CASE n = m
    BY <2>1, <2>2, <1>5 DEF Dirty
  <2>3. CASE n # m
    <3>1. \A q \in Procs : blockno[buf[q]] = n => pc'[q] = pc[q]
      BY <2>3, <1>2, <1>3, <1>7
    <3> QED  BY <2>0, <2>1, <3>1, <1>5 DEF Dirty
  <2> QED  BY <2>1, <2>2, <2>3
<1> QED  BY <1>1, <1>5, <1>8, <1>9, <1>10, <1>11, Unmoved DEF IInv

\* The buffer's lock is released.
LEMMA releasesleep_Holds ==
  ASSUME IInv, NEW p \in Procs, releasesleep(p)
  PROVE  IInv'
<1>1. ~panicked /\ pc[p] = "hold"
  BY DEF releasesleep, At
<1>2. PICK b \in Bufs : b = buf[p]
  BY <1>1, HasBuffer
<1>3. lock[b] = p
  BY <1>1, <1>2 DEF IInv, Working, Locking
<1>4. /\ lock' = [lock EXCEPT ![b] = None]
      /\ pc' = [pc EXCEPT ![p] = "brelse"]
      /\ blockno' = blockno /\ valid' = valid /\ refcnt' = refcnt /\ lru' = lru
      /\ current' = current /\ ondisk' = ondisk /\ pinned' = pinned /\ buf' = buf /\ panicked' = panicked
  BY <1>2, <1>3 DEF releasesleep, Goto, datavars
<1>5. /\ pc \in [Procs -> Places] /\ lock \in [Bufs -> Procs \cup {None}]
  BY DEF IInv, TypeOK
<1>6. /\ pc'[p] = "brelse" /\ \A q \in Procs \ {p} : pc'[q] = pc[q]
      /\ lock'[b] = None /\ \A c \in Bufs \ {b} : lock'[c] = lock[c]
  BY <1>4, <1>5
<1>7. TypeOK'
  <2>1. pc' \in [Procs -> Places] /\ lock' \in [Bufs -> Procs \cup {None}]
    BY <1>4, <1>5 DEF Places
  <2> QED  BY <2>1, <1>4 DEF IInv, TypeOK
<1>8. ASSUME NEW q \in Procs PROVE Working(q)'
  <2>0. Working(q)
    BY DEF IInv
  <2>1. CASE q = p
    BY <2>0, <2>1, <1>1, <1>4, <1>6 DEF Working, Locking
  <2>2. CASE q # p
    <3>1. pc[q] \in Locking => buf[q] # b /\ buf[q] \in Bufs
      BY <2>2, <1>1, <1>2, HasBuffer, Alone DEF Locking
    <3> QED  BY <2>0, <2>2, <3>1, <1>4, <1>6 DEF Working
  <2> QED  BY <2>1, <2>2
<1>9. ASSUME NEW c \in Bufs PROVE Locked(c)' /\ Fresh(c)'
  <2>0. Locked(c) /\ Fresh(c) /\ lock[c] \in Procs \cup {None}
    BY DEF IInv, TypeOK
  <2>1. CASE c = b
    BY <2>0, <2>1, <1>4, <1>6 DEF Locked, Fresh
  <2>2. CASE c # b
    <3>1. lock[c] # p
      BY <2>0, <2>2, <1>2 DEF Locked, IInv, Distinct
    <3> QED  BY <2>0, <2>2, <3>1, <1>4, <1>6 DEF Locked, Fresh
  <2> QED  BY <2>1, <2>2
<1>10. ASSUME NEW n \in Blocks PROVE Pinned(n)' /\ Dirty(n)'
  <2>0. Pinned(n) /\ Dirty(n)
    BY DEF IInv
  <2>1. \A q \in Procs : pc[q] = "dirty" => pc'[q] = "dirty"
    BY <1>1, <1>6
  <2>2. Pinned(n)'
    BY <2>0, <1>4 DEF Pinned
  <2> QED  BY <2>0, <2>1, <2>2, <1>4 DEF Dirty
<1> QED  BY <1>1, <1>4, <1>7, <1>8, <1>9, <1>10, Unmoved DEF IInv

\* log_write() pins the block, once.
LEMMA bpin_Holds ==
  ASSUME IInv, NEW p \in Procs, bpin(p)
  PROVE  IInv'
<1>1. ~panicked /\ pc[p] = "dirty"
  BY DEF bpin, At
<1>2. PICK b \in Bufs : b = buf[p]
  BY <1>1, HasBuffer
<1>3. PICK m \in Blocks : m = blockno[b]
  BY <1>1, <1>2, HasBuffer
<1>4. /\ pinned' = pinned \cup {m}
      /\ refcnt' = IF m \in pinned THEN refcnt ELSE [refcnt EXCEPT ![b] = @ + 1]
      /\ pc' = [pc EXCEPT ![p] = "hold"]
      /\ blockno' = blockno /\ valid' = valid /\ lock' = lock /\ lru' = lru
      /\ current' = current /\ ondisk' = ondisk /\ buf' = buf /\ panicked' = panicked
  BY <1>2, <1>3 DEF bpin, BlockOf, Goto, datavars
<1>5. /\ pc \in [Procs -> Places] /\ refcnt \in [Bufs -> Nat]
  BY DEF IInv, TypeOK
<1>6. /\ pc'[p] = "hold" /\ \A q \in Procs \ {p} : pc'[q] = pc[q]
      /\ refcnt'[b] = (IF m \in pinned THEN refcnt[b] ELSE refcnt[b] + 1)
      /\ \A c \in Bufs \ {b} : refcnt'[c] = refcnt[c]
  BY <1>4, <1>5
<1>7. TypeOK'
  <2>1. pc' \in [Procs -> Places] /\ refcnt' \in [Bufs -> Nat] /\ pinned' \subseteq Blocks
    BY <1>4, <1>5, SMTT(60) DEF IInv, TypeOK, Places, Locking
  <2> QED  BY <2>1, <1>4 DEF IInv, TypeOK
<1>8. ASSUME NEW q \in Procs PROVE Working(q)'
  BY <1>1, <1>4, <1>6, SMTT(60) DEF IInv, Working, Locking
<1>9. ASSUME NEW c \in Bufs PROVE Locked(c)' /\ Fresh(c)'
  <2>0. Locked(c) /\ Fresh(c) /\ lock[c] \in Procs \cup {None}
    BY DEF IInv, TypeOK
  <2> QED  BY <2>0, <1>4, <1>6 DEF Locked, Fresh, Locking
<1>10. ASSUME NEW c \in Bufs PROVE Counted(c)'
  <2>0. refcnt[c] = Cardinality(Users(c)) + Pins(c) /\ Cardinality(Users(c)) \in Nat
    BY Referenced
  <2>1. Users(c)' = Users(c)
    BY <1>4 DEF Users
  <2>2. CASE c = b
    <3>1. Pins(c)' = 1 /\ Pins(c) = IF m \in pinned THEN 1 ELSE 0
      BY <2>2, <1>3, <1>4 DEF Pins
    <3> QED  BY <2>0, <2>1, <2>2, <3>1, <1>6, SMTT(60) DEF Counted
  <2>3. CASE c # b
    <3>1. blockno[c] # m
      BY <2>3, <1>3 DEF IInv, Unique, Distinct
    <3>2. Pins(c)' = Pins(c)
      BY <3>1, <1>4 DEF Pins
    <3> QED  BY <2>0, <2>1, <2>3, <3>2, <1>6 DEF Counted
  <2> QED  BY <2>2, <2>3
<1>11. ASSUME NEW n \in Blocks PROVE Pinned(n)' /\ Dirty(n)'
  <2>0. Pinned(n) /\ Dirty(n)
    BY DEF IInv
  <2>1. CASE n = m
    <3>1. valid[b]
      BY <1>1, <1>2 DEF IInv, Working, Locking
    <3> QED  BY <2>1, <3>1, <1>3, <1>4 DEF Pinned, Dirty
  <2>2. CASE n # m
    <3>1. Pinned(n)'
      BY <2>0, <2>2, <1>4 DEF Pinned
    <3>2. Dirty(n)'
      BY <2>0, <2>2, <1>2, <1>3, <1>4, <1>6 DEF Dirty
    <3> QED  BY <3>1, <3>2
  <2> QED  BY <2>1, <2>2
<1>12. IsFiniteSet(pinned')
  BY <1>4, FS_AddElement DEF IInv
<1>13. Distinct /\ Unique' /\ Linked' /\ ~panicked'
  BY <1>1, <1>4 DEF IInv, Unique, Linked
<1> QED  BY <1>7, <1>8, <1>9, <1>10, <1>11, <1>12, <1>13 DEF IInv

\* install_trans() unpins a block that it has written.
LEMMA bunpin_Holds ==
  ASSUME IInv, NEW p \in Procs, bunpin(p)
  PROVE  IInv'
<1>1. ~panicked /\ pc[p] = "hold"
  BY DEF bunpin, At
<1>2. PICK b \in Bufs : b = buf[p]
  BY <1>1, HasBuffer
<1>3. PICK m \in Blocks : m = blockno[b]
  BY <1>1, <1>2, HasBuffer
<1>4. /\ m \in pinned /\ m \in ondisk
      /\ pinned' = pinned \ {m}
      /\ refcnt' = [refcnt EXCEPT ![b] = @ - 1]
      /\ blockno' = blockno /\ valid' = valid /\ lock' = lock /\ lru' = lru /\ pc' = pc
      /\ current' = current /\ ondisk' = ondisk /\ buf' = buf /\ panicked' = panicked
  BY <1>2, <1>3 DEF bunpin, BlockOf, datavars
<1>5. refcnt \in [Bufs -> Nat]
  BY DEF IInv, TypeOK
<1>6. /\ refcnt'[b] = refcnt[b] - 1
      /\ \A c \in Bufs \ {b} : refcnt'[c] = refcnt[c]
  BY <1>4, <1>5
<1>7. /\ refcnt[b] = Cardinality(Users(b)) + 1 /\ Cardinality(Users(b)) \in Nat
  BY <1>3, <1>4, Referenced DEF Pins
<1>8. TypeOK'
  <2>1. refcnt' \in [Bufs -> Nat] /\ pinned' \subseteq Blocks
    BY <1>4, <1>5, <1>7, SMTT(60) DEF IInv, TypeOK
  <2> QED  BY <2>1, <1>4 DEF IInv, TypeOK
<1>9. ASSUME NEW c \in Bufs PROVE Counted(c)'
  <2>0. refcnt[c] = Cardinality(Users(c)) + Pins(c)
    BY Referenced
  <2>1. Users(c)' = Users(c)
    BY <1>4 DEF Users
  <2>2. CASE c = b
    <3>1. Pins(c)' = 0
      BY <2>2, <1>3, <1>4 DEF Pins
    <3> QED  BY <2>1, <2>2, <3>1, <1>6, <1>7, SMTT(60) DEF Counted
  <2>3. CASE c # b
    <3>1. blockno[c] # m
      BY <2>3, <1>3 DEF IInv, Unique, Distinct
    <3>2. Pins(c)' = Pins(c)
      BY <3>1, <1>4 DEF Pins
    <3> QED  BY <2>0, <2>1, <2>3, <3>2, <1>6 DEF Counted
  <2> QED  BY <2>2, <2>3
<1>10. ASSUME NEW n \in Blocks PROVE Pinned(n)' /\ Dirty(n)'
  BY <1>4 DEF IInv, Pinned, Dirty
<1>11. IsFiniteSet(pinned')
  BY <1>4, FS_RemoveElement DEF IInv
<1>12. Distinct /\ Unique' /\ Linked' /\ ~panicked'
  BY <1>1, <1>4 DEF IInv, Unique, Linked
<1>13. /\ \A q \in Procs : Working(q)'
       /\ \A c \in Bufs : Locked(c)' /\ Fresh(c)'
  BY <1>4 DEF IInv, Working, Locked, Fresh
<1> QED  BY <1>8, <1>9, <1>10, <1>11, <1>12, <1>13 DEF IInv

\* bget() finds the block.
LEMMA bget_hit_Holds ==
  ASSUME IInv, NEW p \in Procs, NEW n \in Blocks, NEW b \in Bufs, bget_hit(p, n, b)
  PROVE  IInv'
<1>1. ~panicked /\ pc[p] = "idle" /\ blockno[b] = n
  BY DEF bget_hit, At, CachedIn
<1>2. /\ refcnt' = [refcnt EXCEPT ![b] = @ + 1]
      /\ buf' = [buf EXCEPT ![p] = b]
      /\ pc' = [pc EXCEPT ![p] = "acquiresleep"]
      /\ blockno' = blockno /\ valid' = valid /\ lock' = lock /\ lru' = lru
      /\ current' = current /\ ondisk' = ondisk /\ pinned' = pinned /\ panicked' = panicked
  BY DEF bget_hit, Goto, datavars
<1>3. /\ pc \in [Procs -> Places] /\ buf \in [Procs -> Bufs \cup {None}] /\ refcnt \in [Bufs -> Nat]
      /\ None \notin Bufs /\ buf[p] = None
  BY <1>1 DEF IInv, TypeOK, Distinct, Working
<1>4. /\ pc'[p] = "acquiresleep" /\ buf'[p] = b
      /\ \A q \in Procs \ {p} : pc'[q] = pc[q] /\ buf'[q] = buf[q]
      /\ refcnt'[b] = refcnt[b] + 1 /\ \A c \in Bufs \ {b} : refcnt'[c] = refcnt[c]
  BY <1>2, <1>3
<1>5. TypeOK'
  <2>1. pc' \in [Procs -> Places] /\ buf' \in [Procs -> Bufs \cup {None}] /\ refcnt' \in [Bufs -> Nat]
    BY <1>2, <1>3, SMTT(60) DEF Places
  <2> QED  BY <2>1, <1>2 DEF IInv, TypeOK
<1>6. ASSUME NEW q \in Procs PROVE Working(q)'
  <2>1. CASE q = p
    BY <2>1, <1>1, <1>2, <1>3, <1>4 DEF Working, Locking
  <2>2. CASE q # p
    BY <2>2, <1>2, <1>4, SMTT(60) DEF IInv, Working
  <2> QED  BY <2>1, <2>2
<1>7. ASSUME NEW c \in Bufs PROVE Locked(c)' /\ Fresh(c)'
  <2>0. Locked(c) /\ Fresh(c) /\ lock[c] \in Procs \cup {None}
    BY DEF IInv, TypeOK
  <2>1. lock[c] # None => lock[c] \in Procs \ {p}
    BY <2>0, <1>1 DEF Locked, Locking
  <2>2. Locked(c)'
    BY <2>0, <2>1, <1>2, <1>4 DEF Locked
  <2> QED  BY <2>0, <2>2, <1>2 DEF Fresh
<1>8. ASSUME NEW c \in Bufs PROVE Counted(c)'
  <2>0. /\ IsFiniteSet(Users(c)) /\ Cardinality(Users(c)) \in Nat
        /\ refcnt[c] = Cardinality(Users(c)) + Pins(c)
    BY Referenced
  <2>1. Pins(c)' = Pins(c) /\ Pins(c) \in Nat
    BY <1>2 DEF Pins
  <2>2. CASE c = b
    <3>1. Users(c)' = Users(c) \cup {p} /\ p \notin Users(c)
      BY <2>2, <1>3, <1>4 DEF Users
    <3>2. Cardinality(Users(c))' = Cardinality(Users(c)) + 1
      BY <3>1, <2>0, FS_AddElement
    <3>3. refcnt'[c] = refcnt[c] + 1
      BY <2>2, <1>4
    <3> QED  BY <2>0, <2>1, <3>2, <3>3, SMTT(60) DEF Counted
  <2>3. CASE c # b
    <3>1. Users(c)' = Users(c)
      BY <2>3, <1>3, <1>4 DEF Users
    <3> QED  BY <2>0, <2>1, <2>3, <3>1, <1>4 DEF Counted
  <2> QED  BY <2>2, <2>3
<1>9. ASSUME NEW k \in Blocks PROVE Pinned(k)' /\ Dirty(k)'
  <2>0. Pinned(k) /\ Dirty(k)
    BY DEF IInv
  <2> QED  BY <2>0, <1>1, <1>2, <1>4 DEF Pinned, Dirty
<1>10. Distinct /\ Unique' /\ Linked' /\ IsFiniteSet(pinned') /\ ~panicked'
  BY <1>1, <1>2 DEF IInv, Unique, Linked
<1> QED  BY <1>5, <1>6, <1>7, <1>8, <1>9, <1>10 DEF IInv

\* bget() recycles a buffer: nobody refers to it and the log has not pinned it.
LEMMA bget_miss_Holds ==
  ASSUME IInv, NEW p \in Procs, NEW n \in Blocks, NEW b \in Bufs, bget_miss(p, n, b)
  PROVE  IInv'
<1>1. ~panicked /\ pc[p] = "idle" /\ \A c \in Bufs : blockno[c] # n
  BY DEF bget_miss, At, CachedIn
<1>2. /\ blockno' = [blockno EXCEPT ![b] = n]
      /\ valid' = [valid EXCEPT ![b] = FALSE]
      /\ refcnt' = [refcnt EXCEPT ![b] = 1]
      /\ current' = current \ {b}
      /\ buf' = [buf EXCEPT ![p] = b]
      /\ pc' = [pc EXCEPT ![p] = "acquiresleep"]
      /\ lock' = lock /\ lru' = lru /\ ondisk' = ondisk /\ pinned' = pinned /\ panicked' = panicked
  BY DEF bget_miss, Goto
<1>3. refcnt[b] = 0
  BY DEF bget_miss, LeastRecent
<1>4. Users(b) = {} /\ blockno[b] \notin pinned
  BY <1>3, Referenced
<1>5. /\ pc \in [Procs -> Places] /\ buf \in [Procs -> Bufs \cup {None}] /\ refcnt \in [Bufs -> Nat]
      /\ blockno \in [Bufs -> Blocks \cup {None}] /\ valid \in [Bufs -> BOOLEAN]
      /\ None \notin Bufs \cup Blocks /\ buf[p] = None
  BY <1>1 DEF IInv, TypeOK, Distinct, Working
<1>6. /\ pc'[p] = "acquiresleep" /\ buf'[p] = b
      /\ \A q \in Procs \ {p} : pc'[q] = pc[q] /\ buf'[q] = buf[q]
      /\ refcnt'[b] = 1 /\ blockno'[b] = n /\ valid'[b] = FALSE
      /\ \A c \in Bufs \ {b} : refcnt'[c] = refcnt[c] /\ blockno'[c] = blockno[c] /\ valid'[c] = valid[c]
  BY <1>2, <1>5
<1>7. /\ n \notin pinned
      /\ \A q \in Procs : buf[q] # b
      /\ lock[b] = None
  <2>1. n \notin pinned
    BY <1>1 DEF IInv, Pinned
  <2>2. \A q \in Procs : buf[q] # b
    BY <1>4 DEF Users
  <2>3. lock[b] \in Procs \cup {None} /\ Locked(b)
    BY DEF IInv, TypeOK
  <2> QED  BY <2>1, <2>2, <2>3 DEF Locked
<1>8. TypeOK'
  <2>1. /\ pc' \in [Procs -> Places] /\ buf' \in [Procs -> Bufs \cup {None}] /\ refcnt' \in [Bufs -> Nat]
        /\ blockno' \in [Bufs -> Blocks \cup {None}] /\ valid' \in [Bufs -> BOOLEAN]
    BY <1>2, <1>5 DEF Places
  <2> QED  BY <2>1, <1>2 DEF IInv, TypeOK
<1>9. Unique'
  <2>1. \A a, c \in Bufs : blockno[a] = blockno[c] /\ blockno[a] # None => a = c
    BY DEF IInv, Unique
  <2>2. \A a, c \in Bufs : blockno'[a] = blockno'[c] /\ blockno'[a] # None => a = c
    BY <2>1, <1>1, <1>6, SMTT(60)
  <2> QED  BY <2>2 DEF Unique
<1>10. ASSUME NEW q \in Procs PROVE Working(q)'
  <2>1. CASE q = p
    BY <2>1, <1>2, <1>5, <1>6 DEF Working, Locking
  <2>2. CASE q # p
    <3>1. Working(q) /\ (pc[q] # "idle" => buf[q] \in Bufs \ {b})
      BY <1>7, HasBuffer DEF IInv
    <3> QED  BY <2>2, <3>1, <1>2, <1>6 DEF Working, Locking
  <2> QED  BY <2>1, <2>2
<1>11. ASSUME NEW c \in Bufs PROVE Locked(c)' /\ Fresh(c)'
  <2>0. Locked(c) /\ Fresh(c) /\ lock[c] \in Procs \cup {None}
    BY DEF IInv, TypeOK
  <2>1. Locked(c)'
    BY <2>0, <1>1, <1>2, <1>6, SMTT(60) DEF Locked, Locking
  <2>2. Fresh(c)'
    BY <2>0, <1>2, <1>6 DEF Fresh
  <2> QED  BY <2>1, <2>2
<1>12. ASSUME NEW c \in Bufs PROVE Counted(c)'
  <2>0. /\ IsFiniteSet(Users(c)) /\ Cardinality(Users(c)) \in Nat
        /\ refcnt[c] = Cardinality(Users(c)) + Pins(c)
    BY Referenced
  <2>2. CASE c = b
    <3>1. Users(c)' = {p}
      BY <2>2, <1>6, <1>7 DEF Users
    <3>2. Cardinality(Users(c))' = 1
      BY <3>1, FS_Singleton
    <3>3. Pins(c)' = 0
      BY <2>2, <1>2, <1>6, <1>7, SMTT(60) DEF Pins
    <3> QED  BY <2>2, <3>2, <3>3, <1>6, SMTT(60) DEF Counted
  <2>3. CASE c # b
    <3>1. Users(c)' = Users(c) /\ Pins(c)' = Pins(c)
      BY <2>3, <1>2, <1>5, <1>6 DEF Users, Pins
    <3> QED  BY <2>0, <2>3, <3>1, <1>6 DEF Counted
  <2> QED  BY <2>2, <2>3
<1>13. ASSUME NEW k \in Blocks PROVE Pinned(k)' /\ Dirty(k)'
  <2>0. Pinned(k) /\ Dirty(k)
    BY DEF IInv
  <2>1. Pinned(k)'
    BY <2>0, <1>2, <1>4, <1>6 DEF Pinned
  <2>2. \A q \in Procs : pc[q] = "dirty" => q # p /\ buf[q] \in Bufs \ {b}
    BY <1>1, <1>7, HasBuffer
  <2>3. Dirty(k)'
    BY <2>0, <2>2, <1>2, <1>6, SMTT(60) DEF Dirty
  <2> QED  BY <2>1, <2>3
<1>14. Distinct /\ Linked' /\ IsFiniteSet(pinned') /\ ~panicked'
  BY <1>1, <1>2 DEF IInv, Linked
<1> QED  BY <1>8, <1>9, <1>10, <1>11, <1>12, <1>13, <1>14 DEF IInv

\* bget() finds no buffer to recycle only when the cache is full.
LEMMA bget_panic_Holds ==
  ASSUME IInv, NEW p \in Procs, NEW n \in Blocks, bget_panic(p, n)
  PROVE  IInv'
<1>1. Full
  BY NoneFree, CacheFull DEF bget_panic
<1>2. UNCHANGED <<blockno, valid, refcnt, lock, lru, current, ondisk, pinned, pc, buf>>
  BY DEF bget_panic, bufvars, datavars
<1>3. Full' /\ TypeOK' /\ Unique' /\ Linked' /\ IsFiniteSet(pinned') /\ Distinct
  BY <1>1, <1>2 DEF IInv, Full, TypeOK, Unique, Linked
<1>4. /\ \A q \in Procs : Working(q)'
      /\ \A b \in Bufs : Locked(b)' /\ Fresh(b)'
      /\ \A k \in Blocks : Pinned(k)' /\ Dirty(k)'
  BY <1>2 DEF IInv, Working, Locked, Fresh, Pinned, Dirty
<1>5. \A b \in Bufs : Counted(b)' = Counted(b)
  BY <1>2 DEF Counted, Users, Pins
<1> QED  BY <1>3, <1>4, <1>5 DEF IInv

\* A reference is dropped.
LEMMA brelse_Holds ==
  ASSUME IInv, NEW p \in Procs, brelse(p)
  PROVE  IInv'
<1>1. ~panicked /\ pc[p] = "brelse"
  BY DEF brelse, At
<1>2. PICK b \in Bufs : b = buf[p] /\ p \in Users(b)
  BY <1>1, HasBuffer
<1>3. /\ refcnt' = [refcnt EXCEPT ![b] = @ - 1]
      /\ lru' = (IF refcnt[b] = 1 THEN MoveToFront(b) ELSE lru)
      /\ buf' = [buf EXCEPT ![p] = None]
      /\ pc' = [pc EXCEPT ![p] = "idle"]
      /\ blockno' = blockno /\ valid' = valid /\ lock' = lock
      /\ current' = current /\ ondisk' = ondisk /\ pinned' = pinned /\ panicked' = panicked
  BY <1>2 DEF brelse, Goto, datavars, Decremented, Released
<1>4. /\ pc \in [Procs -> Places] /\ buf \in [Procs -> Bufs \cup {None}] /\ refcnt \in [Bufs -> Nat]
      /\ None \notin Bufs /\ lru \in Seq(Bufs) /\ Linked
  BY DEF IInv, TypeOK, Distinct
<1>5. /\ pc'[p] = "idle" /\ buf'[p] = None
      /\ \A q \in Procs \ {p} : pc'[q] = pc[q] /\ buf'[q] = buf[q]
      /\ refcnt'[b] = refcnt[b] - 1 /\ \A c \in Bufs \ {b} : refcnt'[c] = refcnt[c]
  BY <1>3, <1>4
<1>6. refcnt[b] \in Nat /\ refcnt[b] >= 1
  <2>1. Cardinality(Users(b)) >= 1 /\ Cardinality(Users(b)) \in Nat
    BY <1>2, Referenced
  <2>2. refcnt[b] = Cardinality(Users(b)) + Pins(b) /\ Pins(b) \in {0, 1}
    BY Referenced DEF Pins
  <2> QED  BY <2>1, <2>2, SMTT(60)
<1>7. lru' \in Seq(Bufs) /\ Linked'
  <2>1. CASE refcnt[b] = 1
    <3>1. lru' = MoveToFront(b)
      BY <2>1, <1>3
    <3> QED  BY <3>1, <1>4, Moved DEF Linked
  <2>2. CASE refcnt[b] # 1
    BY <2>2, <1>3, <1>4 DEF Linked
  <2> QED  BY <2>1, <2>2
<1>8. TypeOK'
  <2>1. pc' \in [Procs -> Places] /\ buf' \in [Procs -> Bufs \cup {None}] /\ refcnt' \in [Bufs -> Nat]
    BY <1>3, <1>4, <1>6, SMTT(60) DEF Places
  <2> QED  BY <2>1, <1>3, <1>7 DEF IInv, TypeOK
<1>9. ASSUME NEW q \in Procs PROVE Working(q)'
  <2>1. CASE q = p
    BY <2>1, <1>5 DEF Working, Locking
  <2>2. CASE q # p
    BY <2>2, <1>3, <1>5, SMTT(60) DEF IInv, Working
  <2> QED  BY <2>1, <2>2
<1>10. ASSUME NEW c \in Bufs PROVE Locked(c)' /\ Fresh(c)'
  <2>0. Locked(c) /\ Fresh(c) /\ lock[c] \in Procs \cup {None}
    BY DEF IInv, TypeOK
  <2>1. lock[c] # None => lock[c] \in Procs \ {p}
    BY <2>0, <1>1 DEF Locked, Locking
  <2>2. Locked(c)'
    BY <2>0, <2>1, <1>3, <1>5 DEF Locked
  <2> QED  BY <2>0, <2>2, <1>3 DEF Fresh
<1>11. ASSUME NEW c \in Bufs PROVE Counted(c)'
  <2>0. /\ IsFiniteSet(Users(c)) /\ Cardinality(Users(c)) \in Nat
        /\ refcnt[c] = Cardinality(Users(c)) + Pins(c)
    BY Referenced
  <2>1. Pins(c)' = Pins(c) /\ Pins(c) \in Nat
    BY <1>3 DEF Pins
  <2>2. CASE c = b
    <3>1. Users(c)' = Users(c) \ {p} /\ p \in Users(c)
      BY <2>2, <1>2, <1>4, <1>5 DEF Users
    <3>2. Cardinality(Users(c))' = Cardinality(Users(c)) - 1
      BY <3>1, <2>0, FS_RemoveElement
    <3>3. refcnt'[c] = refcnt[c] - 1
      BY <2>2, <1>5
    <3> QED  BY <2>0, <2>1, <3>2, <3>3, SMTT(60) DEF Counted
  <2>3. CASE c # b
    <3>1. Users(c)' = Users(c)
      BY <2>3, <1>2, <1>4, <1>5 DEF Users
    <3> QED  BY <2>0, <2>1, <2>3, <3>1, <1>5 DEF Counted
  <2> QED  BY <2>2, <2>3
<1>12. ASSUME NEW k \in Blocks PROVE Pinned(k)' /\ Dirty(k)'
  <2>0. Pinned(k) /\ Dirty(k)
    BY DEF IInv
  <2> QED  BY <2>0, <1>1, <1>3, <1>5 DEF Pinned, Dirty
<1>13. Distinct /\ Unique' /\ IsFiniteSet(pinned') /\ ~panicked'
  BY <1>1, <1>3 DEF IInv, Unique
<1> QED  BY <1>7, <1>8, <1>9, <1>10, <1>11, <1>12, <1>13 DEF IInv

\* Every step keeps the invariant.
LEMMA NextHolds == ASSUME IInv, [Next]_vars PROVE IInv'
<1>1. CASE UNCHANGED vars
  <2>1. UNCHANGED <<blockno, valid, refcnt, lock, lru, current, ondisk, pinned, pc, buf, panicked>>
    BY <1>1 DEF vars, bufvars, datavars
  <2>2. Full' = Full /\ TypeOK' /\ Unique' /\ Linked' /\ IsFiniteSet(pinned') /\ Distinct
    BY <2>1 DEF IInv, Full, TypeOK, Unique, Linked
  <2>3. /\ \A q \in Procs : Working(q)'
        /\ \A b \in Bufs : Locked(b)' /\ Fresh(b)'
        /\ \A k \in Blocks : Pinned(k)' /\ Dirty(k)'
    BY <2>1 DEF IInv, Working, Locked, Fresh, Pinned, Dirty
  <2>4. \A b \in Bufs : Counted(b)' = Counted(b)
    BY <2>1 DEF Counted, Users, Pins
  <2> QED  BY <2>1, <2>2, <2>3, <2>4 DEF IInv
<1>2. ASSUME NEW p \in Procs,
             Continue(p) \/ modify(p) \/ bwrite(p) \/ bpin(p) \/ bunpin(p)
      PROVE  IInv'
  BY <1>2, acquiresleep_Holds, disk_read_Holds, releasesleep_Holds, brelse_Holds,
     modify_Holds, bwrite_Holds, bpin_Holds, bunpin_Holds DEF Continue
<1>3. ASSUME NEW p \in Procs, NEW n \in Blocks,
             bget_panic(p, n) \/ \E b \in Bufs : bget_hit(p, n, b) \/ bget_miss(p, n, b)
      PROVE  IInv'
  BY <1>3, bget_panic_Holds, bget_hit_Holds, bget_miss_Holds
<1> QED  BY <1>1, <1>2, <1>3 DEF Next, panic_spin

-----------------------------------------------------------------------------
(* Theorems *)

\* For any number of processes, buffers and blocks: a process that bread() has
\* given a buffer to has the buffer's lock alone and sees the block's current
\* contents, and a block is never in two buffers.
THEOREM HoldersSeeCurrent == ASSUME Distinct PROVE Spec => []HoldsCurrent
<1>1. Init => IInv
  BY InitHolds
<1>2. IInv /\ [Next]_vars => IInv'
  BY NextHolds
<1>3. IInv => HoldsCurrent
  <2> SUFFICES ASSUME IInv PROVE HoldsCurrent
    OBVIOUS
  <2>1. \A p \in Procs : pc[p] \in {"hold", "dirty"} =>
          lock[buf[p]] = p /\ valid[buf[p]] /\ buf[p] \in Bufs
    BY HasBuffer DEF IInv, Working, Locking
  <2> QED  BY <2>1 DEF IInv, Unique, Fresh, HoldsCurrent
<1> QED  BY <1>1, <1>2, <1>3, PTL DEF Spec

\* For any number of processes, buffers and blocks: recycling a buffer never loses
\* the only current copy of a block, reference counts are exact, and bget() panics
\* only when users and pins take up the whole cache.
THEOREM NothingIsLost == ASSUME Distinct PROVE Spec => []NothingLost
<1>1. Init => IInv
  BY InitHolds
<1>2. IInv /\ [Next]_vars => IInv'
  BY NextHolds
<1>3. IInv => NothingLost
  <2> SUFFICES ASSUME IInv PROVE NothingLost
    OBVIOUS
  <2>1. ASSUME NEW n \in Blocks \ ondisk
        PROVE  \E b \in current : blockno[b] = n /\ valid[b] /\ refcnt[b] > 0
    <3>1. PICK b \in Bufs : blockno[b] = n /\ valid[b] /\ (n \in pinned \/ Users(b) # {})
      <4>1. CASE n \in pinned
        BY <4>1 DEF IInv, Pinned
      <4>2. CASE n \notin pinned
        <5>1. PICK p \in Procs : pc[p] = "dirty" /\ blockno[buf[p]] = n
          BY <4>2 DEF IInv, Dirty
        <5>2. valid[buf[p]] /\ buf[p] \in Bufs /\ p \in Users(buf[p])
          BY <5>1, HasBuffer DEF IInv, Working, Locking
        <5> QED  BY <5>1, <5>2
      <4> QED  BY <4>1, <4>2
    <3>2. b \in current
      BY <3>1 DEF IInv, Fresh
    <3>3. refcnt[b] \in Nat /\ refcnt[b] # 0
      BY <3>1, Referenced DEF IInv, TypeOK
    <3>4. refcnt[b] > 0
      BY <3>3, SMTT(60)
    <3> QED  BY <3>1, <3>2, <3>4
  <2>2. \A b \in Bufs : Counted(b)
    BY DEF IInv
  <2>3. panicked => Full
    BY DEF IInv
  <2> QED  BY <2>1, <2>2, <2>3 DEF NothingLost, Counted, Users, Pins, Full
<1> QED  BY <1>1, <1>2, <1>3, PTL DEF Spec
==============================================================================
