-------------------------- MODULE VirtioDiskProofs --------------------------
(***************************************************************************)
(* Proofs about VirtioDisk, for any processes, any number of descriptors   *)
(* and any multiple of it at which the ring indices wrap: descriptors are  *)
(* neither leaked nor shared, neither ring overflows, the driver does not  *)
(* panic, a request returns only after the device has performed it, and    *)
(* none is forgotten.                                                      *)
(***************************************************************************)
EXTENDS VirtioDisk, FiniteSetTheorems, FunctionTheorems, WellFoundedInduction, TLAPS

\* Zenon proves a step unless it names another prover; it may take this many seconds.
USE ZenonT(60)

-----------------------------------------------------------------------------
(* The inductive invariant *)

Idx == 0..(IdxMod - 1)
Entries == [Desc -> Desc \cup {None}]
Waiting == {"wait", "woken"}

\* The entries of a ring that its reader has yet to pass.
Filled(ring) == {i \in Desc : ring[i] # None}

\* How far index w is ahead of index s, over their wrap, and entry i of index s.
Ahead(s, w) == IF s <= w THEN w - s ELSE w - s + IdxMod
Dist(i, s) == (i - s) % NUM

\* They are the ones between the reader's index s and the writer's index w, and do
\* not fill the ring.
RingOK(ring, s, w) ==
  /\ Ahead(s, w) < NUM
  /\ Cardinality(Filled(ring)) = Ahead(s, w)
  /\ \A i \in Desc : ring[i] # None <=> Dist(i, s) < Ahead(s, w)

TypeOK ==
  /\ free \subseteq Desc
  /\ desc \in [Desc -> [of : Procs \cup {None}, part : {"none", "header", "data", "status"}, next : Desc]]
  /\ info \in [Desc -> [b : Procs \cup {None}, status : {0, 255}]]
  /\ avail \in [ring : Entries, idx : Idx]
  /\ used \in [ring : Entries, idx : Idx]
  /\ used_idx \in Idx /\ seen \in Idx
  /\ busy \subseteq Desc
  /\ diskflag \in [Procs -> BOOLEAN]
  /\ pc \in [Procs -> Waiting \cup {"idle", "nodesc", "retry"}]
  /\ idx0 \in [Procs -> Desc]
  /\ done \subseteq Procs

Second(p) == desc[idx0[p]].next
Third(p) == desc[Second(p)].next

\* A request in flight has three descriptors, and has been performed when b->disk
\* is clear.
Owned(p) ==
  /\ idx0[p] # Second(p) /\ idx0[p] # Third(p) /\ Second(p) # Third(p)
  /\ \A i \in {idx0[p], Second(p), Third(p)} : i \notin free /\ desc[i].of = p
  /\ info[idx0[p]].b = p
  /\ ~diskflag[p] => p \in done

\* What the driver and the device have between them is the head of a request in
\* flight whose b->disk is set.
Request(h) ==
  /\ desc[h].of \in InFlight
  /\ idx0[desc[h].of] = h
  /\ diskflag[desc[h].of]

\* A request is in one place: an entry of the avail ring, the device, or an entry
\* of the used ring, and there it has been performed.
Avail == \A i, h \in Desc : avail.ring[i] = h =>
           /\ Request(h) /\ h \notin busy
           /\ \A j \in Desc : avail.ring[j] = h => j = i
           /\ \A j \in Desc : used.ring[j] # h
Used == \A i, h \in Desc : used.ring[i] = h =>
          /\ Request(h) /\ h \notin busy
          /\ \A j \in Desc : used.ring[j] = h => j = i
          /\ desc[h].of \in done /\ info[h].status = 0
Busy == \A h \in busy : Request(h)

Rings == RingOK(avail.ring, seen, avail.idx) /\ RingOK(used.ring, used_idx, used.idx)

Balanced == IsFiniteSet(InFlight) /\ Cardinality(free) + 3 * Cardinality(InFlight) = NUM

IInv ==
  /\ TypeOK
  /\ ~panicked
  /\ \A p \in InFlight : Owned(p)
  /\ Avail /\ Used /\ Busy
  /\ Rings
  /\ Balanced

-----------------------------------------------------------------------------
(* Remainders *)

\* What % and \div are.
LEMMA DivMod ==
  ASSUME NEW a \in Int, NEW n \in Nat \ {0}
  PROVE  /\ a % n \in 0..(n - 1) /\ a \div n \in Int
         /\ a = n * (a \div n) + (a % n)
  BY SMTT(60)

\* A multiple of n that is smaller than n either way is zero.
LEMMA SmallMultiple ==
  ASSUME NEW n \in Nat \ {0}, NEW q \in Int, -n < n * q, n * q < n
  PROVE  q = 0
<1>1. CASE q >= 1
  <2>1. n * (q - 1) >= 0
    BY <1>1, SMTT(60)
  <2>2. n * (q - 1) = n * q - n
    BY SMTT(60)
  <2> QED  BY <2>1, <2>2, SMTT(60)
<1>2. CASE q <= -1
  <2>1. n * (-1 - q) >= 0
    BY <1>2, SMTT(60)
  <2>2. n * (-1 - q) = -n - n * q
    BY SMTT(60)
  <2> QED  BY <2>1, <2>2, SMTT(60)
<1> QED  BY <1>1, <1>2, SMTT(60)

\* The remainder is unique.
LEMMA ModUnique ==
  ASSUME NEW n \in Nat \ {0}, NEW q \in Int, NEW r \in 0..(n - 1)
  PROVE  (n * q + r) % n = r
<1> DEFINE a == n * q + r
           p == a \div n
           t == a % n
<1>1. a \in Int
  BY SMTT(60)
<1>2. t \in 0..(n - 1) /\ p \in Int /\ a = n * p + t
  BY <1>1, DivMod
<1> HIDE DEF p, t
<1>3. n * (q - p) = n * q - n * p
  BY <1>2, SMTT(60)
<1>4. n * (q - p) = t - r
  BY <1>2, <1>3, SMTT(60)
<1>5. q - p = 0
  <2> DEFINE d == q - p
  <2>1. d \in Int /\ -n < n * d /\ n * d < n
    BY <1>2, <1>4, SMTT(60)
  <2> QED  BY <2>1, SmallMultiple
<1>6. n * 0 = 0
  BY SMTT(60)
<1>7. t = r
  BY <1>2, <1>4, <1>5, <1>6, SMTT(60)
<1> QED  BY <1>7 DEF t

\* Multiples of n change no remainder.
LEMMA Shift ==
  ASSUME NEW n \in Nat \ {0}, NEW q \in Int, NEW a \in Int
  PROVE  (n * q + a) % n = a % n
<1> DEFINE p == a \div n
           r == a % n
<1>1. p \in Int /\ r \in 0..(n - 1) /\ a = n * p + r
  BY DivMod
<1> HIDE DEF p, r
<1>2. n * (q + p) = n * q + n * p
  BY <1>1, SMTT(60)
<1>3. n * q + a = n * (q + p) + r
  BY <1>1, <1>2, SMTT(60)
<1>4. (n * (q + p) + r) % n = r
  BY <1>1, ModUnique, SMTT(60)
<1> QED  BY <1>3, <1>4 DEF r

\* Remainders of numbers that are in range or wrap once.
LEMMA Wrap ==
  ASSUME NEW n \in Nat \ {0}, NEW a \in Int, -n < a, a <= n
  PROVE  a % n = IF a < 0 THEN a + n ELSE IF a = n THEN 0 ELSE a
<1>1. CASE 0 <= a /\ a < n
  <2>1. (n * 0 + a) % n = a /\ n * 0 + a = a
    BY <1>1, ModUnique, SMTT(60)
  <2> QED  BY <1>1, <2>1, SMTT(60)
<1>2. CASE a = n
  <2>1. (n * 1 + 0) % n = 0 /\ n * 1 + 0 = a
    BY <1>2, ModUnique, SMTT(60)
  <2> QED  BY <1>2, <2>1, SMTT(60)
<1>3. CASE a < 0
  <2>1. (n * (-1) + (a + n)) % n = a + n /\ n * (-1) + (a + n) = a
    BY <1>3, ModUnique, SMTT(60)
  <2> QED  BY <1>3, <2>1
<1> QED  BY <1>1, <1>2, <1>3, SMTT(60)

\* Remainders one step back.
LEMMA Back ==
  ASSUME NEW n \in Nat \ {0}, NEW a \in Int
  PROVE  (a - 1) % n = IF a % n = 0 THEN n - 1 ELSE (a % n) - 1
<1> DEFINE p == a \div n
           r == a % n
<1>1. p \in Int /\ r \in 0..(n - 1) /\ a = n * p + r
  BY DivMod
<1> HIDE DEF p, r
<1>2. CASE r = 0
  <2>1. (n * (p - 1) + (n - 1)) % n = n - 1
    BY <1>1, ModUnique, SMTT(60)
  <2>2. n * (p - 1) = n * p - n
    BY <1>1, SMTT(60)
  <2>3. n * (p - 1) + (n - 1) = a - 1
    BY <1>1, <1>2, <2>2, SMTT(60)
  <2> QED  BY <1>2, <2>1, <2>3 DEF r
<1>3. CASE r # 0
  <2>1. (n * p + (r - 1)) % n = r - 1
    BY <1>1, <1>3, ModUnique, SMTT(60)
  <2>2. n * p + (r - 1) = a - 1
    BY <1>1, SMTT(60)
  <2> QED  BY <1>3, <2>1, <2>2 DEF r
<1> QED  BY <1>2, <1>3

-----------------------------------------------------------------------------
(* Rings *)

\* The index is a multiple of the size away from where it wraps.
LEMMA Sizes ==
  /\ NUM \in Nat \ {0} /\ IdxMod \in Nat \ {0} /\ NUM <= IdxMod
  /\ \E k \in Int : IdxMod = NUM * k
<1>1. NUM \in Nat \ {0} /\ IdxMod \in Nat \ {0} /\ IdxMod % NUM = 0
  BY VirtioAssumption, SMTT(60)
<1>2. NUM <= IdxMod
  BY <1>1, Wrap, SMTT(60)
<1>3. IdxMod \div NUM \in Int /\ IdxMod = NUM * (IdxMod \div NUM) + (IdxMod % NUM)
  BY <1>1, DivMod, SMTT(60)
<1>4. IdxMod = NUM * (IdxMod \div NUM)
  BY <1>1, <1>3, SMTT(60)
<1> QED  BY <1>1, <1>2, <1>3, <1>4

\* An index moves on by one, and wraps.
LEMMA BumpWraps ==
  ASSUME NEW s \in Idx
  PROVE  Bump(s) \in Idx /\ Bump(s) = IF s + 1 = IdxMod THEN 0 ELSE s + 1
<1> DEFINE a == s + 1
<1>1. /\ IdxMod \in Nat \ {0} /\ a \in Int /\ -IdxMod < a /\ a <= IdxMod
      /\ ~(a < 0)
  BY Sizes, SMTT(60) DEF Idx
<1> HIDE DEF a
<1>2. a % IdxMod = IF a = IdxMod THEN 0 ELSE a
  BY <1>1, Wrap
<1>3. Bump(s) = a % IdxMod
  BY DEF Bump, a
<1> QED  BY <1>1, <1>2, <1>3, SMTT(60) DEF a, Idx

\* Entries are told apart by their distances, which are the ones of the indices,
\* and one less seen from the next index.
LEMMA Distances ==
  ASSUME NEW s \in Idx
  PROVE  /\ \A i \in Desc : Dist(i, s) \in Desc
         /\ \A i, j \in Desc : Dist(i, s) = Dist(j, s) => i = j
         /\ \A w \in Idx : w % NUM \in Desc /\ Dist(w % NUM, s) = (w - s) % NUM
         /\ \A i \in Desc : Dist(i, Bump(s)) = IF Dist(i, s) = 0 THEN NUM - 1 ELSE Dist(i, s) - 1
<1>0. s \in Int /\ NUM \in Nat \ {0} /\ IdxMod \in Nat \ {0}
  BY Sizes, SMTT(60) DEF Idx
<1>1. ASSUME NEW i \in Desc PROVE Dist(i, s) \in Desc
  BY <1>0, DivMod, SMTT(60) DEF Dist, Desc
<1>2. ASSUME NEW i \in Desc, NEW j \in Desc, Dist(i, s) = Dist(j, s) PROVE i = j
  <2> DEFINE a == (i - s) \div NUM
             b == (j - s) \div NUM
             d == (i - s) % NUM
  <2>1. i - s \in Int /\ j - s \in Int /\ i \in Int /\ j \in Int
    BY <1>0, SMTT(60) DEF Desc
  <2>2. a \in Int /\ b \in Int /\ d \in Int /\ i - s = NUM * a + d
    BY <1>0, <2>1, DivMod, SMTT(60)
  <2>2a. j - s = NUM * b + ((j - s) % NUM)
    BY <1>0, <2>1, DivMod
  <2>2b. j - s = NUM * b + d
    BY <2>2a, <1>2 DEF Dist
  <2> HIDE DEF a, b, d
  <2>3. NUM * (a - b) = NUM * a - NUM * b
    BY <1>0, <2>2, SMTT(60)
  <2>4. i - j = NUM * (a - b)
    BY <1>0, <2>1, <2>2, <2>2b, <2>3, SMTT(60)
  <2>5. -NUM < i - j /\ i - j < NUM
    BY <1>0, SMTT(60) DEF Desc
  <2>6. a - b \in Int /\ -NUM < NUM * (a - b) /\ NUM * (a - b) < NUM
    BY <2>2, <2>4, <2>5, SMTT(60)
  <2>7. a - b = 0
    BY <2>6, <1>0, SmallMultiple
  <2>8. NUM * 0 = 0
    BY <1>0, SMTT(60)
  <2> QED  BY <2>1, <2>4, <2>7, <2>8, SMTT(60)
<1>3. ASSUME NEW w \in Idx PROVE w % NUM \in Desc /\ Dist(w % NUM, s) = (w - s) % NUM
  <2> DEFINE q == w \div NUM
             r == w % NUM
  <2>1. w \in Int
    BY Sizes, SMTT(60) DEF Idx
  <2>2. q \in Int /\ r \in 0..(NUM - 1) /\ w = NUM * q + r
    BY <1>0, <2>1, DivMod
  <2> HIDE DEF q, r
  <2>3. r - s \in Int /\ w - s = NUM * q + (r - s)
    BY <1>0, <2>1, <2>2, SMTT(60)
  <2>4. (NUM * q + (r - s)) % NUM = (r - s) % NUM
    BY <1>0, <2>2, <2>3, Shift
  <2>5. (w - s) % NUM = (r - s) % NUM /\ r \in Desc
    BY <2>2, <2>3, <2>4 DEF Desc
  <2> QED  BY <2>5 DEF Dist, r
<1>4. ASSUME NEW i \in Desc
      PROVE  Dist(i, Bump(s)) = IF Dist(i, s) = 0 THEN NUM - 1 ELSE Dist(i, s) - 1
  <2>1. i \in Int /\ i - s \in Int
    BY <1>0, SMTT(60) DEF Desc
  <2>2. (i - s - 1) % NUM = IF Dist(i, s) = 0 THEN NUM - 1 ELSE Dist(i, s) - 1
    BY <1>0, <2>1, Back DEF Dist
  <2>3. CASE s + 1 < IdxMod
    <3>1. Bump(s) = s + 1
      BY <1>0, <2>3, BumpWraps, SMTT(60)
    <3>2. i - Bump(s) = i - s - 1
      BY <3>1, <2>1, <1>0, SMTT(60)
    <3> QED  BY <2>2, <3>2 DEF Dist
  <2>4. CASE s + 1 = IdxMod
    <3>1. Bump(s) = 0
      BY <2>4, BumpWraps
    <3>2. PICK k \in Int : IdxMod = NUM * k
      BY Sizes
    <3>3. i - s - 1 \in Int /\ i - Bump(s) = NUM * k + (i - s - 1)
      BY <3>1, <3>2, <2>1, <2>4, <1>0, SMTT(60)
    <3>4. (NUM * k + (i - s - 1)) % NUM = (i - s - 1) % NUM
      BY <3>3, <1>0, Shift
    <3>5. (i - Bump(s)) % NUM = (i - s - 1) % NUM
      BY <3>3, <3>4
    <3> QED  BY <2>2, <3>5 DEF Dist
  <2> QED  BY <2>3, <2>4, <1>0, SMTT(60) DEF Idx
<1> QED  BY <1>1, <1>2, <1>3, <1>4

\* How many entries lie between two indices, and what moving one of them does.
LEMMA Counts ==
  ASSUME NEW s \in Idx, NEW w \in Idx
  PROVE  /\ Ahead(s, w) \in Idx
         /\ Ahead(s, w) = 0 <=> s = w
         /\ Ahead(s, w) < NUM => (w - s) % NUM = Ahead(s, w)
         /\ Ahead(s, w) + 1 < IdxMod => Ahead(s, Bump(w)) = Ahead(s, w) + 1
         /\ s # w => Ahead(Bump(s), w) = Ahead(s, w) - 1
<1>1. /\ s \in Int /\ w \in Int /\ NUM \in Nat \ {0} /\ IdxMod \in Nat \ {0} /\ NUM <= IdxMod
      /\ 0 <= s /\ s < IdxMod /\ 0 <= w /\ w < IdxMod
  BY Sizes, SMTT(60) DEF Idx
<1>2. Ahead(s, w) \in Idx /\ (Ahead(s, w) = 0 <=> s = w)
  BY <1>1, SMTT(60) DEF Ahead, Idx
<1>3. ASSUME Ahead(s, w) < NUM PROVE (w - s) % NUM = Ahead(s, w)
  <2> DEFINE n == Ahead(s, w)
             a == w - s
  <2>0. n \in Int /\ -NUM < n /\ n <= NUM /\ ~(n < 0) /\ n # NUM /\ a \in Int
    BY <1>1, <1>2, <1>3, SMTT(60) DEF Idx
  <2>1. \E k \in Int : n = NUM * k + a
    <3>1. CASE s <= w
      <4>1. n = NUM * 0 + a
        BY <3>1, <1>1, SMTT(60) DEF Ahead
      <4> QED  BY <4>1, SMTT(60)
    <3>2. CASE ~(s <= w)
      <4>1. PICK k \in Int : IdxMod = NUM * k
        BY Sizes
      <4>2. n = NUM * k + a
        BY <4>1, <3>2, <1>1, SMTT(60) DEF Ahead
      <4> QED  BY <4>2
    <3> QED  BY <3>1, <3>2
  <2> HIDE DEF n, a
  <2>2. PICK k \in Int : n = NUM * k + a
    BY <2>1
  <2>3. (NUM * k + a) % NUM = a % NUM
    BY <1>1, <2>0, Shift
  <2>4. n % NUM = n
    BY <1>1, <2>0, Wrap
  <2>5. a % NUM = n
    BY <2>2, <2>3, <2>4
  <2> QED  BY <2>5 DEF a, n
<1>4. Ahead(s, w) + 1 < IdxMod => Ahead(s, Bump(w)) = Ahead(s, w) + 1
  BY <1>1, BumpWraps, SMTT(60) DEF Ahead
<1>5. s # w => Ahead(Bump(s), w) = Ahead(s, w) - 1
  BY <1>1, BumpWraps, SMTT(60) DEF Ahead
<1> QED  BY <1>2, <1>3, <1>4, <1>5

\* A set of descriptors is finite.
LEMMA DescFinite ==
  /\ IsFiniteSet(Desc) /\ Cardinality(Desc) = NUM
  /\ \A S \in SUBSET Desc : IsFiniteSet(S) /\ Cardinality(S) \in Nat
<1>1. NUM \in Nat /\ NUM >= 3
  BY VirtioAssumption
<1>2. IsFiniteSet(Desc) /\ Cardinality(Desc) = NUM
  BY <1>1, FS_Interval, SMTT(60) DEF Desc
<1>3. ASSUME NEW S \in SUBSET Desc PROVE IsFiniteSet(S) /\ Cardinality(S) \in Nat
  BY <1>2, FS_Subset, FS_CardinalityType
<1> QED  BY <1>2, <1>3

\* Writing at the writer's index while there is room adds one entry, over none.
LEMMA RingWrite ==
  ASSUME NEW ring \in Entries, NEW s \in Idx, NEW w \in Idx, NEW h \in Desc,
         RingOK(ring, s, w), Cardinality(Filled(ring)) + 1 < NUM
  PROVE  /\ w % NUM \in Desc
         /\ ring[w % NUM] = None
         /\ RingOK([ring EXCEPT ![w % NUM] = h], s, Bump(w))
<1> DEFINE n == Ahead(s, w)
           k == w % NUM
           new == [ring EXCEPT ![k] = h]
<1>0. NUM \in Nat /\ IdxMod \in Nat /\ NUM <= IdxMod /\ None \notin Desc
  BY Sizes, VirtioAssumption, SMTT(60) DEF Desc
<1>1. n \in Int /\ n + 1 < NUM /\ Cardinality(Filled(ring)) = n
  BY Counts, <1>0, SMTT(60) DEF RingOK, Idx
<1>2. k \in Desc /\ Dist(k, s) = n
  <2>1. n < NUM
    BY <1>0, <1>1, SMTT(60)
  <2>2. (w - s) % NUM = n
    BY <2>1, Counts
  <2> QED  BY <2>2, Distances
<1>3. Ahead(s, Bump(w)) = n + 1
  BY <1>0, <1>1, Counts, SMTT(60)
<1>4. \A i \in Desc : ring[i] # None <=> Dist(i, s) < n
  BY DEF RingOK
<1> HIDE DEF n, k
<1>5. k \notin Filled(ring) /\ ring[k] = None
  BY <1>1, <1>2, <1>4, SMTT(60) DEF Filled
<1>6. new \in [Desc -> Desc \cup {None}] /\ \A i \in Desc : new[i] = IF i = k THEN h ELSE ring[i]
  BY <1>2 DEF Entries
<1> HIDE DEF new
<1>7. Filled(new) = Filled(ring) \cup {k}
  BY <1>0, <1>2, <1>6 DEF Filled
<1>8. Cardinality(Filled(new)) = n + 1
  <2>1. IsFiniteSet(Filled(ring))
    BY DescFinite DEF Filled
  <2> QED  BY <2>1, <1>1, <1>5, <1>7, FS_AddElement
<1>9. ASSUME NEW i \in Desc PROVE new[i] # None <=> Dist(i, s) < n + 1
  <2>1. Dist(i, s) \in Int
    BY Distances, <1>0, SMTT(60) DEF Desc
  <2>2. CASE i = k
    BY <2>2, <1>0, <1>1, <1>2, <1>6, SMTT(60)
  <2>3. CASE i # k
    <3>1. Dist(i, s) # n
      BY <2>3, <1>2, Distances
    <3> QED  BY <2>1, <2>3, <3>1, <1>1, <1>4, <1>6, SMTT(60)
  <2> QED  BY <2>2, <2>3
<1>10. RingOK(new, s, Bump(w))
  BY <1>1, <1>3, <1>8, <1>9 DEF RingOK
<1> QED  BY <1>2, <1>5, <1>10 DEF k, new

\* Reading at the reader's index, unless it is the writer's, finds an entry and
\* removes it.
LEMMA RingRead ==
  ASSUME NEW ring \in Entries, NEW s \in Idx, NEW w \in Idx, RingOK(ring, s, w), s # w
  PROVE  /\ s % NUM \in Filled(ring)
         /\ RingOK([ring EXCEPT ![s % NUM] = None], Bump(s), w)
<1> DEFINE n == Ahead(s, w)
           k == s % NUM
           new == [ring EXCEPT ![k] = None]
<1>0. NUM \in Nat \ {0} /\ IdxMod \in Nat /\ NUM <= IdxMod /\ None \notin Desc
  BY Sizes, VirtioAssumption, SMTT(60) DEF Desc
<1>1. n \in Nat /\ n > 0 /\ n < NUM /\ Cardinality(Filled(ring)) = n
  BY Counts, <1>0, SMTT(60) DEF RingOK, Idx
<1>2. k \in Desc /\ Dist(k, s) = 0
  <2>1. Ahead(s, s) = 0
    BY Counts
  <2>2. (s - s) % NUM = 0
    BY <1>0, <2>1, Counts, SMTT(60)
  <2> QED  BY <2>2, Distances
<1>3. Ahead(Bump(s), w) = n - 1
  BY Counts
<1>4. \A i \in Desc : ring[i] # None <=> Dist(i, s) < n
  BY DEF RingOK
<1> HIDE DEF n, k
<1>5. k \in Filled(ring)
  BY <1>1, <1>2, <1>4 DEF Filled
<1>6. new \in [Desc -> Desc \cup {None}] /\ \A i \in Desc : new[i] = IF i = k THEN None ELSE ring[i]
  BY <1>2 DEF Entries
<1> HIDE DEF new
<1>7. Filled(new) = Filled(ring) \ {k}
  BY <1>0, <1>2, <1>6 DEF Filled
<1>8. Cardinality(Filled(new)) = n - 1
  <2>1. IsFiniteSet(Filled(ring))
    BY DescFinite DEF Filled
  <2> QED  BY <2>1, <1>1, <1>5, <1>7, FS_RemoveElement
<1>9. ASSUME NEW i \in Desc PROVE new[i] # None <=> Dist(i, Bump(s)) < n - 1
  <2>1. Dist(i, s) \in Int /\ Dist(i, s) >= 0
    BY Distances, <1>0, SMTT(60) DEF Desc
  <2>2. Dist(i, Bump(s)) = IF Dist(i, s) = 0 THEN NUM - 1 ELSE Dist(i, s) - 1
    BY Distances
  <2>3. CASE i = k
    BY <2>2, <2>3, <1>0, <1>1, <1>2, <1>6, SMTT(60)
  <2>4. CASE i # k
    <3>1. Dist(i, s) # 0
      BY <2>4, <1>2, Distances
    <3> QED  BY <2>1, <2>2, <2>4, <3>1, <1>1, <1>4, <1>6, SMTT(60)
  <2> QED  BY <2>3, <2>4
<1>10. RingOK(new, Bump(s), w)
  BY <1>1, <1>3, <1>8, <1>9, <1>0, SMTT(60) DEF RingOK
<1> QED  BY <1>5, <1>10 DEF k, new

-----------------------------------------------------------------------------
(* Allocation *)

\* A set of naturals has its least element.
LEMMA MinIn ==
  ASSUME NEW S \in SUBSET Nat, S # {}
  PROVE  Min(S) \in S
<1> DEFINE R == OpToRel(<, Nat)
<1>1. \E x \in S : \A y \in S : <<y, x>> \notin R
  <2>1. IsWellFoundedOn(R, Nat)
    BY NatLessThanWellFounded
  <2> HIDE DEF R
  <2> QED  BY <2>1, WFMin
<1>2. PICK x \in S : \A y \in S : <<y, x>> \notin R
  BY <1>1
<1>3. ASSUME NEW y \in S PROVE x <= y
  <2>1. x \in Nat /\ y \in Nat
    OBVIOUS
  <2>2. ~(y < x)
    BY <1>2, <2>1 DEF OpToRel
  <2> QED  BY <2>1, <2>2, SMTT(60)
<1> QED  BY <1>3 DEF Min

Mins(S, a, b, c) == a = Min(S) /\ b = Min(S \ {a}) /\ c = Min(S \ {a, b})

\* alloc3_desc() takes three different free descriptors.
LEMMA Allocated ==
  ASSUME NEW S \in SUBSET Desc, Cardinality(S) >= 3,
         NEW a, NEW b, NEW c, Mins(S, a, b, c)
  PROVE  /\ a \in S /\ b \in S /\ c \in S /\ a # b /\ a # c /\ b # c
         /\ Cardinality(S \ {a, b, c}) = Cardinality(S) - 3
<1>0. Desc \subseteq Nat
  BY VirtioAssumption, SMTT(60) DEF Desc
<1>1. IsFiniteSet(S) /\ Cardinality(S) \in Nat
  BY DescFinite
<1>2. a \in S
  <2>1. S # {}
    BY <1>1, FS_EmptySet, SMTT(60)
  <2> QED  BY <1>0, <2>1, MinIn DEF Mins
<1> DEFINE T == S \ {a}
           U == T \ {b}
<1>3. IsFiniteSet(T) /\ Cardinality(T) = Cardinality(S) - 1
  BY <1>1, <1>2, FS_RemoveElement
<1>4. b \in T
  <2>1. T # {}
    BY <1>1, <1>3, FS_EmptySet, SMTT(60)
  <2>2. T \in SUBSET Nat
    BY <1>0
  <2> QED  BY <2>1, <2>2, MinIn DEF Mins
<1>5. IsFiniteSet(U) /\ Cardinality(U) = Cardinality(T) - 1
  <2> HIDE DEF T
  <2> QED  BY <1>3, <1>4, FS_RemoveElement
<1>6. U = S \ {a, b} /\ U \ {c} = S \ {a, b, c}
  OBVIOUS
<1>7. c \in U
  <2>1. U # {}
    BY <1>1, <1>3, <1>5, FS_EmptySet, SMTT(60)
  <2>2. U \in SUBSET Nat
    BY <1>0
  <2> QED  BY <1>6, <2>1, <2>2, MinIn DEF Mins
<1>8. Cardinality(U \ {c}) = Cardinality(U) - 1
  <2> HIDE DEF U
  <2> QED  BY <1>5, <1>7, FS_RemoveElement
<1>9. b \in S /\ c \in S /\ a # b /\ a # c /\ b # c
  BY <1>4, <1>7
<1>10. Cardinality(U \ {c}) = Cardinality(S) - 3
  BY <1>1, <1>3, <1>5, <1>8, SMTT(60)
<1> HIDE DEF T, U
<1> QED  BY <1>2, <1>6, <1>9, <1>10

\* Three descriptors that are not free make three more when freed.
LEMMA Freed ==
  ASSUME NEW S \in SUBSET Desc, NEW a \in Desc \ S, NEW b \in Desc \ S, NEW c \in Desc \ S,
         a # b, a # c, b # c
  PROVE  Cardinality(S \cup {a, b, c}) = Cardinality(S) + 3
<1>1. IsFiniteSet(S) /\ Cardinality(S) \in Nat
  BY DescFinite
<1> DEFINE T == S \cup {a}
           U == T \cup {b}
<1>2. IsFiniteSet(T) /\ Cardinality(T) = Cardinality(S) + 1
  BY <1>1, FS_AddElement
<1>3. b \notin T /\ c \notin U /\ U \cup {c} = S \cup {a, b, c}
  OBVIOUS
<1>4. IsFiniteSet(U) /\ Cardinality(U) = Cardinality(T) + 1
  <2> HIDE DEF T
  <2> QED  BY <1>2, <1>3, FS_AddElement
<1>5. Cardinality(U \cup {c}) = Cardinality(U) + 1
  <2> HIDE DEF U
  <2> QED  BY <1>3, <1>4, FS_AddElement
<1> QED  BY <1>1, <1>2, <1>3, <1>4, <1>5, SMTT(60)

\* A ring whose entries are heads of different requests has no more of them than
\* there are requests.
LEMMA Room ==
  ASSUME NEW ring \in Entries, NEW X, IsFiniteSet(X),
         \A i \in Filled(ring) : desc[ring[i]].of \in X,
         \A i, j \in Filled(ring) : desc[ring[i]].of = desc[ring[j]].of => i = j
  PROVE  Cardinality(Filled(ring)) <= Cardinality(X)
<1> DEFINE f == [i \in Filled(ring) |-> desc[ring[i]].of]
<1>1. f \in Injection(Filled(ring), X)
  BY DEF Injection, IsInjective
<1> HIDE DEF f
<1> QED  BY <1>1, FS_Injection

-----------------------------------------------------------------------------
(* The invariant is inductive *)

\* What the invariant says of a request whose head is in a ring or at the device.
LEMMA Listed ==
  ASSUME IInv, NEW h \in Desc, Request(h)
  PROVE  /\ desc[h].of \in Procs /\ desc[h].of \in InFlight
         /\ h \notin free /\ info[h].b = desc[h].of
BY DEF IInv, Request, Owned, InFlight

\* The descriptors of a request in flight.
LEMMA Parts ==
  ASSUME IInv, NEW p \in InFlight
  PROVE  /\ p \in Procs
         /\ idx0[p] \in Desc \ free /\ Second(p) \in Desc \ free /\ Third(p) \in Desc \ free
         /\ desc[idx0[p]].of = p /\ desc[Second(p)].of = p /\ desc[Third(p)].of = p
         /\ Chain(idx0[p]) = {idx0[p], Second(p), Third(p)}
<1>1. p \in Procs /\ idx0[p] \in Desc
  BY DEF IInv, TypeOK, InFlight
<1>2. Second(p) \in Desc
  BY <1>1 DEF IInv, TypeOK, Second
<1>3. Third(p) \in Desc
  BY <1>2 DEF IInv, TypeOK, Third
<1>4. Owned(p)
  BY DEF IInv
<1>5. \A i \in {idx0[p], Second(p), Third(p)} : i \notin free /\ desc[i].of = p
  BY <1>4 DEF Owned
<1>6. Chain(idx0[p]) = {idx0[p], Second(p), Third(p)}
  BY DEF Chain, Second, Third
<1> QED  BY <1>1, <1>2, <1>3, <1>5, <1>6

\* The invariant holds after virtio_disk_init().
LEMMA InitHolds == Init => IInv
<1> SUFFICES ASSUME Init PROVE IInv
  OBVIOUS
<1>0. /\ NUM \in Nat /\ NUM >= 3 /\ IdxMod \in Nat /\ IdxMod > 0
      /\ None \notin Procs /\ None \notin Desc
  BY VirtioAssumption, SMTT(60) DEF Desc
<1>1. TypeOK
  <2>1. 0 \in Desc /\ 0 \in Idx
    BY <1>0, SMTT(60) DEF Desc, Idx
  <2> QED  BY <2>1 DEF Init, TypeOK, NoDesc, Entries, Waiting
<1>2. InFlight = {}
  BY DEF Init, InFlight
<1>3. Filled(avail.ring) = {} /\ Filled(used.ring) = {} /\ busy = {}
  BY DEF Init, Filled
<1>4. Rings
  <2>1. 0 \in Idx
    BY <1>0, SMTT(60) DEF Idx
  <2>2. Ahead(0, 0) = 0
    BY SMTT(60) DEF Ahead
  <2>3. \A i \in Desc : ~(Dist(i, 0) < 0)
    BY <2>1, <1>0, Distances, SMTT(60) DEF Desc
  <2>4. Cardinality({}) = 0
    BY FS_EmptySet
  <2>5. \A i \in Desc : avail.ring[i] = None /\ used.ring[i] = None
    BY DEF Init
  <2>6. seen = 0 /\ avail.idx = 0 /\ used_idx = 0 /\ used.idx = 0
    BY DEF Init
  <2> QED  BY <1>0, <1>3, <2>2, <2>3, <2>4, <2>5, <2>6, SMTT(60) DEF Rings, RingOK
<1>5. Balanced
  <2>1. IsFiniteSet(InFlight) /\ Cardinality(InFlight) = 0
    BY <1>2, FS_EmptySet
  <2>2. free = Desc
    BY DEF Init
  <2> QED  BY <1>0, <2>1, <2>2, DescFinite, SMTT(60) DEF Balanced
<1>6. Avail /\ Used /\ Busy
  BY <1>0, <1>3 DEF Avail, Used, Busy, Filled
<1>7. ~panicked
  BY DEF Init
<1> QED  BY <1>1, <1>2, <1>4, <1>5, <1>6, <1>7 DEF IInv

\* Steps that only move processes between sleeping and waking.
LEMMA MoveHolds ==
  ASSUME IInv, UNCHANGED <<descvars, ringvars, seen, busy, diskflag, idx0, done, panicked>>,
         pc' \in [Procs -> Waiting \cup {"idle", "nodesc", "retry"}],
         \A q \in Procs : pc'[q] \in Waiting <=> pc[q] \in Waiting
  PROVE  IInv'
<1>0. /\ free' = free /\ desc' = desc /\ info' = info /\ avail' = avail /\ used' = used
      /\ used_idx' = used_idx /\ seen' = seen /\ busy' = busy /\ diskflag' = diskflag
      /\ idx0' = idx0 /\ done' = done /\ panicked' = panicked
  BY DEF descvars, ringvars
<1>1. InFlight' = InFlight
  BY DEF InFlight, Waiting
<1>2. TypeOK'
  BY <1>0, SMTT(60) DEF IInv, TypeOK
<1>3. \A p \in InFlight' : Owned(p)'
  <2> TAKE p \in InFlight'
  <2>1. Owned(p)
    BY <1>1 DEF IInv
  <2>2. Owned(p)' = Owned(p)
    BY <1>0 DEF Owned, Second, Third
  <2> QED  BY <2>1, <2>2
<1>4. \A h : Request(h)' = Request(h)
  BY <1>0, <1>1 DEF Request
<1>5. Avail' /\ Used' /\ Busy'
  BY <1>0, <1>4 DEF IInv, Avail, Used, Busy
<1>6. Rings' /\ Balanced' /\ ~panicked'
  BY <1>0, <1>1, SMTT(60) DEF IInv, Rings, Balanced
<1> QED  BY <1>2, <1>3, <1>5, <1>6 DEF IInv

\* There is room in the avail ring for one request more than are in flight.
LEMMA AvailRoom ==
  ASSUME IInv, Cardinality(free) >= 3
  PROVE  Cardinality(Filled(avail.ring)) + 1 < NUM
<1>0. avail.ring \in Entries
  BY DEF IInv, TypeOK
<1>1. \A i \in Filled(avail.ring) : i \in Desc /\ avail.ring[i] \in Desc /\ Request(avail.ring[i])
  BY <1>0 DEF IInv, Avail, Filled, Entries
<1>2. \A i \in Filled(avail.ring) :
        desc[avail.ring[i]].of \in InFlight /\ idx0[desc[avail.ring[i]].of] = avail.ring[i]
  BY <1>1 DEF Request
<1>3. \A i, j \in Filled(avail.ring) : avail.ring[j] = avail.ring[i] => i = j
  BY <1>1 DEF IInv, Avail
<1>4. IsFiniteSet(InFlight) /\ Cardinality(free) + 3 * Cardinality(InFlight) = NUM
  BY DEF IInv, Balanced
<1>5. Cardinality(Filled(avail.ring)) <= Cardinality(InFlight)
  BY <1>0, <1>2, <1>3, <1>4, Room, SMTT(60)
<1>6. Cardinality(free) \in Nat /\ Cardinality(InFlight) \in Nat /\ Cardinality(Filled(avail.ring)) \in Nat
  BY <1>4, DescFinite, FS_CardinalityType DEF IInv, TypeOK, Filled
<1> QED  BY <1>4, <1>5, <1>6, SMTT(60)

\* There is room in the used ring for a request that is not in it.
LEMMA UsedRoom ==
  ASSUME IInv, NEW h \in busy
  PROVE  Cardinality(Filled(used.ring)) + 1 < NUM
<1> DEFINE X == InFlight \ {desc[h].of}
<1>0. used.ring \in Entries
  BY DEF IInv, TypeOK
<1>1. \A i \in Filled(used.ring) :
        i \in Desc /\ used.ring[i] \in Desc /\ Request(used.ring[i]) /\ used.ring[i] # h
  <2>1. \A i \in Filled(used.ring) : i \in Desc /\ used.ring[i] \in Desc
    BY <1>0 DEF Filled, Entries
  <2> QED  BY <2>1, SMTT(60) DEF IInv, Used
<1>2. Request(h)
  BY DEF IInv, Busy
<1>3. desc[h].of \in InFlight /\ idx0[desc[h].of] = h
  BY <1>2 DEF Request
<1>4. \A i \in Filled(used.ring) :
        desc[used.ring[i]].of \in InFlight /\ idx0[desc[used.ring[i]].of] = used.ring[i]
  BY <1>1 DEF Request
<1>5. \A i \in Filled(used.ring) : desc[used.ring[i]].of \in X
  BY <1>1, <1>3, <1>4
<1>6. \A i, j \in Filled(used.ring) : used.ring[j] = used.ring[i] => i = j
  BY <1>1 DEF IInv, Used
<1>7. IsFiniteSet(InFlight) /\ Cardinality(free) + 3 * Cardinality(InFlight) = NUM
  BY DEF IInv, Balanced
<1>8. IsFiniteSet(X) /\ Cardinality(X) = Cardinality(InFlight) - 1
  BY <1>3, <1>7, FS_RemoveElement
<1>9. Cardinality(Filled(used.ring)) <= Cardinality(X)
  <2> HIDE DEF X
  <2> QED  BY <1>0, <1>4, <1>5, <1>6, <1>8, Room
<1>10. Cardinality(free) \in Nat /\ Cardinality(InFlight) \in Nat /\ Cardinality(Filled(used.ring)) \in Nat
  BY <1>7, DescFinite, FS_CardinalityType DEF IInv, TypeOK, Filled
<1>11. NUM >= 3
  BY VirtioAssumption
<1> HIDE DEF X
<1> QED  BY <1>7, <1>8, <1>9, <1>10, <1>11, SMTT(60)

\* virtio_disk_rw(): a new chain, and a new entry in the avail ring.
LEMMA virtio_disk_rw_Holds ==
  ASSUME IInv, NEW p \in Procs, virtio_disk_rw(p)
  PROVE  IInv'
<1>1. PICK a, b, c : a = Min(free) /\ b = Min(free \ {a}) /\ c = Min(free \ {a, b})
  OBVIOUS
<1>2. alloc3_desc = <<a, b, c>>
  BY <1>1 DEF alloc3_desc
<1>3. free \in SUBSET Desc /\ Cardinality(free) >= 3
  BY DEF IInv, TypeOK, virtio_disk_rw, Enough
<1>4. /\ a \in free /\ b \in free /\ c \in free /\ a # b /\ a # c /\ b # c
      /\ Cardinality(free \ {a, b, c}) = Cardinality(free) - 3
  <2>1. Mins(free, a, b, c)
    BY <1>1 DEF Mins
  <2> QED  BY <1>3, <2>1, Allocated
<1>5. a \in Desc /\ b \in Desc /\ c \in Desc
  BY <1>3, <1>4
<1>6. /\ desc \in [Desc -> [of : Procs \cup {None}, part : {"none", "header", "data", "status"}, next : Desc]]
      /\ info \in [Desc -> [b : Procs \cup {None}, status : {0, 255}]]
      /\ avail \in [ring : Entries, idx : Idx] /\ seen \in Idx
      /\ diskflag \in [Procs -> BOOLEAN] /\ idx0 \in [Procs -> Desc]
      /\ pc \in [Procs -> Waiting \cup {"idle", "nodesc", "retry"}]
      /\ busy \subseteq Desc
  BY DEF IInv, TypeOK
<1> DEFINE k == avail.idx % NUM
<1>7. /\ free' = free \ {a, b, c}
      /\ desc' = [desc EXCEPT ![a] = [of |-> p, part |-> "header", next |-> b],
                              ![b] = [of |-> p, part |-> "data",   next |-> c],
                              ![c] = [of |-> p, part |-> "status", next |-> 0]]
      /\ info' = [info EXCEPT ![a] = [b |-> p, status |-> 255]]
  BY <1>2 DEF virtio_disk_rw, Format
<1>8. /\ avail' = [ring |-> [avail.ring EXCEPT ![k] = a], idx |-> Bump(avail.idx)]
      /\ diskflag' = [diskflag EXCEPT ![p] = TRUE]
      /\ idx0' = [idx0 EXCEPT ![p] = a]
      /\ done' = done \ {p}
  BY <1>2 DEF virtio_disk_rw, Submit
<1>9. pc' = [pc EXCEPT ![p] = "wait"] /\ pc[p] \notin Waiting
  BY <1>6, <1>8 DEF virtio_disk_rw, Ready, Waiting
<1>10. /\ used' = used /\ used_idx' = used_idx /\ seen' = seen /\ busy' = busy
       /\ panicked' = panicked
  BY DEF virtio_disk_rw, devvars
<1>11. /\ k \in Desc /\ avail.ring[k] = None
       /\ RingOK([avail.ring EXCEPT ![k] = a], seen, Bump(avail.idx))
  BY <1>3, <1>5, <1>6, AvailRoom, RingWrite DEF IInv, Rings
<1>12. Bump(avail.idx) \in Idx
  BY <1>6, BumpWraps
<1> HIDE DEF k
<1>13. /\ \A i \in Desc \ {a, b, c} : desc'[i] = desc[i] /\ info'[i] = info[i]
       /\ desc'[a].of = p /\ desc'[a].next = b
       /\ desc'[b].of = p /\ desc'[b].next = c
       /\ desc'[c].of = p
       /\ info'[a].b = p
  BY <1>4, <1>5, <1>6, <1>7, SMTT(60)
<1>14. \A q \in Procs \ {p} : /\ pc'[q] = pc[q] /\ idx0'[q] = idx0[q]
                              /\ diskflag'[q] = diskflag[q] /\ (q \in done => q \in done')
  BY <1>6, <1>8, <1>9, SMTT(60)
<1>15. idx0'[p] = a /\ diskflag'[p] /\ pc'[p] = "wait"
  BY <1>6, <1>8, <1>9, SMTT(60)
<1>16. p \notin InFlight /\ InFlight' = InFlight \cup {p}
  BY <1>9, <1>14, <1>15 DEF InFlight, Waiting
<1>17. /\ avail'.ring \in Entries /\ avail'.idx = Bump(avail.idx)
       /\ avail'.ring = [avail.ring EXCEPT ![k] = a]
       /\ avail'.ring[k] = a /\ \A i \in Desc \ {k} : avail'.ring[i] = avail.ring[i]
  BY <1>5, <1>6, <1>8, <1>11, SMTT(60) DEF Entries
<1>18. None \notin Desc
  BY VirtioAssumption, SMTT(60) DEF Desc
<1>19. TypeOK'
  <2>1. 0 \in Desc
    BY VirtioAssumption, SMTT(60) DEF Desc
  <2>2. desc' \in [Desc -> [of : Procs \cup {None}, part : {"none", "header", "data", "status"}, next : Desc]]
    BY <1>5, <1>6, <1>7, <2>1
  <2>3. info' \in [Desc -> [b : Procs \cup {None}, status : {0, 255}]]
    BY <1>5, <1>6, <1>7
  <2>4. avail' \in [ring : Entries, idx : Idx]
    BY <1>8, <1>12, <1>17
  <2>5. pc' \in [Procs -> Waiting \cup {"idle", "nodesc", "retry"}]
    BY <1>6, <1>9 DEF Waiting
  <2>6. diskflag' \in [Procs -> BOOLEAN] /\ idx0' \in [Procs -> Desc]
    BY <1>5, <1>6, <1>8
  <2>7. free' \subseteq Desc /\ done' \subseteq Procs
    BY <1>3, <1>7, <1>8 DEF IInv, TypeOK
  <2> QED  BY <1>10, <2>2, <2>3, <2>4, <2>5, <2>6, <2>7 DEF IInv, TypeOK
<1>20. ASSUME NEW q \in InFlight' PROVE Owned(q)'
  <2>1. CASE q = p
    <3>1. Second(p)' = b /\ Third(p)' = c
      BY <1>13, <1>15 DEF Second, Third
    <3>2. \A i \in {a, b, c} : i \notin free' /\ desc'[i].of = p
      BY <1>7, <1>13
    <3> QED  BY <2>1, <3>1, <3>2, <1>4, <1>13, <1>15 DEF Owned
  <2>2. CASE q # p
    <3>1. q \in InFlight /\ q \in Procs /\ Owned(q)
      BY <2>2, <1>16 DEF InFlight, IInv
    <3>2. /\ idx0[q] \in Desc \ free /\ Second(q) \in Desc \ free /\ Third(q) \in Desc \ free
      BY <3>1, Parts
    <3>3. idx0'[q] = idx0[q] /\ diskflag'[q] = diskflag[q] /\ (q \in done => q \in done')
      BY <3>1, <2>2, <1>14
    <3>4. Second(q)' = Second(q)
      BY <3>2, <3>3, <1>4, <1>13 DEF Second
    <3>5. Third(q)' = Third(q)
      BY <3>2, <3>4, <1>4, <1>13 DEF Third
    <3>6. \A i \in {idx0[q], Second(q), Third(q)} :
            i \notin free' /\ desc'[i] = desc[i] /\ info'[i] = info[i]
      <4>1. \A i \in Desc \ free : i \notin free' /\ desc'[i] = desc[i] /\ info'[i] = info[i]
        BY <1>4, <1>7, <1>13
      <4> QED  BY <3>2, <4>1
    <3> QED  BY <3>1, <3>3, <3>4, <3>5, <3>6 DEF Owned
  <2> QED  BY <2>1, <2>2
<1>21. ASSUME NEW h \in Desc, Request(h) PROVE Request(h)' /\ desc'[h] = desc[h] /\ info'[h] = info[h] /\ h # a
  <2>1. desc[h].of \in Procs /\ desc[h].of \in InFlight /\ h \notin free
    BY <1>21, Listed
  <2>2. desc'[h] = desc[h] /\ info'[h] = info[h] /\ h # a
    BY <2>1, <1>4, <1>13
  <2>3. desc[h].of # p
    BY <2>1, <1>16
  <2> QED  BY <1>21, <2>1, <2>2, <2>3, <1>14, <1>16 DEF Request
<1>22. Request(a)'
  BY <1>13, <1>15, <1>16 DEF Request
<1>23. /\ \A i, h \in Desc : avail.ring[i] = h \/ used.ring[i] = h => Request(h)
       /\ \A h \in busy : h \in Desc /\ Request(h)
  BY <1>6 DEF IInv, Avail, Used, Busy
<1>26. Avail'
  <2> SUFFICES ASSUME NEW i \in Desc, NEW h \in Desc, avail'.ring[i] = h
               PROVE  /\ Request(h)' /\ h \notin busy
                      /\ \A j \in Desc : avail'.ring[j] = h => j = i
                      /\ \A j \in Desc : used.ring[j] # h
    BY <1>10 DEF Avail
  <2>1. CASE i = k
    <3>1. h = a
      BY <2>1, <1>17
    <3>2. a \notin busy /\ \A j \in Desc : used.ring[j] # a /\ avail.ring[j] # a
      BY <1>5, <1>21, <1>23
    <3>3. \A j \in Desc : avail'.ring[j] = a => j = i
      BY <3>2, <2>1, <1>17
    <3> QED  BY <3>1, <3>2, <3>3, <1>22
  <2>2. CASE i # k
    <3>1. avail.ring[i] = h
      BY <2>2, <1>17
    <3>2. /\ h \notin busy
          /\ \A j \in Desc : avail.ring[j] = h => j = i
          /\ \A j \in Desc : used.ring[j] # h
      BY <3>1 DEF IInv, Avail
    <3>3. Request(h)' /\ h # a
      BY <3>1, <1>21, <1>23
    <3>4. \A j \in Desc : avail'.ring[j] = h => j = i
      BY <3>2, <3>3, <1>17
    <3> QED  BY <3>2, <3>3, <3>4
  <2> QED  BY <2>1, <2>2
<1>27. Used'
  <2> SUFFICES ASSUME NEW i \in Desc, NEW h \in Desc, used.ring[i] = h
               PROVE  /\ Request(h)' /\ h \notin busy
                      /\ \A j \in Desc : used.ring[j] = h => j = i
                      /\ desc'[h].of \in done' /\ info'[h].status = 0
    BY <1>10 DEF Used
  <2>1. /\ Request(h) /\ h \notin busy
        /\ \A j \in Desc : used.ring[j] = h => j = i
        /\ desc[h].of \in done /\ info[h].status = 0
    BY DEF IInv, Used
  <2>2. Request(h)' /\ desc'[h] = desc[h] /\ info'[h] = info[h]
    BY <2>1, <1>21
  <2>3. desc[h].of # p
    BY <2>1, <1>16 DEF Request
  <2> QED  BY <2>1, <2>2, <2>3, <1>8
<1>28. Busy'
  BY <1>10, <1>21, <1>23 DEF Busy
<1>29. Rings'
  BY <1>10, <1>11, <1>17 DEF IInv, Rings
<1>30. Balanced'
  <2>1. IsFiniteSet(InFlight) /\ Cardinality(free) + 3 * Cardinality(InFlight) = NUM
    BY DEF IInv, Balanced
  <2>2. Cardinality(free) \in Nat /\ Cardinality(InFlight) \in Nat
    BY <1>3, <2>1, DescFinite, FS_CardinalityType
  <2>3. IsFiniteSet(InFlight') /\ Cardinality(InFlight') = Cardinality(InFlight) + 1
    BY <2>1, <1>16, FS_AddElement
  <2>4. NUM \in Nat
    BY VirtioAssumption
  <2> QED  BY <2>1, <2>2, <2>3, <2>4, <1>4, <1>7, SMTT(60) DEF Balanced
<1>31. ~panicked'
  BY <1>10 DEF IInv
<1> QED  BY <1>19, <1>20, <1>26, <1>27, <1>28, <1>29, <1>30, <1>31 DEF IInv

\* The end of virtio_disk_rw(): the chain of a request that has been performed is
\* freed, which takes nothing from the others.
LEMMA FreeHolds ==
  ASSUME IInv, NEW p \in Procs, complete(p), ~diskflag[p]
  PROVE  IInv'
<1>1. p \in InFlight
  BY DEF complete, Ready, InFlight
<1>2. PICK a, b, c : a = idx0[p] /\ b = Second(p) /\ c = Third(p)
  OBVIOUS
<1>3. /\ a \in Desc \ free /\ b \in Desc \ free /\ c \in Desc \ free
      /\ desc[a].of = p /\ desc[b].of = p /\ desc[c].of = p
      /\ Chain(idx0[p]) = {a, b, c}
  BY <1>1, <1>2, Parts
<1>4. a # b /\ a # c /\ b # c
  BY <1>1, <1>2 DEF IInv, Owned
<1>5. /\ info' = [info EXCEPT ![a].b = None]
      /\ desc' = [i \in Desc |-> IF i \in {a, b, c} THEN NoDesc ELSE desc[i]]
      /\ free' = free \cup {a, b, c}
      /\ GotoAndWake(p, "idle", "nodesc", "retry")
      /\ panicked' = panicked
  <2>1. free_chain(idx0[p]) = {a, b, c}
    BY <1>3 DEF free_chain
  <2>2. {a, b, c} \cap free = {}
    BY <1>3
  <2> QED  BY <1>2, <2>1, <2>2 DEF complete, WakeOnFree
<1>6. /\ avail' = avail /\ used' = used /\ used_idx' = used_idx /\ seen' = seen /\ busy' = busy
      /\ diskflag' = diskflag /\ idx0' = idx0 /\ done' = done
  BY DEF complete, ringvars, devvars
<1>7. /\ desc \in [Desc -> [of : Procs \cup {None}, part : {"none", "header", "data", "status"}, next : Desc]]
      /\ info \in [Desc -> [b : Procs \cup {None}, status : {0, 255}]]
      /\ pc \in [Procs -> Waiting \cup {"idle", "nodesc", "retry"}]
      /\ free \in SUBSET Desc
  BY DEF IInv, TypeOK
<1>8. InFlight' = InFlight \ {p}
  BY <1>5, <1>7 DEF InFlight, GotoAndWake
<1>9. \A i \in Desc \ {a, b, c} : desc'[i] = desc[i] /\ info'[i] = info[i]
  BY <1>5, <1>7
<1>10. TypeOK'
  <2>1. desc' \in [Desc -> [of : Procs \cup {None}, part : {"none", "header", "data", "status"}, next : Desc]]
    <3>1. NoDesc \in [of : Procs \cup {None}, part : {"none", "header", "data", "status"}, next : Desc]
      BY VirtioAssumption, SMTT(60) DEF NoDesc, Desc
    <3> QED  BY <3>1, <1>5, <1>7
  <2>2. info' \in [Desc -> [b : Procs \cup {None}, status : {0, 255}]]
    BY <1>3, <1>5, <1>7, SMTT(60)
  <2>3. pc' \in [Procs -> Waiting \cup {"idle", "nodesc", "retry"}]
    BY <1>5, <1>7 DEF GotoAndWake
  <2>4. free' \subseteq Desc
    BY <1>3, <1>5, <1>7, SMTT(60)
  <2> QED  BY <2>1, <2>2, <2>3, <2>4, <1>6 DEF IInv, TypeOK
<1>11. ASSUME NEW q \in InFlight' PROVE Owned(q)'
  <2>1. q \in InFlight /\ q # p /\ Owned(q)
    BY <1>8 DEF IInv
  <2>2. /\ idx0[q] \in Desc \ free /\ Second(q) \in Desc \ free /\ Third(q) \in Desc \ free
        /\ desc[idx0[q]].of = q /\ desc[Second(q)].of = q /\ desc[Third(q)].of = q
    BY <2>1, Parts
  <2>3. \A i \in {idx0[q], Second(q), Third(q)} :
          i \notin free' /\ desc'[i] = desc[i] /\ info'[i] = info[i]
    BY <2>1, <2>2, <1>3, <1>5, <1>9
  <2>4. Second(q)' = Second(q)
    BY <2>3, <1>6 DEF Second
  <2>5. Third(q)' = Third(q)
    BY <2>3, <2>4 DEF Third
  <2> QED  BY <2>1, <2>3, <2>4, <2>5, <1>6 DEF Owned
<1>12. ASSUME NEW h \in Desc, Request(h)
       PROVE  Request(h)' /\ desc'[h] = desc[h] /\ info'[h] = info[h]
  <2>1. desc[h].of # p /\ desc[h].of \in InFlight
    BY <1>12 DEF Request
  <2>2. desc'[h] = desc[h] /\ info'[h] = info[h]
    BY <2>1, <1>3, <1>9
  <2> QED  BY <1>12, <2>1, <2>2, <1>6, <1>8 DEF Request
<1>13. Avail'
  BY <1>6, <1>12 DEF IInv, Avail
<1>14. Used'
  BY <1>6, <1>12 DEF IInv, Used
<1>15. Busy'
  BY <1>6, <1>12 DEF IInv, TypeOK, Busy
<1>16. Rings' /\ ~panicked'
  BY <1>5, <1>6 DEF IInv, Rings
<1>17. Balanced'
  <2>1. IsFiniteSet(InFlight) /\ Cardinality(free) + 3 * Cardinality(InFlight) = NUM
    BY DEF IInv, Balanced
  <2>2. Cardinality(free) \in Nat /\ Cardinality(InFlight) \in Nat
    BY <1>7, <2>1, DescFinite, FS_CardinalityType
  <2>3. IsFiniteSet(InFlight') /\ Cardinality(InFlight') = Cardinality(InFlight) - 1
    BY <2>1, <1>1, <1>8, FS_RemoveElement
  <2>4. Cardinality(free') = Cardinality(free) + 3
    BY <1>3, <1>4, <1>5, <1>7, Freed
  <2>5. NUM \in Nat
    BY VirtioAssumption
  <2> QED  BY <2>1, <2>2, <2>3, <2>4, <2>5, SMTT(60) DEF Balanced
<1> QED  BY <1>10, <1>11, <1>13, <1>14, <1>15, <1>16, <1>17 DEF IInv

\* A process woken before its time sleeps again.
LEMMA complete_Holds ==
  ASSUME IInv, NEW p \in Procs, complete(p)
  PROVE  IInv'
<1>1. CASE diskflag[p]
  <2>1. pc' = [pc EXCEPT ![p] = "wait"] /\ pc[p] = "woken"
    BY <1>1 DEF complete, Ready
  <2>2. UNCHANGED <<descvars, ringvars, seen, busy, diskflag, idx0, done, panicked>>
    BY <1>1 DEF complete, devvars
  <2>3. pc \in [Procs -> Waiting \cup {"idle", "nodesc", "retry"}]
    BY DEF IInv, TypeOK
  <2> QED  BY <2>1, <2>2, <2>3, MoveHolds DEF Waiting
<1>2. CASE ~diskflag[p]
  BY <1>2, FreeHolds
<1> QED  BY <1>1, <1>2

\* Without three free descriptors a process sleeps.
LEMMA no_desc_Holds ==
  ASSUME IInv, NEW p \in Procs, no_desc(p)
  PROVE  IInv'
<1>1. pc \in [Procs -> Waiting \cup {"idle", "nodesc", "retry"}] /\ pc[p] \notin Waiting
  BY DEF IInv, TypeOK, no_desc, Ready, Waiting
<1>2. UNCHANGED <<descvars, ringvars, seen, busy, diskflag, idx0, done, panicked>>
  BY DEF no_desc, devvars
<1>3. /\ pc' \in [Procs -> Waiting \cup {"idle", "nodesc", "retry"}]
      /\ \A q \in Procs : pc'[q] \in Waiting <=> pc[q] \in Waiting
  BY <1>1 DEF no_desc, GotoAndWake, Waiting
<1> QED  BY <1>2, <1>3, MoveHolds

\* The device moves a request from the avail ring to itself.
LEMMA dev_fetch_Holds ==
  ASSUME IInv, dev_fetch
  PROVE  IInv'
<1>1. /\ avail \in [ring : Entries, idx : Idx] /\ seen \in Idx /\ busy \subseteq Desc
      /\ None \notin Desc
  BY VirtioAssumption, SMTT(60) DEF IInv, TypeOK, Desc
<1>2. PICK k : k = seen % NUM
  OBVIOUS
<1>3. k \in Filled(avail.ring) /\ RingOK([avail.ring EXCEPT ![k] = None], Bump(seen), avail.idx)
  BY <1>1, <1>2, RingRead DEF IInv, Rings, dev_fetch
<1>4. PICK x \in Desc : x = avail.ring[k]
  BY <1>1, <1>3 DEF Filled, Entries
<1>5. /\ busy' = busy \cup {x} /\ seen' = Bump(seen)
      /\ avail' = [avail EXCEPT !.ring[k] = None]
  BY <1>2, <1>4 DEF dev_fetch
<1>6. /\ free' = free /\ desc' = desc /\ info' = info /\ used' = used /\ used_idx' = used_idx
      /\ diskflag' = diskflag /\ pc' = pc /\ idx0' = idx0 /\ done' = done /\ panicked' = panicked
  BY DEF dev_fetch, descvars, procvars
<1>7. k \in Desc /\ Bump(seen) \in Idx
  BY <1>1, <1>3, BumpWraps DEF Filled
<1>8. /\ avail'.ring = [avail.ring EXCEPT ![k] = None] /\ avail'.idx = avail.idx
      /\ avail' \in [ring : Entries, idx : Idx]
      /\ avail'.ring[k] = None /\ \A i \in Desc \ {k} : avail'.ring[i] = avail.ring[i]
  BY <1>1, <1>5, <1>7 DEF Entries
<1>9. InFlight' = InFlight /\ \A h : Request(h)' = Request(h)
  BY <1>6 DEF InFlight, Request
<1>10. TypeOK'
  BY <1>1, <1>5, <1>6, <1>7, <1>8 DEF IInv, TypeOK
<1>11. \A p \in InFlight' : Owned(p)'
  <2> TAKE p \in InFlight'
  <2>1. Owned(p)
    BY <1>9 DEF IInv
  <2>2. Owned(p)' = Owned(p)
    BY <1>6 DEF Owned, Second, Third
  <2> QED  BY <2>1, <2>2
<1>12. /\ Request(x) /\ x \notin busy
       /\ \A j \in Desc : avail.ring[j] = x => j = k
       /\ \A j \in Desc : used.ring[j] # x
  BY <1>4, <1>7 DEF IInv, Avail
<1>13. Avail'
  <2> SUFFICES ASSUME NEW i \in Desc, NEW h \in Desc, avail'.ring[i] = h
               PROVE  /\ Request(h) /\ h \notin busy'
                      /\ \A j \in Desc : avail'.ring[j] = h => j = i
                      /\ \A j \in Desc : used.ring[j] # h
    BY <1>6, <1>9 DEF Avail
  <2>1. i # k /\ avail.ring[i] = h
    BY <1>1, <1>8
  <2>2. /\ Request(h) /\ h \notin busy
        /\ \A j \in Desc : avail.ring[j] = h => j = i
        /\ \A j \in Desc : used.ring[j] # h
    BY <2>1 DEF IInv, Avail
  <2>3. h # x
    BY <2>1, <1>12
  <2> QED  BY <2>2, <2>3, <1>1, <1>5, <1>8, SMTT(60)
<1>14. Used'
  BY <1>5, <1>6, <1>9, <1>12 DEF IInv, Used
<1>15. Busy'
  BY <1>5, <1>9, <1>12 DEF IInv, Busy
<1>16. Rings' /\ Balanced' /\ ~panicked'
  BY <1>3, <1>5, <1>6, <1>8, <1>9 DEF IInv, Rings, Balanced
<1> QED  BY <1>10, <1>11, <1>13, <1>14, <1>15, <1>16 DEF IInv

\* The device performs a request and moves it to the used ring.
LEMMA dev_finish_Holds ==
  ASSUME IInv, NEW x \in Desc, dev_finish(x)
  PROVE  IInv'
<1>1. /\ used \in [ring : Entries, idx : Idx] /\ used_idx \in Idx /\ busy \subseteq Desc
      /\ info \in [Desc -> [b : Procs \cup {None}, status : {0, 255}]]
      /\ None \notin Desc
  BY VirtioAssumption, SMTT(60) DEF IInv, TypeOK, Desc
<1>2. PICK k : k = used.idx % NUM
  OBVIOUS
<1>3. /\ x \in busy /\ busy' = busy \ {x}
      /\ done' = done \cup {desc[x].of}
      /\ info' = [info EXCEPT ![x].status = 0]
      /\ used' = [ring |-> [used.ring EXCEPT ![k] = x], idx |-> Bump(used.idx)]
  BY <1>2 DEF dev_finish
<1>4. /\ k \in Desc /\ used.ring[k] = None
      /\ RingOK([used.ring EXCEPT ![k] = x], used_idx, Bump(used.idx))
  BY <1>1, <1>2, <1>3, UsedRoom, RingWrite DEF IInv, Rings
<1>5. /\ free' = free /\ desc' = desc /\ avail' = avail /\ used_idx' = used_idx /\ seen' = seen
      /\ diskflag' = diskflag /\ pc' = pc /\ idx0' = idx0 /\ panicked' = panicked
  BY DEF dev_finish
<1>6. Bump(used.idx) \in Idx
  BY <1>1, BumpWraps
<1>7. /\ used'.ring = [used.ring EXCEPT ![k] = x] /\ used'.idx = Bump(used.idx)
      /\ used' \in [ring : Entries, idx : Idx]
      /\ used'.ring[k] = x /\ \A i \in Desc \ {k} : used'.ring[i] = used.ring[i]
  BY <1>1, <1>3, <1>4, <1>6, SMTT(60) DEF Entries
<1>8. InFlight' = InFlight /\ \A h : Request(h)' = Request(h)
  BY <1>5 DEF InFlight, Request
<1>9. Request(x) /\ desc[x].of \in Procs
  BY <1>3, Listed DEF IInv, Busy
<1>10. /\ info' \in [Desc -> [b : Procs \cup {None}, status : {0, 255}]]
       /\ info'[x].status = 0
       /\ \A i \in Desc : info'[i].b = info[i].b
       /\ \A i \in Desc \ {x} : info'[i] = info[i]
  BY <1>1, <1>3, SMTT(60)
<1>11. TypeOK'
  BY <1>1, <1>3, <1>5, <1>7, <1>9, <1>10 DEF IInv, TypeOK
<1>12. \A p \in InFlight' : Owned(p)'
  <2> TAKE p \in InFlight'
  <2>1. Owned(p) /\ p \in InFlight
    BY <1>8 DEF IInv
  <2>2. idx0[p] \in Desc
    BY <2>1, Parts
  <2>3. Second(p)' = Second(p) /\ Third(p)' = Third(p)
    BY <1>5 DEF Second, Third
  <2> QED  BY <2>1, <2>2, <2>3, <1>3, <1>5, <1>10, SMTT(60) DEF Owned
<1>13. \A j \in Desc : avail.ring[j] # x /\ used.ring[j] # x
  BY <1>3 DEF IInv, Avail, Used
<1>14. Avail'
  <2> SUFFICES ASSUME NEW i \in Desc, NEW h \in Desc, avail.ring[i] = h
               PROVE  /\ Request(h) /\ h \notin busy'
                      /\ \A j \in Desc : avail.ring[j] = h => j = i
                      /\ \A j \in Desc : used'.ring[j] # h
    BY <1>5, <1>8 DEF Avail
  <2>1. /\ Request(h) /\ h \notin busy
        /\ \A j \in Desc : avail.ring[j] = h => j = i
        /\ \A j \in Desc : used.ring[j] # h
    BY DEF IInv, Avail
  <2>2. h # x
    BY <1>13
  <2> QED  BY <2>1, <2>2, <1>3, <1>7
<1>15. Used'
  <2> SUFFICES ASSUME NEW i \in Desc, NEW h \in Desc, used'.ring[i] = h
               PROVE  /\ Request(h) /\ h \notin busy'
                      /\ \A j \in Desc : used'.ring[j] = h => j = i
                      /\ desc[h].of \in done' /\ info'[h].status = 0
    BY <1>5, <1>8 DEF Used
  <2>1. CASE i = k
    <3>1. h = x
      BY <2>1, <1>7
    <3>2. \A j \in Desc : used'.ring[j] = x => j = k
      BY <1>7, <1>13
    <3> QED  BY <2>1, <3>1, <3>2, <1>3, <1>9, <1>10
  <2>2. CASE i # k
    <3>1. used.ring[i] = h
      BY <2>2, <1>7
    <3>2. /\ Request(h) /\ h \notin busy
          /\ \A j \in Desc : used.ring[j] = h => j = i
          /\ desc[h].of \in done /\ info[h].status = 0
      BY <3>1 DEF IInv, Used
    <3>3. h # x
      BY <3>1, <1>13
    <3> QED  BY <3>2, <3>3, <1>3, <1>7, <1>10, SMTT(60)
  <2> QED  BY <2>1, <2>2
<1>16. Busy'
  BY <1>3, <1>8 DEF IInv, Busy
<1>17. Rings' /\ Balanced' /\ ~panicked'
  BY <1>4, <1>5, <1>7, <1>8 DEF IInv, Rings, Balanced
<1> QED  BY <1>11, <1>12, <1>14, <1>15, <1>16, <1>17 DEF IInv

\* virtio_disk_intr() finds the head of a request that has been performed, and
\* clears its b->disk.
LEMMA intr_one_Holds ==
  ASSUME IInv, intr_one
  PROVE  IInv'
<1>1. /\ used \in [ring : Entries, idx : Idx] /\ used_idx \in Idx
      /\ diskflag \in [Procs -> BOOLEAN]
      /\ pc \in [Procs -> Waiting \cup {"idle", "nodesc", "retry"}]
      /\ None \notin Desc /\ None \notin Procs
  BY VirtioAssumption, SMTT(60) DEF IInv, TypeOK, Desc
<1>2. PICK k : k = used_idx % NUM
  OBVIOUS
<1>3. k \in Filled(used.ring) /\ RingOK([used.ring EXCEPT ![k] = None], Bump(used_idx), used.idx)
  BY <1>1, <1>2, RingRead DEF IInv, Rings, intr_one, More
<1>4. PICK x \in Desc : x = used.ring[k]
  BY <1>1, <1>3 DEF Filled, Entries
<1>5. k \in Desc /\ Bump(used_idx) \in Idx
  BY <1>1, <1>3, BumpWraps DEF Filled
<1>6. /\ Request(x) /\ x \notin busy
      /\ \A j \in Desc : used.ring[j] = x => j = k
      /\ desc[x].of \in done /\ info[x].status = 0
  BY <1>4, <1>5 DEF IInv, Used
<1>7. PICK p \in Procs : p = desc[x].of
  BY <1>6, Listed
<1>8. p \in InFlight /\ info[x].b = p /\ idx0[p] = x
  BY <1>6, <1>7, Listed DEF Request
<1>9. /\ diskflag' = [diskflag EXCEPT ![p] = FALSE]
      /\ pc' = [pc EXCEPT ![p] = IF @ = "wait" THEN "woken" ELSE @]
      /\ used' = [used EXCEPT !.ring[k] = None]
      /\ used_idx' = Bump(used_idx)
      /\ panicked' = panicked
  BY <1>1, <1>2, <1>4, <1>6, <1>8 DEF intr_one
<1>10. /\ free' = free /\ desc' = desc /\ info' = info /\ avail' = avail /\ seen' = seen
       /\ busy' = busy /\ idx0' = idx0 /\ done' = done
  BY DEF intr_one, descvars, devvars
<1>11. /\ pc' \in [Procs -> Waiting \cup {"idle", "nodesc", "retry"}]
       /\ \A q \in Procs : pc'[q] \in Waiting <=> pc[q] \in Waiting
  BY <1>1, <1>9 DEF Waiting
<1>12. InFlight' = InFlight
  BY <1>11 DEF InFlight, Waiting
<1>13. /\ diskflag' \in [Procs -> BOOLEAN] /\ ~diskflag'[p]
       /\ \A q \in Procs \ {p} : diskflag'[q] = diskflag[q]
  BY <1>1, <1>9
<1>14. /\ used'.ring = [used.ring EXCEPT ![k] = None] /\ used'.idx = used.idx
       /\ used' \in [ring : Entries, idx : Idx]
       /\ used'.ring[k] = None /\ \A i \in Desc \ {k} : used'.ring[i] = used.ring[i]
  BY <1>1, <1>5, <1>9 DEF Entries
<1>15. TypeOK'
  BY <1>5, <1>9, <1>10, <1>11, <1>13, <1>14 DEF IInv, TypeOK
<1>16. \A q \in InFlight' : Owned(q)'
  <2> TAKE q \in InFlight'
  <2>1. Owned(q) /\ q \in Procs
    BY <1>12 DEF IInv, InFlight
  <2>2. Second(q)' = Second(q) /\ Third(q)' = Third(q)
    BY <1>10 DEF Second, Third
  <2>3. ~diskflag'[q] => q \in done
    BY <2>1, <1>6, <1>7, <1>13 DEF Owned
  <2> QED  BY <2>1, <2>2, <2>3, <1>10 DEF Owned
<1>17. ASSUME NEW h \in Desc, Request(h), h # x PROVE Request(h)'
  <2>1. desc[h].of \in Procs /\ desc[h].of # p
    BY <1>17, <1>8, Listed DEF Request
  <2> QED  BY <1>17, <2>1, <1>10, <1>12, <1>13 DEF Request
<1>18. Avail'
  <2> SUFFICES ASSUME NEW i \in Desc, NEW h \in Desc, avail.ring[i] = h
               PROVE  /\ Request(h)' /\ h \notin busy
                      /\ \A j \in Desc : avail.ring[j] = h => j = i
                      /\ \A j \in Desc : used'.ring[j] # h
    BY <1>10 DEF Avail
  <2>1. /\ Request(h) /\ h \notin busy
        /\ \A j \in Desc : avail.ring[j] = h => j = i
        /\ \A j \in Desc : used.ring[j] # h
    BY DEF IInv, Avail
  <2>2. h # x
    BY <2>1, <1>4, <1>5
  <2> QED  BY <2>1, <2>2, <1>1, <1>14, <1>17
<1>19. Used'
  <2> SUFFICES ASSUME NEW i \in Desc, NEW h \in Desc, used'.ring[i] = h
               PROVE  /\ Request(h)' /\ h \notin busy
                      /\ \A j \in Desc : used'.ring[j] = h => j = i
                      /\ desc[h].of \in done /\ info[h].status = 0
    BY <1>10 DEF Used
  <2>1. i # k /\ used.ring[i] = h
    BY <1>1, <1>14
  <2>2. /\ Request(h) /\ h \notin busy
        /\ \A j \in Desc : used.ring[j] = h => j = i
        /\ desc[h].of \in done /\ info[h].status = 0
    BY <2>1 DEF IInv, Used
  <2>3. h # x
    BY <2>1, <1>6
  <2> QED  BY <2>2, <2>3, <1>1, <1>14, <1>17
<1>20. Busy'
  <2>1. \A h \in busy : h \in Desc /\ Request(h) /\ h # x
    BY <1>6, SMTT(60) DEF IInv, TypeOK, Busy
  <2> QED  BY <2>1, <1>10, <1>17 DEF Busy
<1>21. Rings' /\ Balanced' /\ ~panicked'
  BY <1>3, <1>9, <1>10, <1>12, <1>14 DEF IInv, Rings, Balanced
<1> QED  BY <1>15, <1>16, <1>18, <1>19, <1>20, <1>21 DEF IInv

\* Every step keeps the invariant.
LEMMA NextHolds == IInv /\ [Next]_vars => IInv'
<1> SUFFICES ASSUME IInv, [Next]_vars PROVE IInv'
  OBVIOUS
<1>1. ASSUME NEW p \in Procs, virtio_disk_rw(p) \/ no_desc(p) \/ complete(p) PROVE IInv'
  BY <1>1, virtio_disk_rw_Holds, no_desc_Holds, complete_Holds
<1>2. CASE dev_fetch
  BY <1>2, dev_fetch_Holds
<1>3. ASSUME NEW h \in Desc, dev_finish(h) PROVE IInv'
  BY <1>3, dev_finish_Holds
<1>4. CASE intr_one
  BY <1>4, intr_one_Holds
<1>5. CASE intr_ack \/ intr_done \/ UNCHANGED vars
  <2>1. /\ UNCHANGED <<descvars, ringvars, seen, busy, diskflag, idx0, done, panicked>>
        /\ pc' = pc
    BY <1>5 DEF intr_ack, intr_done, vars, devvars, procvars
  <2>2. pc \in [Procs -> Waiting \cup {"idle", "nodesc", "retry"}]
    BY DEF IInv, TypeOK
  <2> QED  BY <2>1, <2>2, MoveHolds
<1> QED  BY <1>1, <1>2, <1>3, <1>4, <1>5 DEF Next, Interrupt

\* The invariant holds whatever the driver and the device do.
LEMMA Always == Spec => []IInv
BY InitHolds, NextHolds, PTL DEF Spec

-----------------------------------------------------------------------------
(* Theorems *)

\* The descriptors in use are exactly three for each request in flight, and the
\* driver's panics are not reached.
THEOREM DescriptorsAreOwned == Spec => []DescriptorsOwned
<1>1. IInv => DescriptorsOwned
  <2> SUFFICES ASSUME IInv PROVE DescriptorsOwned
    OBVIOUS
  <2>1. ASSUME NEW p \in InFlight
        PROVE  /\ Cardinality(Chain(idx0[p])) = 3
               /\ \A i \in Chain(idx0[p]) : i \notin free /\ desc[i].of = p
    <3>1. PICK a, b, c : a = idx0[p] /\ b = Second(p) /\ c = Third(p)
      OBVIOUS
    <3>2. /\ a \in Desc \ free /\ b \in Desc \ free /\ c \in Desc \ free
          /\ desc[a].of = p /\ desc[b].of = p /\ desc[c].of = p
          /\ Chain(idx0[p]) = {a, b, c}
      BY <3>1, Parts
    <3>3. a # b /\ a # c /\ b # c
      BY <3>1 DEF IInv, Owned
    <3>4. Cardinality({} \cup {a, b, c}) = Cardinality({}) + 3
      BY <3>2, <3>3, Freed
    <3>5. {} \cup {a, b, c} = {a, b, c} /\ Cardinality({}) = 0
      BY FS_EmptySet
    <3> QED  BY <3>2, <3>4, <3>5, SMTT(60)
  <2>2. ~panicked /\ Cardinality(free) + 3 * Cardinality(InFlight) = NUM
    BY DEF IInv, Balanced
  <2> QED  BY <2>1, <2>2 DEF DescriptorsOwned
<1> QED  BY <1>1, Always, PTL

\* virtio_disk_rw() returns only after the device has performed its request.
THEOREM ReturnsAreDone == Spec => ReturnsDone
<1> DEFINE Returned == \A p \in Procs : pc[p] = "woken" /\ pc'[p] = "idle" => p \in done
<1>1. IInv /\ [Next]_vars => [Returned]_vars
  <2> SUFFICES ASSUME IInv, Next PROVE Returned
    OBVIOUS
  <2> SUFFICES ASSUME NEW p \in Procs, pc[p] = "woken", pc'[p] = "idle" PROVE p \in done
    OBVIOUS
  <2>0. pc \in [Procs -> Waiting \cup {"idle", "nodesc", "retry"}]
    BY DEF IInv, TypeOK
  <2>1. ASSUME NEW q \in Procs, virtio_disk_rw(q) \/ no_desc(q) PROVE FALSE
    BY <2>0, <2>1 DEF virtio_disk_rw, no_desc, Ready, GotoAndWake
  <2>2. ASSUME NEW q \in Procs, complete(q) PROVE p \in done
    <3>1. q = p /\ ~diskflag[p]
      BY <2>0, <2>2 DEF complete, WakeOnFree, GotoAndWake
    <3>2. p \in InFlight
      BY DEF InFlight
    <3> QED  BY <3>1, <3>2 DEF IInv, Owned
  <2>3. CASE intr_one
    BY <2>0, <2>3 DEF intr_one
  <2>4. CASE dev_fetch \/ intr_ack \/ intr_done \/ \E h \in Desc : dev_finish(h)
    BY <2>4 DEF dev_fetch, dev_finish, intr_ack, intr_done, procvars
  <2> QED  BY <2>1, <2>2, <2>3, <2>4 DEF Next, Interrupt
<1> QED  BY <1>1, Always, PTL DEF Spec, ReturnsDone

-----------------------------------------------------------------------------
(* No request is forgotten *)

InAvail(p) == \E i \in Desc : avail.ring[i] = idx0[p]
InUsed(p) == \E i \in Desc : used.ring[i] = idx0[p]

\* A request in flight whose b->disk is set is somewhere between the driver and the
\* device.
Placed == \A p \in InFlight : diskflag[p] => idx0[p] \in busy \/ InAvail(p) \/ InUsed(p)

\* Whoever sleeps on its buffer has b->disk set.
AsleepSet == \A p \in Procs : pc[p] = "wait" => diskflag[p]

\* Whoever sleeps for descriptors would not get three.
AsleepShort == \A p \in Procs : pc[p] = "nodesc" => ~Enough

\* Completions the driver has not seen are announced by an interrupt, or the
\* handler is at work.
Announced == More => irq \/ handler

FInv == Placed /\ AsleepSet /\ AsleepShort /\ Announced

\* No request is forgotten.  A process asleep on its buffer has its request in the
\* part of the avail ring the device has yet to fetch, at the device, or in the part
\* of the used ring the driver has yet to read, and then an interrupt is pending or
\* its handler is running.  A process asleep for descriptors has fewer than three
\* before it, and requests in flight that will free theirs.
NobodyForgotten ==
  \A p \in Procs :
    /\ pc[p] = "wait" => \/ InAvail(p) /\ seen # avail.idx
                         \/ idx0[p] \in busy
                         \/ InUsed(p) /\ More /\ (irq \/ handler)
    /\ pc[p] = "nodesc" => ~Enough /\ InFlight # {}

\* Before the first request nobody sleeps.
LEMMA InitPlaced == Init => FInv
  BY SMTT(60) DEF Init, FInv, Placed, AsleepSet, AsleepShort, Announced, InFlight, More

\* virtio_disk_rw(): the request is in the avail ring, and nobody was short.
LEMMA virtio_disk_rw_Placed ==
  ASSUME IInv, FInv, NEW p \in Procs, virtio_disk_rw(p)
  PROVE  FInv'
<1>1. PICK a : a = alloc3_desc[1]
  OBVIOUS
<1>2. a \in Desc /\ Cardinality(free) >= 3 /\ Enough
  <2>1. free \in SUBSET Desc /\ Cardinality(free) >= 3 /\ Enough
    BY DEF IInv, TypeOK, virtio_disk_rw, Enough
  <2>2. alloc3_desc[1] = Min(free)
    BY DEF alloc3_desc
  <2>3. free # {}
    BY <2>1, FS_EmptySet, SMTT(60)
  <2>4. free \in SUBSET Nat
    BY <2>1, VirtioAssumption, SMTT(60) DEF Desc
  <2> QED  BY <1>1, <2>1, <2>2, <2>3, <2>4, MinIn
<1>3. PICK k : k = avail.idx % NUM
  OBVIOUS
<1>4. /\ avail \in [ring : Entries, idx : Idx] /\ seen \in Idx
      /\ diskflag \in [Procs -> BOOLEAN] /\ idx0 \in [Procs -> Desc]
      /\ pc \in [Procs -> Waiting \cup {"idle", "nodesc", "retry"}]
      /\ None \notin Desc
  BY VirtioAssumption, SMTT(60) DEF IInv, TypeOK, Desc
<1>5. k \in Desc /\ avail.ring[k] = None
  BY <1>2, <1>3, <1>4, AvailRoom, RingWrite DEF IInv, Rings
<1>6. /\ avail' = [ring |-> [avail.ring EXCEPT ![k] = a], idx |-> Bump(avail.idx)]
      /\ diskflag' = [diskflag EXCEPT ![p] = TRUE]
      /\ idx0' = [idx0 EXCEPT ![p] = a]
  BY <1>1, <1>3 DEF virtio_disk_rw, Submit
<1>7. pc' = [pc EXCEPT ![p] = "wait"]
  BY <1>4, <1>6 DEF virtio_disk_rw
<1>8. used' = used /\ used_idx' = used_idx /\ busy' = busy /\ irq' = irq /\ handler' = handler
  BY DEF virtio_disk_rw, devvars
<1>9. avail'.ring[k] = a /\ \A i \in Desc : avail.ring[i] \in Desc => avail'.ring[i] = avail.ring[i]
  BY <1>4, <1>5, <1>6 DEF Entries
<1>10. Placed'
  <2> SUFFICES ASSUME NEW q \in InFlight', diskflag'[q]
               PROVE  idx0'[q] \in busy \/ InAvail(q)' \/ InUsed(q)'
    BY <1>8 DEF Placed
  <2>1. q \in Procs
    BY DEF InFlight
  <2>2. CASE q = p
    BY <1>4, <1>5, <1>6, <1>9, <2>2 DEF InAvail
  <2>3. CASE q # p
    <3>1. idx0'[q] = idx0[q] /\ idx0[q] \in Desc /\ diskflag[q] /\ q \in InFlight
      BY <1>4, <1>6, <1>7, <2>1, <2>3 DEF InFlight
    <3>2. idx0[q] \in busy \/ InAvail(q) \/ InUsed(q)
      BY <3>1 DEF FInv, Placed
    <3> QED  BY <1>8, <1>9, <3>1, <3>2 DEF InAvail, InUsed
  <2> QED  BY <2>2, <2>3
<1>11. AsleepSet'
  BY <1>4, <1>6, <1>7 DEF FInv, AsleepSet
<1>12. AsleepShort'
  <2>1. \A q \in Procs : pc'[q] # "nodesc"
    BY <1>2, <1>4, <1>7 DEF FInv, AsleepShort
  <2> QED  BY <2>1 DEF AsleepShort
<1>13. Announced'
  BY <1>8 DEF FInv, Announced, More
<1> QED  BY <1>10, <1>11, <1>12, <1>13 DEF FInv

\* Too few descriptors.
LEMMA no_desc_Placed ==
  ASSUME IInv, FInv, NEW p \in Procs, no_desc(p)
  PROVE  FInv'
<1>1. pc \in [Procs -> Waiting \cup {"idle", "nodesc", "retry"}]
  BY DEF IInv, TypeOK
<1>2. /\ free' = free /\ avail' = avail /\ used' = used /\ used_idx' = used_idx /\ busy' = busy
      /\ irq' = irq /\ handler' = handler /\ diskflag' = diskflag /\ idx0' = idx0
      /\ ~Enough
  BY DEF no_desc, descvars, ringvars, devvars
<1>3. \A q \in Procs : pc'[q] \in {pc[q], "nodesc", "retry"}
  BY <1>1 DEF no_desc, GotoAndWake
<1>4. InFlight' \subseteq InFlight
  BY <1>3 DEF InFlight
<1>5. Placed'
  BY <1>2, <1>4 DEF FInv, Placed, InAvail, InUsed
<1>6. AsleepSet'
  BY <1>2, <1>3 DEF FInv, AsleepSet
<1>7. AsleepShort' /\ Announced'
  BY <1>2 DEF FInv, AsleepShort, Announced, Enough, More
<1> QED  BY <1>5, <1>6, <1>7 DEF FInv

\* A chain that is freed leaves nobody asleep for descriptors.
LEMMA complete_Placed ==
  ASSUME IInv, FInv, NEW p \in Procs, complete(p)
  PROVE  FInv'
<1>1. pc \in [Procs -> Waiting \cup {"idle", "nodesc", "retry"}] /\ pc[p] = "woken"
  BY DEF IInv, TypeOK, complete, Ready
<1>2. /\ avail' = avail /\ used' = used /\ used_idx' = used_idx /\ busy' = busy
      /\ irq' = irq /\ handler' = handler /\ diskflag' = diskflag /\ idx0' = idx0
  BY DEF complete, ringvars, devvars
<1>3. \A q \in Procs : pc'[q] \in Waiting => pc[q] \in Waiting
  BY <1>1 DEF complete, WakeOnFree, GotoAndWake, Waiting
<1>4. InFlight' \subseteq InFlight
  BY <1>3 DEF InFlight, Waiting
<1>5. Placed' /\ Announced'
  BY <1>2, <1>4 DEF FInv, Placed, InAvail, InUsed, Announced, More
<1>6. AsleepSet'
  BY <1>1, <1>2 DEF FInv, AsleepSet, complete, WakeOnFree, GotoAndWake
<1>7. AsleepShort'
  <2>1. CASE free' = free
    <3>1. \A q \in Procs : pc'[q] = "nodesc" => pc[q] = "nodesc"
      BY <1>1 DEF complete, WakeOnFree, GotoAndWake
    <3> QED  BY <2>1, <3>1 DEF FInv, AsleepShort, Enough
  <2>2. CASE free' # free
    <3>1. WakeOnFree(p)
      BY <2>2 DEF complete, descvars
    <3>2. \A q \in Procs : pc'[q] # "nodesc"
      BY <1>1, <3>1 DEF WakeOnFree, GotoAndWake
    <3> QED  BY <3>2 DEF AsleepShort
  <2> QED  BY <2>1, <2>2
<1> QED  BY <1>5, <1>6, <1>7 DEF FInv

\* The device fetches a request: it is at the device.
LEMMA dev_fetch_Placed ==
  ASSUME IInv, FInv, dev_fetch
  PROVE  FInv'
<1>1. avail \in [ring : Entries, idx : Idx] /\ seen \in Idx
  BY DEF IInv, TypeOK
<1>2. PICK k : k = seen % NUM
  OBVIOUS
<1>3. k \in Desc
  BY <1>1, <1>2, Distances
<1>4. busy' = busy \cup {avail.ring[k]} /\ avail' = [avail EXCEPT !.ring[k] = None]
  BY <1>2 DEF dev_fetch
<1>5. \A i \in Desc : i # k => avail'.ring[i] = avail.ring[i]
  BY <1>1, <1>3, <1>4 DEF Entries
<1>6. /\ free' = free /\ used' = used /\ used_idx' = used_idx /\ irq' = irq /\ handler' = handler
      /\ diskflag' = diskflag /\ pc' = pc /\ idx0' = idx0
  BY DEF dev_fetch, descvars, procvars
<1>7. Placed'
  <2> SUFFICES ASSUME NEW q \in InFlight, diskflag[q]
               PROVE  idx0[q] \in busy' \/ InAvail(q)' \/ InUsed(q)'
    BY <1>6 DEF Placed, InFlight
  <2>1. idx0[q] \in busy \/ InAvail(q) \/ InUsed(q)
    BY DEF FInv, Placed
  <2> QED  BY <1>4, <1>5, <1>6, <2>1 DEF InAvail, InUsed
<1>8. AsleepSet' /\ AsleepShort' /\ Announced'
  BY <1>6 DEF FInv, AsleepSet, AsleepShort, Announced, Enough, More
<1> QED  BY <1>7, <1>8 DEF FInv

\* The device performs a request: it is in the used ring, and announced.
LEMMA dev_finish_Placed ==
  ASSUME IInv, FInv, NEW x \in Desc, dev_finish(x)
  PROVE  FInv'
<1>1. /\ used \in [ring : Entries, idx : Idx] /\ used_idx \in Idx /\ x \in busy
      /\ idx0 \in [Procs -> Desc] /\ None \notin Desc
  BY VirtioAssumption, SMTT(60) DEF IInv, TypeOK, dev_finish, Desc
<1>2. PICK k : k = used.idx % NUM
  OBVIOUS
<1>3. k \in Desc /\ used.ring[k] = None
  BY <1>1, <1>2, UsedRoom, RingWrite DEF IInv, Rings
<1>4. /\ busy' = busy \ {x} /\ irq' = TRUE
      /\ used' = [ring |-> [used.ring EXCEPT ![k] = x], idx |-> Bump(used.idx)]
  BY <1>2 DEF dev_finish
<1>5. used'.ring[k] = x /\ \A i \in Desc : used.ring[i] \in Desc => used'.ring[i] = used.ring[i]
  BY <1>1, <1>3, <1>4 DEF Entries
<1>6. free' = free /\ avail' = avail /\ diskflag' = diskflag /\ pc' = pc /\ idx0' = idx0
  BY DEF dev_finish
<1>7. Placed'
  <2> SUFFICES ASSUME NEW q \in InFlight, diskflag[q]
               PROVE  idx0[q] \in busy' \/ InAvail(q)' \/ InUsed(q)'
    BY <1>6 DEF Placed, InFlight
  <2>1. (idx0[q] \in busy \/ InAvail(q) \/ InUsed(q)) /\ idx0[q] \in Desc
    BY <1>1 DEF FInv, Placed, InFlight
  <2> QED  BY <1>3, <1>4, <1>5, <1>6, <2>1 DEF InAvail, InUsed
<1>8. AsleepSet' /\ AsleepShort' /\ Announced'
  BY <1>4, <1>6 DEF FInv, AsleepSet, AsleepShort, Announced, Enough
<1> QED  BY <1>7, <1>8 DEF FInv

\* The handler takes a request out of the used ring and wakes its process, and no
\* other request is there under the same head.
LEMMA intr_one_Placed ==
  ASSUME IInv, FInv, intr_one
  PROVE  FInv'
<1>1. /\ used \in [ring : Entries, idx : Idx] /\ used_idx \in Idx
      /\ diskflag \in [Procs -> BOOLEAN]
      /\ pc \in [Procs -> Waiting \cup {"idle", "nodesc", "retry"}]
      /\ None \notin Desc /\ None \notin Procs
  BY VirtioAssumption, SMTT(60) DEF IInv, TypeOK, Desc
<1>2. PICK k : k = used_idx % NUM
  OBVIOUS
<1>3. k \in Filled(used.ring)
  BY <1>1, <1>2, RingRead DEF IInv, Rings, intr_one, More
<1>4. PICK x \in Desc : x = used.ring[k]
  BY <1>1, <1>3 DEF Filled, Entries
<1>5. k \in Desc /\ Request(x) /\ info[x].status = 0
  BY <1>3, <1>4 DEF IInv, Used, Filled
<1>6. PICK p \in Procs : p = desc[x].of
  BY <1>5, Listed
<1>7. info[x].b = p
  BY <1>5, <1>6, Listed
<1>8. /\ diskflag' = [diskflag EXCEPT ![p] = FALSE]
      /\ pc' = [pc EXCEPT ![p] = IF @ = "wait" THEN "woken" ELSE @]
      /\ used' = [used EXCEPT !.ring[k] = None]
  BY <1>1, <1>2, <1>4, <1>5, <1>7 DEF intr_one
<1>9. free' = free /\ avail' = avail /\ busy' = busy /\ idx0' = idx0 /\ handler' = handler /\ handler
  BY DEF intr_one, descvars, devvars
<1>10. \A i \in Desc : i # k => used'.ring[i] = used.ring[i]
  BY <1>1, <1>5, <1>8 DEF Entries
<1>11. Placed'
  <2> SUFFICES ASSUME NEW q \in InFlight', diskflag'[q]
               PROVE  idx0[q] \in busy \/ InAvail(q)' \/ InUsed(q)'
    BY <1>9 DEF Placed
  <2>1. q \in Procs /\ q # p /\ q \in InFlight /\ diskflag[q]
    BY <1>1, <1>8 DEF InFlight
  <2>2. idx0[q] # x
    BY <1>6, <2>1, Parts
  <2>3. idx0[q] \in busy \/ InAvail(q) \/ InUsed(q)
    BY <2>1 DEF FInv, Placed
  <2> QED  BY <1>4, <1>9, <1>10, <2>2, <2>3 DEF InAvail, InUsed
<1>12. AsleepSet'
  BY <1>1, <1>8 DEF FInv, AsleepSet
<1>13. AsleepShort' /\ Announced'
  BY <1>1, <1>8, <1>9 DEF FInv, AsleepShort, Announced, Enough
<1> QED  BY <1>11, <1>12, <1>13 DEF FInv

\* Every step leaves each request where it will be found.
LEMMA NextPlaced == IInv /\ FInv /\ [Next]_vars => FInv'
<1> SUFFICES ASSUME IInv, FInv, [Next]_vars PROVE FInv'
  OBVIOUS
<1>1. ASSUME NEW p \in Procs, virtio_disk_rw(p) \/ no_desc(p) \/ complete(p) PROVE FInv'
  BY <1>1, virtio_disk_rw_Placed, no_desc_Placed, complete_Placed
<1>2. CASE intr_ack \/ intr_done \/ UNCHANGED vars
  <2>1. /\ UNCHANGED <<free, avail, used, used_idx, busy, diskflag, pc, idx0>>
        /\ More' = More /\ Enough' = Enough /\ InFlight' = InFlight
    BY <1>2 DEF intr_ack, intr_done, vars, descvars, ringvars, devvars, procvars, More, Enough, InFlight
  <2>2. Placed' /\ AsleepSet' /\ AsleepShort'
    BY <2>1 DEF FInv, Placed, InAvail, InUsed, AsleepSet, AsleepShort
  <2>3. Announced'
    BY <1>2, <2>1 DEF FInv, Announced, intr_ack, intr_done, vars, devvars
  <2> QED  BY <2>2, <2>3 DEF FInv
<1> QED  BY <1>1, <1>2, dev_fetch_Placed, dev_finish_Placed, intr_one_Placed DEF Next, Interrupt

\* A ring with an entry is one its reader has not finished.
LEMMA NotEmpty ==
  ASSUME NEW ring, NEW s \in Idx, NEW w \in Idx, RingOK(ring, s, w),
         NEW i \in Desc, ring[i] # None
  PROVE  s # w
<1>1. Dist(i, s) < Ahead(s, w)
  BY DEF RingOK
<1>2. Dist(i, s) \in Nat
  BY Distances, VirtioAssumption, SMTT(60) DEF Desc
<1>3. Ahead(s, w) # 0
  BY <1>1, <1>2, SMTT(60)
<1> QED  BY <1>3, Counts

\* No request is forgotten, whatever the interleaving of processes, device and
\* interrupt handler: every process asleep in virtio_disk_rw() is one that the
\* device, a pending interrupt or the end of another request will wake.
THEOREM NoRequestForgotten == Spec => []NobodyForgotten
<1>1. IInv /\ FInv => NobodyForgotten
  <2> SUFFICES ASSUME IInv, FInv, NEW p \in Procs
               PROVE  /\ pc[p] = "wait" => \/ InAvail(p) /\ seen # avail.idx
                                           \/ idx0[p] \in busy
                                           \/ InUsed(p) /\ More /\ (irq \/ handler)
                      /\ pc[p] = "nodesc" => ~Enough /\ InFlight # {}
    BY DEF NobodyForgotten
  <2>1. /\ idx0[p] \in Desc /\ None \notin Desc /\ avail.idx \in Idx /\ used.idx \in Idx
        /\ seen \in Idx /\ used_idx \in Idx
    BY VirtioAssumption, SMTT(60) DEF IInv, TypeOK, Desc
  <2>2. InAvail(p) => seen # avail.idx
    BY <2>1, NotEmpty DEF IInv, Rings, InAvail
  <2>3. InUsed(p) => More
    BY <2>1, NotEmpty DEF IInv, Rings, InUsed, More
  <2>4. pc[p] = "wait" => idx0[p] \in busy \/ InAvail(p) \/ InUsed(p)
    BY DEF FInv, AsleepSet, Placed, InFlight
  <2>5. pc[p] = "nodesc" => ~Enough
    BY DEF FInv, AsleepShort
  <2>6. InFlight = {} => Enough
    <3> SUFFICES ASSUME InFlight = {} PROVE Enough
      OBVIOUS
    <3>1. Cardinality(InFlight) = 0 /\ Cardinality(free) \in Nat
      BY FS_EmptySet, DescFinite DEF IInv, TypeOK
    <3> QED  BY <3>1, VirtioAssumption, SMTT(60) DEF IInv, Balanced, Enough
  <2> QED  BY <2>2, <2>3, <2>4, <2>5, <2>6 DEF FInv, Announced
<1> QED  BY <1>1, InitPlaced, NextPlaced, Always, PTL DEF Spec
=============================================================================
