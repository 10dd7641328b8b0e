----------------------------- MODULE PipeProofs -----------------------------
(***************************************************************************)
(* Proofs about Pipe, for any number of processes and any sizes: the ring  *)
(* with its wrapping counters implements Fifo, a pipe is not used after    *)
(* kfree(), and no wakeup is lost.                                         *)
(***************************************************************************)
EXTENDS Pipe, SequenceTheorems, TLAPS

\* The provers may take this many seconds, on a busy machine.
USE SMTT(60), ZenonT(60)

-----------------------------------------------------------------------------
(* Remainders *)

\* What % and \div are.
LEMMA DivMod ==
  ASSUME NEW a \in Int, NEW n \in Nat \ {0}
  PROVE  /\ a % n \in 0..(n - 1) /\ a \div n \in Int
         /\ a = n * (a \div n) + (a % n)
  OBVIOUS

\* A multiple of n that is smaller than n either way is zero.
LEMMA SmallMultiple ==
  ASSUME NEW n \in Nat \ {0}, NEW q \in Int, -n < n * q, n * q < n
  PROVE  q = 0
<1>1. CASE q >= 1
  <2>1. n * (q - 1) >= 0
    BY <1>1
  <2>2. n * (q - 1) = n * q - n
    OBVIOUS
  <2> QED  BY <2>1, <2>2
<1>2. CASE q <= -1
  <2>1. n * (-1 - q) >= 0
    BY <1>2
  <2>2. n * (-1 - q) = -n - n * q
    OBVIOUS
  <2> QED  BY <2>1, <2>2
<1> QED  BY <1>1, <1>2

\* The remainder is unique.
LEMMA ModUnique ==
  ASSUME NEW n \in Nat \ {0}, NEW q \in Int, NEW r \in 0..(n - 1)
  PROVE  (n * q + r) % n = r
<1> DEFINE a == n * q + r
           p == a \div n
           t == a % n
<1>1. a \in Int
  OBVIOUS
<1>2. t \in 0..(n - 1) /\ p \in Int /\ a = n * p + t
  BY <1>1, DivMod
<1> HIDE DEF p, t
<1>3. n * (q - p) = n * q - n * p
  BY <1>2
<1>4. n * (q - p) = t - r
  BY <1>2, <1>3
<1>5. q - p = 0
  <2> DEFINE d == q - p
  <2>1. d \in Int /\ -n < n * d /\ n * d < n
    BY <1>2, <1>4
  <2> QED  BY <2>1, SmallMultiple
<1>6. n * 0 = 0
  OBVIOUS
<1>7. t = r
  BY <1>2, <1>4, <1>5, <1>6
<1> QED  BY <1>7 DEF t

\* Remainders of numbers that are in range or wrap once.
LEMMA Wrap ==
  ASSUME NEW n \in Nat \ {0}, NEW a \in Int
  PROVE  /\ 0 <= a /\ a < n => a % n = a
         /\ n <= a /\ a < 2 * n => a % n = a - n
         /\ -n <= a /\ a < 0 => a % n = a + n
<1>1. ASSUME 0 <= a, a < n PROVE a % n = a
  <2>1. (n * 0 + a) % n = a /\ n * 0 + a = a
    BY <1>1, ModUnique
  <2> QED  BY <2>1
<1>2. ASSUME n <= a, a < 2 * n PROVE a % n = a - n
  <2>1. (n * 1 + (a - n)) % n = a - n /\ n * 1 + (a - n) = a
    BY <1>2, ModUnique
  <2> QED  BY <2>1
<1>3. ASSUME -n <= a, a < 0 PROVE a % n = a + n
  <2>1. (n * (-1) + (a + n)) % n = a + n /\ n * (-1) + (a + n) = a
    BY <1>3, ModUnique
  <2> QED  BY <2>1
<1> QED  BY <1>1, <1>2, <1>3

\* Adding or taking away a multiple changes no remainder.
LEMMA Shift ==
  ASSUME NEW n \in Nat \ {0}, NEW m \in Int, NEW a \in Int, m % n = 0
  PROVE  (a - m) % n = a % n
<1> DEFINE qa == a \div n
           qm == m \div n
           ra == a % n
<1>1. qa \in Int /\ ra \in 0..(n - 1) /\ a = n * qa + ra
  BY DivMod
<1>2. qm \in Int /\ m = n * qm
  BY DivMod
<1> HIDE DEF qa, qm, ra
<1>3. n * (qa - qm) = n * qa - n * qm
  BY <1>1, <1>2
<1>4. a - m = n * (qa - qm) + ra
  BY <1>1, <1>2, <1>3
<1>5. (n * (qa - qm) + ra) % n = ra
  BY <1>1, <1>2, ModUnique
<1> QED  BY <1>4, <1>5 DEF ra

\* Numbers less than n apart have different remainders.
LEMMA Apart ==
  ASSUME NEW n \in Nat \ {0}, NEW a \in Int, NEW b \in Int, a < b, b - a < n
  PROVE  a % n # b % n
<1> SUFFICES ASSUME a % n = b % n PROVE FALSE
  OBVIOUS
<1> DEFINE qa == a \div n
           qb == b \div n
<1>1. qa \in Int /\ qb \in Int /\ b - a = n * qb - n * qa
  BY DivMod
<1> HIDE DEF qa, qb
<1>2. n * (qb - qa) = n * qb - n * qa
  BY <1>1
<1>3. qb - qa = 0
  <2> DEFINE d == qb - qa
  <2>1. d \in Int /\ -n < n * d /\ n * d < n
    BY <1>1, <1>2
  <2> QED  BY <2>1, SmallMultiple
<1>4. n * 0 = 0
  OBVIOUS
<1> QED  BY <1>1, <1>2, <1>3, <1>4
-----------------------------------------------------------------------------
(* The ring *)

\* The c bytes of d from position r on.
Ring(d, r, c) == [i \in 1..c |-> d[(r + i - 1) % PIPESIZE]]

Index == 0..(PIPESIZE - 1)
Counter == 0..(CntMod - 1)

\* They are a sequence.
LEMMA RingSeq ==
  ASSUME NEW d \in [Index -> Bytes], NEW r \in Int, NEW c \in Nat
  PROVE  /\ Ring(d, r, c) \in Seq(Bytes) /\ Len(Ring(d, r, c)) = c
         /\ \A i \in 1..c : Ring(d, r, c)[i] = d[(r + i - 1) % PIPESIZE]
<1>1. \A i \in 1..c : (r + i - 1) % PIPESIZE \in Index
  BY DivMod, PipeAssumption DEF Index
<1>2. \A i \in 1..c : d[(r + i - 1) % PIPESIZE] \in Bytes
  BY <1>1
<1> QED  BY <1>2 DEF Ring

\* Writing behind them appends a byte.
LEMMA RingPut ==
  ASSUME NEW d \in [Index -> Bytes], NEW r \in Int, NEW c \in 0..(PIPESIZE - 1),
         NEW e \in [Index -> Bytes],
         \A j \in Index : j # (r + c) % PIPESIZE => e[j] = d[j]
  PROVE  Ring(e, r, c + 1) = Append(Ring(d, r, c), e[(r + c) % PIPESIZE])
<1> DEFINE w == (r + c) % PIPESIZE
           v == e[w]
           s == Ring(e, r, c + 1)
           t == Append(Ring(d, r, c), v)
<1>1. /\ c \in Nat /\ c + 1 \in Nat /\ r + c \in Int
      /\ w \in Index /\ v \in Bytes /\ v = e[w] /\ w = (r + c) % PIPESIZE
      /\ \A j \in Index : j # w => e[j] = d[j]
  BY DivMod, PipeAssumption DEF Index
<1> HIDE DEF w, v
<1>2. /\ s \in Seq(Bytes) /\ Len(s) = c + 1
      /\ \A i \in 1..(c + 1) : s[i] = e[(r + i - 1) % PIPESIZE]
  BY <1>1, RingSeq, ZenonT(60)
<1>3. /\ Ring(d, r, c) \in Seq(Bytes) /\ Len(Ring(d, r, c)) = c
      /\ \A i \in 1..c : Ring(d, r, c)[i] = d[(r + i - 1) % PIPESIZE]
  BY <1>1, RingSeq, ZenonT(60)
<1>4. /\ t \in Seq(Bytes) /\ Len(t) = c + 1 /\ t[c + 1] = v
      /\ \A i \in 1..c : t[i] = d[(r + i - 1) % PIPESIZE]
  BY <1>1, <1>3
<1>5. ASSUME NEW i \in 1..c PROVE s[i] = t[i]
  <2>1. r + i - 1 \in Int /\ r + i - 1 < r + c /\ (r + c) - (r + i - 1) < PIPESIZE
    BY PipeAssumption
  <2>2. (r + i - 1) % PIPESIZE # w
    BY <1>1, <2>1, Apart, PipeAssumption, ZenonT(60)
  <2>3. (r + i - 1) % PIPESIZE \in Index
    BY <2>1, DivMod, PipeAssumption, ZenonT(60) DEF Index
  <2>4. s[i] = e[(r + i - 1) % PIPESIZE]
    BY <1>2
  <2> QED  BY <1>1, <1>4, <2>2, <2>3, <2>4
<1>6. s[c + 1] = t[c + 1]
  <2>1. r + (c + 1) - 1 = r + c /\ c + 1 \in 1..(c + 1)
    OBVIOUS
  <2> QED  BY <1>1, <1>2, <1>4, <2>1
<1>7. \A i \in 1..Len(s) : s[i] = t[i]
  <2>1. \A i \in 1..(c + 1) : i \in 1..c \/ i = c + 1
    OBVIOUS
  <2> QED  BY <1>2, <1>5, <1>6, <2>1, ZenonT(60)
<1> HIDE DEF s, t
<1>8. s = t
  BY <1>2, <1>4, <1>7, SeqEqual
<1> QED  BY <1>8 DEF s, t, v, w

\* nread++ and nwrite++ stay counters.
LEMMA IncWraps ==
  ASSUME NEW r \in Counter
  PROVE  /\ Inc(r) \in Counter
         /\ Inc(r) = IF r = CntMod - 1 THEN 0 ELSE r + 1
<1> DEFINE a == r + 1
<1>1. a \in Int /\ 0 <= a /\ CntMod \in Nat \ {0} /\ (a < CntMod \/ a = CntMod)
  BY PipeAssumption DEF Counter
<1> HIDE DEF a
<1>2. /\ a < CntMod => a % CntMod = a
      /\ a = CntMod => a % CntMod = a - CntMod
  <2>1. CntMod < 2 * CntMod
    BY <1>1
  <2> QED  BY <1>1, <2>1, Wrap
<1>3. Inc(r) = a % CntMod
  BY DEF Inc, a
<1> QED  BY <1>1, <1>2, <1>3 DEF a, Counter

\* Moving the start takes the first byte away, where the counter wraps too.
LEMMA RingGet ==
  ASSUME NEW d \in [Index -> Bytes], NEW r \in Counter, NEW c \in Nat \ {0}
  PROVE  Ring(d, Inc(r), c - 1) = Tail(Ring(d, r, c))
<1> DEFINE s == Ring(d, Inc(r), c - 1)
           u == Ring(d, r, c)
           t == Tail(u)
<1>1. Inc(r) \in Counter /\ Inc(r) \in {r + 1, r + 1 - CntMod}
  BY IncWraps, PipeAssumption DEF Counter
<1>2. /\ u \in Seq(Bytes) /\ Len(u) = c
      /\ \A i \in 1..c : u[i] = d[(r + i - 1) % PIPESIZE]
  BY RingSeq DEF Counter
<1>3. /\ s \in Seq(Bytes) /\ Len(s) = c - 1
      /\ \A i \in 1..(c - 1) : s[i] = d[(Inc(r) + i - 1) % PIPESIZE]
  <2>1. Inc(r) \in Int /\ c - 1 \in Nat
    BY <1>1 DEF Counter
  <2> QED  BY <2>1, RingSeq
<1> HIDE DEF s, u
<1>4. t \in Seq(Bytes) /\ Len(t) = c - 1 /\ \A i \in 1..(c - 1) : t[i] = u[i + 1]
  <2>1. u # <<>>
    BY <1>2
  <2> QED  BY <1>2, <2>1, HeadTailProperties
<1>5. ASSUME NEW i \in 1..(c - 1) PROVE s[i] = t[i]
  <2>1. t[i] = d[(r + i) % PIPESIZE]
    <3>1. i + 1 \in 1..c /\ r + (i + 1) - 1 = r + i
      BY DEF Counter
    <3> QED  BY <1>2, <1>4, <3>1
  <2>2. (Inc(r) + i - 1) % PIPESIZE = (r + i) % PIPESIZE
    <3>1. CASE Inc(r) = r + 1
      <4>1. Inc(r) + i - 1 = r + i
        BY <3>1 DEF Counter
      <4> QED  BY <4>1
    <3>2. CASE Inc(r) = r + 1 - CntMod
      <4> DEFINE a == r + i
      <4>1. Inc(r) + i - 1 = a - CntMod /\ a \in Int
        BY <3>2, PipeAssumption DEF Counter
      <4> HIDE DEF a
      <4>2. CntMod \in Int /\ CntMod % PIPESIZE = 0 /\ PIPESIZE \in Nat \ {0}
        BY PipeAssumption
      <4>3. (a - CntMod) % PIPESIZE = a % PIPESIZE
        BY <4>1, <4>2, Shift, ZenonT(60)
      <4> QED  BY <4>1, <4>3 DEF a
    <3> QED  BY <1>1, <3>1, <3>2
  <2> QED  BY <1>3, <2>1, <2>2, ZenonT(60)
<1> HIDE DEF t
<1>6. s = t
  BY <1>3, <1>4, <1>5, SeqEqual
<1> QED  BY <1>6 DEF s, t, u
\* How far the counters are apart.
Distance(r, w) == IF r <= w THEN w - r ELSE w - r + CntMod

\* The difference of the wrapping counters is this number.
LEMMA Difference ==
  ASSUME NEW r \in Counter, NEW w \in Counter
  PROVE  (w - r) % CntMod = Distance(r, w)
<1> DEFINE a == w - r
<1>1. /\ CntMod \in Nat \ {0} /\ a \in Int /\ -CntMod <= a /\ a < CntMod
      /\ 0 <= a <=> r <= w
      /\ a < 0 <=> ~(r <= w)
  BY PipeAssumption DEF Counter
<1>2. Distance(r, w) = IF r <= w THEN a ELSE a + CntMod
  BY DEF Distance
<1> HIDE DEF a
<1>3. (0 <= a => a % CntMod = a) /\ (a < 0 => a % CntMod = a + CntMod)
  BY <1>1, Wrap, ZenonT(60)
<1>4. a % CntMod = Distance(r, w)
  BY <1>1, <1>2, <1>3
<1> QED  BY <1>4 DEF a

\* The tests of the code on wrapping counters are tests on the number of bytes.
LEMMA Counting ==
  ASSUME nread \in Counter, nwrite \in Counter
  PROVE  /\ Count = Distance(nread, nwrite) /\ Count \in 0..(CntMod - 1)
         /\ Empty <=> Count = 0
         /\ Full <=> Count = PIPESIZE
<1>1. /\ CntMod \in Nat \ {0} /\ PIPESIZE \in Nat \ {0} /\ PIPESIZE < CntMod
      /\ nread \in Int /\ nwrite \in Int /\ 0 <= nread /\ 0 <= nwrite
      /\ nread < CntMod /\ nwrite < CntMod
  BY PipeAssumption DEF Counter
<1>2. Count = Distance(nread, nwrite)
  BY Difference DEF Count
<1>3. Count \in 0..(CntMod - 1) /\ (Empty <=> Count = 0)
  BY <1>1, <1>2 DEF Distance, Empty
<1>4. Full <=> Count = PIPESIZE
  <2> DEFINE a == nread + PIPESIZE
  <2>1. a \in Int /\ 0 <= a /\ a < 2 * CntMod
    BY <1>1
  <2>2. Full <=> nwrite = a % CntMod
    BY DEF Full
  <2> HIDE DEF a
  <2>3. (a < CntMod => a % CntMod = a) /\ (CntMod <= a => a % CntMod = a - CntMod)
    BY <1>1, <2>1, Wrap, ZenonT(60)
  <2>4. Full <=> nwrite = IF a < CntMod THEN a ELSE a - CntMod
    BY <1>1, <2>1, <2>2, <2>3
  <2> QED  BY <1>1, <1>2, <2>4 DEF Distance, a
<1> QED  BY <1>2, <1>3, <1>4

\* nwrite++ makes the distance one longer, nread++ one shorter, and the slot of
\* nwrite is the one behind the bytes.
LEMMA Advancing ==
  ASSUME NEW r \in Counter, NEW w \in Counter
  PROVE  /\ Distance(r, w) < PIPESIZE => Distance(r, Inc(w)) = Distance(r, w) + 1
         /\ Distance(r, w) > 0 => Distance(Inc(r), w) = Distance(r, w) - 1
         /\ w % PIPESIZE = (r + Distance(r, w)) % PIPESIZE
<1>1. /\ CntMod \in Nat \ {0} /\ PIPESIZE \in Nat \ {0} /\ PIPESIZE < CntMod
      /\ r \in Int /\ w \in Int /\ 0 <= r /\ 0 <= w /\ r < CntMod /\ w < CntMod
  BY PipeAssumption DEF Counter
<1>2. Distance(r, w) < PIPESIZE => Distance(r, Inc(w)) = Distance(r, w) + 1
  BY <1>1, IncWraps DEF Distance
<1>3. Distance(r, w) > 0 => Distance(Inc(r), w) = Distance(r, w) - 1
  BY <1>1, IncWraps DEF Distance
<1>4. w % PIPESIZE = (r + Distance(r, w)) % PIPESIZE
  <2>1. CASE r <= w
    <3>1. r + Distance(r, w) = w
      BY <1>1, <2>1 DEF Distance
    <3> QED  BY <3>1
  <2>2. CASE ~(r <= w)
    <3> DEFINE a == r + Distance(r, w)
    <3>1. a \in Int /\ w = a - CntMod
      BY <1>1, <2>2 DEF Distance
    <3> HIDE DEF a
    <3>2. CntMod \in Int /\ CntMod % PIPESIZE = 0
      BY PipeAssumption
    <3>3. (a - CntMod) % PIPESIZE = a % PIPESIZE
      BY <1>1, <3>1, <3>2, Shift, ZenonT(60)
    <3> QED  BY <3>1, <3>3 DEF a
  <2> QED  BY <2>1, <2>2
<1> QED  BY <1>2, <1>3, <1>4

-----------------------------------------------------------------------------
(* The invariant *)

Locked == {"wtest", "wbody", "rtest", "rwait", "rcopy"}
Places == Locked \cup {"idle", "woken", "wsleep", "rsleep"}

TypeOK ==
  /\ data \in [Index -> Bytes]
  /\ nread \in Counter /\ nwrite \in Counter
  /\ fds \subseteq Procs
  /\ pc \in [Procs -> Places]

\* An end is open while somebody has a descriptor of it.
Ends ==
  /\ \A p \in fds \cap Readers : readopen
  /\ \A p \in fds \cap Writers : writeopen
  /\ freed => ~readopen /\ ~writeopen

\* Whoever is in a call has a descriptor; inside the loops it has pi->lock, and
\* a writer past its test knows that the read end is open.
Calls ==
  \A p \in Procs :
    /\ pc[p] # "idle" => p \in fds
    /\ pc[p] \in Locked => lock = p
    /\ pc[p] = "wbody" => readopen
    /\ pc[p] \in {"rtest", "rwait", "rcopy"} => p \in Readers

\* The ring holds no more than it can.
Bounded == Count <= PIPESIZE

IInv == TypeOK /\ Ends /\ Calls /\ Bounded

\* The invariant holds for a new pipe.
LEMMA InitHolds == Init => IInv
<1> SUFFICES ASSUME Init PROVE IInv
  OBVIOUS
<1>1. TypeOK
  BY PipeAssumption DEF Init, TypeOK, Index, Counter, Places
<1>2. Ends /\ Calls
  BY DEF Init, Ends, Calls, Locked
<1>3. Bounded
  BY <1>1, Counting, PipeAssumption DEF Init, TypeOK, Bounded, Empty
<1> QED  BY <1>1, <1>2, <1>3 DEF IInv

\* A step that leaves the ring and the descriptors alone keeps what is about them.
LEMMA RingAlone ==
  ASSUME IInv, UNCHANGED <<pipevars, openvars>>
  PROVE  /\ Ends' /\ Bounded' /\ UNCHANGED <<Contents, readopen>>
         /\ pc' \in [Procs -> Places] => TypeOK'
<1> USE DEF pipevars, openvars
<1>1. Ends' /\ (pc' \in [Procs -> Places] => TypeOK')
  BY DEF IInv, Ends, TypeOK
<1>2. Count' = Count
  BY DEF Count
<1>3. Bounded' /\ UNCHANGED <<Contents, readopen>>
  BY <1>2 DEF IInv, Bounded, Contents
<1> QED  BY <1>1, <1>3

\* A process takes pi->lock.
LEMMA AcquireHolds ==
  ASSUME IInv, NEW p \in fds, NEW where \in {"wtest", "rtest"},
         where = "rtest" => p \in Readers, Acquire(p, where),
         UNCHANGED <<pipevars, openvars>>
  PROVE  IInv' /\ UNCHANGED <<Contents, readopen>>
<1>1. p \in Procs /\ None \notin Procs
  BY PipeAssumption DEF IInv, TypeOK, Procs
<1>2. pc' \in [Procs -> Places]
  BY <1>1 DEF IInv, TypeOK, Acquire, Places, Locked
<1>3. \A q \in Procs : pc[q] \notin Locked
  BY <1>1 DEF IInv, Calls, Acquire
<1>4. Calls'
  BY <1>1, <1>3 DEF IInv, TypeOK, Calls, Acquire, Locked, openvars
<1> QED  BY <1>2, <1>4, RingAlone DEF IInv

\* A process that has pi->lock gives it up and returns or sleeps.
LEMMA ReleaseHolds ==
  ASSUME IInv, NEW p \in Procs, lock = p, NEW asleep, asleep # "idle",
         NEW where \in {"idle", "wsleep", "rsleep"}, pc[p] # "idle",
         Release(p, where, asleep), UNCHANGED <<pipevars, openvars>>
  PROVE  IInv' /\ UNCHANGED <<Contents, readopen>>
<1>1. pc' \in [Procs -> Places]
  <2>1. \A q \in Procs : pc[q] \in Places
    BY DEF IInv, TypeOK
  <2>2. where \in Places /\ "woken" \in Places
    BY DEF Places
  <2> QED  BY <2>1, <2>2 DEF Release
<1>2. \A q \in Procs : q # p => pc[q] \notin Locked
  BY DEF IInv, Calls
<1>3. \A q \in Procs : pc'[q] \notin Locked /\ (pc'[q] # "idle" => pc[q] # "idle")
  BY <1>2 DEF IInv, TypeOK, Release, Locked
<1>4. Calls'
  BY <1>3 DEF IInv, Calls, openvars, Locked
<1> QED  BY <1>1, <1>4, RingAlone DEF IInv

\* A process that has pi->lock goes on in its loop.
LEMMA GotoHolds ==
  ASSUME IInv, NEW p \in Procs, lock = p, NEW where \in Locked, pc[p] # "idle",
         where = "wbody" => readopen,
         where \in {"rtest", "rwait", "rcopy"} => p \in Readers,
         Goto(p, where), UNCHANGED openvars
  PROVE  Calls' /\ pc' \in [Procs -> Places]
  BY DEF IInv, TypeOK, Calls, Goto, Locked, Places, openvars
-----------------------------------------------------------------------------
(* The steps *)

\* A byte is written: the queue has it at its end.
LEMMA write_byte_Holds ==
  ASSUME IInv, NEW p \in Procs, NEW v \in Bytes, write_byte(p, v)
  PROVE  IInv' /\ Queue!Put(v)
<1> USE DEF write_byte, At
<1>1. Calls' /\ pc' \in [Procs -> Places]
  <2>1. "wtest" \in Locked /\ pc[p] # "idle"
    BY DEF Locked
  <2> QED  BY <2>1, GotoHolds, ZenonT(60) DEF Goto
<1>2. Ends' /\ readopen /\ readopen' = readopen
  BY DEF IInv, Ends, Calls, openvars
<1>3. /\ nread \in Counter /\ nwrite \in Counter /\ Count <= PIPESIZE
      /\ data \in [Index -> Bytes]
  BY DEF IInv, TypeOK, Bounded
<1>4. Count = Distance(nread, nwrite) /\ Count \in 0..(PIPESIZE - 1)
  BY <1>3, Counting, PipeAssumption
<1>5. nwrite' \in Counter /\ nread' = nread
  BY <1>3, IncWraps
<1>6. Count' = Count + 1
  <2>1. Distance(nread, Inc(nwrite)) = Count + 1
    BY <1>3, <1>4, Advancing, PipeAssumption
  <2>2. Count' = Distance(nread', nwrite')
    BY <1>3, <1>5, Difference DEF Count
  <2> QED  BY <1>5, <2>1, <2>2
<1>7. nwrite % PIPESIZE = (nread + Count) % PIPESIZE /\ nwrite % PIPESIZE \in Index
  <2>1. nwrite % PIPESIZE = (nread + Count) % PIPESIZE
    BY <1>3, <1>4, Advancing
  <2> QED  BY <1>3, <2>1, DivMod, PipeAssumption DEF Index, Counter
<1>8. TypeOK'
  BY <1>1, <1>3, <1>5, <1>7 DEF IInv, TypeOK, openvars
<1>9. Contents' = Append(Contents, v)
  <2> DEFINE w == nwrite % PIPESIZE
             c == Count
  <2>1. /\ nread \in Int /\ c \in 0..(PIPESIZE - 1)
        /\ w \in Index /\ w = (nread + c) % PIPESIZE
    BY <1>3, <1>4, <1>7 DEF Counter
  <2>2. /\ data' \in [Index -> Bytes] /\ data'[w] = v
        /\ \A j \in Index : j # w => data'[j] = data[j]
    BY <1>3, <1>7
  <2> HIDE DEF w, c, write_byte
  <2>3. Ring(data', nread, c + 1) = Append(Ring(data, nread, c), data'[(nread + c) % PIPESIZE])
    BY <1>3, <2>1, <2>2, RingPut, ZenonT(60)
  <2> QED  BY <1>5, <1>6, <2>1, <2>2, <2>3, ZenonT(60) DEF Contents, Ring, c
<1>10. Len(Contents) < PIPESIZE
  <2>1. Len(Ring(data, nread, Count)) = Count
    BY <1>3, <1>4, RingSeq DEF Counter
  <2> QED  BY <1>4, <2>1, PipeAssumption DEF Contents, Ring
<1>11. Bounded'
  BY <1>4, <1>6, PipeAssumption DEF Bounded
<1> QED  BY <1>1, <1>2, <1>8, <1>9, <1>10, <1>11 DEF IInv, Queue!Put

\* A byte is read: it was the first of the queue.
LEMMA read_byte_Holds ==
  ASSUME IInv, NEW p \in Procs, NEW fails \in BOOLEAN, read_byte(p, fails)
  PROVE  IInv' /\ Queue!Get
<1> USE DEF read_byte, At
<1>1. Calls' /\ pc' \in [Procs -> Places]
  <2>1. "rcopy" \in Locked /\ pc[p] # "idle" /\ p \in Readers
    BY DEF IInv, Calls, Locked
  <2> QED  BY <2>1, GotoHolds, ZenonT(60) DEF Goto
<1>2. Ends' /\ readopen /\ readopen' = readopen
  BY DEF IInv, Ends, Calls, openvars
<1>3. /\ nread \in Counter /\ nwrite \in Counter /\ Count <= PIPESIZE
      /\ data \in [Index -> Bytes]
  BY DEF IInv, TypeOK, Bounded
<1>4. Count = Distance(nread, nwrite) /\ Count \in Nat \ {0}
  BY <1>3, Counting, PipeAssumption
<1>5. nread' \in Counter /\ nwrite' = nwrite /\ data' = data
  BY <1>3, IncWraps
<1>6. Count' = Count - 1
  <2>1. Distance(Inc(nread), nwrite) = Count - 1
    BY <1>3, <1>4, Advancing
  <2>2. Count' = Distance(nread', nwrite')
    BY <1>3, <1>5, Difference DEF Count
  <2> QED  BY <1>5, <2>1, <2>2
<1>7. TypeOK'
  BY <1>1, <1>3, <1>5 DEF IInv, TypeOK, openvars
<1>8. Contents' = Tail(Contents)
  <2>1. Ring(data, Inc(nread), Count - 1) = Tail(Ring(data, nread, Count))
    BY <1>3, <1>4, RingGet, ZenonT(60)
  <2> QED  BY <1>5, <1>6, <2>1, ZenonT(60) DEF Contents, Ring
<1>9. Contents # <<>>
  <2>1. Len(Ring(data, nread, Count)) = Count
    BY <1>3, <1>4, RingSeq DEF Counter
  <2> QED  BY <1>4, <2>1 DEF Contents, Ring
<1>10. Bounded'
  BY <1>3, <1>4, <1>6, PipeAssumption DEF Bounded
<1> QED  BY <1>1, <1>2, <1>7, <1>8, <1>9, <1>10 DEF IInv, Queue!Get

\* A descriptor is closed: the read end with the last one of its readers.
LEMMA close_Holds ==
  ASSUME IInv, NEW p \in Procs, close(p)
  PROVE  IInv' /\ (Queue!CloseRead \/ UNCHANGED <<Contents, readopen>>)
<1> USE DEF close, pipevars
<1>1. None \notin Procs /\ \A q \in Procs : pc[q] \notin Locked
  BY PipeAssumption DEF IInv, Calls, Procs
<1>2. \A q \in Procs : pc'[q] \in Places /\ pc'[q] \notin Locked
                       /\ (pc'[q] # "idle" => pc[q] # "idle" /\ q # p)
  <2>1. CloseWake(p) # "idle"
    BY DEF CloseWake
  <2> QED  BY <1>1, <2>1 DEF IInv, TypeOK, Release, Places, Locked
<1>3. TypeOK'
  BY <1>2 DEF IInv, TypeOK, Release
<1>4. Calls'
  BY <1>2, ZenonT(60) DEF IInv, Calls, Locked
<1>5. Ends'
  BY ZenonT(60) DEF IInv, Ends, TypeOK, LastOf, BothClosed
<1>6. Contents' = Contents /\ Count' = Count
  BY DEF Contents, Count
<1>7. Bounded'
  BY <1>6 DEF IInv, Bounded
<1>8. readopen' = FALSE \/ readopen' = readopen
  BY ZenonT(60)
<1> QED  BY <1>3, <1>4, <1>5, <1>6, <1>7, <1>8 DEF IInv, Queue!CloseRead

\* kill() wakes its victim and touches nothing else.
LEMMA kill_Holds ==
  ASSUME IInv, NEW p \in Procs, kill(p)
  PROVE  IInv' /\ UNCHANGED <<Contents, readopen>>
<1>1. pc' \in [Procs -> Places]
  BY DEF kill, IInv, TypeOK, Places
<1>2. Calls'
  BY DEF kill, IInv, TypeOK, Calls, Locked, openvars
<1> QED  BY <1>1, <1>2, RingAlone DEF kill, IInv
\* Every step keeps the invariant and is a step of the queue, or leaves it alone.
LEMMA NextHolds ==
  IInv /\ [Next]_vars => IInv' /\ [Queue!Next]_(Queue!vars)
<1> SUFFICES ASSUME IInv, [Next]_vars
             PROVE  IInv' /\ (Queue!Next \/ UNCHANGED <<Contents, readopen>>)
  BY DEF Queue!vars
<1>1. CASE UNCHANGED vars
  <2>1. UNCHANGED <<pipevars, openvars>> /\ pc' = pc /\ lock' = lock
    BY <1>1 DEF vars
  <2>2. Calls' /\ pc' \in [Procs -> Places]
    BY <2>1 DEF IInv, TypeOK, Calls, openvars
  <2> QED  BY <2>1, <2>2, RingAlone DEF IInv
<1>2. ASSUME NEW p \in Procs, Continue(p)
      PROVE  IInv' /\ (Queue!Next \/ UNCHANGED <<Contents, readopen>>)
  <2>1. CASE write_again(p) \/ read_again(p)
    <3>1. p \in fds
      BY <2>1 DEF write_again, read_again, IInv, Calls
    <3> QED  BY <2>1, <3>1, AcquireHolds DEF write_again, read_again
  <2>2. CASE write_test(p)
    <3>1. CASE Goto(p, "wbody") /\ readopen
      <4>1. Calls' /\ pc' \in [Procs -> Places]
        BY <2>2, <3>1, GotoHolds DEF write_test, At, Locked
      <4> QED  BY <2>2, <4>1, RingAlone DEF write_test, IInv
    <3>2. CASE Release(p, "idle", "rsleep") \/ Release(p, "idle", "nobody")
      BY <2>2, <3>2, ReleaseHolds DEF write_test, At
    <3> QED  BY <2>2, <3>1, <3>2 DEF write_test
  <2>3. CASE write_full(p) \/ write_fault(p) \/ read_wait(p) \/ read_done(p)
    BY <2>3, ReleaseHolds
       DEF write_full, write_fault, read_wait, read_done, At, FullWake, ReadWake
  <2>4. CASE read_test(p)
    <3>1. pc[p] = "rtest" /\ lock = p /\ p \in Readers
      BY <2>4 DEF read_test, At, IInv, Calls
    <3>2. CASE Goto(p, "rcopy") \/ Goto(p, "rwait")
      <4>1. Calls' /\ pc' \in [Procs -> Places]
        BY <2>4, <3>1, <3>2, GotoHolds DEF read_test, Locked
      <4> QED  BY <2>4, <4>1, RingAlone DEF read_test, IInv
    <3>3. CASE Release(p, "idle", "nobody")
      BY <2>4, <3>1, <3>3, ReleaseHolds DEF read_test
    <3> QED  BY <2>4, <3>2, <3>3 DEF read_test
  <2>5. CASE \E v \in Bytes : write_byte(p, v)
    BY <2>5, write_byte_Holds DEF Queue!Next
  <2>6. CASE \E fails \in BOOLEAN : read_byte(p, fails)
    BY <2>6, read_byte_Holds DEF Queue!Next
  <2> QED  BY <1>2, <2>1, <2>2, <2>3, <2>4, <2>5, <2>6 DEF Continue
<1>3. ASSUME NEW p \in Procs, close(p) \/ kill(p)
      PROVE  IInv' /\ (Queue!Next \/ UNCHANGED <<Contents, readopen>>)
  BY <1>3, close_Holds, kill_Holds DEF Queue!Next
<1>4. ASSUME NEW p \in Procs, NEW n \in 1..MaxN, pipewrite(p, n) \/ piperead(p, n)
      PROVE  IInv' /\ UNCHANGED <<Contents, readopen>>
  BY <1>4, AcquireHolds DEF pipewrite, piperead
<1> QED  BY <1>1, <1>2, <1>3, <1>4 DEF Next

\* The invariant holds in every reachable state.
LEMMA Always == Spec => []IInv
  BY InitHolds, NextHolds, PTL DEF Spec

-----------------------------------------------------------------------------
(* What follows *)

\* The ring of data[] with the counters nread and nwrite implements Fifo, for any
\* size of the ring, any multiple of it at which the counters wrap and any number
\* of readers and writers: bytes come out once each and in order.
THEOREM ImplementsFifo == Spec => IsFifo
<1>1. Init => Queue!Init
  <2> SUFFICES ASSUME Init PROVE Contents = <<>> /\ readopen = TRUE
    BY DEF Queue!Init
  <2>1. Count = 0
    <3>1. nread \in Counter /\ nwrite \in Counter /\ Empty
      BY PipeAssumption DEF Init, Counter, Empty
    <3> QED  BY <3>1, Counting
  <2> QED  BY <2>1 DEF Init, Contents
<1> QED  BY <1>1, Always, NextHolds, PTL DEF Spec, IsFifo, Queue!Spec

\* pipeclose() frees the pipe only when nobody is in a call on it, however many
\* processes share its ends and whoever is killed.
THEOREM NotUsedFreed == Spec => []NoUseAfterFree
<1>1. IInv => NoUseAfterFree
  BY DEF IInv, Ends, Calls, TypeOK, Procs, NoUseAfterFree
<1> QED  BY <1>1, Always, PTL

-----------------------------------------------------------------------------
(* No wakeup is lost *)

\* Where only a writer can be, and where only a reader can.
Sides ==
  \A p \in Procs :
    /\ pc[p] \in {"wtest", "wbody", "wsleep"} => p \in Writers
    /\ pc[p] = "rsleep" => p \in Readers

\* A reader about to sleep has seen, under pi->lock, that it must.
ToWait == \A p \in Procs : pc[p] = "rwait" => Empty /\ writeopen

ReaderCopies == \E q \in Readers : At(q, "rcopy")

WriterWrites == \E q \in Writers : At(q, "wtest") \/ At(q, "wbody")

\* A writer asleep has a full pipe before it, or a reader is taking bytes out and
\* has still to wake it.
WritersWait ==
  \A p \in Procs : pc[p] = "wsleep" => readopen /\ (Full \/ ReaderCopies)

\* A reader asleep has an empty pipe before it, or a writer is putting bytes in
\* and has still to wake it.  A writer that finds itself killed in the middle of
\* a write() returns without that wakeup.
ReadersWait ==
  \A p \in Procs : pc[p] = "rsleep" =>
    writeopen /\ (Empty \/ WriterWrites \/ killed \cap Writers # {})

\* No wakeup is lost: who sleeps on the pipe has something to wait for, and the
\* end whose doing it waits for is open.
SleepersWait == WritersWait /\ ReadersWait

WInv == Sides /\ ToWait /\ SleepersWait

\* A new pipe has no sleepers.
LEMMA InitWaits == Init => WInv
  BY DEF Init, WInv, Sides, ToWait, SleepersWait, WritersWait, ReadersWait

\* A process takes pi->lock.
LEMMA AcquireWaits ==
  ASSUME IInv, WInv, NEW p \in Procs, NEW where \in {"wtest", "rtest"},
         where = "wtest" => p \in Writers, Acquire(p, where),
         UNCHANGED <<pipevars, openvars, killed>>
  PROVE  WInv'
<1> USE DEF IInv, TypeOK, WInv, Acquire, pipevars, openvars
<1>1. p # None
  BY PipeAssumption DEF Procs
<1>2. \A q \in Procs : pc[q] \notin Locked
  BY PipeAssumption DEF Calls, Procs
<1>3. Sides' /\ ToWait'
  BY DEF Sides, ToWait, Empty, Locked
<1>4. ~ReaderCopies /\ ~WriterWrites
  BY PipeAssumption DEF ReaderCopies, WriterWrites, At, Procs
<1>5. WritersWait'
  BY <1>4 DEF SleepersWait, WritersWait, Full
<1>6. ReadersWait'
  BY <1>4 DEF SleepersWait, ReadersWait, Empty
<1> QED  BY <1>3, <1>5, <1>6 DEF SleepersWait

\* A process that has pi->lock gives it up.  If it wakes neither end it has given
\* nobody a reason to be woken; and it sleeps only if it must.
LEMMA ReleaseWaits ==
  ASSUME IInv, WInv, NEW p \in Procs, lock = p, NEW asleep,
         NEW where \in {"idle", "wsleep", "rsleep"},
         Release(p, where, asleep), UNCHANGED <<pipevars, openvars, killed>>,
         where = "wsleep" => p \in Writers /\ readopen /\ Full,
         where = "rsleep" => p \in Readers /\ writeopen /\ Empty,
         asleep # "wsleep" => pc[p] # "rcopy",
         asleep # "rsleep" => p \notin Writers \/ p \in killed \/ ~readopen
  PROVE  WInv'
<1> USE DEF IInv, TypeOK, WInv, pipevars, openvars
<1>1. /\ pc'[p] = where
      /\ \A q \in Procs : q # p => pc'[q] = IF pc[q] = asleep THEN "woken" ELSE pc[q]
  BY DEF Release
<1>2. \A q \in Procs : q # p => pc[q] \notin Locked
  BY DEF Calls
<1>3. Sides' /\ ToWait'
  BY <1>1, <1>2 DEF Sides, ToWait, Locked
<1>4. WritersWait'
  <2> SUFFICES ASSUME NEW q \in Procs, pc'[q] = "wsleep"
               PROVE  readopen /\ Full
    BY DEF WritersWait, Full
  <2>1. CASE q = p
    BY <1>1, <2>1
  <2>2. CASE q # p
    <3>1. pc[q] = "wsleep" /\ asleep # "wsleep"
      BY <1>1, <2>2
    <3>2. ~ReaderCopies
      BY <3>1 DEF ReaderCopies, At
    <3> QED  BY <3>1, <3>2 DEF SleepersWait, WritersWait
  <2> QED  BY <2>1, <2>2
<1>5. ReadersWait'
  <2> SUFFICES ASSUME NEW q \in Procs, pc'[q] = "rsleep"
               PROVE  writeopen /\ (Empty \/ killed \cap Writers # {})
    BY DEF ReadersWait, Empty
  <2>1. CASE q = p
    BY <1>1, <2>1
  <2>2. CASE q # p
    <3>1. pc[q] = "rsleep" /\ asleep # "rsleep"
      BY <1>1, <2>2
    <3>2. q \in Readers /\ readopen
      BY <3>1 DEF Sides, Calls, Ends
    <3>3. p \notin Writers \/ p \in killed
      BY <3>1, <3>2
    <3>4. WriterWrites => p \in Writers
      BY DEF WriterWrites, At
    <3> QED  BY <3>1, <3>3, <3>4 DEF SleepersWait, ReadersWait
  <2> QED  BY <2>1, <2>2
<1> QED  BY <1>3, <1>4, <1>5 DEF SleepersWait

\* A process that has pi->lock goes on, the ring being as it was.
LEMMA GotoWaits ==
  ASSUME IInv, WInv, NEW p \in Procs, lock = p, pc[p] \in Locked,
         NEW where \in Locked, Goto(p, where),
         UNCHANGED <<pipevars, openvars, killed>>,
         where \in {"wtest", "wbody"} => p \in Writers,
         p \in Writers => where \in {"wtest", "wbody"},
         where = "rwait" => Empty /\ writeopen,
         pc[p] = "rcopy" => where = "rcopy"
  PROVE  WInv'
<1> USE DEF IInv, TypeOK, WInv, pipevars, openvars, Goto
<1>1. Sides' /\ ToWait'
  BY DEF Sides, ToWait, Empty, Locked
<1>2. ReaderCopies => ReaderCopies'
  BY DEF ReaderCopies, At, Procs
<1>3. WriterWrites => WriterWrites'
  BY DEF WriterWrites, At, Procs
<1>4. WritersWait'
  BY <1>2 DEF SleepersWait, WritersWait, Full, Locked
<1>5. ReadersWait'
  BY <1>3 DEF SleepersWait, ReadersWait, Empty, Locked
<1> QED  BY <1>1, <1>4, <1>5 DEF SleepersWait

\* A byte is put in: no writer sleeps, and the readers will be woken by this one.
LEMMA write_byte_Waits ==
  ASSUME IInv, WInv, NEW p \in Procs, NEW v \in Bytes, write_byte(p, v)
  PROVE  WInv'
<1> USE DEF IInv, TypeOK, WInv, write_byte, At, Goto, openvars
<1>1. \A q \in Procs : q # p => pc[q] \notin Locked
  BY DEF Calls
<1>2. p \in Writers /\ pc'[p] = "wtest" /\ \A q \in Procs : q # p => pc'[q] = pc[q]
  BY DEF Sides
<1>3. Sides' /\ ToWait'
  BY <1>1, <1>2 DEF Sides, ToWait, Locked
<1>4. \A q \in Procs : pc[q] # "wsleep"
  BY DEF SleepersWait, WritersWait, ReaderCopies
<1>5. WritersWait'
  BY <1>2, <1>4 DEF WritersWait
<1>6. WriterWrites'
  BY <1>2 DEF WriterWrites
<1>7. ReadersWait'
  BY <1>2, <1>6 DEF SleepersWait, ReadersWait
<1> QED  BY <1>3, <1>5, <1>7 DEF SleepersWait

\* A byte is taken out: the writers will be woken by this reader.
LEMMA read_byte_Waits ==
  ASSUME IInv, WInv, NEW p \in Procs, NEW fails \in BOOLEAN, read_byte(p, fails)
  PROVE  WInv'
<1> USE DEF IInv, TypeOK, WInv, read_byte, At, Goto, openvars
<1>1. pc' = pc /\ p \in Readers
  BY DEF Calls
<1>2. Sides' /\ ToWait'
  BY <1>1 DEF Sides, ToWait, Calls, Locked
<1>3. ReaderCopies'
  BY <1>1 DEF ReaderCopies
<1>4. WritersWait'
  BY <1>1, <1>3 DEF SleepersWait, WritersWait
<1>5. ~WriterWrites
  BY DEF WriterWrites
<1>6. ReadersWait'
  BY <1>1, <1>5 DEF SleepersWait, ReadersWait
<1> QED  BY <1>2, <1>4, <1>6 DEF SleepersWait

\* pipeclose() wakes the sleepers of the other end when it shuts one.
LEMMA close_Waits ==
  ASSUME IInv, WInv, NEW p \in Procs, close(p)
  PROVE  WInv'
<1> USE DEF IInv, TypeOK, WInv, close, pipevars
<1>1. \A q \in Procs : pc[q] \notin Locked
  BY PipeAssumption DEF Calls, Procs
<1>2. \A q \in Procs : pc'[q] = IF q # p /\ pc[q] = CloseWake(p) THEN "woken" ELSE pc[q]
  BY DEF Release
<1>3. Sides' /\ ToWait'
  BY <1>1, <1>2 DEF Sides, ToWait, Locked
<1>4. ~ReaderCopies /\ ~WriterWrites
  BY PipeAssumption DEF ReaderCopies, WriterWrites, At, Procs
<1>5. WritersWait'
  <2> SUFFICES ASSUME NEW q \in Procs, pc'[q] = "wsleep"
               PROVE  readopen' /\ Full
    BY DEF WritersWait, Full
  <2>1. pc[q] = "wsleep" /\ q # p
    BY <1>2
  <2>2. ~LastOf(p, Readers)
    BY <1>2, <2>1, PipeAssumption DEF CloseWake, LastOf
  <2> QED  BY <1>4, <2>1, <2>2, ZenonT(60) DEF SleepersWait, WritersWait
<1>6. ReadersWait'
  <2> SUFFICES ASSUME NEW q \in Procs, pc'[q] = "rsleep"
               PROVE  writeopen' /\ (Empty \/ killed \cap Writers # {})
    BY DEF ReadersWait, Empty
  <2>1. pc[q] = "rsleep" /\ q # p
    BY <1>2
  <2>2. ~LastOf(p, Writers)
    BY <1>2, <2>1 DEF CloseWake
  <2> QED  BY <1>4, <2>1, <2>2, ZenonT(60) DEF SleepersWait, ReadersWait
<1> QED  BY <1>3, <1>5, <1>6 DEF SleepersWait

\* kill() only wakes.
LEMMA kill_Waits ==
  ASSUME IInv, WInv, NEW p \in Procs, kill(p)
  PROVE  WInv'
<1> USE DEF IInv, TypeOK, WInv, kill, pipevars, openvars
<1>1. \A q \in Procs : /\ pc'[q] \in {pc[q], "woken"}
                       /\ pc[q] \in Locked => pc'[q] = pc[q]
  BY DEF Locked
<1>2. Sides' /\ ToWait'
  BY <1>1 DEF Sides, ToWait, Empty
<1>3. (ReaderCopies => ReaderCopies') /\ (WriterWrites => WriterWrites')
  BY <1>1 DEF ReaderCopies, WriterWrites, At, Procs, Locked
<1>4. WritersWait'
  BY <1>1, <1>3 DEF SleepersWait, WritersWait, Full
<1>5. ReadersWait'
  BY <1>1, <1>3 DEF SleepersWait, ReadersWait, Empty
<1> QED  BY <1>2, <1>4, <1>5 DEF SleepersWait

\* A step of a call in progress.
LEMMA ContinueWaits ==
  ASSUME IInv, WInv, NEW p \in Procs, Continue(p)
  PROVE  WInv'
<1> USE DEF At
<1>0. (p \in Readers => p \notin Writers) /\ (pc[p] \in Locked => lock = p)
  BY PipeAssumption DEF IInv, Calls
<1>1. CASE write_again(p) \/ read_again(p)
  BY <1>1, AcquireWaits DEF write_again, read_again
<1>2. CASE write_test(p)
  <2>1. p \in Writers
    BY <1>2 DEF write_test, WInv, Sides
  <2>2. CASE Goto(p, "wbody")
    BY <1>2, <2>1, <2>2, GotoWaits DEF write_test, Locked
  <2>3. CASE Release(p, "idle", "rsleep")
    BY <1>2, <2>3, ReleaseWaits DEF write_test
  <2>4. CASE Release(p, "idle", "nobody") /\ (~readopen \/ p \in killed)
    BY <1>2, <2>4, ReleaseWaits DEF write_test
  <2> QED  BY <1>2, <2>2, <2>3, <2>4 DEF write_test
<1>3. CASE write_full(p)
  <2>1. p \in Writers /\ readopen
    BY <1>3 DEF write_full, WInv, Sides, IInv, Calls
  <2> QED  BY <1>3, <2>1, ReleaseWaits DEF write_full, FullWake
<1>4. CASE write_fault(p)
  BY <1>4, ReleaseWaits DEF write_fault
<1>5. CASE read_test(p)
  <2>1. p \in Readers
    BY <1>5 DEF read_test, IInv, Calls
  <2>2. CASE Goto(p, "rcopy")
    BY <1>0, <1>5, <2>1, <2>2, GotoWaits DEF read_test, Locked
  <2>3. CASE Release(p, "idle", "nobody")
    BY <1>0, <1>5, <2>1, <2>3, ReleaseWaits DEF read_test
  <2>4. CASE Goto(p, "rwait") /\ Empty /\ writeopen
    BY <1>0, <1>5, <2>1, <2>4, GotoWaits DEF read_test, Locked
  <2> QED  BY <1>5, <2>2, <2>3, <2>4 DEF read_test
<1>6. CASE read_wait(p)
  <2>1. p \in Readers /\ Empty /\ writeopen
    BY <1>6 DEF read_wait, WInv, ToWait, IInv, Calls
  <2> QED  BY <1>0, <1>6, <2>1, ReleaseWaits DEF read_wait
<1>7. CASE read_done(p)
  <2>1. p \in Readers
    BY <1>7 DEF read_done, IInv, Calls
  <2> QED  BY <1>0, <1>7, <2>1, ReleaseWaits DEF read_done, ReadWake
<1>8. CASE \E v \in Bytes : write_byte(p, v)
  BY <1>8, write_byte_Waits
<1>9. CASE \E fails \in BOOLEAN : read_byte(p, fails)
  BY <1>9, read_byte_Waits
<1> QED  BY <1>1, <1>2, <1>3, <1>4, <1>5, <1>6, <1>7, <1>8, <1>9 DEF Continue

\* Every step keeps the reasons for sleeping.
LEMMA NextWaits == IInv /\ WInv /\ [Next]_vars => WInv'
<1> SUFFICES ASSUME IInv, WInv, [Next]_vars PROVE WInv'
  OBVIOUS
<1>1. CASE UNCHANGED vars
  BY <1>1 DEF vars, pipevars, openvars, WInv, Sides, ToWait, SleepersWait, WritersWait,
              ReadersWait, ReaderCopies, WriterWrites, At, Empty, Full
<1>2. ASSUME NEW p \in Procs, NEW n \in 1..MaxN, pipewrite(p, n) \/ piperead(p, n)
      PROVE  WInv'
  BY <1>2, AcquireWaits DEF pipewrite, piperead
<1> QED  BY <1>1, <1>2, ContinueWaits, close_Waits, kill_Waits DEF Next

\* No wakeup is lost between pipewrite(), piperead() and pipeclose(), for any number
\* of processes: a sleeping writer has a full pipe and readers left, a sleeping
\* reader an empty pipe and writers left, except while somebody who will wake it is
\* at work.  The one gap is the code's: a writer killed after it has put bytes in
\* leaves the loop of pipewrite() without waking the readers.
THEOREM NoLostWakeup == Spec => []SleepersWait
<1>1. IInv /\ WInv => SleepersWait
  BY DEF WInv
<1> QED  BY <1>1, InitWaits, NextWaits, Always, PTL DEF Spec
=============================================================================
