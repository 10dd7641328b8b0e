------------------------------ MODULE Filedata ------------------------------
(***************************************************************************)
(* The contents of files: balloc(), bmap(), itrunc(), readi() and writei() *)
(* of kernel/fs.c, fileread() and filewrite() of kernel/file.c, on images  *)
(* that mkfs/mkfs.c makes.  An inode is locked throughout, so a call is    *)
(* one step.  The buffer cache holds cache, the log has taken note of      *)
(* logged: a change without log_write() goes when the buffer does; so does *)
(* a change of an inode in memory without iupdate().                       *)
(*                                                                         *)
(* A block has BSIZE units and as many block numbers if it is indirect.    *)
(***************************************************************************)
EXTENDS Integers, Sequences, FiniteSets, FiniteSetsExt, SequencesExt

CONSTANTS
  FSSIZE,       \* blocks; block 0 stands for all that is not data
  NDIRECT,
  BSIZE,
  MAXOPBLOCKS,
  Lengths,      \* lengths of the first file that mkfs puts in the image
  Files,        \* numbers of files in the image; a second one is empty
  Counts,       \* numbers of units in a write
  MaxCalls      \* bound on the calls of a behaviour

NINDIRECT == BSIZE
MAXFILE == NDIRECT + NINDIRECT
UINT == 64
BITMAP == -1  \* the block of the bitmap, and that of the inodes
INODES == -2
Blocks == 1..(FSSIZE - 1)
Offsets == 0..(BSIZE - 1)
ROOTINO == 1
Inums == 1..3
FileInums == Inums \ {ROOTINO}

VARIABLES
  fs,    \* used blocks; contents in cache and logged; inodes in memory and
         \* logged; whether log.outstanding > 0; panic
  off,   \* f->off of one of the files open on each inode
  want,  \* values each unit of a file may have
  noted, \* blocks in the transaction of the last write
  calls  \* calls made

vars == <<fs, off, want, noted, calls>>

Zeroes == [k \in Offsets |-> 0]
NoInode == [addrs |-> [k \in 0..NDIRECT |-> 0], size |-> 0]

PanicIn(s, msg) == [s EXCEPT !.panic = msg]

log_write(s, b) ==
  IF ~s.outstanding THEN PanicIn(s, "log_write outside of trans")
  ELSE [s EXCEPT !.note = @ \cup {b},
                 !.logged = IF b \in Blocks THEN [@ EXCEPT ![b] = s.cache[b]] ELSE @]

\* s in a transaction; whether one is outstanding when it is done is not kept.
begin_op(s) == [s EXCEPT !.outstanding = TRUE, !.note = {}]
Done(s) == [s EXCEPT !.outstanding = FALSE, !.note = {}]

-----------------------------------------------------------------------------
(* fs.c.  Operators take the file system s and return it with a result *)

\* balloc(): b is 0 if there is no block.
balloc(s) ==
  IF s.used = Blocks THEN [s |-> s, b |-> 0]
  ELSE LET b == Min(Blocks \ s.used)
           m == log_write([s EXCEPT !.used = @ \cup {b}], BITMAP) IN
       IF m.panic # "none" THEN [s |-> m, b |-> 0]
       ELSE [s |-> log_write([m EXCEPT !.cache[b] = Zeroes], b), b |-> b]

bfree(s, b) ==
  IF b \notin s.used THEN PanicIn(s, "freeing free block")
  ELSE log_write([s EXCEPT !.used = @ \ {b}], BITMAP)

iupdate(s, i) == log_write([s EXCEPT !.dinode[i] = s.ino[i]], INODES)

\* Block r is entered at k of the inode.
InInode(r, i, k) == IF r.b = 0 THEN r ELSE [r EXCEPT !.s.ino[i].addrs[k] = r.b]

\* The block in entry k of the inode, allocated if need be.
Direct(s, i, k) ==
  IF s.ino[i].addrs[k] # 0 THEN [s |-> s, b |-> s.ino[i].addrs[k]]
  ELSE InInode(balloc(s), i, k)

\* Block r is entered at k of the indirect block ind.
Entered(r, ind, k) ==
  IF r.b = 0 THEN r ELSE [r EXCEPT !.s = log_write([r.s EXCEPT !.cache[ind][k] = r.b], ind)]

\* Entry k of the indirect block n.
Indirect(n, k) ==
  IF n.b = 0 THEN n
  ELSE IF n.s.cache[n.b][k] # 0 THEN [n EXCEPT !.b = n.s.cache[n.b][k]]
  ELSE Entered(balloc(n.s), n.b, k)

bmap(s, i, bn) ==
  IF bn < NDIRECT THEN Direct(s, i, bn)
  ELSE IF bn - NDIRECT >= NINDIRECT THEN [s |-> PanicIn(s, "bmap: out of range"), b |-> 0]
  ELSE Indirect(Direct(s, i, NDIRECT), bn - NDIRECT)

Freed(s, bs) == FoldSet(LAMBDA b, acc : bfree(acc, b), s, bs)

itrunc_KeepsIndirect(s, i) ==
  LET direct == {s.ino[i].addrs[k] : k \in 0..(NDIRECT - 1)} \ {0}
      ind == {s.ino[i].addrs[NDIRECT]} \ {0} IN
  iupdate([Freed(s, direct \cup ind) EXCEPT !.ino[i] = NoInode], i)

itrunc(s, i) ==
  LET direct == {s.ino[i].addrs[k] : k \in 0..(NDIRECT - 1)} \ {0}
      ind == s.ino[i].addrs[NDIRECT]
      indirect == IF ind = 0 THEN {} ELSE {s.cache[ind][k] : k \in Offsets} \ {0} IN
  iupdate([Freed(Freed(s, direct \cup indirect), {ind} \ {0}) EXCEPT !.ino[i] = NoInode], i)

Piece(o, n) == Min({n, BSIZE - (o % BSIZE)})

\* The loop of readi(): n units from offset o, all below size.  Of the user's memory,
\* good units can be written; bad says that readi() returns -1.
RECURSIVE ReadLoop(_, _, _, _, _)
ReadLoop(s, i, o, n, good) ==
  LET a == bmap(s, i, o \div BSIZE)
      m == Piece(o, n)
      rest == ReadLoop(a.s, i, o + m, n - m, good - m) IN
  IF n = 0 THEN [s |-> s, got |-> <<>>, bad |-> FALSE]
  ELSE IF a.b = 0 THEN [s |-> a.s, got |-> <<>>, bad |-> FALSE]
  ELSE IF good < m THEN [s |-> a.s, got |-> <<>>, bad |-> TRUE]
  ELSE [rest EXCEPT !.got = [k \in 1..m |-> a.s.cache[a.b][(o % BSIZE) + k - 1]] \o @]

readi(s, i, o, n, good) ==
  LET size == s.ino[i].size IN
  IF o > size \/ (o + n) % UINT < o THEN [s |-> s, got |-> <<>>, bad |-> FALSE]
  ELSE ReadLoop(s, i, o, IF o + n > size THEN size - o ELSE n, good)

\* The loop of writei(): of the n units, good can be read from user memory.
\* A piece with a bad unit is left in the cache as far as it got.
RECURSIVE WriteLoop(_, _, _, _, _, _)
WriteLoop(s, i, o, v, n, good) ==
  LET a == bmap(s, i, o \div BSIZE)
      m == Piece(o, n)
      copied == [a.s EXCEPT !.cache[a.b] =
                   [k \in Offsets |-> IF k \in (o % BSIZE)..((o % BSIZE) + Min({m, good}) - 1)
                                      THEN v ELSE @[k]]] IN
  IF n = 0 THEN [s |-> s, off |-> o]
  ELSE IF a.b = 0 THEN [s |-> a.s, off |-> o]
  ELSE IF good < m THEN [s |-> copied, off |-> o]
  ELSE WriteLoop(log_write(copied, a.b), i, o + m, v, n - m, good - m)

\* The size is raised and the inode logged after the loop of writei() gave r.
Written(r, i, o) ==
  [s |-> iupdate([r.s EXCEPT !.ino[i].size = Max({@, r.off})], i), tot |-> r.off - o]

\* writei(): tot is -1 or the number of units written.
writei(s, i, o, v, n, good) ==
  IF o > s.ino[i].size \/ (o + n) % UINT < o \/ o + n > MAXFILE * BSIZE THEN [s |-> s, tot |-> -1]
  ELSE Written(WriteLoop(s, i, o, v, n, good), i, o)

-----------------------------------------------------------------------------
(* file.c *)

\* A bound for TLC; opening a file to start again does not count.
Running == fs.panic = "none"
Called == Running /\ calls < MaxCalls /\ calls' = calls + 1

MaxPiece_Whole == MAXOPBLOCKS * BSIZE

\* What one transaction of filewrite() may write.
MaxPiece == ((MAXOPBLOCKS - 1 - 1 - 2) \div 2) * BSIZE

\* One transaction of filewrite() gave r; w has the offset, the largest set of
\* blocks a transaction noted, what was written in all, and the units left.
Advanced(w, r, n1) ==
  [s |-> r.s, off |-> w.off + Max({r.tot, 0}), tot |-> w.tot + Max({r.tot, 0}),
   most |-> IF Cardinality(r.s.note) > Cardinality(w.most) THEN r.s.note ELSE w.most,
   left |-> IF r.tot = n1 THEN w.left - n1 ELSE 0, good |-> w.good - n1]

\* The loop of filewrite(); it ends early when writei() writes too little.
RECURSIVE FileWrite(_, _, _)
FileWrite(w, i, v) ==
  LET n1 == Min({w.left, MaxPiece}) IN
  IF w.left = 0 THEN w
  ELSE FileWrite(Advanced(w, writei(begin_op(w.s), i, w.off, v, n1, Min({w.good, n1})), n1),
                 i, v)

\* What the file may hold after n units were asked for, tot written, and the
\* rest of the block that failed perhaps changed in the cache.
Expected(w, o, v, tot, n) ==
  [k \in 1..Max({Len(w), IF tot = 0 THEN 0 ELSE o + tot}) |->
     IF k \in (o + 1)..(o + tot) THEN {v}
     ELSE IF k \in (o + tot + 1)..(o + Min({n, tot + BSIZE})) THEN w[k] \cup {v} ELSE w[k]]

filewrite(i, v, n, good) ==
  /\ Called
  /\ \E r \in {FileWrite([s |-> fs, off |-> off[i], tot |-> 0, most |-> {}, left |-> n,
                          good |-> good], i, v)} :
     /\ fs' = Done(r.s)
     /\ off' = [off EXCEPT ![i] = r.off]
     /\ want' = [want EXCEPT ![i] = Expected(@, off[i], v, r.tot, n)]
     /\ noted' = r.most

\* There is no transaction, but others may have one outstanding.
fileread(i, n, good, outstanding) ==
  /\ Called
  /\ \E r \in {readi([fs EXCEPT !.outstanding = outstanding], i, off[i], n, good)} :
     /\ fs' = Done(r.s)
     /\ off' = [off EXCEPT ![i] = IF r.bad THEN @ ELSE @ + Len(r.got)]
  /\ UNCHANGED want
  /\ noted' = {}

\* sys_open(): with O_TRUNC the file is emptied.  The offset of the file that is opened
\* is 0; when that is another one on the inode, off may then be beyond the end.
open(i, trunc, another) ==
  /\ Running
  /\ IF trunc THEN Called ELSE UNCHANGED calls
  /\ fs' = IF trunc THEN Done(itrunc(begin_op(fs), i)) ELSE fs
  /\ off' = IF another THEN off ELSE [off EXCEPT ![i] = 0]
  /\ want' = IF trunc THEN [want EXCEPT ![i] = <<>>] ELSE want
  /\ noted' = {}

\* The buffer of a block is reused; an unlogged change is forgotten.
evict(b) ==
  /\ Running
  /\ fs.cache[b] # fs.logged[b]
  /\ fs' = [fs EXCEPT !.cache[b] = fs.logged[b]]
  /\ UNCHANGED <<off, want, noted, calls>>

\* The inode's entry in the table was reused; ilock() reads it from the disk again.
ilock(i) ==
  /\ Running
  /\ fs.ino[i] # fs.dinode[i]
  /\ fs' = [fs EXCEPT !.ino[i] = fs.dinode[i]]
  /\ UNCHANGED <<off, want, noted, calls>>

\* panic() never returns.
panic_spin == ~Running /\ UNCHANGED vars

-----------------------------------------------------------------------------
(* mkfs.c: img has inodes, contents and freeblock *)

Mkfs_block(img, i, k) ==
  IF img.ino[i].addrs[k] # 0 THEN img
  ELSE [img EXCEPT !.ino[i].addrs[k] = img.freeblock, !.freeblock = @ + 1]

\* iappend() of one unit v.
iappend(img, i, v) ==
  LET o == img.ino[i].size
      fbn == o \div BSIZE
      k == fbn - NDIRECT
      d == Mkfs_block(img, i, Min({fbn, NDIRECT}))
      ind == d.ino[i].addrs[NDIRECT]
      n == IF fbn < NDIRECT \/ d.cache[ind][k] # 0 THEN d
           ELSE [d EXCEPT !.cache[ind][k] = d.freeblock, !.freeblock = @ + 1]
      x == IF fbn < NDIRECT THEN n.ino[i].addrs[fbn] ELSE n.cache[ind][k] IN
  [n EXCEPT !.cache[x][o % BSIZE] = v, !.ino[i].size = @ + 1]

Appended(img, i, units) == FoldLeft(LAMBDA acc, v : iappend(acc, i, v), img, units)

\* The names in the root directory: ".", ".." and those of the files.
Entries(files) == SubSeq(<<1, 1, 2, 3>>, 1, 2 + files)

\* main(): a root directory, and the files, the first of length len.  The size of the
\* root is rounded to the next block, also when it is a multiple of BSIZE, and balloc()
\* marks what was handed out.
RootSize(size) == (size \div BSIZE + 1) * BSIZE
mkfs(len, files) ==
  LET empty == [cache |-> [b \in Blocks |-> Zeroes], ino |-> [i \in Inums |-> NoInode], freeblock |-> 1]
      img == Appended(Appended(empty, ROOTINO, Entries(files)), 2, [k \in 1..len |-> 2])
      inodes == [img.ino EXCEPT ![ROOTINO].size = RootSize(@)] IN
  [used |-> 1..(img.freeblock - 1), cache |-> img.cache, logged |-> img.cache, note |-> {},
   ino |-> inodes, dinode |-> inodes, outstanding |-> FALSE, panic |-> "none"]

Init ==
  \E len \in Lengths, files \in Files :
    /\ fs = mkfs(len, files)
    /\ off = [i \in Inums |-> 0]
    /\ want = [i \in Inums |->
                 IF i = ROOTINO THEN [k \in 1..fs.ino[i].size |->
                                        {IF k \in DOMAIN Entries(files) THEN Entries(files)[k] ELSE 0}]
                 ELSE [k \in 1..(IF i = 2 THEN len ELSE 0) |-> {2}]]
    /\ noted = {}
    /\ calls = 0

Next ==
  \/ \E i \in FileInums :
       \/ \E n \in Counts : \E good \in {1, n - 1, n} : filewrite(i, 1, n, good)
       \/ \E trunc \in BOOLEAN : \E another \in {FALSE, trunc} : open(i, trunc, another)
  \/ \E i \in Inums, n \in {BSIZE + 1, UINT - 1} : \E good \in {1, n}, outstanding \in BOOLEAN :
       fileread(i, n, good, outstanding)
  \/ \E b \in Blocks : evict(b)
  \/ \E i \in Inums : ilock(i)
  \/ panic_spin

Spec == Init /\ [][Next]_vars

-----------------------------------------------------------------------------
(* Properties *)

Refs(i) ==
  {<<i, k>> : k \in {j \in 0..NDIRECT : fs.ino[i].addrs[j] # 0}}
  \cup (IF fs.ino[i].addrs[NDIRECT] = 0 THEN {}
        ELSE {<<i, NDIRECT + 1 + k>> : k \in {j \in Offsets : fs.cache[fs.ino[i].addrs[NDIRECT]][j] # 0}})
BlockOf(r) ==
  IF r[2] <= NDIRECT THEN fs.ino[r[1]].addrs[r[2]]
  ELSE fs.cache[fs.ino[r[1]].addrs[NDIRECT]][r[2] - NDIRECT - 1]
AllRefs == UNION {Refs(i) : i \in Inums}

\* The names fill the blocks of the root, and mkfs has made it one block longer.
RootTooLong == \A k \in 0..(BSIZE - 1) : want[ROOTINO][Len(want[ROOTINO]) - k] = {0}

\* The bitmap has the blocks that inodes and indirect blocks refer to, each in
\* one place, after writes and truncations that fail half way too, and in the
\* image of mkfs.  Reading a file up to its size gives what was written there,
\* allocates nothing, and finds zeros nowhere else; only where a write failed
\* inside a block may old and new units mix.  Neither calls of another file on
\* the inode nor an inode read again change that.
\*
\* The exception is a root directory whose names fill its blocks.  It reads as it
\* should as long as there are free blocks, but reading its last block allocates
\* it: fileread() panics unless some transaction is outstanding, and the block is
\* lost, marked in the bitmap and in no inode, when the inode is read again.
FilesExact ==
  /\ fs.panic \in {"none"} \cup (IF RootTooLong THEN {"log_write outside of trans"} ELSE {})
  /\ {BlockOf(r) : r \in AllRefs} \subseteq fs.used
  /\ ~RootTooLong => fs.used = {BlockOf(r) : r \in AllRefs}
  /\ Cardinality({BlockOf(r) : r \in AllRefs}) = Cardinality(AllRefs)
  /\ \A i \in Inums :
       \A r \in {readi(begin_op(fs), i, 0, UINT - 1, UINT)} :
       LET exact == i = ROOTINO => ~RootTooLong IN
       /\ exact => r.s = begin_op(fs)
       /\ fs.ino[i].size = Len(want[i])
       /\ Len(r.got) = Len(want[i]) \/ (~exact /\ Len(r.got) = Len(want[i]) - BSIZE)
       /\ \A k \in 1..Len(r.got) : r.got[k] \in want[i][k]

\* One transaction of filewrite() notes no more blocks than begin_op() reserves
\* for it, wherever the write begins and whatever it has to allocate.
WritesFit == Cardinality(noted) <= MAXOPBLOCKS
=============================================================================
