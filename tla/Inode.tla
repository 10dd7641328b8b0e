------------------------------- MODULE Inode --------------------------------
(***************************************************************************)
(* The inode layer and path names of kernel/fs.c, used by several          *)
(* processes at once and over crashes.  Transactions are those AtomicDisk  *)
(* promises and Log implements: what end_op() of the last operation leaves *)
(* is what a reboot finds.                                                 *)
(*                                                                         *)
(* A process executes code, the calls it still has to make: each step      *)
(* takes the first one and may put others in front.  One call is one step  *)
(* unless it can wait in the middle; what is done under an inode's         *)
(* sleep-lock or under itable.lock needs no finer steps.                   *)
(***************************************************************************)
EXTENDS Integers, Sequences, SequencesExt, FiniteSets, FiniteSetsExt

CONSTANTS
  Procs,
  NINODES,   \* inodes on disk, numbered 1..NINODES
  NINODE,    \* entries of itable
  Names,     \* file names other than "." and ".."
  Blocks,    \* data blocks
  EPB        \* directory entries in a block

ROOTINO == 1
Inums == 1..NINODES
Slots == 1..NINODE
AllNames == Names \cup {".", ".."}

VARIABLES
  mem,     \* inodes and bitmap as the running kernel sees them
  disk,    \* the same at the last commit
  active,  \* processes between begin_op() and end_op()
  itab,    \* itable: inum, ref, valid, lock and the copy d of the inode
  code,    \* calls a process has still to make
  res,     \* the table entry last returned to a process, or 0
  cwd,     \* p->cwd
  panic,   \* the message of the panic that stopped the machine
  lost     \* inodes whose links the code no longer counts; see Sysfile

inodevars == <<mem, disk, active, itab, code, res, cwd, panic, lost>>

NoEnts == [n \in AllNames |-> 0]
Dinode(type, nlink) ==
  [type |-> type, nlink |-> nlink, blocks |-> {}, ents |-> NoEnts]
FreeInode == Dinode("free", 0)

\* The empty file system mkfs makes: a root directory with "." and "..".
Mkfs ==
  LET b == CHOOSE b \in Blocks : TRUE IN
  [ino |-> [i \in Inums |->
              IF i # ROOTINO THEN FreeInode
              ELSE [Dinode("dir", 1) EXCEPT
                      !.blocks = {b}, !.ents["."] = ROOTINO, !.ents[".."] = ROOTINO]],
   used |-> {b}]

FreeEntry == [inum |-> 0, ref |-> 0, valid |-> FALSE, lock |-> 0, d |-> FreeInode]

-----------------------------------------------------------------------------
(* Blocks and directory contents, on an image img = [ino, used] *)

\* balloc(): TRUE if a block is left.
BlocksLeft(img) == img.used # Blocks

balloc(img, i) ==
  LET b == CHOOSE b \in Blocks \ img.used : TRUE IN
  [img EXCEPT !.used = @ \cup {b}, !.ino[i].blocks = @ \cup {b}]

\* itrunc(): bfree() of every block of inode i.
itrunc(img, i) ==
  [img EXCEPT !.used = @ \ img.ino[i].blocks, !.ino[i].blocks = {}, !.ino[i].ents = NoEnts]

NumEnts(d) == Cardinality({n \in AllNames : d.ents[n] # 0})

\* The new entry of dirlink() lies in a block the directory does not have.
NeedsBlock(d) == NumEnts(d) = EPB * Cardinality(d.blocks)

CanLink(img, i, n) ==
  /\ img.ino[i].ents[n] = 0
  /\ NeedsBlock(img.ino[i]) => BlocksLeft(img)

\* dirlink() when it succeeds.
dirlink(img, i, n, target) ==
  LET got == IF NeedsBlock(img.ino[i]) THEN balloc(img, i) ELSE img IN
  [got EXCEPT !.ino[i].ents[n] = target]

-----------------------------------------------------------------------------
(* Running a process *)

Doing(p, call) == panic = "none" /\ code[p] # <<>> /\ code[p][1][1] = call
Arg(p, k) == code[p][1][k + 1]

\* The call of p is over; p goes on with calls, then with what it had left.
Then(p, calls) == code' = [code EXCEPT ![p] = calls \o Tail(@)]

Return(p, s) == res' = [res EXCEPT ![p] = s]

Panic(msg) ==
  /\ panic' = msg
  /\ UNCHANGED <<mem, disk, active, itab, code, res, cwd, lost>>

-----------------------------------------------------------------------------
(* The inode table: operators take and return a table tab *)

Entries(tab, i) == {s \in Slots : tab[s].ref > 0 /\ tab[s].inum = i}
EmptySlots(tab) == {s \in Slots : tab[s].ref = 0}
TableFull(tab, i) == Entries(tab, i) = {} /\ EmptySlots(tab) = {}

\* The entry iget() finds or takes for inode i.
EntryFor(tab, i) == IF Entries(tab, i) # {} THEN Min(Entries(tab, i)) ELSE Min(EmptySlots(tab))

Recycled_KeepValid(e, i) == [e EXCEPT !.inum = i, !.ref = 1]

Recycled(e, i) == [e EXCEPT !.inum = i, !.ref = 1, !.valid = FALSE]

\* iget(), when it does not panic.
iget(tab, i) ==
  [tab EXCEPT ![EntryFor(tab, i)] = IF Entries(tab, i) # {} THEN [@ EXCEPT !.ref = @ + 1]
                                    ELSE Recycled(@, i)]

idup(tab, s) == [tab EXCEPT ![s].ref = @ + 1]

\* ref--.  inum and the copy of an entry without users are read by nobody.
Dropped(e) == IF e.ref = 1 THEN [FreeEntry EXCEPT !.valid = e.valid] ELSE [e EXCEPT !.ref = @ - 1]

\* What ilock() finds in the entry, or reads into it.
Content(s) == IF itab[s].valid THEN itab[s].d ELSE mem.ino[itab[s].inum]

\* The inode number that directory s has under name n.
dirlookup(s, n) == Content(s).ents[n]

ilock(p, s) == [itab EXCEPT ![s] = [@ EXCEPT !.lock = p, !.valid = TRUE, !.d = Content(s)]]

iunlock(tab, s) == [tab EXCEPT ![s].lock = 0]

\* iupdate() of the inodes that p has locked.
iupdate(tab, p, img) ==
  [s \in Slots |-> IF tab[s].lock = p THEN [tab[s] EXCEPT !.d = img.ino[tab[s].inum]] ELSE tab[s]]

\* ilock(s) waits for the lock; then comes step A.  What p does up to the next
\* call that waits or looks at the table is part of A, iunlock() included.
Locking(s, A) ==
  IF itab[s].ref < 1 THEN Panic("ilock")
  ELSE /\ itab[s].lock = 0
       /\ IF Content(s).type = "free" THEN Panic("ilock: no type") ELSE A

\* iunlock(s) in a later step than the ilock(s); it is part of A.
Unlocking(p, s, A) == IF itab[s].lock # p \/ itab[s].ref < 1 THEN Panic("iunlock") ELSE A

\* The test of dirlookup() in s, before step A.
LookingUp(s, A) == IF Content(s).type # "dir" THEN Panic("dirlookup not DIR") ELSE A

LastUse_NoRef(e) == e.valid /\ e.d.nlink = 0

\* The test of iput(): nobody else refers to the inode and nothing names it.
LastUse(e) == e.ref = 1 /\ e.valid /\ e.d.nlink = 0

\* Under itable.lock.  If acquiresleep() had to wait here, sched() would panic.
iput(p) ==
  /\ Doing(p, "iput")
  /\ LET s == Arg(p, 1) IN
     IF LastUse(itab[s]) /\ itab[s].lock # 0 THEN Panic("sched locks")
     ELSE /\ IF LastUse(itab[s])
             THEN /\ itab' = [itab EXCEPT ![s].lock = p]
                  /\ Then(p, <<<<"free_inode", s>>>>)
             ELSE /\ itab' = [itab EXCEPT ![s] = Dropped(@)]
                  /\ Then(p, <<>>)
          /\ UNCHANGED <<mem, disk, active, res, cwd, panic, lost>>

\* itrunc(), type = 0, iupdate(): the inode is free on disk, the entry is not.
free_inode(p) ==
  /\ Doing(p, "free_inode")
  /\ LET i == itab[Arg(p, 1)].inum
         img == [itrunc(mem, i) EXCEPT !.ino[i].type = "free"] IN
     IF ~(mem.ino[i].blocks \subseteq mem.used) THEN Panic("freeing free block")
     ELSE /\ mem' = img
          /\ itab' = iupdate(itab, p, img)
          /\ lost' = lost \ {i}
          /\ Then(p, <<<<"free_entry", Arg(p, 1)>>>>)
          /\ UNCHANGED <<disk, active, res, cwd, panic>>

\* valid = 0, releasesleep(); back under itable.lock comes ref--.
free_entry(p) ==
  /\ Doing(p, "free_entry")
  /\ itab' = iunlock([itab EXCEPT ![Arg(p, 1)].valid = FALSE], Arg(p, 1))
  /\ Then(p, <<<<"drop_ref", Arg(p, 1)>>>>)
  /\ UNCHANGED <<mem, disk, active, res, cwd, panic, lost>>

drop_ref(p) ==
  /\ Doing(p, "drop_ref")
  /\ itab' = [itab EXCEPT ![Arg(p, 1)] = Dropped(@)]
  /\ Then(p, <<>>)
  /\ UNCHANGED <<mem, disk, active, res, cwd, panic, lost>>

\* The iunlock() of a lock held over an iput() of another inode.
unlock(p) ==
  /\ Doing(p, "unlock")
  /\ Unlocking(p, Arg(p, 1),
       /\ itab' = iunlock(itab, Arg(p, 1))
       /\ Then(p, <<>>)
       /\ UNCHANGED <<mem, disk, active, res, cwd, panic, lost>>)

-----------------------------------------------------------------------------
(* Path names: sequences of names, beginning with "/" when absolute *)

\* Entry s is reached and rest is left of the path: another round of the loop
\* of namex(), or its end.
Walk(p, s, rest, before, parent) ==
  IF rest # <<>> THEN Then(p, before \o <<<<"step", s, rest, parent>>>>) /\ UNCHANGED res
  ELSE IF parent THEN Then(p, before \o <<<<"iput", s>>>>) /\ Return(p, 0)
  ELSE Then(p, before) /\ Return(p, s)

namex(p) ==
  /\ Doing(p, "namex")
  /\ LET path == Arg(p, 1)
         absolute == path[1] = "/" IN
     IF absolute /\ TableFull(itab, ROOTINO) THEN Panic("iget: no inodes")
     ELSE /\ itab' = IF absolute THEN iget(itab, ROOTINO) ELSE idup(itab, cwd[p])
          /\ Walk(p, IF absolute THEN EntryFor(itab, ROOTINO) ELSE cwd[p],
                  IF absolute THEN Tail(path) ELSE path, <<>>, Arg(p, 2))
          /\ UNCHANGED <<mem, disk, active, cwd, panic, lost>>

\* One round: ilock(), dirlookup() with its iget(), iunlock(), then iput().
step(p) ==
  /\ Doing(p, "step")
  /\ LET s == Arg(p, 1)
         path == Arg(p, 2)
         stop == Arg(p, 3) /\ Len(path) = 1
         tab == iunlock(ilock(p, s), s)
         next == dirlookup(s, path[1]) IN
     Locking(s,
       IF Content(s).type = "dir" /\ ~stop /\ next # 0 /\ TableFull(tab, next)
       THEN Panic("iget: no inodes")
       ELSE /\ IF Content(s).type = "dir" /\ stop
               THEN itab' = tab /\ Then(p, <<>>) /\ Return(p, s)
               ELSE IF Content(s).type # "dir" \/ next = 0
               THEN itab' = tab /\ Then(p, <<<<"iput", s>>>>) /\ Return(p, 0)
               ELSE /\ itab' = iget(tab, next)
                    /\ Walk(p, EntryFor(tab, next), Tail(path), <<<<"iput", s>>>>, Arg(p, 3))
            /\ UNCHANGED <<mem, disk, active, cwd, panic, lost>>)

-----------------------------------------------------------------------------
(* Transactions and crashes *)

begin_op(p) ==
  /\ Doing(p, "begin_op")
  /\ active' = active \cup {p}
  /\ Then(p, <<>>)
  /\ UNCHANGED <<mem, disk, itab, res, cwd, panic, lost>>

Commits_Early(p) == TRUE

Commits(p) == active = {p}

end_op(p) ==
  /\ Doing(p, "end_op")
  /\ active' = active \ {p}
  /\ disk' = IF Commits(p) THEN mem ELSE disk
  /\ Then(p, <<>>)
  /\ Return(p, IF Len(code[p]) = 1 THEN 0 ELSE res[p])
  /\ UNCHANGED <<mem, itab, cwd, panic, lost>>
=============================================================================
