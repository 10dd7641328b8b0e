------------------------------ MODULE Sysfile -------------------------------
(***************************************************************************)
(* The file-system calls of kernel/sysfile.c and the open files of         *)
(* kernel/file.c, on top of Inode.  Each call is a program of calls to the *)
(* layers below, with the error paths of the code; the machine may stop at *)
(* any moment.                                                             *)
(***************************************************************************)
EXTENDS Inode

CONSTANTS
  FirstProc,  \* init: alive after a boot, never exits
  NOFILE,     \* descriptors of a process
  NFILE,      \* entries of ftable
  NPIPE,      \* pages left for pipes
  MAXFILE,    \* blocks of a file
  Workloads   \* workloads: the system calls each process makes, as records

Fds == 0..(NOFILE - 1)
Files == 1..NFILE

VARIABLES
  file,   \* ftable: ref, type, ip and writable of each entry
  ofile,  \* p->ofile: an entry of ftable or 0
  pipes,  \* the ends of each pipe that are open; {} when it is freed
  alive,
  load    \* the workload of this behaviour

filevars == <<file, ofile, pipes, alive, load>>
vars == <<inodevars, filevars>>

NoOpenFiles == [fd \in Fds |-> 0]
ClosedFile == [ref |-> 0, type |-> "none", ip |-> 0, writable |-> FALSE]

\* The kernel after a boot from image img: init runs in the root directory.
Booted(img) ==
  /\ mem' = img /\ disk' = img
  /\ active' = {}
  /\ itab' = [s \in Slots |-> IF s = 1 THEN [FreeEntry EXCEPT !.inum = ROOTINO, !.ref = 1]
                              ELSE FreeEntry]
  /\ code' = [p \in Procs |-> <<>>]
  /\ res' = [p \in Procs |-> 0]
  /\ cwd' = [p \in Procs |-> IF p = FirstProc THEN 1 ELSE 0]
  /\ panic' = "none"
  /\ file' = [f \in Files |-> ClosedFile]
  /\ ofile' = [p \in Procs |-> NoOpenFiles]
  /\ pipes' = [q \in 1..NPIPE |-> {}]
  /\ alive' = {FirstProc}
  /\ UNCHANGED load

Init ==
  /\ mem = Mkfs /\ disk = Mkfs
  /\ active = {}
  /\ itab = [s \in Slots |-> IF s = 1 THEN [FreeEntry EXCEPT !.inum = ROOTINO, !.ref = 1]
                             ELSE FreeEntry]
  /\ code = [p \in Procs |-> <<>>]
  /\ res = [p \in Procs |-> 0]
  /\ cwd = [p \in Procs |-> IF p = FirstProc THEN 1 ELSE 0]
  /\ panic = "none"
  /\ lost = {}
  /\ file = [f \in Files |-> ClosedFile]
  /\ ofile = [p \in Procs |-> NoOpenFiles]
  /\ pipes = [q \in 1..NPIPE |-> {}]
  /\ alive = {FirstProc}
  /\ load \in Workloads

Allocated(img) == {i \in Inums : img.ino[i].type # "free"}

\* Power failure, and recovery from the log: nobody refers any more to what
\* was open, and nothing looks for files without a name.
Crash ==
  /\ Booted(disk)
  /\ lost' = {i \in Allocated(disk) : i \in lost \/ disk.ino[i].nlink = 0}

-----------------------------------------------------------------------------
(* Descriptors and open files *)

FreeFds(p) == {fd \in Fds : ofile[p][fd] = 0}
FreeFiles == {f \in Files : file[f].ref = 0}

\* fdalloc()
WithFd(p, f) == [ofile EXCEPT ![p][Min(FreeFds(p))] = f]

Transaction(calls) == <<<<"begin_op">>>> \o calls \o <<<<"end_op">>>>

Closed_KeepType(e) == [e EXCEPT !.ref = 0]

\* Nobody reads ip and writable of an entry that is not in use.
Closed(e) == ClosedFile

fileclose(p) ==
  /\ Doing(p, "fileclose")
  /\ LET f == Arg(p, 1)
         last == file[f].ref = 1 IN
     IF file[f].ref < 1 THEN Panic("fileclose") /\ UNCHANGED <<file, pipes>>
     ELSE /\ file' = [file EXCEPT ![f] = IF last THEN Closed(@) ELSE [@ EXCEPT !.ref = @ - 1]]
          /\ pipes' = IF last /\ file[f].type = "pipe"
                      THEN [pipes EXCEPT ![file[f].ip] = @ \ {file[f].writable}]
                      ELSE pipes
          /\ Then(p, IF last /\ file[f].type \in {"inode", "device"}
                     THEN Transaction(<<<<"iput", file[f].ip>>>>) ELSE <<>>)
          /\ UNCHANGED <<mem, disk, active, itab, res, cwd, panic, lost>>
  /\ UNCHANGED <<ofile, alive, load>>

close_fd(p) ==
  /\ Doing(p, "close_fd")
  /\ ofile' = [ofile EXCEPT ![p][Arg(p, 1)] = 0]
  /\ Then(p, <<<<"fileclose", ofile[p][Arg(p, 1)]>>>>)
  /\ UNCHANGED <<mem, disk, active, itab, res, cwd, panic, lost, file, pipes, alive, load>>

\* p starts a system call.
Idle(p) == p \in alive /\ code[p] = <<>> /\ panic = "none"
Call(p, calls) ==
  /\ code' = [code EXCEPT ![p] = calls]
  /\ res' = [res EXCEPT ![p] = 0]
  /\ UNCHANGED <<mem, disk, active, itab, cwd, panic, lost>>

OpenFds(p) == Fds \ FreeFds(p)

sys_dup(p, fd) ==
  /\ Idle(p) /\ fd \in OpenFds(p)
  /\ FreeFds(p) # {}
  /\ ofile' = WithFd(p, ofile[p][fd])
  /\ file' = [file EXCEPT ![ofile[p][fd]].ref = @ + 1]
  /\ UNCHANGED <<inodevars, pipes, alive, load>>

sys_close(p, fd) ==
  /\ Idle(p) /\ fd \in OpenFds(p)
  /\ Call(p, <<<<"close_fd", fd>>>>)
  /\ UNCHANGED filevars

\* A file is opened to be read or to be written, not both.  filewrite() to an
\* inode, one transaction for each piece; fileread() and filestat() lock it.
sys_write(p, fd) ==
  /\ Idle(p) /\ fd \in OpenFds(p)
  /\ LET f == file[ofile[p][fd]] IN
     /\ f.type = "inode" /\ f.writable
     /\ Call(p, Transaction(<<<<"writei", f.ip>>>>))
  /\ UNCHANGED filevars

sys_read(p, fd) ==
  /\ Idle(p) /\ fd \in OpenFds(p)
  /\ LET f == file[ofile[p][fd]] IN
     /\ f.type = "inode" /\ ~f.writable
     /\ Call(p, <<<<"readi", f.ip>>>>)
  /\ UNCHANGED filevars

sys_fstat(p, fd) ==
  /\ Idle(p) /\ fd \in OpenFds(p)
  /\ LET f == file[ofile[p][fd]] IN
     /\ f.type \in {"inode", "device"}
     /\ Call(p, <<<<"readi", f.ip>>>>)
  /\ UNCHANGED filevars

\* pipealloc(), two fdalloc()s and the two copyout()s.  Returns early, with
\* everything given back, when one of them fails.
sys_pipe(p) ==
  /\ Idle(p)
  /\ \E f0, f1 \in FreeFiles, q \in 1..NPIPE :
       /\ f0 = Min(FreeFiles) /\ f1 # f0 /\ f1 = Min(FreeFiles \ {f0})
       /\ pipes[q] = {}
       /\ pipes' = [pipes EXCEPT ![q] = {FALSE, TRUE}]
       /\ LET end(w) == [ref |-> 1, type |-> "pipe", ip |-> q, writable |-> w]
              closes == <<<<"fileclose", f0>>, <<"fileclose", f1>>>> IN
          /\ file' = [file EXCEPT ![f0] = end(FALSE), ![f1] = end(TRUE)]
          /\ \/ /\ Cardinality(FreeFds(p)) >= 2
                /\ LET fd0 == Min(FreeFds(p)) IN
                   ofile' = [ofile EXCEPT ![p][fd0] = f0,
                                          ![p][Min(FreeFds(p) \ {fd0})] = f1]
                /\ UNCHANGED inodevars
             \/ /\ UNCHANGED ofile
                /\ Call(p, closes)
  /\ UNCHANGED <<alive, load>>

-----------------------------------------------------------------------------
(* Calls that name files.  A call without result continues with res = 0. *)

sys_open(c) ==
  LET creates == c.call = "create" IN
  Transaction(<<<<"namex", c.path, creates>>,
                IF creates THEN <<"create", Last(c.path), "file">> ELSE <<"open_found", c.writable>>,
                <<"open_file", c.writable, c.trunc>>>>)

Makes(path, type) ==
  Transaction(<<<<"namex", path, TRUE>>, <<"create", Last(path), type>>, <<"made">>>>)
sys_mkdir(c) == Makes(c.path, "dir")
sys_mknod(c) == Makes(c.path, c.type)

sys_unlink(c) == Transaction(<<<<"namex", c.path, TRUE>>, <<"unlink", Last(c.path)>>>>)
sys_link(c) == Transaction(<<<<"namex", c.old, FALSE>>, <<"link", c.path>>>>)
sys_chdir(c) == Transaction(<<<<"namex", c.path, FALSE>>, <<"chdir">>>>) \o <<<<"set_cwd">>>>
sys_exec(c) == Transaction(<<<<"namex", c.path, FALSE>>, <<"exec_load">>>>)

PathCalls == {"open", "create", "mkdir", "mknod", "unlink", "link", "chdir", "exec"}

syscalls(c) ==
  CASE c.call \in {"open", "create"} -> sys_open(c)
    [] c.call = "mkdir"  -> sys_mkdir(c)
    [] c.call = "mknod"  -> sys_mknod(c)
    [] c.call = "unlink" -> sys_unlink(c)
    [] c.call = "link"   -> sys_link(c)
    [] c.call = "chdir"  -> sys_chdir(c)
    [] c.call = "exec"   -> sys_exec(c)

syscall(p, c) == Idle(p) /\ Call(p, syscalls(c))

\* The step leaves these alone; the table and the image become tab and img.
Becomes(tab, img) ==
  /\ itab' = tab /\ mem' = img
  /\ UNCHANGED <<disk, active, cwd, panic>>

\* The inode that a path named, when there is one, is locked first.
LockingFound(p, A) ==
  IF res[p] # 0 THEN Locking(res[p], A)
  ELSE Then(p, <<>>) /\ Becomes(itab, mem) /\ UNCHANGED <<res, lost>>

\* What fileread() and filestat() do with the inode.
readi(p) ==
  /\ Doing(p, "readi")
  /\ LET s == Arg(p, 1) IN
     Locking(s, /\ Becomes(iunlock(ilock(p, s), s), mem)
                /\ Then(p, <<>>) /\ UNCHANGED <<res, lost>>)

\* The next piece needs a block; writei() stops early if there is none.
writei(p) ==
  /\ Doing(p, "writei")
  /\ LET s == Arg(p, 1)
         i == itab[s].inum
         grows == Cardinality(mem.ino[i].blocks) < MAXFILE /\ BlocksLeft(mem)
         img == IF grows THEN balloc(mem, i) ELSE mem IN
     Locking(s, /\ Becomes(iunlock(iupdate(ilock(p, s), p, img), s), img)
                /\ Then(p, <<>>) /\ UNCHANGED <<res, lost>>)

\* A directory is opened for reading only.
open_found(p) ==
  /\ Doing(p, "open_found")
  /\ LET s == res[p] IN
     LockingFound(p,
       /\ IF Content(s).type = "dir" /\ Arg(p, 1)
          THEN /\ Becomes(iunlock(ilock(p, s), s), mem)
               /\ Then(p, <<<<"iput", s>>>>) /\ Return(p, 0)
          ELSE Becomes(ilock(p, s), mem) /\ Then(p, <<>>) /\ UNCHANGED res
       /\ UNCHANGED lost)

\* The rest of sys_open(), with the inode locked.
open_file(p) ==
  /\ Doing(p, "open_file")
  /\ LET s == res[p]
         d == itab[s].d
         f == Min(FreeFiles)
         img == IF Arg(p, 2) /\ d.type = "file" THEN itrunc(mem, itab[s].inum) ELSE mem IN
     \/ /\ s = 0
        /\ Then(p, <<>>) /\ Becomes(itab, mem)
        /\ UNCHANGED <<file, ofile>>
     \/ /\ s # 0 /\ (d.type = "bad device" \/ FreeFiles = {})
        /\ Unlocking(p, s, Then(p, <<<<"iput", s>>>>) /\ Becomes(iunlock(itab, s), mem))
        /\ UNCHANGED <<file, ofile>>
     \/ /\ s # 0 /\ d.type # "bad device" /\ FreeFiles # {} /\ FreeFds(p) = {}
        /\ file' = [file EXCEPT ![f].ref = 1]
        /\ Then(p, <<<<"fileclose", f>>, <<"unlock", s>>, <<"iput", s>>>>) /\ Becomes(itab, mem)
        /\ UNCHANGED ofile
     \/ /\ s # 0 /\ d.type # "bad device" /\ FreeFiles # {} /\ FreeFds(p) # {}
        /\ file' = [file EXCEPT ![f] =
                      [ref |-> 1, type |-> IF d.type = "device" THEN "device" ELSE "inode",
                       ip |-> s, writable |-> Arg(p, 1)]]
        /\ ofile' = WithFd(p, f)
        /\ Unlocking(p, s, Then(p, <<>>) /\ Becomes(iunlock(iupdate(itab, p, img), s), img))
  /\ UNCHANGED <<lost, res, pipes, alive, load>>

FreeInums == Inums \ Allocated(mem)

\* create() in the directory found: dirlookup(), or ialloc() with its iget().
create(p) ==
  /\ Doing(p, "create")
  /\ LET dp == res[p]
         tab == ilock(p, dp)
         found == dirlookup(dp, Arg(p, 1))
         new == IF found # 0 THEN found ELSE Min(FreeInums) IN
     LockingFound(p, LookingUp(dp,
       IF found = 0 /\ FreeInums = {}
       THEN /\ Becomes(iunlock(tab, dp), mem)
            /\ Then(p, <<<<"iput", dp>>>>) /\ Return(p, 0)
            /\ UNCHANGED lost
       ELSE IF TableFull(tab, new) THEN Panic("iget: no inodes")
       ELSE IF found # 0
       THEN /\ Becomes(iget(iunlock(tab, dp), new), mem)
            /\ Then(p, <<<<"iput", dp>>, <<"created", EntryFor(tab, new), Arg(p, 2)>>>>)
            /\ UNCHANGED <<res, lost>>
       ELSE /\ Becomes(iget(tab, new), [mem EXCEPT !.ino[new] = Dinode(Arg(p, 2), 0)])
            /\ Then(p, <<<<"create_link", EntryFor(tab, new), dp, Arg(p, 1), Arg(p, 2)>>>>)
            /\ lost' = lost \ {new}
            /\ UNCHANGED res))

\* An existing file is what create() returns for T_FILE.
created(p) ==
  /\ Doing(p, "created")
  /\ LET s == Arg(p, 1) IN
     Locking(s,
       /\ IF Arg(p, 2) = "file" /\ Content(s).type # "dir"
          THEN Becomes(ilock(p, s), mem) /\ Then(p, <<>>) /\ Return(p, s)
          ELSE /\ Becomes(iunlock(ilock(p, s), s), mem)
               /\ Then(p, <<<<"iput", s>>>>) /\ Return(p, 0)
       /\ UNCHANGED lost)

\* A name added to a directory that has none itself is in no count of links
\* once that directory goes.
Forgotten(dp, ip) == IF Content(dp).nlink = 0 THEN {itab[dp].inum, itab[ip].inum} ELSE {}

\* dp->nlink++ for the ".." of a new directory.
ParentLinks(img, i, type) == IF type = "dir" THEN [img EXCEPT !.ino[i].nlink = @ + 1] ELSE img

\* Both inodes are locked: nlink = 1, "." and "..", the name in dp.
create_link(p) ==
  /\ Doing(p, "create_link")
  /\ LET ip == Arg(p, 1)  dp == Arg(p, 2)  n == Arg(p, 3)  type == Arg(p, 4)
         i == itab[ip].inum  d == itab[dp].inum
         one == [mem EXCEPT !.ino[i].nlink = 1]
         dots == IF type = "dir" /\ BlocksLeft(one)
                 THEN dirlink(dirlink(one, i, ".", i), i, "..", d) ELSE one
         ok == (type = "dir" => BlocksLeft(one)) /\ CanLink(dots, d, n)
         img == IF ok THEN ParentLinks(dirlink(dots, d, n, i), d, type)
                ELSE [dots EXCEPT !.ino[i].nlink = 0]
         tab == iupdate(ilock(p, ip), p, img) IN
     Locking(ip,
       IF ok
       THEN Unlocking(p, dp,
              /\ Becomes(iunlock(tab, dp), img)
              /\ Then(p, <<<<"iput", dp>>>>) /\ Return(p, ip)
              /\ lost' = lost \cup Forgotten(dp, ip))
       ELSE /\ Becomes(iunlock(tab, ip), img)
            /\ Then(p, <<<<"iput", ip>>, <<"unlock", dp>>, <<"iput", dp>>>>) /\ Return(p, 0)
            /\ UNCHANGED lost)

\* The end of sys_mkdir() and sys_mknod().
made(p) ==
  /\ Doing(p, "made")
  /\ IF res[p] = 0 THEN Then(p, <<>>) /\ Becomes(itab, mem)
     ELSE Unlocking(p, res[p], Then(p, <<<<"iput", res[p]>>>>) /\ Becomes(iunlock(itab, res[p]), mem))
  /\ UNCHANGED <<res, lost>>

Unlinkable_Any(n) == TRUE

Unlinkable(n) == n \notin {".", ".."}

\* nameiparent() has found dp: lock it and look the name up.
unlink(p) ==
  /\ Doing(p, "unlink")
  /\ LET dp == res[p]
         tab == ilock(p, dp)
         found == dirlookup(dp, Arg(p, 1)) IN
     LockingFound(p,
       IF Unlinkable(Arg(p, 1)) /\ Content(dp).type # "dir" THEN Panic("dirlookup not DIR")
       ELSE IF ~Unlinkable(Arg(p, 1)) \/ found = 0
       THEN /\ Becomes(iunlock(tab, dp), mem)
            /\ Then(p, <<<<"iput", dp>>>>) /\ UNCHANGED <<res, lost>>
       ELSE IF TableFull(tab, found) THEN Panic("iget: no inodes")
       ELSE /\ Becomes(iget(tab, found), mem)
            /\ Then(p, <<<<"unlink_entry", EntryFor(tab, found), dp, Arg(p, 1)>>>>)
            /\ UNCHANGED <<res, lost>>)

isdirempty(d) == \A n \in Names : d.ents[n] = 0

\* With dp and ip locked the entry is cleared.
unlink_entry(p) ==
  /\ Doing(p, "unlink_entry")
  /\ LET ip == Arg(p, 1)  dp == Arg(p, 2)
         tab == ilock(p, ip)
         isdir == Content(ip).type = "dir"
         img == [mem EXCEPT !.ino[itab[dp].inum].ents[Arg(p, 3)] = 0,
                            !.ino[itab[dp].inum].nlink = IF isdir THEN @ - 1 ELSE @] IN
     Locking(ip,
       IF Content(ip).nlink < 1 THEN Panic("unlink: nlink < 1")
       ELSE /\ IF isdir /\ ~isdirempty(Content(ip))
               THEN /\ Becomes(iunlock(tab, ip), mem)
                    /\ Then(p, <<<<"iput", ip>>, <<"unlock", dp>>, <<"iput", dp>>>>)
               ELSE Unlocking(p, dp, /\ Becomes(iunlock(iupdate(tab, p, img), dp), img)
                                     /\ Then(p, <<<<"iput", dp>>, <<"unlinked", ip>>>>))
            /\ UNCHANGED <<res, lost>>)

Counted(i, n) == [mem EXCEPT !.ino[i].nlink = @ + n]

\* ip->nlink--, iupdate(ip), iunlockput(ip).
unlinked(p) ==
  /\ Doing(p, "unlinked")
  /\ LET ip == Arg(p, 1)
         img == Counted(itab[ip].inum, -1) IN
     Unlocking(p, ip, Becomes(iunlock(iupdate(itab, p, img), ip), img) /\ Then(p, <<<<"iput", ip>>>>))
  /\ UNCHANGED <<res, lost>>

\* namei(old) has found ip.  The link is counted before it is made.
link(p) ==
  /\ Doing(p, "link")
  /\ LET ip == res[p]
         img == IF Content(ip).type = "dir" THEN mem ELSE Counted(itab[ip].inum, 1) IN
     LockingFound(p,
       /\ Becomes(iunlock(iupdate(ilock(p, ip), p, img), ip), img)
       /\ Then(p, IF Content(ip).type = "dir" THEN <<<<"iput", ip>>>>
                  ELSE <<<<"namex", Arg(p, 1), TRUE>>, <<"link_in", ip, Last(Arg(p, 1))>>>>)
       /\ UNCHANGED <<res, lost>>)

\* The label bad of sys_link().
link_bad(p) ==
  /\ Doing(p, "link_bad")
  /\ LET ip == Arg(p, 1)
         img == Counted(itab[ip].inum, -1) IN
     Locking(ip, /\ Becomes(iunlock(iupdate(ilock(p, ip), p, img), ip), img)
                 /\ Then(p, <<<<"iput", ip>>>>)
                 /\ UNCHANGED <<res, lost>>)

\* dirlink(dp, name, ip->inum); a name that is there is looked up and put back.
link_in(p) ==
  /\ Doing(p, "link_in")
  /\ LET dp == res[p]  ip == Arg(p, 1)  n == Arg(p, 2)
         tab == ilock(p, dp)
         found == dirlookup(dp, n)
         d == itab[dp].inum
         img == dirlink(mem, d, n, itab[ip].inum) IN
     IF dp = 0
     THEN Then(p, <<<<"link_bad", ip>>>>) /\ Becomes(itab, mem) /\ UNCHANGED <<res, lost>>
     ELSE Locking(dp, LookingUp(dp,
       IF found # 0 /\ TableFull(tab, found) THEN Panic("iget: no inodes")
       ELSE /\ IF found # 0
               THEN /\ Becomes(iget(tab, found), mem)
                    /\ Then(p, <<<<"iput", EntryFor(tab, found)>>, <<"unlock", dp>>,
                                 <<"iput", dp>>, <<"link_bad", ip>>>>)
                    /\ UNCHANGED lost
               ELSE IF CanLink(mem, d, n)
               THEN /\ Becomes(iunlock(iupdate(tab, p, img), dp), img)
                    /\ Then(p, <<<<"iput", dp>>, <<"iput", ip>>>>)
                    /\ lost' = lost \cup Forgotten(dp, ip)
               ELSE /\ Becomes(iunlock(tab, dp), mem)
                    /\ Then(p, <<<<"iput", dp>>, <<"link_bad", ip>>>>)
                    /\ UNCHANGED lost
            /\ UNCHANGED res))

chdir(p) ==
  /\ Doing(p, "chdir")
  /\ LET s == res[p] IN
     LockingFound(p,
       /\ Becomes(iunlock(ilock(p, s), s), mem)
       /\ IF Content(s).type = "dir" THEN Then(p, <<<<"iput", cwd[p]>>>>) /\ UNCHANGED res
          ELSE Then(p, <<<<"iput", s>>>>) /\ Return(p, 0)
       /\ UNCHANGED lost)

\* p->cwd = ip, after end_op().
set_cwd(p) ==
  /\ Doing(p, "set_cwd")
  /\ cwd' = [cwd EXCEPT ![p] = IF res[p] = 0 THEN @ ELSE res[p]]
  /\ Return(p, 0)
  /\ Then(p, <<>>)
  /\ UNCHANGED <<mem, disk, active, itab, panic, lost>>

\* exec() reads the program with its inode locked; Vm has what it makes of it.
exec_load(p) ==
  /\ Doing(p, "exec_load")
  /\ LET s == res[p] IN
     LockingFound(p,
       /\ Becomes(iunlock(ilock(p, s), s), mem)
       /\ Then(p, <<<<"iput", s>>>>) /\ Return(p, 0)
       /\ UNCHANGED lost)

-----------------------------------------------------------------------------
(* Processes come and go with their descriptors and directory *)

fork(p, q) ==
  /\ Idle(p) /\ q \notin alive
  /\ alive' = alive \cup {q}
  /\ ofile' = [ofile EXCEPT ![q] = ofile[p]]
  /\ file' = [f \in Files |->
                [file[f] EXCEPT !.ref = @ + Cardinality({fd \in Fds : ofile[p][fd] = f})]]
  /\ itab' = idup(itab, cwd[p])
  /\ cwd' = [cwd EXCEPT ![q] = cwd[p]]
  /\ UNCHANGED <<mem, disk, active, code, res, panic, lost, pipes, load>>

exit(p) ==
  /\ Idle(p) /\ p # FirstProc
  /\ Call(p, [k \in 1..Cardinality(OpenFds(p)) |->
                 <<"close_fd", SetToSortSeq(OpenFds(p), LAMBDA x, y : x < y)[k]>>]
             \o Transaction(<<<<"iput", cwd[p]>>>>) \o <<<<"exited">>>>)
  /\ UNCHANGED filevars

exited(p) ==
  /\ Doing(p, "exited")
  /\ alive' = alive \ {p}
  /\ cwd' = [cwd EXCEPT ![p] = 0]
  /\ Then(p, <<>>)
  /\ UNCHANGED <<mem, disk, active, itab, res, panic, lost, file, ofile, pipes, load>>

\* for(;;) of panic()
panic_spin == panic # "none" /\ UNCHANGED vars

\* What p does next, apart from the steps that change open files.
InodeStep(p) ==
  \/ begin_op(p) \/ end_op(p)
  \/ iput(p) \/ free_inode(p) \/ free_entry(p) \/ drop_ref(p) \/ unlock(p)
  \/ namex(p) \/ step(p)
  \/ readi(p) \/ writei(p) \/ open_found(p)
  \/ create(p) \/ created(p) \/ create_link(p) \/ made(p)
  \/ unlink(p) \/ unlink_entry(p) \/ unlinked(p)
  \/ link(p) \/ link_in(p) \/ link_bad(p)
  \/ chdir(p) \/ set_cwd(p) \/ exec_load(p)

SystemCall(p, c) ==
  \/ c.call \in PathCalls /\ syscall(p, c) /\ UNCHANGED filevars
  \/ c.call = "dup" /\ sys_dup(p, c.fd)
  \/ c.call = "close" /\ sys_close(p, c.fd)
  \/ c.call = "write" /\ sys_write(p, c.fd)
  \/ c.call = "read" /\ sys_read(p, c.fd)
  \/ c.call = "fstat" /\ sys_fstat(p, c.fd)
  \/ c.call = "pipe" /\ sys_pipe(p)
  \/ c.call = "fork" /\ \E q \in Procs : fork(p, q)
  \/ c.call = "exit" /\ exit(p)

Next ==
  \/ \E p \in Procs :
       \/ InodeStep(p) /\ UNCHANGED filevars
       \/ \E c \in load[p] : SystemCall(p, c)
       \/ fileclose(p) \/ close_fd(p) \/ open_file(p) \/ exited(p)
  \/ Crash
  \/ panic_spin

Spec == Init /\ [][Next]_vars

-----------------------------------------------------------------------------
(* Properties *)

Quiet == panic = "none" /\ \A p \in Procs : code[p] = <<>>

Occurs(i) ==
  {<<j, n>> \in Allocated(mem) \X AllNames :
     /\ mem.ino[j].type = "dir" /\ mem.ino[j].ents[n] = i
     /\ n # "." /\ ~(n = ".." /\ (j = i \/ mem.ino[j].nlink = 0))}

\* Between transactions, and so after every crash, a name in the tree refers to
\* an inode in use, and nlink counts the names of an inode: unlink(), link(),
\* create() and iput() change both in one transaction, also when they fail half
\* way.  An inode without a name is in use by somebody and goes with its last
\* user.  Left out are lost inodes: files open without a name when the machine
\* stopped, and those linked into a directory that was itself removed.
LinksExact ==
  active = {} /\ panic = "none" =>
    \A i \in Inums \ lost :
      /\ Cardinality(Occurs(i)) = mem.ino[i].nlink - (IF i = ROOTINO THEN 1 ELSE 0)
      /\ mem.ino[i].type # "free" /\ mem.ino[i].nlink = 0 => Entries(itab, i) # {}

\* iget() keeps one entry for an inode in use.  A valid entry that nobody has
\* locked holds what the disk has, through reuse of entries and of inode
\* numbers: this is what a process relies on that locks it without reading.
EntryCurrent ==
  \A s \in Slots : itab[s].ref > 0 =>
    /\ Entries(itab, itab[s].inum) = {s}
    /\ itab[s].valid /\ itab[s].lock = 0 => itab[s].d = mem.ino[itab[s].inum]

Refs(s) ==
  Cardinality({p \in alive : cwd[p] = s})
  + Cardinality({f \in Files : /\ file[f].ref > 0 /\ file[f].type \in {"inode", "device"}
                               /\ file[f].ip = s})

\* When no call is in progress everything taken on any path, error paths
\* included, has been given back: inode references are those of open files and
\* directories, file references those of descriptors, pipes those of files,
\* blocks those of inodes, and no lock is held.
NothingHeld ==
  Quiet =>
    /\ \A s \in Slots : itab[s].ref = Refs(s) /\ itab[s].lock = 0
    /\ \A f \in Files :
         file[f].ref = Cardinality({<<p, fd>> \in alive \X Fds : ofile[p][fd] = f})
    /\ \A q \in 1..NPIPE, w \in BOOLEAN :
         w \in pipes[q] <=>
           \E f \in Files : /\ file[f].ref > 0 /\ file[f].type = "pipe"
                            /\ file[f].ip = q /\ file[f].writable = w
    /\ mem.used = UNION {mem.ino[i].blocks : i \in Inums}
    /\ \A i, j \in Inums : i # j => mem.ino[i].blocks \cap mem.ino[j].blocks = {}

Holds(p) == {s \in Slots : itab[s].lock = p}

\* The entry whose lock the next step of p needs, or 0.
Wants(p) ==
  IF code[p] = <<>> THEN 0
  ELSE IF code[p][1][1] \in {"step", "readi", "writei", "created", "create_link",
                             "unlink_entry", "link_bad"} THEN Arg(p, 1)
  ELSE IF code[p][1][1] \in {"open_found", "create", "unlink", "link", "link_in",
                             "chdir", "exec_load"}
  THEN res[p]
  ELSE 0
WaitsFor(p, q) == Wants(p) # 0 /\ itab[Wants(p)].lock = q

\* Nobody waits in a circle for inode locks: unlink() locks parent before child,
\* lookups hold one lock at a time, "." and ".." included.  And no process
\* begins a transaction while it holds a lock or is inside another, as the end
\* of the earlier ones may depend on it.
NoCircularWait ==
  /\ \A p, q \in Procs : WaitsFor(p, q) => p # q /\ ~WaitsFor(q, p)
  /\ \A p \in Procs : Doing(p, "begin_op") => p \notin active /\ Holds(p) = {}

\* Of the panics of fs.c and sysfile.c only one is reached, by following ".." out of
\* a removed directory whose parent was removed too: ilock() then meets a free inode.
\* (An inode table that is full panics too; it is given an entry for every inode.)
PanicsOnlyAboveRemoved ==
  panic # "none" =>
    /\ panic = "ilock: no type"
    /\ \E p \in alive : itab[cwd[p]].d.nlink = 0
=============================================================================
