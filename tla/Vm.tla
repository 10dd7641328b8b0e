--------------------------------- MODULE Vm ---------------------------------
(***************************************************************************)
(* Physical pages and user page tables: kernel/kalloc.c, kernel/vm.c,      *)
(* kernel/exec.c and the parts of kernel/proc.c that own memory.  Page     *)
(* tables keep their three levels but have two entries, and a page has     *)
(* four units; addresses wrap at ADDR.                                     *)
(*                                                                         *)
(* A page table belongs to one process, so a system call is one step.      *)
(* Others hold any number of pages, so an allocation fails anywhere.       *)
(* Operators take the memory m and return it, with a result, in a record.  *)
(***************************************************************************)
EXTENDS Integers, Sequences, FiniteSets, FiniteSetsExt, SequencesExt

CONSTANTS
  Procs,
  FirstProc,
  NPAGE,     \* pages kinit() frees
  MaxHeld,   \* most pages that others hold
  Programs,  \* programs exec() may be asked to load
  Grows,     \* arguments of sbrk()
  MaxCalls   \* bound on the calls that count

PGSIZE == 4
MAXVA == 8 * PGSIZE
ADDR == 4 * MAXVA
TRAMPOLINE == MAXVA - PGSIZE
TRAPFRAME == TRAMPOLINE - PGSIZE
USERSTACK == 1
ALIGN == 2
Pages == 1..NPAGE
Units == 0..(PGSIZE - 1)
trampoline == NPAGE + 1

VARIABLES
  km,    \* free pages, entries of table pages, contents of others, panic
  proc,  \* trapframe, pagetable and sz of each process
  held,  \* pages that pipes and the like have
  ret    \* the last call: who made it, which, whether it succeeded, and its number

vars == <<km, proc, held, ret>>

PGROUNDDOWN(a) == a - (a % PGSIZE)
PGROUNDUP(a) == PGROUNDDOWN(a + PGSIZE - 1)
PX(level, va) == (va \div (PGSIZE * 2^level)) % 2

NoPte == [pa |-> 0, perm |-> {}]
NoEntries == [i \in 0..1 |-> NoPte]
JunkEntries == [i \in 0..1 |-> [pa |-> -1, perm |-> {"W"}]]
Fill(v) == [u \in Units |-> v]

\* A page full of junk, read as a page table or as data.
Junk(m, pa) == [m EXCEPT !.pt[pa] = JunkEntries, !.data[pa] = Fill("junk")]

\* The entries of a table; an address from junk leads to more junk.
Entries(m, table) == IF table \in Pages THEN m.pt[table] ELSE JunkEntries

-----------------------------------------------------------------------------
(* kalloc.c *)

kalloc(m) ==
  IF m.free = {} THEN [m |-> m, pa |-> 0]
  ELSE [m |-> Junk([m EXCEPT !.free = @ \ {Min(m.free)}], Min(m.free)), pa |-> Min(m.free)]

PanicIn(m, msg) == [m EXCEPT !.panic = msg]

\* kfree() does not notice a page that is free already; here it shows.
kfree(m, pa) ==
  IF pa \notin Pages \/ pa \in m.free THEN PanicIn(m, "kfree")
  ELSE Junk([m EXCEPT !.free = @ \cup {pa}], pa)

-----------------------------------------------------------------------------
(* Page tables *)

\* A page for a table, with no entry valid: pa is 0 if there is none.
Zeroed(k) == IF k.pa = 0 THEN k ELSE [k EXCEPT !.m.pt[k.pa] = NoEntries]
TablePage(m) == Zeroed(kalloc(m))

uvmcreate(m) == TablePage(m)

\* The new page k is entry i of the table.
Hung(k, table, i) == IF k.pa = 0 THEN k ELSE [k EXCEPT !.m.pt[table][i].pa = k.pa]

Descend(m, table, i, alloc) ==
  IF Entries(m, table)[i].pa # 0 \/ ~alloc THEN [m |-> m, pa |-> Entries(m, table)[i].pa]
  ELSE Hung(TablePage(m), table, i)

DescendFrom(k, i, alloc) == IF k.pa = 0 THEN k ELSE Descend(k.m, k.pa, i, alloc)

\* walk(): pa is the last table page on the way to va, or 0.
walk(m, root, va, alloc) ==
  IF va >= MAXVA THEN [m |-> PanicIn(m, "walk"), pa |-> 0]
  ELSE DescendFrom(Descend(m, root, PX(2, va), alloc), PX(1, va), alloc)

Entry(m, table, i) == IF table = 0 THEN NoPte ELSE Entries(m, table)[i]

Pte(m, root, va) == Entry(m, walk(m, root, va, FALSE).pa, PX(0, va))

SetPte(m, root, va, e) ==
  [m EXCEPT !.pt[walk(m, root, va, FALSE).pa][PX(0, va)] = e]

UserPage(e) == IF "U" \in e.perm THEN e.pa ELSE 0

walkaddr(m, root, va) == IF va >= MAXVA THEN 0 ELSE UserPage(Pte(m, root, va))

\* The entry i of the table page that walk() returned is filled in.
Mapped(k, i, pa, perm) ==
  IF k.pa = 0 THEN [m |-> k.m, ok |-> FALSE]
  ELSE IF Entries(k.m, k.pa)[i].pa # 0 THEN [m |-> PanicIn(k.m, "mappages: remap"), ok |-> FALSE]
  ELSE [m |-> [k.m EXCEPT !.pt[k.pa][i] = [pa |-> pa, perm |-> perm]], ok |-> TRUE]

\* mappages() of one page.
mappages(m, root, va, pa, perm) == Mapped(walk(m, root, va, TRUE), PX(0, va), pa, perm)

Unmapped(m, root, va, e, do_free) ==
  IF e.pa = 0 THEN PanicIn(m, "uvmunmap: not mapped")
  ELSE SetPte(IF do_free THEN kfree(m, e.pa) ELSE m, root, va, NoPte)

RECURSIVE uvmunmap(_, _, _, _, _)
uvmunmap(m, root, va, npages, do_free) ==
  IF npages = 0 \/ m.panic # "none" THEN m
  ELSE uvmunmap(Unmapped(m, root, va, Pte(m, root, va), do_free), root, va + PGSIZE,
                npages - 1, do_free)

uvmdealloc(m, root, oldsz, newsz) ==
  IF newsz >= oldsz THEN [m |-> m, sz |-> oldsz]
  ELSE [m |-> uvmunmap(m, root, PGROUNDUP(newsz),
                       (PGROUNDUP(oldsz) - PGROUNDUP(newsz)) \div PGSIZE, TRUE),
        sz |-> newsz]

Undo_Nothing(m, root, a, from) == m

\* The pages from..a that uvmalloc() has mapped before it fails.
Undo(m, root, a, from) == uvmdealloc(m, root, a, from).m

\* The loop of uvmalloc(), at address a; sz is 0 when it fails.
RECURSIVE Grow(_, _, _, _, _, _)
Grow(m, root, a, from, newsz, perm) ==
  LET k == kalloc(m)
      mp == mappages([k.m EXCEPT !.data[k.pa] = Fill("nul")], root, a, k.pa, perm) IN
  IF a >= newsz THEN [m |-> m, sz |-> newsz]
  ELSE IF k.pa = 0 THEN [m |-> Undo(m, root, a, from), sz |-> 0]
  ELSE IF ~mp.ok THEN [m |-> Undo(kfree(mp.m, k.pa), root, a, from), sz |-> 0]
  ELSE Grow(mp.m, root, a + PGSIZE, from, newsz, perm)

uvmalloc(m, root, oldsz, newsz, xperm) ==
  IF newsz < oldsz THEN [m |-> m, sz |-> oldsz]
  ELSE Grow(m, root, PGROUNDUP(oldsz), PGROUNDUP(oldsz), newsz, {"R", "U"} \cup xperm)

RECURSIVE freewalk(_, _, _)
freewalk(m, table, level) ==
  LET below == {Entries(m, table)[i].pa : i \in 0..1} \ {0} IN
  IF level = 0 /\ below # {} THEN PanicIn(m, "freewalk: leaf")
  ELSE kfree(FoldSet(LAMBDA t, acc : freewalk(acc, t, level - 1), m, below), table)

uvmfree(m, root, sz) ==
  freewalk(uvmunmap(m, root, 0, PGROUNDUP(sz) \div PGSIZE, TRUE), root, 2)

\* uvmcopy(), from address i on.
RECURSIVE uvmcopy(_, _, _, _, _)
uvmcopy(m, old, new, i, sz) ==
  LET e == Pte(m, old, i)
      k == kalloc(m)
      mp == mappages([k.m EXCEPT !.data[k.pa] = m.data[e.pa]], new, i, k.pa, e.perm)
      undo(m1) == [m |-> uvmunmap(m1, new, 0, i \div PGSIZE, TRUE), ok |-> FALSE] IN
  IF i >= sz THEN [m |-> m, ok |-> TRUE]
  ELSE IF e.pa = 0 THEN [m |-> PanicIn(m, "uvmcopy: page not present"), ok |-> FALSE]
  ELSE IF k.pa = 0 THEN undo(m)
  ELSE IF ~mp.ok THEN undo(kfree(mp.m, k.pa))
  ELSE uvmcopy(mp.m, old, new, i + PGSIZE, sz)

uvmclear(m, root, va) ==
  SetPte(m, root, va, [Pte(m, root, va) EXCEPT !.perm = @ \ {"U"}])

-----------------------------------------------------------------------------
(* Copies between the kernel and user memory, page by page *)

Piece(va, len) == Min({PGSIZE - (va % PGSIZE), len})

RECURSIVE copyout(_, _, _, _)
copyout(m, root, dstva, src) ==
  LET va0 == PGROUNDDOWN(dstva)
      e == Pte(m, root, va0)
      n == Piece(dstva, Len(src))
      written == [m EXCEPT !.data[e.pa] =
                    [u \in Units |-> IF u \in dstva - va0 .. dstva - va0 + n - 1
                                     THEN src[u - (dstva - va0) + 1] ELSE @[u]]] IN
  IF src = <<>> THEN [m |-> m, ok |-> TRUE]
  ELSE IF va0 >= MAXVA \/ ~({"U", "W"} \subseteq e.perm) THEN [m |-> m, ok |-> FALSE]
  ELSE copyout(written, root, va0 + PGSIZE, SubSeq(src, n + 1, Len(src)))

RECURSIVE copyin(_, _, _, _)
copyin(m, root, srcva, len) ==
  LET va0 == PGROUNDDOWN(srcva)
      pa0 == walkaddr(m, root, va0)
      n == Piece(srcva, len)
      rest == copyin(m, root, va0 + PGSIZE, len - n) IN
  IF len = 0 THEN [ok |-> TRUE, got |-> <<>>]
  ELSE IF pa0 = 0 THEN [ok |-> FALSE, got |-> <<>>]
  ELSE [rest EXCEPT !.got = [k \in 1..n |-> m.data[pa0][srcva - va0 + k - 1]] \o @]

\* Up to max units, the last of them 0.
RECURSIVE copyinstr(_, _, _, _)
copyinstr(m, root, srcva, max) ==
  LET va0 == PGROUNDDOWN(srcva)
      pa0 == walkaddr(m, root, va0)
      n == Piece(srcva, max)
      piece == [k \in 1..n |-> m.data[pa0][srcva - va0 + k - 1]]
      zeros == {k \in 1..n : piece[k] = "nul"}
      rest == copyinstr(m, root, va0 + PGSIZE, max - n) IN
  IF max = 0 \/ pa0 = 0 THEN [ok |-> FALSE, got |-> <<>>]
  ELSE IF zeros # {} THEN [ok |-> TRUE, got |-> SubSeq(piece, 1, Min(zeros))]
  ELSE [rest EXCEPT !.got = piece \o @]

fetchaddr_OneTest(m, q, addr) ==
  IF addr >= q.sz THEN [ok |-> FALSE, got |-> <<>>] ELSE copyin(m, q.pagetable, addr, 2)

\* A word has two units.  Both tests are needed, in case of overflow.
fetchaddr(m, q, addr) ==
  IF addr >= q.sz \/ (addr + 2) % ADDR > q.sz THEN [ok |-> FALSE, got |-> <<>>]
  ELSE copyin(m, q.pagetable, addr, 2)

\* The length of the string, without the 0 that is its last unit, or -1.
fetchstr(m, q, addr, max) ==
  LET c == copyinstr(m, q.pagetable, addr, max) IN IF c.ok THEN Len(c.got) - 1 ELSE -1

-----------------------------------------------------------------------------
(* Address spaces of processes *)

BothMapped(two, root) ==
  IF two.ok THEN [m |-> two.m, pa |-> root]
  ELSE [m |-> uvmfree(uvmunmap(two.m, root, TRAMPOLINE, 1, FALSE), root, 0), pa |-> 0]

TrampolineMapped(one, root, trapframe) ==
  IF one.ok THEN BothMapped(mappages(one.m, root, TRAPFRAME, trapframe, {"R", "W"}), root)
  ELSE [m |-> uvmfree(one.m, root, 0), pa |-> 0]

\* proc_pagetable(): pa is the new root, or 0.
proc_pagetable(m, trapframe) ==
  LET k == uvmcreate(m) IN
  IF k.pa = 0 THEN k
  ELSE TrampolineMapped(mappages(k.m, k.pa, TRAMPOLINE, trampoline, {"R", "X"}), k.pa, trapframe)

proc_freepagetable(m, root, sz) ==
  uvmfree(uvmunmap(uvmunmap(m, root, TRAMPOLINE, 1, FALSE), root, TRAPFRAME, 1, FALSE), root, sz)

NoProc == [trapframe |-> 0, pagetable |-> 0, sz |-> 0]

freeproc(m, q) ==
  LET m1 == IF q.trapframe # 0 THEN kfree(m, q.trapframe) ELSE m IN
  IF q.pagetable # 0 THEN proc_freepagetable(m1, q.pagetable, q.sz) ELSE m1

WithTable(t, trapframe) ==
  IF t.pa = 0 THEN [m |-> freeproc(t.m, [NoProc EXCEPT !.trapframe = trapframe]), q |-> NoProc]
  ELSE [m |-> t.m, q |-> [trapframe |-> trapframe, pagetable |-> t.pa, sz |-> 0]]

\* allocproc(): q is NoProc when it fails.
allocproc(m) ==
  LET k == kalloc(m) IN
  IF k.pa = 0 THEN [m |-> m, q |-> NoProc] ELSE WithTable(proc_pagetable(k.m, k.pa), k.pa)

\* userinit() with uvmfirst(), on the memory kinit() leaves.
userinit(taken) ==
  LET m0 == [free |-> Pages \ taken, pt |-> [pa \in Pages |-> JunkEntries],
             data |-> [pa \in Pages |-> Fill("junk")], panic |-> "none"]
      a == allocproc(m0)
      k == kalloc(a.m)
      image == [k.m EXCEPT !.data[k.pa] = [Fill("nul") EXCEPT ![0] = "initcode"]] IN
  [m |-> mappages(image, a.q.pagetable, 0, k.pa, {"R", "W", "X", "U"}).m,
   q |-> [a.q EXCEPT !.sz = PGSIZE]]

Init ==
  /\ held \in {NPAGE - n + 1..NPAGE : n \in 0..MaxHeld}
  /\ km = userinit(held).m
  /\ proc = [p \in Procs |-> IF p = FirstProc THEN userinit(held).q ELSE NoProc]
  /\ ret = [by |-> FirstProc, call |-> "boot", ok |-> TRUE, n |-> 0]

Runs(p) == proc[p] # NoProc /\ km.panic = "none"
Calls(p) == Runs(p) /\ ret.n < MaxCalls
Returns(p, call, ok) == ret' = [by |-> p, call |-> call, ok |-> ok, n |-> ret.n + 1]

\* A size below 0 wraps.
growproc(m, q, n) ==
  LET r == IF n > 0 THEN uvmalloc(m, q.pagetable, q.sz, q.sz + n, {"W"})
           ELSE uvmdealloc(m, q.pagetable, q.sz, (q.sz + n) % ADDR)
      ok == n > 0 => r.sz # 0
  IN [m |-> r.m, sz |-> IF ok THEN r.sz ELSE q.sz, ok |-> ok]

\* sys_sbrk().  The machine has less memory than address space: a process never
\* grows as far as TRAPFRAME.
sbrk(p, n) ==
  /\ Calls(p) /\ proc[p].sz + n <= TRAPFRAME
  /\ LET r == growproc(km, proc[p], n) IN
     /\ km' = r.m
     /\ proc' = [proc EXCEPT ![p].sz = r.sz]
     /\ Returns(p, "sbrk", r.ok)
  /\ UNCHANGED held

\* What fork() has made of the child np, q the parent.
Copied(r, q, np) ==
  IF r.ok THEN [m |-> r.m, q |-> [np EXCEPT !.sz = q.sz]]
  ELSE [m |-> freeproc(r.m, np), q |-> NoProc]

Forked(a, q) ==
  IF a.q = NoProc THEN a
  ELSE Copied(uvmcopy(a.m, q.pagetable, a.q.pagetable, 0, q.sz), q, a.q)

fork(p, c) ==
  /\ Calls(p) /\ proc[c] = NoProc
  /\ LET r == Forked(allocproc(km), proc[p]) IN
     /\ km' = r.m
     /\ proc' = [proc EXCEPT ![c] = r.q]
     /\ Returns(p, "fork", r.q # NoProc)
  /\ UNCHANGED held

\* c exits and its parent's wait() calls freeproc().
wait(c) ==
  /\ Calls(c) /\ c # FirstProc
  /\ km' = freeproc(km, proc[c])
  /\ proc' = [proc EXCEPT ![c] = NoProc]
  /\ Returns(c, "wait", TRUE)
  /\ UNCHANGED held

\* The user stores, or a call copies out, two units at va; this does not count.
store(p, va) ==
  /\ Runs(p)
  /\ LET r == copyout(km, proc[p].pagetable, va, <<p, p>>) IN
     km' = r.m /\ ret' = [ret EXCEPT !.by = p, !.call = "store", !.ok = r.ok]
  /\ UNCHANGED <<proc, held>>

-----------------------------------------------------------------------------
(* exec.c *)

\* loadseg(): what readi() finds is written page by page.
loadseg(m, root, va, contents, filesz) ==
  LET units == 0..(filesz - 1)
      pa(u) == walkaddr(m, root, PGROUNDDOWN(va + u)) IN
  IF \E u \in units : pa(u) = 0 THEN [m |-> PanicIn(m, "loadseg"), ok |-> FALSE]
  ELSE [m |-> FoldSet(LAMBDA u, acc : [acc EXCEPT !.data[pa(u)][(va + u) % PGSIZE] = contents[u + 1]],
                      m, units \cap 0..(Len(contents) - 1)),
        ok |-> filesz <= Len(contents)]

\* The loop over program headers.
RECURSIVE LoadSegments(_, _, _, _)
LoadSegments(m, root, segs, sz) ==
  LET ph == Head(segs)
      a == uvmalloc(m, root, sz, (ph.vaddr + ph.memsz) % ADDR, ph.perm)
      l == loadseg(a.m, root, ph.vaddr, ph.contents, ph.filesz)
      fails(m1, sz1) == [m |-> m1, sz |-> sz1, ok |-> FALSE] IN
  IF segs = <<>> THEN [m |-> m, sz |-> sz, ok |-> TRUE]
  ELSE IF ph.memsz < ph.filesz \/ (ph.vaddr + ph.memsz) % ADDR < ph.vaddr \/ ph.vaddr % PGSIZE # 0
  THEN fails(m, sz)
  ELSE IF a.sz = 0 THEN fails(a.m, sz)
  ELSE IF ~l.ok THEN fails(l.m, a.sz)
  ELSE LoadSegments(l.m, root, Tail(segs), a.sz)

StackTop(sp, len) == (sp - len) - ((sp - len) % ALIGN)

\* Argument strings, each with its 0, are pushed; the pointers follow.
RECURSIVE PushArgs(_, _, _, _, _)
PushArgs(m, root, args, sp, base) ==
  LET top == StackTop(sp, Len(Head(args)) + 1)
      c == copyout(m, root, top, Append(Head(args), "nul")) IN
  IF args = <<>> THEN [m |-> m, sp |-> sp, ok |-> TRUE]
  ELSE IF top < base \/ ~c.ok THEN [m |-> m, sp |-> sp, ok |-> FALSE]
  ELSE PushArgs(c.m, root, Tail(args), top, base)

ExecFails_KeepTable(m, root, sz, q) == [m |-> m, q |-> q, ok |-> FALSE]

\* The label bad of exec().
ExecFails(m, root, sz, q) == [m |-> proc_freepagetable(m, root, sz), q |-> q, ok |-> FALSE]

\* The new table, with c the result of the last copyout(), replaces the old one.
Commit(c, root, sz, q) ==
  IF ~c.ok THEN ExecFails(c.m, root, sz, q)
  ELSE [m |-> proc_freepagetable(c.m, q.pagetable, q.sz), ok |-> TRUE,
        q |-> [q EXCEPT !.pagetable = root, !.sz = sz]]

\* The argument strings a are pushed; now the array of their addresses.
PushArgv(a, n, root, sz, q) ==
  LET sp == StackTop(a.sp, n + 1) IN
  IF ~a.ok \/ sp < sz - USERSTACK * PGSIZE THEN ExecFails(a.m, root, sz, q)
  ELSE Commit(copyout(a.m, root, sp, [k \in 1..(n + 1) |-> "ptr"]), root, sz, q)

\* s is what uvmalloc() gave for the stack and its guard page, above base.
OnStack(s, base, root, q, args) ==
  IF s.sz = 0 THEN ExecFails(s.m, root, base, q)
  ELSE PushArgv(PushArgs(uvmclear(s.m, root, s.sz - (USERSTACK + 1) * PGSIZE), root, args,
                         s.sz, s.sz - USERSTACK * PGSIZE),
                Len(args), root, s.sz, q)

AddStack(l, root, q, args) ==
  LET base == PGROUNDUP(l.sz) IN
  IF ~l.ok THEN ExecFails(l.m, root, l.sz, q)
  ELSE OnStack(uvmalloc(l.m, root, base, base + (USERSTACK + 1) * PGSIZE, {"W"}),
               base, root, q, args)

\* Everything is built in a new page table t, which replaces the old one last.
Build(t, q, prog) ==
  IF t.pa = 0 THEN [m |-> t.m, q |-> q, ok |-> FALSE]
  ELSE AddStack(LoadSegments(t.m, t.pa, prog.segs, 0), t.pa, q, prog.args)

exec(m, q, prog) == Build(proc_pagetable(m, q.trapframe), q, prog)

\* kalloc() of a page for each argument; pas has those taken.
RECURSIVE ArgPages(_, _, _)
ArgPages(m, n, pas) ==
  LET k == kalloc(m) IN
  IF n = 0 THEN [m |-> m, pas |-> pas, ok |-> TRUE]
  ELSE IF k.pa = 0 THEN [m |-> m, pas |-> pas, ok |-> FALSE]
  ELSE ArgPages(k.m, n - 1, pas \cup {k.pa})

\* The pages pas of the arguments are freed and the call returns e.
Replace(p, e, pas) ==
  /\ km' = FoldSet(LAMBDA pa, acc : kfree(acc, pa), e.m, pas)
  /\ proc' = [proc EXCEPT ![p] = e.q]
  /\ Returns(p, "exec", e.ok)

\* fetched: how many of the arguments can be read from user memory.
sys_exec(p, prog, fetched) ==
  /\ Calls(p)
  /\ LET n == Len(prog.args)
         a == ArgPages(km, IF fetched < n THEN fetched + 1 ELSE n, {}) IN
     Replace(p, IF ~a.ok \/ fetched < n THEN [m |-> a.m, q |-> proc[p], ok |-> FALSE]
                ELSE exec(a.m, proc[p], prog), a.pas)
  /\ UNCHANGED held

-----------------------------------------------------------------------------

Next ==
  \E p \in Procs :
       \/ \E n \in Grows : sbrk(p, n)
       \/ \E c \in Procs : fork(p, c)
       \/ wait(p)
       \/ store(p, PGSIZE - 1)
       \/ \E prog \in Programs : \E fetched \in {0, Len(prog.args)} : sys_exec(p, prog, fetched)

Spec == Init /\ [][Next]_vars

-----------------------------------------------------------------------------
(* Properties *)

UserPages == {k * PGSIZE : k \in 0..(TRAPFRAME \div PGSIZE - 1)}

\* Every reference to a page with the place it is in.
TablesOf(root) ==
  {<<root>>} \cup {<<root, i>> : i \in 0..1} \cup {<<root, i, j>> : i \in 0..1, j \in 0..1}
TableAt(path) ==
  IF Len(path) = 1 THEN path[1]
  ELSE LET t == Entry(km, path[1], path[2]).pa IN
       IF Len(path) = 2 THEN t ELSE Entry(km, t, path[3]).pa
InUse == {p \in Procs : proc[p] # NoProc}
References ==
  {<<pa, "free">> : pa \in km.free} \cup {<<pa, "held">> : pa \in held}
  \cup {<<proc[p].trapframe, "trapframe", p>> : p \in InUse}
  \cup UNION {{<<TableAt(path), "table", p, path>> : path \in TablesOf(proc[p].pagetable)} : p \in InUse}
  \cup UNION {{<<Pte(km, proc[p].pagetable, va).pa, "user", p, va>> : va \in UserPages} : p \in InUse}

\* Every page is in one place: free, or a table, a trapframe or user memory of
\* one process; after every call, failed ones included, nothing is lost and
\* nothing is freed that is in use.  The user memory of a process is what
\* lies below sz, it holds nothing but what was written there or zeros, and no
\* call of kalloc.c and vm.c panics.
MemoryExact ==
  /\ km.panic = "none"
  /\ LET refs == {r \in References : r[1] # 0} IN
       {r[1] : r \in refs} = Pages /\ Cardinality(refs) = NPAGE
  /\ \A p \in InUse :
       /\ {va \in UserPages : Pte(km, proc[p].pagetable, va).pa # 0} = {va \in UserPages : va < proc[p].sz}
       /\ Pte(km, proc[p].pagetable, TRAPFRAME) = [pa |-> proc[p].trapframe, perm |-> {"R", "W"}]
       /\ Pte(km, proc[p].pagetable, TRAMPOLINE) = [pa |-> trampoline, perm |-> {"R", "X"}]
       /\ \A va \in UserPages : va < proc[p].sz =>
            \A u \in Units : km.data[Pte(km, proc[p].pagetable, va).pa][u] # "junk"

View(p) ==
  [va \in {a \in UserPages : proc[p] # NoProc /\ a < proc[p].sz} |->
     km.data[Pte(km, proc[p].pagetable, va).pa]]

\* A call changes no memory but its caller's, a fork() gives the child what the
\* parent has, and a call that fails leaves the caller's memory as it was;
\* fork() and exec() that fail also give every page back.  (A failing sbrk()
\* may leave empty table pages, and copyout() the part before the bad page.)
CallsIsolated ==
  /\ \A p \in Procs : p # ret'.by /\ proc[p] # NoProc /\ proc'[p] # NoProc => View(p)' = View(p)
  /\ \A c \in Procs : proc[c] = NoProc /\ proc'[c] # NoProc => View(c)' = View(ret'.by)
  /\ ~ret'.ok /\ ret'.call # "store" => View(ret.by)' = View(ret'.by)
  /\ ~ret'.ok /\ ret'.call \in {"fork", "exec"} => km'.free = km.free

\* Reference: memory once src is stored, unit by unit, at a, a + 1, ... as far as these
\* addresses have a place, a page and a unit of it.
Stored(place, a, src) ==
  FoldSet(LAMBDA b, data : [data EXCEPT ![place[b][1]][place[b][2]] = src[b - a + 1]], km.data,
          {b \in a..(a + Len(src) - 1) : a..b \subseteq DOMAIN place})

\* The page and the unit at every address that p has these permissions for.
Places(p, perm) ==
  LET e(a) == Pte(km, proc[p].pagetable, PGROUNDDOWN(a)) IN
  [a \in {b \in 0..(MAXVA - 1) : perm \subseteq e(b).perm} |-> <<e(a).pa, a % PGSIZE>>]

\* copyin(), copyout(), copyinstr(), fetchaddr() and fetchstr() agree with a copy unit
\* by unit: they succeed exactly when the process may read, or write, all of it, stop
\* at a 0, cross pages, and are not misled by the guard page, by text that is read-only
\* or by an address that wraps.  copyout() changes no unit but those, and when it fails
\* it has written those before the page that stopped it.
CopiesExact ==
  \A p \in InUse : \A readable \in {Places(p, {"U"})}, writable \in {Places(p, {"U", "W"})} :
    \A a \in 0..proc[p].sz \cup {ADDR - 2, ADDR - 1}, len \in {1, PGSIZE + 1} :
      LET root == proc[p].pagetable
          can(way, n) == a..(a + n - 1) \subseteq DOMAIN way
          unit(k) == km.data[readable[a + k - 1][1]][readable[a + k - 1][2]]
          src == SubSeq(<<"s", "t", "u", "v", "w">>, 1, len) IN
      \A in \in {copyin(km, root, a, len)}, str \in {copyinstr(km, root, a, len)},
         out \in {copyout(km, root, a, src)},
         nuls \in {{k \in 1..len : can(readable, k) /\ unit(k) = "nul"}} :
      /\ in.ok = can(readable, len)
      /\ in.ok => in.got = [k \in 1..len |-> unit(k)]
      /\ str.ok = (nuls # {})
      /\ str.ok => str.got = [k \in 1..Min(nuls) |-> unit(k)]
      /\ fetchstr(km, proc[p], a, len) = IF nuls = {} THEN -1 ELSE Min(nuls) - 1
      /\ fetchaddr(km, proc[p], a).ok = (a + 2 <= proc[p].sz /\ can(readable, 2))
      /\ out.ok = can(writable, len)
      /\ out.m = [km EXCEPT !.data = Stored(writable, a, src)]
=============================================================================
