------------------------------- MODULE Malloc -------------------------------
(***************************************************************************)
(* The user-level allocator, user/umalloc.c: a circular list of free       *)
(* blocks, kept in the blocks themselves.  Memory is counted in Headers;   *)
(* address 0 is base, and the heap starts at 1.                            *)
(***************************************************************************)
EXTENDS Integers, FiniteSets

CONSTANTS
  Sizes,      \* the nunits that malloc() computes for the program's requests
  MinCore,    \* the least that morecore() asks for: 4096 in the code
  MaxHeap     \* where sbrk() fails

VARIABLES
  hdr,        \* the header at an address that has one
  freep,      \* -1 is the null pointer
  brk,        \* the end of the heap
  live,       \* the headers of the blocks the program holds
  own         \* the units that the program has got from sbrk() for itself

vars == <<hdr, freep, brk, live, own>>
Heap == 1..(MaxHeap - 1)
NoHdr == [ptr |-> -1, size |-> 0]

Init ==
  /\ hdr = [a \in {0} \cup Heap |-> NoHdr]
  /\ freep = -1
  /\ brk = 1
  /\ live = {}
  /\ own = {}

\* The walk of free(), from p to the block after which bp belongs.
RECURSIVE Place(_, _, _)
Place(h, bp, p) ==
  LET next == h[p].ptr
  IN IF (bp > p /\ bp < next) \/ (p >= next /\ (bp > p \/ bp < next))
     THEN p
     ELSE Place(h, bp, next)

Meets_Never(h, a, b) == FALSE

\* The block at a ends where b begins.
Meets(h, a, b) == a + h[a].size = b

\* free() of the block whose header is bp: the headers and freep.
free(h, fp, bp) ==
  LET p == Place(h, bp, fp)
      next == h[p].ptr
      upper == IF Meets(h, bp, next)
               THEN [h EXCEPT ![bp] = [ptr |-> h[next].ptr, size |-> @.size + h[next].size],
                              ![next] = IF next = 0 THEN @ ELSE NoHdr]
               ELSE [h EXCEPT ![bp].ptr = next]
      lower == IF Meets(h, p, bp)
               THEN [upper EXCEPT ![p] = [ptr |-> upper[bp].ptr, size |-> @.size + upper[bp].size],
                                  ![bp] = NoHdr]
               ELSE [upper EXCEPT ![p].ptr = bp]
  IN [h |-> lower, freep |-> p]

\* morecore(): the state after it, or no room.
morecore(h, fp, end, nunits) ==
  LET nu == IF nunits < MinCore THEN MinCore ELSE nunits
  IN IF end + nu > MaxHeap
     THEN [ok |-> FALSE]
     ELSE LET f == free([h EXCEPT ![end] = [ptr |-> -1, size |-> nu]], fp, end)
          IN [ok |-> TRUE, h |-> f.h, freep |-> f.freep, brk |-> end + nu]

\* malloc()'s loop at p, with prevp before it.
RECURSIVE Search(_, _, _, _, _, _)
Search(h, fp, end, prevp, p, nunits) ==
  LET size == h[p].size
      tail == p + size - nunits
      core == morecore(h, fp, end, nunits)
  IN IF size = nunits
     THEN [h |-> [h EXCEPT ![prevp].ptr = h[p].ptr, ![p].ptr = -1],
           freep |-> prevp, brk |-> end, got |-> p]
     ELSE IF size > nunits
     THEN [h |-> [h EXCEPT ![p].size = size - nunits, ![tail] = [ptr |-> -1, size |-> nunits]],
           freep |-> prevp, brk |-> end, got |-> tail]
     ELSE IF p # fp
     THEN Search(h, fp, end, p, h[p].ptr, nunits)
     ELSE IF ~core.ok
     THEN [h |-> h, freep |-> fp, brk |-> end, got |-> -1]
     ELSE Search(core.h, core.freep, core.brk, core.freep, core.h[core.freep].ptr, nunits)

malloc(nunits) ==
  LET h == IF freep = -1 THEN [hdr EXCEPT ![0] = [ptr |-> 0, size |-> 0]] ELSE hdr
      fp == IF freep = -1 THEN 0 ELSE freep
      s == Search(h, fp, brk, fp, h[fp].ptr, nunits)
  IN /\ hdr' = s.h
     /\ freep' = s.freep
     /\ brk' = s.brk
     /\ live' = IF s.got = -1 THEN live ELSE live \cup {s.got}
     /\ UNCHANGED own

free_block(bp) ==
  /\ hdr' = free(hdr, freep, bp).h
  /\ freep' = free(hdr, freep, bp).freep
  /\ live' = live \ {bp}
  /\ UNCHANGED <<brk, own>>

\* The program gets a unit from sbrk() without malloc(), as usertests does.
sbrk ==
  /\ brk < MaxHeap
  /\ brk' = brk + 1
  /\ own' = own \cup {brk}
  /\ UNCHANGED <<hdr, freep, live>>

Next ==
  \/ \E nunits \in Sizes : malloc(nunits)
  \/ \E bp \in live : free_block(bp)
  \/ sbrk

Spec == Init /\ [][Next]_vars

-----------------------------------------------------------------------------

\* The free blocks, in the order of the list from base.
RECURSIVE FreeFrom(_)
FreeFrom(p) == IF p = 0 THEN {} ELSE {p} \cup FreeFrom(hdr[p].ptr)

Units(a) == a..(a + hdr[a].size - 1)

\* Whatever was allocated and freed, in whatever order: every unit of the heap is in
\* one block, free or held, or is the program's own; the list is in the order of the
\* addresses; and no two free blocks touch, so no memory is lost to fragments that
\* free() should have joined.
HeapExact ==
  freep # -1 =>
    LET free_ == FreeFrom(hdr[0].ptr)
        blocks == live \cup free_
    IN /\ live \cap free_ = {}
       /\ \A a, b \in blocks : a # b => Units(a) \cap Units(b) = {}
       /\ UNION {Units(a) : a \in blocks} \cup own = 1..(brk - 1)
       /\ \A a \in blocks : Units(a) \cap own = {}
       /\ \A a \in free_ : hdr[a].ptr = 0 \/ hdr[a].ptr > a + hdr[a].size
       /\ freep \in free_ \cup {0}
=============================================================================
