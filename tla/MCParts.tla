------------------------------- MODULE MCParts -------------------------------
(***************************************************************************)
(* Small instances, for TLC, of the parts of the system that need no other *)
(* to run: a behaviour is one of one part, and the others are off.         *)
(***************************************************************************)
EXTENDS Integers, Sequences, FiniteSets

CONSTANTS p1, p2  \* processes of Vm

VARIABLES
  part,                                       \* the part that runs
  km, proc, held, ret,                        \* Vm
  fs, off, want, noted, calls,                \* Filedata
  hdr, freep, brk, live, own,                 \* Malloc
  line, procs, failed,                        \* Shell
  pattern, text, input, buf, out, eof        \* Grep

vmVars == <<km, proc, held, ret>>
filedataVars == <<fs, off, want, noted, calls>>
mallocVars == <<hdr, freep, brk, live, own>>
shellVars == <<line, procs, failed>>
grepVars == <<pattern, text, input, buf, out, eof>>
vars == <<part, vmVars, filedataVars, mallocVars, shellVars, grepVars>>

-----------------------------------------------------------------------------
(* Programs for exec(): one and two segments, a file that ends early, a segment   *)
(* that wraps, and arguments that do not fit.                                     *)
Segment(vaddr, memsz, filesz, contents, perm) ==
  [vaddr |-> vaddr, memsz |-> memsz, filesz |-> filesz, contents |-> contents, perm |-> perm]
Small == Segment(0, 3, 2, <<"x", "y">>, {"X"})
Load(segs, args) == [segs |-> segs, args |-> args]
Programs == {
  Load(<<Small>>, <<<<"g">>>>),
  Load(<<Segment(0, 5, 5, <<"x", "y", "x", "y", "x">>, {"X"}), Segment(8, 1, 0, <<>>, {"W"})>>, <<<<"g">>>>),
  Load(<<Segment(0, 3, 3, <<"x", "y">>, {"X"})>>, <<>>),
  Load(<<Small, Segment(124, 8, 0, <<>>, {"X"})>>, <<>>),
  Load(<<Small>>, <<<<"g">>, <<"g", "g">>>>)}

\* Every line of up to three tokens, every one of four with at most two of | and &, so
\* that there are not too many processes, and longer ones with what those cannot have.
Tokens == {"a", ">", "|", "(", ")", ";", "&"}
Lines == UNION {[1..n -> Tokens] : n \in 1..3}
         \cup {l \in [1..4 -> Tokens] : Cardinality({i \in 1..4 : l[i] \in {"|", "&"}}) <= 2} \cup {
  <<"cd">>, <<"a", "a", "a">>,
  <<"a", "<", "a", "|", "a", "|", "a", "+", "a">>,
  <<"(", "a", ";", "a", ")", "|", "a">>,
  <<"a", "|", "(", "a", ";", "a", "&", ")">>,
  <<"a", "&", "&", ";", "a">>, <<"a", ";", "a", "|", "a">>,
  <<"(", "(", "a", "|", "a", ")", ")", ">", "a", "<", "a">>}

Patterns == UNION {[1..n -> {"x", ".", "*", "^", "$"}] : n \in 0..3}
\* Short texts, and longer ones with a line that does not fit the buffer, or just does.
Texts == UNION {[1..n -> {"x", "y", "nl"}] : n \in 0..4} \cup {
  <<"x", "nl", "y", "x", "x", "nl", "x", "nl">>,
  <<"x", "nl", "x", "y", "nl", "x", "y", "x", "y">>}

-----------------------------------------------------------------------------

V == INSTANCE Vm WITH
       Procs <- {p1, p2}, FirstProc <- p1, NPAGE <- 24, MaxHeld <- 17, MaxCalls <- 3,
       Grows <- {5, -2, -40}
F == INSTANCE Filedata WITH
       FSSIZE <- 9, NDIRECT <- 2, BSIZE <- 2, MAXOPBLOCKS <- 6,
       Lengths <- {3, 8}, Files <- {1, 2}, Counts <- {3, 8}, MaxCalls <- 4
M == INSTANCE Malloc WITH Sizes <- {2, 3}, MinCore <- 4, MaxHeap <- 15
S == INSTANCE Shell WITH MAXARGS <- 3, MaxTyped <- 2
G == INSTANCE Grep WITH BUFSIZE <- 4

Init ==
  /\ part \in {"vm", "filedata", "malloc", "shell", "grep"}
  /\ IF part = "vm" THEN V!Init
     ELSE km = "off" /\ proc = "off" /\ held = "off" /\ ret = "off"
  /\ IF part = "filedata" THEN F!Init
     ELSE fs = "off" /\ off = "off" /\ want = "off" /\ noted = "off" /\ calls = "off"
  /\ IF part = "malloc" THEN M!Init
     ELSE hdr = "off" /\ freep = "off" /\ brk = "off" /\ live = "off" /\ own = "off"
  /\ IF part = "shell" THEN S!Init
     ELSE line = "off" /\ procs = "off" /\ failed = "off"
  /\ IF part = "grep" THEN G!Init
     ELSE pattern = "off" /\ text = "off" /\ input = "off" /\ buf = "off" /\ out = "off" /\ eof = "off"

Next ==
  \/ /\ part = "vm" /\ V!Next
     /\ UNCHANGED <<part, filedataVars, mallocVars, shellVars, grepVars>>
  \/ /\ part = "filedata" /\ F!Next
     /\ UNCHANGED <<part, vmVars, mallocVars, shellVars, grepVars>>
  \/ /\ part = "malloc" /\ M!Next
     /\ UNCHANGED <<part, vmVars, filedataVars, shellVars, grepVars>>
  \/ /\ part = "shell" /\ S!Next
     /\ UNCHANGED <<part, vmVars, filedataVars, mallocVars, grepVars>>
  \/ /\ part = "grep" /\ G!Next
     /\ UNCHANGED <<part, vmVars, filedataVars, mallocVars, shellVars>>

Spec == Init /\ [][Next]_vars

-----------------------------------------------------------------------------
(* Properties: those of the parts. *)

\* Vm: pages are free or have one owner, page tables map what they should, through
\* every failure of an allocation on the way.
MemoryExact == part = "vm" => V!MemoryExact

\* Vm: copyin(), copyout(), copyinstr(), fetchaddr() and fetchstr() move the bytes that
\* the page table of the process says, or fail.
CopiesExact == part = "vm" => V!CopiesExact

\* Vm: a system call changes no other process's memory, and none of its own when it
\* fails.
CallsIsolated == [][part = "vm" => V!CallsIsolated]_vars

\* Filedata: a file reads as it was written, and the block map and the bitmap agree,
\* but for a root directory that mkfs made a block too long.
FilesExact == part = "filedata" => F!FilesExact

\* Filedata: the transactions of filewrite() fit the reservation.
WritesFit == part = "filedata" => F!WritesFit

\* Malloc: the heap is held, free and joined exactly.
HeapExact == part = "malloc" => M!HeapExact

\* Shell: the parser does what splitting the line at its operators does.
ParsesAsSplit == part = "shell" => S!ParsesAsSplit

\* Shell: programs start with three descriptors, and no end of a pipe is left over.
ProgramsClean == part = "shell" => S!ProgramsClean

\* Shell: a list goes on, and the prompt comes, when what is before it has ended, but
\* for what is in the background and the left side of a pipe that could not be made.
InOrder == [][part = "shell" => S!InOrder]_vars

\* Grep: it writes the complete lines that match, however they are read, up to one that
\* does not fit the buffer.
GrepExact == part = "grep" => G!GrepExact
=============================================================================
