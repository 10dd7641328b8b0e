------------------------------- MODULE Console -------------------------------
(***************************************************************************)
(* Console input, kernel/console.c: consoleintr() edits a line in a ring   *)
(* that processes read with consoleread().  cons.lock is held from the     *)
(* start of a call to its sleep() or its end, so each such part is a step. *)
(*                                                                         *)
(* "x" is any ordinary character; BS is backspace or delete, KILL is ^U.   *)
(***************************************************************************)
EXTENDS Integers, Sequences, FiniteSets, FiniteSetsExt, SequencesExt

CONSTANTS
  Readers,
  INPUT_BUF_SIZE,
  Counts          \* how many bytes a read() asks for

IDX == 2 * INPUT_BUF_SIZE  \* where the model's indices wrap
Typed == {"x", "nl", "eof", "BS", "KILL"}

VARIABLES
  buf, r, w, e,  \* cons
  rd,            \* each reader's call
  ready, line    \* the input an editor of lines would have for readers, and
                 \* the line it would be editing

vars == <<buf, r, w, e, rd, ready, line>>

NoCall == [at |-> "idle", n |-> 0, target |-> 0, room |-> 0, killed |-> FALSE]

Init ==
  /\ buf = [k \in 0..(INPUT_BUF_SIZE - 1) |-> "x"]
  /\ r = 0 /\ w = 0 /\ e = 0
  /\ rd = [p \in Readers |-> NoCall]
  /\ ready = <<>> /\ line = <<>>

At(k) == buf[k % INPUT_BUF_SIZE]

-----------------------------------------------------------------------------
(* Input *)

wakeup(calls) ==
  [p \in Readers |-> IF calls[p].at = "asleep" THEN [calls[p] EXCEPT !.at = "woken"] ELSE calls[p]]

\* Where ^U leaves cons.e.
RECURSIVE Erased(_)
Erased(k) ==
  IF k # w /\ At((k - 1) % IDX) # "nl" THEN Erased((k - 1) % IDX) ELSE k

\* The test that there is room for another character.
Room == (e - r) % IDX < INPUT_BUF_SIZE

\* A character that completes what readers may have, with cons.e at k after it.
Completes_LineOnly(ch, k) == ch \in {"nl", "eof"}

Completes(ch, k) == ch \in {"nl", "eof"} \/ (k - r) % IDX = INPUT_BUF_SIZE

\* What an editor of lines does with ch.
Edited(ch) ==
  CASE ch = "KILL" -> <<ready, <<>>>>
    [] ch = "BS" -> <<ready, SubSeq(line, 1, Len(line) - 1)>>
    [] OTHER -> LET all == ready \o Append(line, ch) IN
                CASE Len(all) > INPUT_BUF_SIZE -> <<ready, line>>
                  [] Len(all) = INPUT_BUF_SIZE \/ ch \in {"nl", "eof"} -> <<all, <<>>>>
                  [] OTHER -> <<ready, Append(line, ch)>>

consoleintr(ch) ==
  /\ CASE ch = "KILL" -> e' = Erased(e) /\ UNCHANGED <<buf, w, rd>>
       [] ch = "BS" -> e' = (IF e # w THEN (e - 1) % IDX ELSE e) /\ UNCHANGED <<buf, w, rd>>
       [] OTHER ->
            IF Room
            THEN /\ buf' = [buf EXCEPT ![e % INPUT_BUF_SIZE] = ch]
                 /\ e' = (e + 1) % IDX
                 /\ IF Completes(ch, e')
                    THEN w' = e' /\ rd' = wakeup(rd)
                    ELSE UNCHANGED <<w, rd>>
            ELSE UNCHANGED <<buf, e, w, rd>>
  /\ ready' = Edited(ch)[1] /\ line' = Edited(ch)[2]
  /\ UNCHANGED r

-----------------------------------------------------------------------------
(* Reading *)

\* The ^D that ends a read() is kept for the next one unless nothing was read.
Kept(q) == q.n < q.target

\* consoleread()'s loop over a call q, with cons.r at k: <<the call, cons.r>>.
RECURSIVE Loop(_, _)
Loop(q, k) ==
  LET ch == At(k)
      next == (k + 1) % IDX
  IN IF q.n = 0 THEN <<[q EXCEPT !.at = "done"], k>>
     ELSE IF k = w THEN <<[q EXCEPT !.at = IF q.killed THEN "failed" ELSE "asleep"], k>>
     ELSE IF ch = "eof" THEN <<[q EXCEPT !.at = "done"], IF Kept(q) THEN k ELSE next>>
     ELSE IF q.room = 0 THEN <<[q EXCEPT !.at = "done"], next>>
     ELSE LET copied == [q EXCEPT !.n = @ - 1, !.room = @ - 1]
          IN IF ch = "nl" THEN <<[copied EXCEPT !.at = "done"], next>> ELSE Loop(copied, next)

\* How much of what is ready a read() should take: up to what it asks for, a
\* whole line, the ^D alone, or a byte its buffer has no place for.
Taken(q) ==
  LET ends == {i \in 1..Len(ready) : ready[i] \in {"nl", "eof"} \/ i = q.n \/ i = q.room + 1}
  IN CASE q.n = 0 -> 0
       [] q.n # 0 /\ ends = {} -> Len(ready)
       [] OTHER -> LET i == Min(ends)
                   IN IF ready[i] = "eof" /\ (i > 1 \/ q.n # q.target) THEN i - 1 ELSE i

Continue(p, q) ==
  /\ rd' = [rd EXCEPT ![p] = Loop(q, r)[1]]
  /\ r' = Loop(q, r)[2]
  /\ ready' = SubSeq(ready, Taken(q) + 1, Len(ready))
  /\ UNCHANGED <<buf, w, e, line>>

\* A read() of n bytes into a buffer with room for only some of them.
consoleread(p) ==
  /\ rd[p].at = "idle"
  /\ \E n \in Counts : \E room \in 0..n :
       Continue(p, [NoCall EXCEPT !.n = n, !.target = n, !.room = room, !.killed = rd[p].killed])

\* sleep() returns.
consoleread_woken(p) ==
  /\ rd[p].at = "woken"
  /\ Continue(p, rd[p])

\* The call returns; a process that was killed exits and makes way for another.
returns(p) ==
  /\ rd[p].at \in {"done", "failed"}
  /\ rd' = [rd EXCEPT ![p] = NoCall]
  /\ UNCHANGED <<buf, r, w, e, ready, line>>

\* kill() wakes the process if it sleeps.
kill(p) ==
  /\ ~rd[p].killed
  /\ rd' = [rd EXCEPT ![p].killed = TRUE, ![p].at = IF @ = "asleep" THEN "woken" ELSE @]
  /\ UNCHANGED <<buf, r, w, e, ready, line>>

-----------------------------------------------------------------------------

Next ==
  \/ \E ch \in Typed : consoleintr(ch)
  \/ \E p \in Readers : consoleread(p) \/ consoleread_woken(p) \/ returns(p) \/ kill(p)

Spec == Init /\ [][Next]_vars

-----------------------------------------------------------------------------
(* Properties *)

Between(from, to) == [k \in 1..((to - from) % IDX) |-> At((from + k - 1) % IDX)]

\* The ring, through wrap-around, erasing and the re-reading of ^D, holds what an
\* editor of lines that never runs out of indices would hold, and no reader sleeps
\* while there is something to read.
InputExact ==
  /\ ((w - r) % IDX) + ((e - w) % IDX) = (e - r) % IDX
  /\ Between(r, w) = ready
  /\ Between(w, e) = line
  /\ \A p \in Readers : rd[p].at = "asleep" => ready = <<>>
=============================================================================
