-------------------------------- MODULE Grep --------------------------------
(***************************************************************************)
(* user/grep.c: lines are put together in a buffer from whatever pieces    *)
(* read() returns, and matched by backtracking.                            *)
(***************************************************************************)
EXTENDS Integers, Sequences, FiniteSets, FiniteSetsExt, SequencesExt

CONSTANTS
  Patterns, Texts,   \* sequences of characters; "nl" ends a line
  BUFSIZE            \* sizeof(buf)

VARIABLES
  pattern, text,     \* the arguments of this run
  input,             \* what is left of the text
  buf,               \* buf[0..m-1]
  out,               \* the lines written
  eof

vars == <<pattern, text, input, buf, out, eof>>

-----------------------------------------------------------------------------
(* The matcher *)

RECURSIVE matchhere(_, _)
RECURSIVE matchstar(_, _, _)

Fits(c, t) == t # <<>> /\ (c = "." \/ c = Head(t))

matchstar(c, re, t) == matchhere(re, t) \/ (Fits(c, t) /\ matchstar(c, re, Tail(t)))

matchhere(re, t) ==
  IF re = <<>> THEN TRUE
  ELSE IF Len(re) > 1 /\ re[2] = "*" THEN matchstar(re[1], SubSeq(re, 3, Len(re)), t)
  ELSE IF re = <<"$">> THEN t = <<>>
  ELSE Fits(re[1], t) /\ matchhere(Tail(re), Tail(t))

match(re, t) ==
  IF re # <<>> /\ re[1] = "^" THEN matchhere(Tail(re), t)
  ELSE \E i \in 1..(Len(t) + 1) : matchhere(re, SubSeq(t, i, Len(t)))

-----------------------------------------------------------------------------
(* grep() *)

\* The inner loop over the complete lines of b: what is left of b, and what is written.
RECURSIVE Scan(_, _)
Scan(b, written) ==
  IF ~Contains(b, "nl") THEN [left |-> b, out |-> written]
  ELSE LET q == CHOOSE i \in 1..Len(b) : b[i] = "nl" /\ \A j \in 1..(i - 1) : b[j] # "nl"
           l == SubSeq(b, 1, q - 1)
       IN Scan(SubSeq(b, q + 1, Len(b)), IF match(pattern, l) THEN Append(written, l) ELSE written)

Kept_Nothing(b) == <<>>

\* The start of a line stays in the buffer for the next read().
Kept(b) == b

Init ==
  /\ pattern \in Patterns
  /\ text \in Texts
  /\ input = text
  /\ buf = <<>>
  /\ out = <<>>
  /\ eof = FALSE

\* read() returns at most what fits, and less if it likes; 0 ends the loop, at the end
\* of the file or when a line fills the buffer.
grep ==
  /\ ~eof
  /\ LET room == BUFSIZE - Len(buf) - 1
     IN IF room = 0 \/ input = <<>>
        THEN eof' = TRUE /\ UNCHANGED <<input, buf, out>>
        ELSE \E n \in 1..room :
               /\ n <= Len(input)
               /\ LET s == Scan(buf \o SubSeq(input, 1, n), out)
                  IN buf' = Kept(s.left) /\ out' = s.out
               /\ input' = SubSeq(input, n + 1, Len(input))
               /\ UNCHANGED eof
  /\ UNCHANGED <<pattern, text>>

\* The next file.
main ==
  /\ eof
  /\ input' = text /\ buf' = <<>> /\ out' = <<>> /\ eof' = FALSE
  /\ UNCHANGED <<pattern, text>>

Next == grep \/ main

Spec == Init /\ [][Next]_vars

-----------------------------------------------------------------------------
(* What a pattern matches, by the places a match can have got to. *)

\* A pattern as items; only a $ at the end and a ^ at the start are special.
RECURSIVE Items(_)
Items(re) ==
  IF re = <<>> THEN <<>>
  ELSE IF Len(re) > 1 /\ re[2] = "*"
  THEN <<[kind |-> "star", c |-> re[1]]>> \o Items(SubSeq(re, 3, Len(re)))
  ELSE <<[kind |-> IF re = <<"$">> THEN "end" ELSE "one", c |-> re[1]]>> \o Items(Tail(re))

Is(c, ch) == c \in {".", ch}

\* From the places in set, where an item takes a match of t.
Reached(set, item, t) ==
  CASE item.kind = "end" -> set \cap {Len(t)}
    [] item.kind = "one" -> {i \in 1..Len(t) : i - 1 \in set /\ Is(item.c, t[i])}
    [] item.kind = "star" -> {j \in 0..Len(t) : \E i \in set : i <= j /\ \A k \in (i + 1)..j : Is(item.c, t[k])}

Matches(re, t) ==
  LET anchored == re # <<>> /\ re[1] = "^"
      start == IF anchored THEN {0} ELSE 0..Len(t)
      items == Items(IF anchored THEN Tail(re) ELSE re)
  IN FoldLeft(LAMBDA set, item : Reached(set, item, t), start, items) # {}

\* The complete lines of t.
RECURSIVE LinesOf(_)
LinesOf(t) ==
  LET ends == {i \in 1..Len(t) : t[i] = "nl"}
      q == CHOOSE i \in ends : \A j \in ends : i <= j
  IN IF ends = {} THEN <<>>
     ELSE <<SubSeq(t, 1, q - 1)>> \o LinesOf(SubSeq(t, q + 1, Len(t)))

\* However read() cuts the text, grep writes exactly the complete lines that the
\* pattern matches, in order; unless a line has no room in the buffer with its end,
\* when it stops, having written those before it and none after.
GrepExact ==
  LET lines == LinesOf(text)
      long == {k \in 1..Len(lines) : Len(lines[k]) >= BUFSIZE - 1}
      seen == IF long = {} THEN lines ELSE SubSeq(lines, 1, Min(long) - 1)
      matching == SelectSeq(seen, LAMBDA l : Matches(pattern, l))
  IN IF eof THEN out = matching ELSE IsPrefix(out, matching)
=============================================================================
