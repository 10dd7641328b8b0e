-------------------------------- MODULE Fifo --------------------------------
(***************************************************************************)
(* What a pipe promises: a bounded first-in-first-out queue of bytes that  *)
(* takes none after its read end is closed.                                *)
(***************************************************************************)
EXTENDS Naturals, Sequences

CONSTANTS Bytes, Size

VARIABLES
  queue,    \* bytes written and not yet read
  readable  \* the read end is open

vars == <<queue, readable>>

Init == queue = <<>> /\ readable = TRUE

Put(v) ==
  /\ readable
  /\ Len(queue) < Size
  /\ queue' = Append(queue, v)
  /\ UNCHANGED readable

Get ==
  /\ readable
  /\ queue # <<>>
  /\ queue' = Tail(queue)
  /\ UNCHANGED readable

CloseRead ==
  /\ readable' = FALSE
  /\ UNCHANGED queue

Next == (\E v \in Bytes : Put(v)) \/ Get \/ CloseRead

Spec == Init /\ [][Next]_vars
=============================================================================
