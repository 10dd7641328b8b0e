------------------------------- MODULE MCLog --------------------------------
(* Small instances of Log for TLC. *)
EXTENDS Log, TLC

\* Blocks are interchangeable; so are processes.
Symmetry == Permutations(Blocks) \cup Permutations(Procs)
=============================================================================
