------------------------------ MODULE MCJobList ------------------------------
(* JobList with a small heap. *)
EXTENDS JobList, TLC

\* Addresses and pids are interchangeable.
Symmetry == Permutations(Cells) \cup Permutations(Pids)
=============================================================================
