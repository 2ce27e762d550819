---------------------------- MODULE MCJobControl ----------------------------
(* JobControl on small sets of processes. *)
EXTENDS JobControl, TLC

\* Processes other than the first shell are interchangeable (safety runs only).
Symmetry == Permutations(Pids \ {Main})
=============================================================================
