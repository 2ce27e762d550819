---------------------------- MODULE MCHashTable ----------------------------
(* HashTable with few names, every way to hash them, and a small table. *)
EXTENDS HashTable, TLC

CONSTANT MaxHash     \* bound: the largest hash value

Hashes == 0..MaxHash

Symmetry == Permutations(Keys) \cup Permutations(Values)
=============================================================================
