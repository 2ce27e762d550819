------------------------------- MODULE EnvMap -------------------------------
(***************************************************************************)
(* What the environment promises: a map from the names of variables to     *)
(* their values, written one name at a time, and searched by name.         *)
(***************************************************************************)
CONSTANTS Keys, Values,
          NULL            \* what get returns for a name that was never put

VARIABLES
  map,      \* the value of every name, NULL for the others
  answer    \* what the last get returned

vars == << map, answer >>

Init ==
  /\ map = [k \in Keys |-> NULL]
  /\ answer = NULL

Put(k, v) ==
  /\ map' = [map EXCEPT ![k] = v]
  /\ UNCHANGED answer

Get(k) ==
  /\ answer' = map[k]
  /\ UNCHANGED map

Next == \E k \in Keys : Get(k) \/ \E v \in Values : Put(k, v)

Spec == Init /\ [][Next]_vars
=============================================================================
