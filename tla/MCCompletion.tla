----------------------------- MODULE MCCompletion -----------------------------
(* Completion on few names of two characters. *)
EXTENDS Completion

CONSTANT MaxName     \* bound: the characters of a name

Names(max) == UNION {[1..n -> 1..2] : n \in 1..max}

\* One directory with up to three names, or any of the short ones; two that share some;
\* and one that is missing.
SomePaths ==
  LET few == Names(2) IN
    {<< {a, b, c} >> : a, b, c \in Names(MaxName)}
      \cup {<< d >> : d \in SUBSET few} \cup {<< {a, b}, {c} >> : a, b, c \in few}
      \cup {<< {a}, Missing >> : a \in few} \cup {<< Missing, {a} >> : a \in few}

ShortWords == Names(2)
==============================================================================
