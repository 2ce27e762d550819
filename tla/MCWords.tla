------------------------------- MODULE MCWords -------------------------------
(* Words on all short lines, and longer lines of the classes that interact. *)
EXTENDS Words

CONSTANTS MaxShort,    \* bound: the length of a line of all classes
          MaxLong      \* bound: the length of a line of the main ones

LinesOf(classes, max) == UNION {[1..n -> classes] : n \in 1..max}

SomeLines ==
  LinesOf(Classes, MaxShort)
    \cup LinesOf({"plain", "blank", "amp", "dquote", "backslash", "glob"}, MaxLong)
    \cup LinesOf({"plain", "blank", "dollar", "backslash", "glob"}, MaxLong)
==============================================================================
