------------------------------ MODULE MCParser ------------------------------
(* Parser on all short lines of every token, and longer lines of fewer kinds. *)
EXTENDS ParserMeaning

CONSTANTS MaxShort,    \* bound: the tokens of a line of any kinds
          MaxLong      \* bound: the tokens of a line of the five main kinds

LinesOf(some, max) == UNION {[1..n -> some] : n \in 0..max}

SomeLines ==
  LinesOf(Tokens \ {"EOF"}, MaxShort)
    \cup LinesOf({"WORD", "OUT_REDIR_APPEND", "BIND_PIPE", "BIND_AND", "BIND_BG"}, MaxLong)
=============================================================================
