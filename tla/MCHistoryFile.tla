---------------------------- MODULE MCHistoryFile ----------------------------
(* HistoryFile on a few files, over blocks of three characters. *)
EXTENDS HistoryFile

SomeCharacters == {"a", "b", "c", "d", "e", "\n"}

SomeLines == {<< "a" >>, << "b", "b" >>}

Text(k) == << << "c", "\n" >>, << "c", "d", "\n" >>, << "e" >> >>[k]

\* No file yet; blocks that end with a line; lines that straddle the first, the second
\* block; and a last line without its newline.
SomeFiles ==
  {FlattenSeq([n \in DOMAIN w |-> Text(w[n])]) :
     w \in {<< >>, << 2, 2 >>, << 1, 2 >>, << 2, 1, 1 >>, << 1, 3 >>}}
==============================================================================
