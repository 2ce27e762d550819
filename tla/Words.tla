-------------------------------- MODULE Words --------------------------------
(***************************************************************************)
(* From a line to the words of its commands: tokenize (Lexer), and then    *)
(* the loop of handle_line (src/src/parser/interpreter.c), which expands   *)
(* the variables of a word and puts the names that a pattern matches in    *)
(* its place (src/src/parser/preprocessor.c, src/src/arraylist.c).         *)
(*                                                                         *)
(* A character of an expanded word is its place in the line, or 0 for the  *)
(* value of a variable; plain characters make up names, and a variable is  *)
(* told by the length of its name.  What a pattern matches is left open.   *)
(***************************************************************************)
EXTENDS Lexer, SequencesExt

CONSTANTS SetNames,    \* the lengths of the names of variables that are set
          MaxFiles     \* bound: the names a pattern matches

ASSUME SetNamesAssumption == SetNames \subseteq Nat \ {0}
ASSUME MaxFilesAssumption == MaxFiles \in Nat

VARIABLES
  list,      \* the tokens, and whence they come
  index,     \* i of handle_line; 0 before its loop
  state

words == << list, index, state >>

WInit == LexInit /\ list = << >> /\ index = 0 /\ state = "lexing"

\* tokenize has returned.
Tokenized ==
  /\ state = "lexing" /\ done
  /\ list' = [n \in DOMAIN tokens |-> [token |-> tokens[n], of |-> n, text |-> tokens[n].chars]]
  /\ index' = 1
  /\ state' = "preprocessing"
  /\ UNCHANGED lexing

current == list[index]

Asks(flag) == current.token.type = "WORD" /\ flag \in current.token.process
-----------------------------------------------------------------------------
(* expand_variables: one pass, with ESCAPE and the name that is being read. *)

Value(length, zero) == IF length \in SetNames \/ (length = 0 /\ zero) THEN << 0 >> ELSE << >>

Ended(r, zero) ==
  IF r.name = -1 THEN r ELSE [r EXCEPT !.out = @ \o Value(r.name, zero), !.name = -1]

\* (Fault) ESCAPE is not taken back.
StepKeepsEscape(r, k, zero) ==
  LET q == IF line[k] # "plain" THEN Ended(r, zero) ELSE r IN
  IF q.name >= 0 THEN [q EXCEPT !.name = @ + 1]
  ELSE IF line[k] = "dollar" /\ ~q.escape THEN [q EXCEPT !.name = 0]
  ELSE IF line[k] = "backslash" /\ ~q.escape THEN [q EXCEPT !.escape = TRUE]
  ELSE [q EXCEPT !.out = Append(@, k)]

\* The character at k, when r.name characters of a name have been read (-1: no name).
Step(r, k, zero) ==
  LET q == IF line[k] # "plain" THEN Ended(r, zero) ELSE r IN
  IF q.name >= 0 THEN [q EXCEPT !.name = @ + 1]
  ELSE IF line[k] = "dollar" /\ ~q.escape THEN [q EXCEPT !.name = 0]
  ELSE IF line[k] = "backslash" /\ ~q.escape THEN [q EXCEPT !.escape = TRUE]
  ELSE [out |-> Append(q.out, k), escape |-> FALSE, name |-> -1]

\* get_env takes the empty name for the number 0: argv[0], when there is one.
Expanded(chars, zero) ==
  LET read[n \in 0..Len(chars)] ==
        IF n = 0 THEN [out |-> << >>, escape |-> FALSE, name |-> -1]
        ELSE Step(read[n - 1], chars[n], zero)
  IN  Ended(read[Len(chars)], zero).out

Texts ==
  IF Asks("var") THEN {Expanded(current.text, zero) : zero \in BOOLEAN} ELSE {current.text}
-----------------------------------------------------------------------------
(* open_glob *)

\* The tokens of the names that match; the pattern's text stands for each.
Names(text, count) ==
  [n \in 1..count |->
     [token |-> [type |-> "WORD", chars |-> current.token.chars, escape |-> "no", process |-> {}],
      of |-> current.of, text |-> text]]

\* (Fault) The names go behind the token that follows.
SplicedBehind(names) ==
  LET rest == RemoveAt(list, index)
  IN  SubSeq(rest, 1, index) \o names \o SubSeq(rest, index + 1, Len(rest))

\* remove_from_arraylist, merge_arraylists
Spliced(names) ==
  LET rest == RemoveAt(list, index)
  IN  SubSeq(rest, 1, index - 1) \o names \o SubSeq(rest, index, Len(rest))

\* i += open_glob(...): the names are not looked at again.
After(count) == index + count

InLoop == state = "preprocessing" /\ index <= Len(list)

\* A token that is no pattern, or a pattern that no name matches.
Expand ==
  /\ InLoop
  /\ \E text \in Texts : list' = [list EXCEPT ![index].text = text]
  /\ index' = index + 1
  /\ UNCHANGED << state, lexing >>

Glob ==
  /\ InLoop /\ Asks("glob") /\ index > 1
  /\ \E text \in Texts, count \in 1..MaxFiles : 
       /\ list' = Spliced(Names(text, count))
       /\ index' = After(count)
  /\ UNCHANGED << state, lexing >>

\* With pos = 0 the first loop of merge_arraylists never ends by its condition (i >= 0
\* for a size_t): it runs out of the list.
GlobFirst ==
  /\ InLoop /\ Asks("glob") /\ index = 1
  /\ state' = "undefined"
  /\ UNCHANGED << list, index, lexing >>

Preprocessed ==
  /\ state = "preprocessing" /\ index > Len(list)
  /\ state' = "done"
  /\ UNCHANGED << list, index, lexing >>

Stop == state \in {"done", "undefined"} /\ UNCHANGED << words, lexing >>

WNext ==
  \/ state = "lexing" /\ LexNext /\ UNCHANGED words
  \/ Tokenized \/ Expand \/ Glob \/ GlobFirst \/ Preprocessed \/ Stop

WSpec == WInit /\ [][WNext]_<< lexing, words >>
-----------------------------------------------------------------------------
\* What the loops of the parser rely on, which have no bound but this token: the list
\* that they are given ends with an EOF, and no other stands in it.
EofIsLast ==
  state = "done" =>
    list # << >> /\ \A n \in DOMAIN list : list[n].token.type = "EOF" <=> n = Len(list)

\* What the parser is given: every token of the line is there, in its order, and only a
\* pattern has become several (remove_from_arraylist and merge_arraylists move all that
\* is behind it), and its EOF is the last; the one way out of the list is a pattern in
\* the first word.
NamesInPlace ==
  /\ state = "done" =>
       /\ \A m, n \in DOMAIN list : m < n =>
            \/ list[m].of < list[n].of
            \/ list[m].of = list[n].of /\ "glob" \in tokens[list[m].of].process
       /\ {list[n].of : n \in DOMAIN list} = DOMAIN tokens
  /\ state = "undefined" => "glob" \in tokens[1].process
  /\ EofIsLast

Backslashes(k) ==
  Cardinality({j \in 1..(k - 1) : \A n \in j..(k - 1) : line[n] = "backslash"})

\* The lexer, which looks at one character, and the expansion, which counts, agree on
\* what a backslash protects: a "$" with none in front of it is gone from every word but
\* those in single quotes, and one behind an odd number of them is still there.  (A "$"
\* right behind an opening double quote is left out: see Escaped.)
ProtectedStays ==
  state = "done" =>
    \A n \in DOMAIN list : LET t == list[n].token IN
      \A k \in CharsOf(list[n].of) :
        line[k] = "dollar" /\ (t.escape = "dquote" => k # t.chars[1]) =>
          /\ Backslashes(k) = 0 /\ t.escape # "quote" => ~Contains(list[n].text, k)
          /\ Backslashes(k) % 2 = 1 /\ t.type = "WORD" => Contains(list[n].text, k)
==============================================================================
