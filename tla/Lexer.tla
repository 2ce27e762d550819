-------------------------------- MODULE Lexer --------------------------------
(***************************************************************************)
(* The lexer (src/src/parser/lexer.c, tokenize) over classes of            *)
(* characters.  A character is its place in the line, which ends with the  *)
(* NUL that handle_char put for the newline: tokenize is given it, too.    *)
(*                                                                         *)
(* Left out: lines 80 to 85, which keep an "&" behind a redirection for    *)
(* the word; the last token is the word pushed just before, never a        *)
(* redirection.                                                            *)
(***************************************************************************)
EXTENDS Integers, Sequences

CONSTANT Lines     \* the lines considered: sequences of classes, without the NUL

Single == [semi |-> "BIND_SEMICOLON", pipe |-> "BIND_PIPE", amp |-> "BIND_BG",
           gt |-> "OUT_REDIR_REWRITE", lt |-> "IN_REDIR"]
Double == [pipe |-> "BIND_OR", amp |-> "BIND_AND", gt |-> "OUT_REDIR_APPEND"]
Operators == DOMAIN Single
Classes == Operators \cup {"plain", "blank", "quote", "dquote", "dollar", "glob", "backslash"}

ASSUME LinesAssumption == \A l \in Lines : l \in Seq(Classes)

VARIABLES
  line,
  i,
  inWord,     \* IS_TOKEN
  word,       \* the characters of the word so far: token[0..j)
  escape,     \* esc_lvl
  process,    \* tkn_proc, as a set
  tokens,
  done

lexing == << line, i, inWord, word, escape, process, tokens, done >>

c == line[i]

LexInit ==
  /\ \E l \in Lines : line = Append(l, "nul")
  /\ i = 1
  /\ inWord = FALSE /\ word = << >> /\ escape = "no" /\ process = {}
  /\ tokens = << >> /\ done = FALSE

Reading == ~done /\ i <= Len(line)

\* (Fault) tkn_proc is not reset.
ResetKeepsProcess == inWord' = FALSE /\ word' = << >> /\ escape' = "no" /\ UNCHANGED process

Reset == inWord' = FALSE /\ word' = << >> /\ escape' = "no" /\ process' = {}

WordToken == [type |-> "WORD", chars |-> word, escape |-> escape, process |-> process]

BindToken(type, chars) == [type |-> type, chars |-> chars, escape |-> "no", process |-> {}]

\* (Fault) The second character of a double operator is read again.
OperatorOverlaps ==
  IF c \in DOMAIN Double /\ line[i + 1] = c
  THEN [bind |-> BindToken(Double[c], << i, i + 1 >>), next |-> i + 1]
  ELSE [bind |-> BindToken(Single[c], << i >>), next |-> i + 1]

\* The operator at i, and where to go on.
Operator ==
  IF c \in DOMAIN Double /\ line[i + 1] = c
  THEN [bind |-> BindToken(Double[c], << i, i + 1 >>), next |-> i + 2]
  ELSE [bind |-> BindToken(Single[c], << i >>), next |-> i + 1]
-----------------------------------------------------------------------------
(* Between words. *)

Skip ==
  /\ Reading /\ ~inWord /\ c = "blank"
  /\ i' = i + 1
  /\ UNCHANGED << line, inWord, word, escape, process, tokens, done >>

Bind ==
  /\ Reading /\ ~inWord /\ c \in Operators
  /\ tokens' = Append(tokens, Operator.bind)
  /\ i' = Operator.next
  /\ UNCHANGED << line, inWord, word, escape, process, done >>

StartQuoted ==
  /\ Reading /\ ~inWord /\ c \in {"quote", "dquote"}
  /\ escape' = c
  /\ inWord' = TRUE
  /\ i' = i + 1
  /\ UNCHANGED << line, word, process, tokens, done >>

\* Any other character starts a word, the NUL included: that word is never pushed.
StartWord ==
  /\ Reading /\ ~inWord /\ c \notin Operators \cup {"blank", "quote", "dquote"}
  /\ inWord' = TRUE
  /\ word' = Append(word, i)
  /\ process' = process \cup (CASE c = "dollar" -> {"var"} [] c = "glob" -> {"glob"}
                                [] OTHER -> {})
  /\ i' = i + 1
  /\ UNCHANGED << line, escape, tokens, done >>
-----------------------------------------------------------------------------
(* Inside a word. *)

AtEnd == IF escape = "no" THEN i = Len(line) \/ c = "blank" ELSE c = escape

\* (Fault) The character before that one is looked at.
EscapedTwoBack ==
  IF Len(word) < 2 THEN {FALSE} ELSE {line[word[Len(word) - 1]] = "backslash"}

\* token[j - 1] is a backslash.  Behind an opening quote j is 0, and what lies in
\* front of the buffer decides.
Escaped ==
  IF word = << >> THEN BOOLEAN ELSE {line[word[Len(word)]] = "backslash"}

EndWord ==
  /\ Reading /\ inWord /\ AtEnd
  /\ tokens' = Append(tokens, WordToken)
  /\ Reset
  /\ i' = i + 1
  /\ UNCHANGED << line, done >>

EndByOperator ==
  /\ Reading /\ inWord /\ ~AtEnd
  /\ escape = "no" /\ c \in Operators /\ FALSE \in Escaped
  /\ tokens' = tokens \o << WordToken, Operator.bind >>
  /\ Reset
  /\ i' = Operator.next
  /\ UNCHANGED << line, done >>

Flags(escaped) ==
  IF escaped THEN {}
  ELSE IF c = "dollar" /\ escape # "quote" THEN {"var"}
  ELSE IF c = "glob" /\ escape = "no" THEN {"glob"} ELSE {}

AddChar ==
  /\ Reading /\ inWord /\ ~AtEnd
  /\ \E escaped \in Escaped :
       /\ escape = "no" /\ c \in Operators => escaped
       /\ process' = process \cup Flags(escaped)
  /\ word' = Append(word, i)
  /\ i' = i + 1
  /\ UNCHANGED << line, inWord, escape, tokens, done >>

\* The EOF token; a word that is still open is lost.
Finish ==
  /\ ~done /\ i > Len(line)
  /\ tokens' = Append(tokens, BindToken("EOF", << >>))
  /\ done' = TRUE
  /\ UNCHANGED << line, i, inWord, word, escape, process >>

LexReturned == done /\ UNCHANGED lexing

LexNext ==
  \/ Skip \/ Bind \/ StartQuoted \/ StartWord
  \/ EndWord \/ EndByOperator \/ AddChar
  \/ Finish \/ LexReturned
-----------------------------------------------------------------------------
Places == 1..Len(line)
WordTokens == {n \in DOMAIN tokens : tokens[n].type = "WORD"}

CharsOf(n) == {tokens[n].chars[k] : k \in DOMAIN tokens[n].chars}

\* The characters that are in no token.
Lost == Places \ UNION {CharsOf(n) : n \in DOMAIN tokens}

\* A backslash stands before the place.
Protected(k) == k > 1 /\ line[k - 1] = "backslash"

\* What the parser and the expansion rely on: the characters of the tokens, one token
\* after the other, run through the line without a repetition; those of one token
\* lie next to each other; and nothing is left out but blanks and quotes, the NUL, and
\* a quoted word that the line does not close.
TokensCoverLine ==
  done =>
    /\ \A m, n \in DOMAIN tokens : m < n =>
         \A j \in CharsOf(m), k \in CharsOf(n) : j < k
    /\ \A n \in DOMAIN tokens : \A k \in 1..(Len(tokens[n].chars) - 1) :
         tokens[n].chars[k + 1] = tokens[n].chars[k] + 1
    /\ \A k \in Lost :
         \/ line[k] \in {"blank", "quote", "dquote", "nul"}
         \/ inWord /\ escape # "no" /\ \E j \in DOMAIN word : word[j] = k

\* Where a token ends: no bare word holds a blank or an operator that no backslash
\* protects, no quoted word its own quote, and none the NUL; and two operators of one
\* kind next to each other are read as the double one, from the left.
TokensEndInTime ==
  /\ \A n \in WordTokens : \A k \in CharsOf(n) :
       LET bare == tokens[n].escape = "no" IN
         /\ line[k] # "nul" /\ line[k] # tokens[n].escape
         /\ bare => line[k] # "blank"
         /\ bare /\ line[k] \in Operators => Protected(k)
  /\ \A m, n \in DOMAIN tokens :
       /\ m + 1 = n /\ tokens[m].type = tokens[n].type
       /\ tokens[m].type \in {Single[o] : o \in DOMAIN Double}
       => \A j \in CharsOf(m), k \in CharsOf(n) : k # j + 1

\* A word is expanded if and only if a character of its own asks for it: the flags of
\* the word before never reach it.  (A "$" right behind an opening quote may or may
\* not count.)
FlagsAreTheWordsOwn ==
  \A n \in WordTokens :
    LET Asks(class) ==
          {k \in CharsOf(n) : line[k] = class
             /\ (k = tokens[n].chars[1] \/ line[k - 1] # "backslash")}
    IN  /\ "glob" \in tokens[n].process <=> tokens[n].escape = "no" /\ Asks("glob") # {}
        /\ "var" \in tokens[n].process => tokens[n].escape # "quote" /\ Asks("dollar") # {}
        /\ tokens[n].escape # "quote"
             /\ (\E k \in Asks("dollar") : tokens[n].escape = "no" \/ k # tokens[n].chars[1])
             => "var" \in tokens[n].process
=============================================================================
