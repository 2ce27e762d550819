--------------------------- MODULE LanguageProofs ---------------------------
(***************************************************************************)
(* Proofs about the way from a line to its commands, for lines of any      *)
(* length: the lexer loses no character and ends every token in time, the  *)
(* list keeps the tokens in their places and the dollars that are          *)
(* protected, the parser never reads behind the end of the line, the       *)
(* chains it returns have the shape that the executor relies on and are    *)
(* what the line says, and an ill-formed line loses words to a misplaced   *)
(* pipe only.                                                              *)
(***************************************************************************)
EXTENDS Words, ParserMeaning, NatInduction
-----------------------------------------------------------------------------
(***************************************************************************)
(* The lexer.  The line falls into three: up to the word that is being     *)
(* read, whose characters are in tokens or lie between them; that word;    *)
(* and what has not been read.                                             *)
(***************************************************************************)

Types ==
  {"WORD", "EOF"} \cup {Single[o] : o \in Operators} \cup {Double[o] : o \in DOMAIN Double}

LexedToken ==
  [type : Types, chars : Seq(Nat), escape : {"no", "quote", "dquote"},
   process : SUBSET {"var", "glob"}]

LexTyped ==
  /\ line \in Seq(Classes \cup {"nul"}) /\ Len(line) > 0
  /\ \A k \in 1..Len(line) : line[k] = "nul" <=> k = Len(line)
  /\ i \in 1..(Len(line) + 1)
  /\ inWord \in BOOLEAN /\ word \in Seq(Nat)
  /\ escape \in {"no", "quote", "dquote"} /\ process \in SUBSET {"var", "glob"}
  /\ tokens \in Seq(LexedToken)
  /\ done \in BOOLEAN

PlacesOf(chars) == {chars[k] : k \in DOMAIN chars}

\* What is left out between two tokens.
Between == {"blank", "quote", "dquote", "nul"}

\* The characters of one class that ask for an expansion: no backslash stands before
\* them, or the word begins with them.
Asking(l, chars, class) ==
  {k \in PlacesOf(chars) : l[k] = class /\ (k = chars[1] \/ l[k - 1] # "backslash")}

Flagged(l, chars, esc, flags) ==
  /\ "glob" \in flags <=> esc = "no" /\ Asking(l, chars, "glob") # {}
  /\ "var" \in flags => esc # "quote" /\ Asking(l, chars, "dollar") # {}
  /\ esc # "quote" /\ (\E k \in Asking(l, chars, "dollar") : esc = "no" \/ k # chars[1])
       => "var" \in flags

InTime(l, chars, esc) ==
  \A k \in PlacesOf(chars) :
    /\ l[k] # esc
    /\ esc = "no" => l[k] # "blank"
    /\ esc = "no" /\ l[k] \in Operators => k > 1 /\ l[k - 1] = "backslash"

\* No backslash stands in front of the word: none that protects its first character.
StartsFree(l, chars) == chars # << >> /\ chars[1] > 1 => l[chars[1] - 1] # "backslash"

TokenOK(l, t) ==
  /\ \A k \in 1..(Len(t.chars) - 1) : t.chars[k + 1] = t.chars[k] + 1
  /\ t.type = "WORD" => /\ InTime(l, t.chars, t.escape)
                        /\ Flagged(l, t.chars, t.escape, t.process)
                        /\ StartsFree(l, t.chars)
                        /\ \A k \in PlacesOf(t.chars) : l[k] # "nul"
  /\ t.type # "WORD" => \A k \in PlacesOf(t.chars) : l[k] \in Operators
  /\ \A o \in DOMAIN Double : t.type = Single[o] =>
       \E p \in 1..(Len(l) - 1) : t.chars = << p >> /\ l[p] = o /\ l[p + 1] # o

\* Tokens, one behind the other, from places in front of end.
InRow(l, ts, end) ==
  /\ \A n \in DOMAIN ts : TokenOK(l, ts[n]) /\ \A k \in PlacesOf(ts[n].chars) : k \in 1..(end - 1)
  /\ \A m, n \in DOMAIN ts : m < n =>
       \A j \in PlacesOf(ts[m].chars), k \in PlacesOf(ts[n].chars) : j < k

\* Nothing in front of end is lost.
Covered(l, ts, end) ==
  \A k \in 1..(end - 1) :
    l[k] \in Between \/ \E n \in DOMAIN ts : k \in PlacesOf(ts[n].chars)

\* The word that is being read: it ends in front of i.
WordOK ==
  /\ ~inWord => word = << >> /\ escape = "no" /\ process = {}
  /\ Len(word) < i /\ \A k \in 1..Len(word) : word[k] = i - Len(word) - 1 + k
  /\ inWord /\ escape = "no" => word # << >>
  /\ inWord /\ escape = "no" /\ i > Len(line) => \A k \in 1..Len(word) : line[word[k]] = "nul"
  /\ InTime(line, word, escape) /\ Flagged(line, word, escape, process)
  /\ StartsFree(line, word)
  /\ i > 1 /\ word = << >> => line[i - 1] # "backslash"

\* The EOF token is the last one.
EndsInEof ==
  /\ done => i > Len(line) /\ tokens # << >>
  /\ \A n \in DOMAIN tokens : tokens[n].type = "EOF" <=> done /\ n = Len(tokens)

LexInv ==
  /\ LexTyped /\ WordOK /\ EndsInEof
  /\ InRow(line, tokens, i - Len(word)) /\ Covered(line, tokens, i - Len(word))
-----------------------------------------------------------------------------
(* Sequences of tokens and of places. *)

\* Adding a place to a word.
LEMMA PlacesAdded ==
  ASSUME NEW s \in Seq(Nat), NEW k \in Nat
  PROVE  PlacesOf(Append(s, k)) = PlacesOf(s) \cup {k}
<1>1. DOMAIN Append(s, k) = DOMAIN s \cup {Len(s) + 1}
  BY Appended
<1> QED
  BY <1>1, Appended DEF PlacesOf

\* A word without characters.
LEMMA PlacesOfNone == PlacesOf(<< >>) = {}
BY DEF PlacesOf

\* A token whose places lie behind the others goes to their end.
LEMMA RowPushed ==
  ASSUME NEW l, NEW ts \in Seq(LexedToken), NEW t \in LexedToken, TokenOK(l, t),
         NEW end \in Nat, NEW end2 \in Nat, end <= end2, end >= 1, InRow(l, ts, end),
         \A k \in PlacesOf(t.chars) : k \in end..(end2 - 1)
  PROVE  Append(ts, t) \in Seq(LexedToken) /\ InRow(l, Append(ts, t), end2)
<1> DEFINE new == Append(ts, t)
<1>1. /\ new \in Seq(LexedToken) /\ DOMAIN new = 1..(Len(ts) + 1) /\ DOMAIN ts = 1..Len(ts)
      /\ Len(ts) \in Nat /\ \A n \in 1..Len(ts) : new[n] = ts[n]
      /\ new[Len(ts) + 1] = t
  BY Appended
<1> HIDE DEF new
<1>2. \A n \in 1..Len(ts) : TokenOK(l, ts[n]) /\ \A k \in PlacesOf(ts[n].chars) : k \in 1..(end - 1)
  BY <1>1 DEF InRow
<1>3. \A n \in DOMAIN new : TokenOK(l, new[n]) /\ \A k \in PlacesOf(new[n].chars) : k \in 1..(end2 - 1)
  <2> TAKE n \in DOMAIN new
  <2>1. CASE n \in 1..Len(ts)
    <3>1. 1..(end - 1) \subseteq 1..(end2 - 1)
      OBVIOUS
    <3> QED
      BY <1>1, <1>2, <2>1, <3>1
  <2>2. CASE n = Len(ts) + 1
    <3>1. end..(end2 - 1) \subseteq 1..(end2 - 1)
      OBVIOUS
    <3> QED
      BY <1>1, <2>2, <3>1
  <2> QED
    BY <1>1, <2>1, <2>2
<1>4. ASSUME NEW m \in DOMAIN new, NEW n \in DOMAIN new, m < n,
             NEW j \in PlacesOf(new[m].chars), NEW k \in PlacesOf(new[n].chars)
      PROVE  j < k
  <2>1. m \in 1..Len(ts)
    BY <1>1, <1>4
  <2>2. CASE n \in 1..Len(ts)
    BY <1>1, <1>4, <2>1, <2>2 DEF InRow
  <2>3. CASE n = Len(ts) + 1
    <3>1. j \in 1..(end - 1) /\ k \in end..(end2 - 1)
      BY <1>1, <1>2, <1>4, <2>1, <2>3
    <3> QED
      BY <3>1
  <2> QED
    BY <1>1, <2>2, <2>3
<1> QED
  BY <1>1, <1>3, <1>4 DEF InRow, new

\* What the token holds, and what lies between it and the others, is covered then.
LEMMA CoveredPushed ==
  ASSUME NEW l, NEW ts \in Seq(LexedToken), NEW t \in LexedToken,
         NEW end \in Nat, NEW end2 \in Nat, Covered(l, ts, end),
         \A k \in end..(end2 - 1) : l[k] \in Between \/ k \in PlacesOf(t.chars)
  PROVE  Covered(l, Append(ts, t), end2)
<1> DEFINE new == Append(ts, t)
<1>1. /\ DOMAIN new = 1..(Len(ts) + 1) /\ DOMAIN ts = 1..Len(ts)
      /\ Len(ts) \in Nat /\ \A n \in 1..Len(ts) : new[n] = ts[n]
      /\ new[Len(ts) + 1] = t
  BY Appended
<1> HIDE DEF new
<1>2. ASSUME NEW k \in 1..(end2 - 1), l[k] \notin Between
      PROVE  \E n \in DOMAIN new : k \in PlacesOf(new[n].chars)
  <2>1. CASE k \in 1..(end - 1)
    <3>1. PICK n \in DOMAIN ts : k \in PlacesOf(ts[n].chars)
      BY <1>2, <2>1 DEF Covered
    <3> QED
      BY <1>1, <3>1
  <2>2. CASE k \in end..(end2 - 1)
    <3>1. k \in PlacesOf(new[Len(ts) + 1].chars)
      BY <1>1, <1>2, <2>2
    <3> QED
      BY <1>1, <3>1
  <2> QED
    BY <2>1, <2>2
<1> QED
  BY <1>2 DEF Covered, new

\* The same without a token: what is passed over lies between words.
LEMMA RowWidened ==
  ASSUME NEW l, NEW ts, NEW end \in Nat, NEW end2 \in Nat, end <= end2,
         InRow(l, ts, end), Covered(l, ts, end),
         \A k \in end..(end2 - 1) : l[k] \in Between
  PROVE  InRow(l, ts, end2) /\ Covered(l, ts, end2)
<1>1. 1..(end - 1) \subseteq 1..(end2 - 1)
  OBVIOUS
<1>2. InRow(l, ts, end2)
  BY <1>1 DEF InRow
<1>3. \A k \in 1..(end2 - 1) : k \in 1..(end - 1) \/ k \in end..(end2 - 1)
  OBVIOUS
<1>4. Covered(l, ts, end2)
  BY <1>3 DEF Covered
<1> QED
  BY <1>2, <1>4

\* The places of the word are those in front of i, as many as it has characters.
LEMMA WordPlacesOf ==
  ASSUME LexTyped, WordOK
  PROVE  /\ Len(word) \in Nat /\ DOMAIN word = 1..Len(word) /\ i - Len(word) \in 1..i
         /\ PlacesOf(word) = (i - Len(word))..(i - 1)
         /\ word # << >> => word[Len(word)] = i - 1 /\ word[1] = i - Len(word) /\ Len(word) >= 1
         /\ word = << >> => Len(word) = 0
<1>1. Len(word) \in Nat /\ DOMAIN word = 1..Len(word) /\ i \in Nat
  BY DEF LexTyped
<1>2. \A k \in 1..Len(word) : word[k] = i - Len(word) - 1 + k
  BY DEF WordOK
<1>3. PlacesOf(word) = (i - Len(word))..(i - 1)
  <2>1. ASSUME NEW p \in (i - Len(word))..(i - 1) PROVE p \in PlacesOf(word)
    <3>1. p - (i - Len(word)) + 1 \in 1..Len(word)
      BY <1>1
    <3>2. word[p - (i - Len(word)) + 1] = p
      BY <1>1, <1>2, <3>1
    <3> QED
      BY <1>1, <3>1, <3>2 DEF PlacesOf
  <2>2. ASSUME NEW p \in PlacesOf(word) PROVE p \in (i - Len(word))..(i - 1)
    <3>1. PICK k \in 1..Len(word) : p = word[k]
      BY <1>1 DEF PlacesOf
    <3> QED
      BY <1>1, <1>2, <3>1
  <2> QED
    BY <2>1, <2>2
<1>4. word # << >> => Len(word) >= 1
  BY DEF LexTyped
<1> QED
  BY <1>1, <1>2, <1>3, <1>4 DEF WordOK

\* The operators, and what each is alone and doubled.
LEMMA OperatorTable ==
  /\ Operators = {"semi", "pipe", "amp", "gt", "lt"}
  /\ DOMAIN Double = {"pipe", "amp", "gt"}
  /\ \A o \in Operators : Single[o] \in Types \ {"WORD", "EOF"}
  /\ \A o \in DOMAIN Double : Double[o] \in Types \ {"WORD", "EOF"}
  /\ \A o, p \in Operators : Single[o] = Single[p] => o = p
  /\ \A o \in Operators, p \in DOMAIN Double : Single[o] # Double[p]
<1>1. Operators = {"semi", "pipe", "amp", "gt", "lt"} /\ DOMAIN Double = {"pipe", "amp", "gt"}
  BY DEF Operators, Single, Double
<1>2. /\ Single["semi"] = "BIND_SEMICOLON" /\ Single["pipe"] = "BIND_PIPE"
      /\ Single["amp"] = "BIND_BG" /\ Single["gt"] = "OUT_REDIR_REWRITE"
      /\ Single["lt"] = "IN_REDIR"
  BY DEF Single
<1>3. /\ Double["pipe"] = "BIND_OR" /\ Double["amp"] = "BIND_AND"
      /\ Double["gt"] = "OUT_REDIR_APPEND"
  BY DEF Double
<1>4. /\ \A o \in Operators : Single[o] \in Types
      /\ \A o \in DOMAIN Double : Double[o] \in Types
  BY DEF Types
<1> QED
  BY <1>1, <1>2, <1>3, <1>4

\* What push_bind pushes.
LEMMA BindIsToken ==
  ASSUME NEW type \in Types, NEW chars \in Seq(Nat)
  PROVE  /\ BindToken(type, chars) \in LexedToken
         /\ BindToken(type, chars).type = type /\ BindToken(type, chars).chars = chars
BY DEF BindToken, LexedToken

\* The operator at i is a token of its own, and the double one is taken whenever there is one.
LEMMA OperatorToken ==
  ASSUME LexTyped, i <= Len(line), c \in Operators
  PROVE  /\ Operator.bind \in LexedToken /\ TokenOK(line, Operator.bind)
         /\ Operator.bind.type \notin {"WORD", "EOF"}
         /\ Operator.next \in (i + 1)..(Len(line) + 1)
         /\ PlacesOf(Operator.bind.chars) = i..(Operator.next - 1)
         /\ line[Operator.next - 1] = c
<1>1. Len(line) \in Nat /\ i \in 1..Len(line) /\ c = line[i]
  BY DEF LexTyped, c
<1>2. i < Len(line) /\ i + 1 \in 1..Len(line)
  <2>1. c # "nul"
    BY OperatorTable
  <2> QED
    BY <1>1, <2>1 DEF LexTyped
<1>3. CASE c \in DOMAIN Double /\ line[i + 1] = c
  <2> DEFINE b == BindToken(Double[c], << i, i + 1 >>)
  <2>1. Operator.bind = b /\ Operator.next = i + 2
    BY <1>3 DEF Operator
  <2>2. b \in LexedToken /\ b.type = Double[c] /\ b.chars = << i, i + 1 >>
    <3>1. Double[c] \in Types /\ << i, i + 1 >> \in Seq(Nat)
      BY <1>1, <1>3, OperatorTable
    <3> QED
      BY <3>1, BindIsToken
  <2> HIDE DEF b
  <2>3. b.type \notin {"WORD", "EOF"} /\ \A o \in DOMAIN Double : b.type # Single[o]
    BY <1>3, <2>2, OperatorTable
  <2>4. PlacesOf(<< i, i + 1 >>) = i..(i + 1) /\ i..(i + 1) = {i, i + 1}
    BY <1>1 DEF PlacesOf
  <2>5. TokenOK(line, b)
    <3>1. \A k \in PlacesOf(b.chars) : line[k] \in Operators
      BY <1>1, <1>3, <2>2, <2>4
    <3> QED
      BY <1>1, <2>2, <2>3, <3>1 DEF TokenOK
  <2> QED
    BY <1>1, <1>2, <1>3, <2>1, <2>2, <2>3, <2>4, <2>5
<1>4. CASE ~(c \in DOMAIN Double /\ line[i + 1] = c)
  <2> DEFINE b == BindToken(Single[c], << i >>)
  <2>1. Operator.bind = b /\ Operator.next = i + 1
    BY <1>4 DEF Operator
  <2>2. b \in LexedToken /\ b.type = Single[c] /\ b.chars = << i >>
    <3>1. Single[c] \in Types /\ << i >> \in Seq(Nat)
      BY <1>1, OperatorTable
    <3> QED
      BY <3>1, BindIsToken
  <2> HIDE DEF b
  <2>3. b.type \notin {"WORD", "EOF"}
    BY <2>2, OperatorTable
  <2>4. \A o \in DOMAIN Double : b.type = Single[o] => line[i] = o /\ line[i + 1] # o
    BY <1>1, <1>4, <2>2, OperatorTable
  <2>5. TokenOK(line, b)
    <3>1. \A k \in PlacesOf(b.chars) : line[k] \in Operators
      BY <1>1, <2>2 DEF PlacesOf
    <3> QED
      BY <1>1, <1>2, <2>2, <2>3, <2>4, <3>1 DEF TokenOK
  <2>6. PlacesOf(<< i >>) = i..i /\ (i + 1) - 1 = i /\ i + 1 \in (i + 1)..(Len(line) + 1)
    BY <1>1 DEF PlacesOf
  <2> QED
    BY <1>1, <1>2, <2>1, <2>2, <2>3, <2>5, <2>6
<1> QED
  BY <1>3, <1>4

\* A word that is closed in time is a token.
LEMMA WordIsToken ==
  ASSUME LexTyped, WordOK, i <= Len(line)
  PROVE  WordToken \in LexedToken /\ TokenOK(line, WordToken) /\ WordToken.chars = word
         /\ WordToken.type = "WORD"
<1>1. /\ WordToken \in LexedToken /\ WordToken.type = "WORD" /\ WordToken.chars = word
      /\ WordToken.escape = escape /\ WordToken.process = process
  BY DEF WordToken, LexedToken, LexTyped, Types
<1> DEFINE t == WordToken
<1> HIDE DEF t
<1>2. Len(line) \in Nat /\ Len(word) \in Nat /\ i \in Nat
  BY DEF LexTyped
<1>3. \A k \in 1..(Len(word) - 1) : word[k + 1] = word[k] + 1
  <2> TAKE k \in 1..(Len(word) - 1)
  <2>1. word[k] = i - Len(word) - 1 + k /\ word[k + 1] = i - Len(word) - 1 + (k + 1)
    BY <1>2 DEF WordOK
  <2> QED
    BY <1>2, <2>1
<1>4. \A k \in PlacesOf(word) : line[k] # "nul"
  <2>1. \A k \in PlacesOf(word) : k \in 1..Len(line) /\ k # Len(line)
    BY <1>2, WordPlacesOf
  <2> QED
    BY <2>1 DEF LexTyped
<1>5. \A o \in DOMAIN Double : Single[o] # "WORD"
  BY OperatorTable
<1> QED
  BY <1>1, <1>3, <1>4, <1>5 DEF TokenOK, WordOK

\* The first character of a word asks for itself.
LEMMA AskingFirst ==
  ASSUME NEW l, NEW k \in Nat, NEW class
  PROVE  Asking(l, << k >>, class) = {n \in {k} : l[k] = class}
<1>1. PlacesOf(<< k >>) = {k}
  BY DEF PlacesOf
<1> QED
  BY <1>1 DEF Asking

\* One that is added asks unless a backslash stands in front of it.
LEMMA AskingAdded ==
  ASSUME NEW l, NEW s \in Seq(Nat), s # << >>, NEW k \in Nat, k # s[1], NEW class
  PROVE  /\ Append(s, k)[1] = s[1]
         /\ Asking(l, Append(s, k), class) =
              Asking(l, s, class) \cup {n \in {k} : l[k] = class /\ l[k - 1] # "backslash"}
<1>1. Append(s, k)[1] = s[1]
  BY Appended
<1> QED
  BY <1>1, PlacesAdded DEF Asking

\* An empty word ends where it begins.
LEMMA NoLength ==
  ASSUME NEW n \in Nat \ {0}, NEW len, len = 0
  PROVE  len < n /\ n - len = n
OBVIOUS

\* Before the first character of a word.
LEMMA NoWordYet ==
  ASSUME word' = << >>, process' = {}, i' \in Nat \ {0},
         IF inWord' THEN escape' \in {"quote", "dquote"} ELSE escape' = "no",
         i' > 1 => line'[i' - 1] # "backslash"
  PROVE  WordOK' /\ i' - Len(word') = i'
<1>1. Len(word') = 0 /\ 1..Len(word') = {} /\ PlacesOf(word') = {}
  BY PlacesOfNone
<1>2. \A class : Asking(line', word', class) = {}
  BY <1>1 DEF Asking
<1>3. InTime(line', word', escape')
  BY <1>1 DEF InTime
<1>4. Flagged(line', word', escape', process')
  BY <1>2 DEF Flagged
<1>5. /\ ~inWord' => word' = << >> /\ escape' = "no" /\ process' = {}
      /\ ~(inWord' /\ escape' = "no")
  BY Zenon
<1>6. Len(word') < i' /\ i' - Len(word') = i'
  BY <1>1, NoLength, Zenon
<1>7. \A k \in 1..Len(word') : word'[k] = i' - Len(word') - 1 + k
  BY <1>1
<1>8. /\ inWord' /\ escape' = "no" => word' # << >>
      /\ inWord' /\ escape' = "no" /\ i' > Len(line') => \A k \in 1..Len(word') : line'[word'[k]] = "nul"
  BY <1>5, Zenon
<1>9. StartsFree(line', word')
  BY Zenon DEF StartsFree
<1> QED
  BY <1>3, <1>4, <1>5, <1>6, <1>7, <1>8, <1>9, Zenon DEF WordOK

\* Only the last token is an EOF, when the line is over.
LEMMA NoEofYet ==
  ASSUME LexTyped, EndsInEof, ~done, done' = done, NEW t \in LexedToken, t.type # "EOF",
         NEW ts \in Seq(LexedToken), \A n \in DOMAIN ts : ts[n].type # "EOF"
  PROVE  \A n \in DOMAIN Append(ts, t) : Append(ts, t)[n].type # "EOF"
<1>1. \A n \in 1..Len(ts) : ts[n].type # "EOF"
  BY Appended
<1>2. DOMAIN Append(ts, t) = 1..Len(ts) \cup {Len(ts) + 1}
  BY Appended
<1> QED
  BY <1>1, <1>2, Appended

\* Between words: a blank is passed over.
LEMMA SkipKeeps == LexInv /\ Skip => LexInv'
<1> SUFFICES ASSUME LexInv, Skip PROVE LexInv'
  OBVIOUS
<1>1. /\ ~done /\ i <= Len(line) /\ ~inWord /\ line[i] = "blank" /\ i' = i + 1
      /\ line' = line /\ inWord' = inWord /\ word' = word /\ escape' = escape
      /\ process' = process /\ tokens' = tokens /\ done' = done
  BY DEF Skip, Reading, c
<1>2. LexTyped /\ WordOK /\ EndsInEof
  BY DEF LexInv
<1>3. word = << >> /\ escape = "no" /\ process = {} /\ Len(word) = 0 /\ i \in 1..Len(line)
      /\ Len(line) \in Nat
  BY <1>1, <1>2 DEF WordOK, LexTyped
<1>4. LexTyped'
  BY <1>1, <1>2, <1>3 DEF LexTyped
<1>5. WordOK' /\ i' - Len(word') = i'
  BY <1>1, <1>3, NoWordYet
<1>6. InRow(line, tokens, i + 1) /\ Covered(line, tokens, i + 1)
  <2>1. \A k \in i..((i + 1) - 1) : line[k] \in Between
    BY <1>1, <1>3 DEF Between
  <2>2. InRow(line, tokens, i) /\ Covered(line, tokens, i)
    BY <1>3 DEF LexInv
  <2> QED
    BY <1>3, <2>1, <2>2, RowWidened
<1>7. EndsInEof'
  BY <1>1, <1>2 DEF EndsInEof
<1> QED
  BY <1>1, <1>4, <1>5, <1>6, <1>7 DEF LexInv

\* An operator becomes a token.
LEMMA BindKeeps == LexInv /\ Bind => LexInv'
<1> SUFFICES ASSUME LexInv, Bind PROVE LexInv'
  OBVIOUS
<1> DEFINE b == Operator.bind
           next == Operator.next
<1>1. /\ ~done /\ i <= Len(line) /\ ~inWord /\ c \in Operators /\ i' = next
      /\ tokens' = Append(tokens, b)
      /\ line' = line /\ inWord' = inWord /\ word' = word /\ escape' = escape
      /\ process' = process /\ done' = done
  BY DEF Bind, Reading
<1>2. LexTyped /\ WordOK /\ EndsInEof
  BY DEF LexInv
<1>3. word = << >> /\ escape = "no" /\ process = {} /\ Len(word) = 0 /\ i \in 1..Len(line)
      /\ Len(line) \in Nat /\ tokens \in Seq(LexedToken)
  BY <1>1, <1>2 DEF WordOK, LexTyped
<1>4. /\ b \in LexedToken /\ TokenOK(line, b) /\ b.type # "EOF"
      /\ next \in (i + 1)..(Len(line) + 1) /\ PlacesOf(b.chars) = i..(next - 1)
      /\ line[next - 1] = c
  BY <1>1, <1>2, OperatorToken
<1> HIDE DEF b, next
<1>5. InRow(line, tokens', next) /\ Covered(line, tokens', next) /\ tokens' \in Seq(LexedToken)
  <2>1. InRow(line, tokens, i) /\ Covered(line, tokens, i)
    BY <1>3 DEF LexInv
  <2>2. i \in Nat /\ next \in Nat /\ i <= next /\ i >= 1
    BY <1>3, <1>4
  <2> QED
    BY <1>1, <1>3, <1>4, <2>1, <2>2, RowPushed, CoveredPushed
<1>6. LexTyped'
  BY <1>1, <1>2, <1>3, <1>4, <1>5 DEF LexTyped
<1>7. WordOK' /\ i' - Len(word') = i'
  <2>1. c # "backslash"
    BY <1>1, OperatorTable
  <2> QED
    BY <1>1, <1>3, <1>4, <2>1, NoWordYet
<1>8. EndsInEof'
  <2>1. \A n \in DOMAIN tokens' : tokens'[n].type # "EOF"
    BY <1>1, <1>2, <1>3, <1>4, NoEofYet DEF EndsInEof
  <2> QED
    BY <1>1, <2>1 DEF EndsInEof
<1> QED
  BY <1>1, <1>5, <1>6, <1>7, <1>8 DEF LexInv

\* A quote is passed over and begins a word.
LEMMA StartQuotedKeeps == LexInv /\ StartQuoted => LexInv'
<1> SUFFICES ASSUME LexInv, StartQuoted PROVE LexInv'
  OBVIOUS
<1>1. /\ ~done /\ i <= Len(line) /\ ~inWord /\ line[i] \in {"quote", "dquote"} /\ i' = i + 1
      /\ escape' = line[i] /\ inWord' = TRUE
      /\ line' = line /\ word' = word /\ process' = process /\ tokens' = tokens /\ done' = done
  BY DEF StartQuoted, Reading, c
<1>2. LexTyped /\ WordOK /\ EndsInEof
  BY DEF LexInv
<1>3. word = << >> /\ escape = "no" /\ process = {} /\ Len(word) = 0 /\ i \in 1..Len(line)
      /\ Len(line) \in Nat
  BY <1>1, <1>2 DEF WordOK, LexTyped
<1>4. LexTyped'
  BY <1>1, <1>2, <1>3 DEF LexTyped
<1>5. WordOK' /\ i' - Len(word') = i'
  BY <1>1, <1>3, NoWordYet
<1>6. InRow(line, tokens, i + 1) /\ Covered(line, tokens, i + 1)
  <2>1. \A k \in i..((i + 1) - 1) : line[k] \in Between
    BY <1>1, <1>3 DEF Between
  <2>2. InRow(line, tokens, i) /\ Covered(line, tokens, i)
    BY <1>3 DEF LexInv
  <2> QED
    BY <1>3, <2>1, <2>2, RowWidened
<1>7. EndsInEof'
  BY <1>1, <1>2 DEF EndsInEof
<1> QED
  BY <1>1, <1>4, <1>5, <1>6, <1>7 DEF LexInv

\* A bare word begins with its first character and its flag.
LEMMA StartWordKeeps == LexInv /\ StartWord => LexInv'
<1> SUFFICES ASSUME LexInv, StartWord PROVE LexInv'
  OBVIOUS
<1>1. /\ ~done /\ i <= Len(line) /\ ~inWord /\ i' = i + 1 /\ inWord' = TRUE
      /\ line[i] \notin Operators \cup {"blank", "quote", "dquote"}
      /\ word' = Append(word, i)
      /\ line' = line /\ escape' = escape /\ tokens' = tokens /\ done' = done
  BY DEF StartWord, Reading, c
<1>2. LexTyped /\ WordOK /\ EndsInEof
  BY DEF LexInv
<1>3. word = << >> /\ escape = "no" /\ process = {} /\ Len(word) = 0 /\ i \in 1..Len(line)
      /\ Len(line) \in Nat
  BY <1>1, <1>2 DEF WordOK, LexTyped
<1>4. word' = << i >> /\ Len(word') = 1 /\ word' \in Seq(Nat) /\ word'[1] = i /\ word' # << >>
  BY <1>1, <1>3
<1>5. process' = IF line[i] = "dollar" THEN {"var"} ELSE IF line[i] = "glob" THEN {"glob"} ELSE {}
  BY <1>3 DEF StartWord, c
<1>6. LexTyped'
  BY <1>1, <1>2, <1>3, <1>4, <1>5 DEF LexTyped
<1>7. PlacesOf(word') = {i}
  BY <1>4 DEF PlacesOf
<1>8. InTime(line, word', escape')
  BY <1>1, <1>3, <1>7 DEF InTime, LexTyped, LexInv, Classes
<1>9. Flagged(line, word', escape', process')
  <2>1. \A class : Asking(line, word', class) = {n \in {i} : line[i] = class}
    BY <1>3, <1>4, AskingFirst
  <2> QED
    BY <1>1, <1>3, <1>5, <2>1 DEF Flagged
<1>10. WordOK'
  <2>1. i > Len(line) - 1 => line[i] = "nul"
    BY <1>2, <1>3 DEF LexTyped
  <2>2. 1..Len(word') = {1} /\ i' - Len(word') - 1 + 1 = i /\ Len(word') < i'
    BY <1>1, <1>3, <1>4
  <2>3. StartsFree(line', word')
    BY <1>1, <1>2, <1>3, <1>4 DEF WordOK, StartsFree
  <2> QED
    BY <1>1, <1>3, <1>4, <1>8, <1>9, <2>1, <2>2, <2>3 DEF WordOK
<1>11. i' - Len(word') = i /\ i - Len(word) = i
  BY <1>1, <1>3, <1>4
<1>12. EndsInEof'
  BY <1>1, <1>2 DEF EndsInEof
<1> QED
  BY <1>1, <1>6, <1>10, <1>11, <1>12 DEF LexInv

\* A word is closed; its quote or the blank is passed over.
LEMMA EndWordKeeps == LexInv /\ EndWord => LexInv'
<1> SUFFICES ASSUME LexInv, EndWord PROVE LexInv'
  OBVIOUS
<1>1. /\ ~done /\ i <= Len(line) /\ inWord /\ AtEnd /\ i' = i + 1
      /\ tokens' = Append(tokens, WordToken)
      /\ inWord' = FALSE /\ word' = << >> /\ escape' = "no" /\ process' = {}
      /\ line' = line /\ done' = done
  BY DEF EndWord, Reading, Reset
<1>2. LexTyped /\ WordOK /\ EndsInEof
  BY DEF LexInv
<1>3. i \in 1..Len(line) /\ Len(line) \in Nat /\ tokens \in Seq(LexedToken)
  BY <1>1, <1>2 DEF LexTyped
<1>4. line[i] \in Between
  BY <1>1, <1>2, <1>3 DEF AtEnd, Between, c, LexTyped
<1>5. /\ WordToken \in LexedToken /\ TokenOK(line, WordToken) /\ WordToken.chars = word
      /\ WordToken.type # "EOF"
  BY <1>1, <1>2, WordIsToken
<1>6. i - Len(word) \in 1..i /\ PlacesOf(word) = (i - Len(word))..(i - 1)
  BY <1>2, WordPlacesOf
<1> DEFINE t == WordToken
<1> HIDE DEF t
<1>7. InRow(line, tokens', i + 1) /\ Covered(line, tokens', i + 1) /\ tokens' \in Seq(LexedToken)
  <2> DEFINE start == i - Len(word)
  <2>1. InRow(line, tokens, start) /\ Covered(line, tokens, start)
    BY DEF LexInv
  <2>2. start \in 1..i /\ PlacesOf(t.chars) = start..(i - 1)
    BY <1>5, <1>6 DEF t
  <2> HIDE DEF start
  <2>3. start \in Nat /\ i + 1 \in Nat /\ start <= i + 1 /\ start >= 1
    BY <1>3, <2>2
  <2>4. \A k \in PlacesOf(t.chars) : k \in start..((i + 1) - 1)
    BY <1>3, <2>2
  <2>5. \A k \in start..((i + 1) - 1) : line[k] \in Between \/ k \in PlacesOf(t.chars)
    <3>1. \A k \in start..((i + 1) - 1) : k = i \/ k \in start..(i - 1)
      BY <1>3, <2>2
    <3> QED
      BY <1>4, <2>2, <3>1
  <2>6. t \in LexedToken /\ TokenOK(line, t) /\ tokens' = Append(tokens, t)
    BY <1>1, <1>5 DEF t
  <2>7. InRow(line, Append(tokens, t), i + 1) /\ Append(tokens, t) \in Seq(LexedToken)
    BY <1>3, <2>1, <2>3, <2>4, <2>6, RowPushed
  <2>8. Covered(line, Append(tokens, t), i + 1)
    BY <1>3, <2>1, <2>3, <2>5, <2>6, CoveredPushed
  <2> QED
    BY <2>6, <2>7, <2>8
<1>8. LexTyped'
  <2>1. word' \in Seq(Nat) /\ i + 1 \in 1..(Len(line) + 1)
    BY <1>1, <1>3
  <2> QED
    BY <1>1, <1>2, <1>3, <1>7, <2>1 DEF LexTyped
<1>9. WordOK' /\ i' - Len(word') = i'
  <2>1. (i + 1) - 1 = i /\ line[i] # "backslash"
    BY <1>3, <1>4 DEF Between
  <2> QED
    BY <1>1, <1>3, <2>1, NoWordYet
<1>10. EndsInEof'
  <2>1. \A n \in DOMAIN tokens' : tokens'[n].type # "EOF"
    BY <1>1, <1>2, <1>3, <1>5, NoEofYet DEF EndsInEof
  <2> QED
    BY <1>1, <2>1 DEF EndsInEof
<1> QED
  BY <1>1, <1>7, <1>8, <1>9, <1>10 DEF LexInv

\* An operator closes a bare word and becomes the token behind it.
LEMMA EndByOperatorKeeps == LexInv /\ EndByOperator => LexInv'
<1> SUFFICES ASSUME LexInv, EndByOperator PROVE LexInv'
  OBVIOUS
<1> DEFINE b == Operator.bind
           next == Operator.next
           t == WordToken
           mid == Append(tokens, t)
<1>1. /\ ~done /\ i <= Len(line) /\ inWord /\ c \in Operators /\ i' = next
      /\ tokens' = tokens \o << t, b >>
      /\ inWord' = FALSE /\ word' = << >> /\ escape' = "no" /\ process' = {}
      /\ line' = line /\ done' = done
  BY DEF EndByOperator, Reading, Reset
<1>2. LexTyped /\ WordOK /\ EndsInEof
  BY DEF LexInv
<1>3. i \in 1..Len(line) /\ Len(line) \in Nat /\ tokens \in Seq(LexedToken)
  BY <1>1, <1>2 DEF LexTyped
<1>4. /\ b \in LexedToken /\ TokenOK(line, b) /\ b.type # "EOF"
      /\ next \in (i + 1)..(Len(line) + 1) /\ PlacesOf(b.chars) = i..(next - 1)
      /\ line[next - 1] = c
  BY <1>1, <1>2, OperatorToken
<1>5. t \in LexedToken /\ TokenOK(line, t) /\ t.chars = word /\ t.type # "EOF"
  BY <1>1, <1>2, WordIsToken
<1>6. i - Len(word) \in 1..i /\ PlacesOf(word) = (i - Len(word))..(i - 1)
  BY <1>2, WordPlacesOf
<1> HIDE DEF b, next, t
<1>7. tokens' = Append(mid, b)
  BY <1>1, <1>3, <1>4, <1>5
<1>8. InRow(line, mid, i) /\ Covered(line, mid, i) /\ mid \in Seq(LexedToken)
  <2> DEFINE start == i - Len(word)
  <2>1. InRow(line, tokens, start) /\ Covered(line, tokens, start)
    BY DEF LexInv
  <2>2. start \in 1..i /\ PlacesOf(t.chars) = start..(i - 1)
    BY <1>5, <1>6
  <2> HIDE DEF start
  <2>3. start \in Nat /\ i \in Nat /\ start <= i /\ start >= 1
    BY <1>3, <2>2
  <2> QED
    BY <1>3, <1>5, <2>1, <2>2, <2>3, RowPushed, CoveredPushed
<1>9. \A n \in DOMAIN mid : mid[n].type # "EOF"
  BY <1>1, <1>2, <1>3, <1>5, NoEofYet DEF EndsInEof
<1> HIDE DEF mid
<1>10. InRow(line, tokens', next) /\ Covered(line, tokens', next) /\ tokens' \in Seq(LexedToken)
  <2>1. i \in Nat /\ next \in Nat /\ i <= next /\ i >= 1
    BY <1>3, <1>4
  <2> QED
    BY <1>4, <1>7, <1>8, <2>1, RowPushed, CoveredPushed
<1>11. LexTyped'
  <2>1. word' \in Seq(Nat) /\ next \in 1..(Len(line) + 1)
    BY <1>1, <1>3, <1>4
  <2> QED
    BY <1>1, <1>2, <1>10, <2>1 DEF LexTyped
<1>12. WordOK' /\ i' - Len(word') = i'
  <2>1. c # "backslash" /\ next \in Nat \ {0}
    BY <1>1, <1>3, <1>4, OperatorTable
  <2> QED
    BY <1>1, <1>4, <2>1, NoWordYet
<1>13. EndsInEof'
  <2>1. \A n \in DOMAIN tokens' : tokens'[n].type # "EOF"
    BY <1>1, <1>2, <1>4, <1>7, <1>8, <1>9, NoEofYet
  <2> QED
    BY <1>1, <2>1 DEF EndsInEof
<1> QED
  BY <1>1, <1>10, <1>11, <1>12, <1>13 DEF LexInv

\* The word grows; its flags follow what the character asks for.
LEMMA AddCharKeeps == LexInv /\ AddChar => LexInv'
<1> SUFFICES ASSUME LexInv, AddChar PROVE LexInv'
  OBVIOUS
<1>1. PICK escaped \in Escaped :
        /\ escape = "no" /\ c \in Operators => escaped
        /\ process' = process \cup Flags(escaped)
  BY DEF AddChar
<1>2. /\ ~done /\ i <= Len(line) /\ inWord /\ ~AtEnd /\ i' = i + 1
      /\ word' = Append(word, i)
      /\ line' = line /\ inWord' = inWord /\ escape' = escape /\ tokens' = tokens /\ done' = done
  BY DEF AddChar, Reading
<1>3. LexTyped /\ WordOK /\ EndsInEof
  BY DEF LexInv
<1>4. i \in 1..Len(line) /\ Len(line) \in Nat /\ word \in Seq(Nat) /\ escape \in {"no", "quote", "dquote"}
  BY <1>2, <1>3 DEF LexTyped
<1>5. /\ Len(word) \in Nat /\ i - Len(word) \in 1..i /\ PlacesOf(word) = (i - Len(word))..(i - 1)
      /\ word # << >> => word[Len(word)] = i - 1 /\ word[1] = i - Len(word) /\ Len(word) >= 1
      /\ word = << >> => Len(word) = 0
  BY <1>3, WordPlacesOf
<1>6. /\ word' \in Seq(Nat) /\ Len(word') = Len(word) + 1 /\ word' # << >>
      /\ \A k \in 1..Len(word) : word'[k] = word[k]
      /\ word'[Len(word) + 1] = i
  <2> DEFINE longer == Append(word, i)
  <2>1. i \in Nat
    BY <1>4
  <2>2. /\ longer \in Seq(Nat) /\ Len(longer) = Len(word) + 1 /\ longer # << >>
        /\ \A k \in 1..Len(word) : longer[k] = word[k]
        /\ longer[Len(word) + 1] = i
    BY <1>4, <2>1, Appended
  <2>3. word' = longer
    BY <1>2
  <2> HIDE DEF longer
  <2> QED
    BY <2>2, <2>3
<1>7. LexTyped'
  <2>1. process' \in SUBSET {"var", "glob"}
    <3>1. Flags(escaped) \subseteq {"var", "glob"}
      BY Zenon DEF Flags
    <3>2. process \subseteq {"var", "glob"}
      BY <1>3 DEF LexTyped
    <3> QED
      BY <1>1, <3>1, <3>2, Zenon
  <2>2. i + 1 \in 1..(Len(line) + 1)
    BY <1>4
  <2> QED
    BY <1>2, <1>3, <1>6, <2>1, <2>2 DEF LexTyped
<1>8. PlacesOf(word') = PlacesOf(word) \cup {i}
  BY <1>2, <1>4, PlacesAdded
<1>9. word # << >> => (escaped <=> line[i - 1] = "backslash") /\ i > 1
  <2> SUFFICES ASSUME word # << >> PROVE (escaped <=> line[i - 1] = "backslash") /\ i > 1
    OBVIOUS
  <2>1. word[Len(word)] = i - 1 /\ i > 1
    BY <1>4, <1>5
  <2>2. Escaped = {line[i - 1] = "backslash"}
    BY <2>1, Zenon DEF Escaped
  <2>3. escaped <=> line[i - 1] = "backslash"
    BY <1>1, <2>2, Zenon
  <2> QED
    BY <2>1, <2>3, Zenon
<1>10. InTime(line, word', escape)
  <2>1. line[i] # escape /\ (escape = "no" => line[i] # "blank")
    <3>1. escape = "no" => line[i] # "blank"
      BY <1>2, Zenon DEF AtEnd, c
    <3>2. escape # "no" => line[i] # escape
      BY <1>2, Zenon DEF AtEnd, c
    <3>3. line[i] # "no"
      BY <1>3, <1>4, OperatorTable DEF LexTyped, Classes
    <3> QED
      BY <3>1, <3>2, <3>3
  <2>2. escape = "no" /\ line[i] \in Operators => i > 1 /\ line[i - 1] = "backslash"
    BY <1>1, <1>2, <1>3, <1>9 DEF WordOK, c
  <2>3. InTime(line, word, escape)
    BY <1>3 DEF WordOK
  <2> QED
    BY <1>8, <2>1, <2>2, <2>3 DEF InTime
<1>11. Flagged(line, word', escape, process')
  <2>1. Flagged(line, word, escape, process)
    BY <1>3 DEF WordOK
  <2>2. process' = process \cup (IF escaped THEN {} ELSE IF line[i] = "dollar" /\ escape # "quote" THEN {"var"}
                                 ELSE IF line[i] = "glob" /\ escape = "no" THEN {"glob"} ELSE {})
    BY <1>1 DEF Flags, c
  <2>3. CASE word = << >>
    <3>1. escape # "no"
      BY <1>2, <1>3, <2>3 DEF WordOK
    <3>2. word' = << i >> /\ word'[1] = i
      BY <1>2, <2>3
    <3>3. \A class : Asking(line, word', class) = {n \in {i} : line[i] = class}
      BY <1>4, <3>2, AskingFirst
    <3>4. \A class : Asking(line, word, class) = {}
      BY <2>3, PlacesOfNone DEF Asking
    <3> QED
      BY <2>1, <2>2, <3>1, <3>2, <3>3, <3>4 DEF Flagged
  <2>4. CASE word # << >>
    <3>1. i # word[1]
      BY <1>4, <1>5, <2>4
    <3>2. /\ word'[1] = word[1]
          /\ \A class : Asking(line, word', class) =
               Asking(line, word, class) \cup {n \in {i} : line[i] = class /\ line[i - 1] # "backslash"}
      <4>1. word' = Append(word, i) /\ i \in Nat /\ word \in Seq(Nat)
        BY <1>2, <1>4
      <4>2. Append(word, i)[1] = word[1]
        BY <2>4, <3>1, <4>1, AskingAdded
      <4>3. ASSUME NEW class
            PROVE  Asking(line, Append(word, i), class) =
                     Asking(line, word, class) \cup {n \in {i} : line[i] = class /\ line[i - 1] # "backslash"}
        BY <2>4, <3>1, <4>1, AskingAdded
      <4> QED
        BY <4>1, <4>2, <4>3
    <3>3. CASE escaped
      <4>1. process' = process /\ line[i - 1] = "backslash"
        BY <1>9, <2>2, <2>4, <3>3, Zenon
      <4>2. \A class : Asking(line, word', class) = Asking(line, word, class)
        BY <3>2, <4>1
      <4> QED
        BY <2>1, <3>2, <4>1, <4>2 DEF Flagged
    <3>4. CASE ~escaped
      <4>1. process' = process \cup (IF line[i] = "dollar" /\ escape # "quote" THEN {"var"}
                                     ELSE IF line[i] = "glob" /\ escape = "no" THEN {"glob"} ELSE {})
            /\ line[i - 1] # "backslash"
        BY <1>9, <2>2, <2>4, <3>4, Zenon
      <4>2. \A class : Asking(line, word', class) = Asking(line, word, class) \cup {n \in {i} : line[i] = class}
        BY <3>2, <4>1
      <4> QED
        BY <2>1, <3>1, <3>2, <4>1, <4>2 DEF Flagged
    <3> QED
      BY <3>3, <3>4
  <2> QED
    BY <2>3, <2>4
<1>12. WordOK'
  <2>1. Len(word') < i'
    BY <1>2, <1>3, <1>4, <1>5, <1>6 DEF WordOK
  <2>2. \A k \in 1..Len(word') : word'[k] = i' - Len(word') - 1 + k
    <3> TAKE k \in 1..Len(word')
    <3>1. CASE k \in 1..Len(word)
      <4>1. word[k] = i - Len(word) - 1 + k
        BY <1>3, <3>1 DEF WordOK
      <4> QED
        BY <1>2, <1>4, <1>5, <1>6, <3>1, <4>1
    <3>2. CASE k = Len(word) + 1
      BY <1>2, <1>4, <1>5, <1>6, <3>2
    <3> QED
      BY <1>5, <1>6, <3>1, <3>2
  <2>3. escape = "no" => i < Len(line)
    BY <1>2, <1>4 DEF AtEnd
  <2>4. inWord' /\ escape' = "no" /\ i' > Len(line') => FALSE
    BY <1>2, <1>4, <2>3
  <2>5. StartsFree(line', word')
    <3>1. CASE word = << >>
      <4>1. word'[1] = i /\ (i > 1 => line[i - 1] # "backslash")
        BY <1>3, <1>5, <1>6, <3>1 DEF WordOK
      <4> QED
        BY <1>2, <4>1 DEF StartsFree
    <3>2. CASE word # << >>
      <4>1. word'[1] = word[1] /\ StartsFree(line, word)
        BY <1>3, <1>5, <1>6, <3>2 DEF WordOK
      <4> QED
        BY <1>2, <3>2, <4>1 DEF StartsFree
    <3> QED
      BY <3>1, <3>2
  <2> QED
    BY <1>2, <1>6, <1>10, <1>11, <2>1, <2>2, <2>4, <2>5, Zenon DEF WordOK
<1>13. i' - Len(word') = i - Len(word)
  BY <1>2, <1>4, <1>5, <1>6
<1>14. EndsInEof'
  BY <1>2, <1>3 DEF EndsInEof
<1> QED
  BY <1>2, <1>7, <1>12, <1>13, <1>14 DEF LexInv

\* The line is over.
LEMMA FinishKeeps == LexInv /\ Finish => LexInv'
<1> SUFFICES ASSUME LexInv, Finish PROVE LexInv'
  OBVIOUS
<1> DEFINE t == BindToken("EOF", << >>)
<1>1. /\ ~done /\ i > Len(line) /\ tokens' = Append(tokens, t) /\ done' = TRUE
      /\ line' = line /\ i' = i /\ inWord' = inWord /\ word' = word /\ escape' = escape
      /\ process' = process
  BY DEF Finish
<1>2. LexTyped /\ WordOK /\ EndsInEof
  BY DEF LexInv
<1>3. i \in Nat /\ i >= 1 /\ Len(line) \in Nat /\ tokens \in Seq(LexedToken)
  BY <1>2 DEF LexTyped
<1>4. t \in LexedToken /\ t.type = "EOF" /\ t.chars = << >>
  <2>1. "EOF" \in Types /\ << >> \in Seq(Nat)
    BY DEF Types
  <2> QED
    BY <2>1, BindIsToken
<1> HIDE DEF t
<1>5. TokenOK(line, t)
  <2>1. \A o \in DOMAIN Double : Single[o] # "EOF"
    BY OperatorTable
  <2>2. Len(<< >>) = 0
    OBVIOUS
  <2> QED
    BY <1>4, <2>1, <2>2, PlacesOfNone DEF TokenOK
<1>6. InRow(line, tokens', i - Len(word)) /\ Covered(line, tokens', i - Len(word))
      /\ tokens' \in Seq(LexedToken)
  <2> DEFINE start == i - Len(word)
  <2>1. InRow(line, tokens, start) /\ Covered(line, tokens, start)
    BY DEF LexInv
  <2>2. start \in Nat /\ start >= 1 /\ start..(start - 1) = {}
    BY <1>2, <1>3, WordPlacesOf
  <2>3. PlacesOf(t.chars) = {}
    BY <1>4, PlacesOfNone
  <2> HIDE DEF start
  <2>4. InRow(line, Append(tokens, t), start) /\ Append(tokens, t) \in Seq(LexedToken)
    BY <1>3, <1>4, <1>5, <2>1, <2>2, <2>3, RowPushed
  <2>5. Covered(line, Append(tokens, t), start)
    BY <1>3, <1>4, <2>1, <2>2, CoveredPushed
  <2> QED
    BY <1>1, <2>4, <2>5 DEF start
<1>7. LexTyped'
  BY <1>1, <1>2, <1>6 DEF LexTyped
<1>8. WordOK'
  BY <1>1, <1>2 DEF WordOK, StartsFree
<1>9. EndsInEof'
  <2>1. /\ DOMAIN tokens' = 1..(Len(tokens) + 1) /\ Len(tokens') = Len(tokens) + 1
        /\ DOMAIN tokens = 1..Len(tokens) /\ Len(tokens) \in Nat /\ tokens' # << >>
        /\ \A n \in 1..Len(tokens) : tokens'[n] = tokens[n]
        /\ tokens'[Len(tokens) + 1] = t
    BY <1>1, <1>3, <1>4, Appended
  <2>2. \A n \in 1..Len(tokens) : tokens'[n].type # "EOF"
    BY <1>1, <1>2, <2>1 DEF EndsInEof
  <2>3. \A n \in DOMAIN tokens' : tokens'[n].type = "EOF" <=> n = Len(tokens')
    BY <1>4, <2>1, <2>2
  <2> QED
    BY <1>1, <2>1, <2>3 DEF EndsInEof
<1> QED
  BY <1>1, <1>6, <1>7, <1>8, <1>9 DEF LexInv

\* Every step of the lexer, whatever the line.
LEMMA LexStep == LexInv /\ [LexNext]_lexing => LexInv'
<1>1. ASSUME LexInv, UNCHANGED lexing PROVE LexInv'
  <2>1. /\ line' = line /\ i' = i /\ inWord' = inWord /\ word' = word /\ escape' = escape
        /\ process' = process /\ tokens' = tokens /\ done' = done
    BY <1>1 DEF lexing
  <2>2. LexTyped' /\ WordOK' /\ EndsInEof'
    BY <1>1, <2>1 DEF LexInv, LexTyped, WordOK, EndsInEof, StartsFree
  <2> QED
    BY <1>1, <2>1, <2>2 DEF LexInv
<1> QED
  BY <1>1, SkipKeeps, BindKeeps, StartQuotedKeeps, StartWordKeeps, EndWordKeeps,
     EndByOperatorKeeps, AddCharKeeps, FinishKeeps DEF LexNext, LexReturned

\* What tokenize begins with: nothing read, no token.
LEMMA LexStart == LexInit => LexInv
<1> SUFFICES ASSUME LexInit PROVE LexInv
  OBVIOUS
<1>1. PICK l \in Lines : line = Append(l, "nul")
  BY DEF LexInit
<1>2. /\ i = 1 /\ inWord = FALSE /\ word = << >> /\ escape = "no" /\ process = {}
      /\ tokens = << >> /\ done = FALSE
  BY DEF LexInit
<1>3. l \in Seq(Classes) /\ "nul" \notin Classes
  BY LinesAssumption, OperatorTable DEF Classes
<1>4. /\ line \in Seq(Classes \cup {"nul"}) /\ Len(line) = Len(l) + 1 /\ Len(l) \in Nat
      /\ \A k \in 1..Len(l) : line[k] = l[k] /\ l[k] \in Classes
      /\ line[Len(l) + 1] = "nul"
  <2>1. l \in Seq(Classes \cup {"nul"})
    BY <1>3
  <2>2. \A k \in 1..Len(l) : l[k] \in Classes
    BY <1>3
  <2> QED
    BY <1>1, <2>1, <2>2, Appended
<1>5. LexTyped
  <2>1. \A k \in 1..Len(line) : line[k] = "nul" <=> k = Len(line)
    BY <1>3, <1>4
  <2>2. i \in 1..(Len(line) + 1) /\ Len(line) > 0
    BY <1>2, <1>4
  <2>3. inWord \in BOOLEAN /\ done \in BOOLEAN
    BY <1>2, Zenon
  <2>4. word \in Seq(Nat) /\ tokens \in Seq(LexedToken)
    BY <1>2, EmptySeq, Zenon
  <2>5. escape \in {"no", "quote", "dquote"} /\ process \in SUBSET {"var", "glob"}
    BY <1>2
  <2> QED
    BY <1>4, <2>1, <2>2, <2>3, <2>4, <2>5, Zenon DEF LexTyped
<1>6. WordOK
  <2>1. \A class : Asking(line, << >>, class) = {}
    BY PlacesOfNone DEF Asking
  <2>2. InTime(line, word, escape) /\ Flagged(line, word, escape, process)
    BY <1>2, <2>1, PlacesOfNone DEF InTime, Flagged
  <2> QED
    BY <1>2, <2>2 DEF WordOK, StartsFree
<1>7. InRow(line, tokens, i - Len(word)) /\ Covered(line, tokens, i - Len(word)) /\ EndsInEof
  BY <1>2 DEF InRow, Covered, EndsInEof
<1> QED
  BY <1>5, <1>6, <1>7 DEF LexInv

\* handle_line leaves what tokenize returned alone but for the list.
LEMMA LexInvariant == WSpec => []LexInv
<1>1. LexInv /\ [WNext]_<< lexing, words >> => LexInv'
  <2> SUFFICES ASSUME LexInv, [WNext]_<< lexing, words >> PROVE LexInv'
    OBVIOUS
  <2>1. LexNext \/ UNCHANGED lexing
    BY DEF WNext, Tokenized, Expand, Glob, GlobFirst, Preprocessed, Stop
  <2> QED
    BY <2>1, LexStep
<1> QED
  BY <1>1, LexStart, PTL DEF WSpec, WInit

\* What TokenOK says of every token that has been pushed.
LEMMA TokensOK ==
  ASSUME LexInv, NEW n \in DOMAIN tokens
  PROVE  TokenOK(line, tokens[n]) /\ CharsOf(n) = PlacesOf(tokens[n].chars)
BY DEF LexInv, InRow, CharsOf, PlacesOf

\* No character is lost, repeated or moved between the line and its tokens: what tokenize
\* leaves out are blanks, quotes, the NUL, and a quoted word that the line does not close.
THEOREM NothingIsLost == WSpec => []TokensCoverLine
<1>1. ASSUME LexInv, done PROVE TokensCoverLine
  <2>1. LexTyped /\ WordOK /\ EndsInEof
    BY <1>1 DEF LexInv
  <2>2. Len(line) \in Nat /\ i = Len(line) + 1
    BY <1>1, <2>1 DEF LexTyped, EndsInEof
  <2>3. ASSUME NEW m \in DOMAIN tokens, NEW n \in DOMAIN tokens, m < n,
               NEW j \in CharsOf(m), NEW k \in CharsOf(n)
        PROVE  j < k
    BY <1>1, <2>3, TokensOK DEF LexInv, InRow
  <2>4. \A n \in DOMAIN tokens : \A k \in 1..(Len(tokens[n].chars) - 1) :
          tokens[n].chars[k + 1] = tokens[n].chars[k] + 1
    BY <1>1, TokensOK DEF TokenOK
  <2>5. ASSUME NEW k \in Lost, line[k] \notin Between
        PROVE  inWord /\ escape # "no" /\ \E j \in DOMAIN word : word[j] = k
    <3>1. k \in 1..Len(line) /\ \A n \in DOMAIN tokens : k \notin CharsOf(n)
      BY DEF Lost, Places
    <3>2. \A n \in DOMAIN tokens : k \notin PlacesOf(tokens[n].chars)
      BY <1>1, <3>1, TokensOK
    <3>3. k \notin 1..(i - Len(word) - 1)
      BY <1>1, <2>5, <3>2 DEF LexInv, Covered
    <3>4. k \in PlacesOf(word)
      BY <2>1, <2>2, <3>1, <3>3, WordPlacesOf
    <3>5. PICK j \in DOMAIN word : word[j] = k
      BY <3>4 DEF PlacesOf
    <3>6. j \in 1..Len(word) /\ word # << >>
      BY <2>1, <3>5, WordPlacesOf
    <3>7. inWord
      BY <2>1, <3>6, Zenon DEF WordOK
    <3>8. i > Len(line) /\ line[word[j]] # "nul"
      BY <2>2, <2>5, <3>5 DEF Between
    <3>9. escape # "no"
      BY <2>1, <3>6, <3>7, <3>8, Zenon DEF WordOK
    <3> QED
      BY <3>5, <3>7, <3>9
  <2> QED
    BY <2>3, <2>4, <2>5, Zenon DEF TokensCoverLine, Between
<1>2. LexInv => TokensCoverLine
  BY <1>1, Zenon DEF TokensCoverLine
<1> QED
  BY <1>2, LexInvariant, PTL

\* Every token ends where it must: no word holds an unprotected blank, operator or quote
\* of its own, and two operators of a kind are never left next to each other.
THEOREM TokensEnd == WSpec => []TokensEndInTime
<1>1. ASSUME LexInv, NEW n \in WordTokens, NEW k \in CharsOf(n)
      PROVE  /\ line[k] # "nul" /\ line[k] # tokens[n].escape
             /\ tokens[n].escape = "no" => line[k] # "blank"
             /\ tokens[n].escape = "no" /\ line[k] \in Operators => Protected(k)
  <2>1. n \in DOMAIN tokens /\ tokens[n].type = "WORD"
    BY DEF WordTokens
  <2>2. TokenOK(line, tokens[n]) /\ k \in PlacesOf(tokens[n].chars)
    BY <1>1, <2>1, TokensOK
  <2> QED
    BY <2>1, <2>2 DEF TokenOK, InTime, Protected
<1>2. ASSUME LexInv, NEW m \in DOMAIN tokens, NEW n \in DOMAIN tokens,
             tokens[m].type = tokens[n].type, NEW o \in DOMAIN Double, tokens[m].type = Single[o],
             NEW j \in CharsOf(m), NEW k \in CharsOf(n)
      PROVE  k # j + 1
  <2>1. line[j] = o /\ line[j + 1] # o
    <3>1. PICK p \in 1..(Len(line) - 1) : tokens[m].chars = << p >> /\ line[p] = o /\ line[p + 1] # o
      <4>1. TokenOK(line, tokens[m]) /\ tokens[m].type = Single[o]
        BY <1>2, TokensOK
      <4> QED
        BY <4>1 DEF TokenOK
    <3>2. j \in PlacesOf(<< p >>)
      BY <1>2, <3>1, TokensOK
    <3> QED
      BY <3>1, <3>2 DEF PlacesOf
  <2>2. line[k] = o
    <3>1. PICK p \in 1..(Len(line) - 1) : tokens[n].chars = << p >> /\ line[p] = o /\ line[p + 1] # o
      <4>1. TokenOK(line, tokens[n]) /\ tokens[n].type = Single[o]
        BY <1>2, TokensOK
      <4> QED
        BY <4>1 DEF TokenOK
    <3>2. k \in PlacesOf(<< p >>)
      BY <1>2, <3>1, TokensOK
    <3> QED
      BY <3>1, <3>2 DEF PlacesOf
  <2> QED
    BY <2>1, <2>2
<1>3. LexInv => TokensEndInTime
  BY <1>1, <1>2, Zenon DEF TokensEndInTime
<1> QED
  BY <1>3, LexInvariant, PTL

\* The flags that decide about the expansion of a word are those of its own characters.
THEOREM FlagsAreOwn == WSpec => []FlagsAreTheWordsOwn
<1>1. ASSUME LexInv, NEW n \in WordTokens
      PROVE  /\ Flagged(line, tokens[n].chars, tokens[n].escape, tokens[n].process)
             /\ CharsOf(n) = PlacesOf(tokens[n].chars)
  BY <1>1, TokensOK DEF WordTokens, TokenOK
<1>2. LexInv => FlagsAreTheWordsOwn
  BY <1>1 DEF FlagsAreTheWordsOwn, Flagged, Asking
<1> QED
  BY <1>2, LexInvariant, PTL
-----------------------------------------------------------------------------
(***************************************************************************)
(* The loop of handle_line.  Every entry of the list knows the token that  *)
(* it comes from; behind the index the entries are still those tokens.     *)
(***************************************************************************)

ASequence(s) == s \in Seq({s[n] : n \in DOMAIN s})

IsEntry(e) == e = [token |-> e.token, of |-> e.of, text |-> e.text]

\* The entries stand for the tokens, in their order; only a pattern has several.
InPlace(ts, l) ==
  /\ ASequence(l)
  /\ \A n \in DOMAIN l :
       IsEntry(l[n]) /\ l[n].of \in DOMAIN ts /\ l[n].token.type = ts[l[n].of].type
  /\ \A m, n \in DOMAIN l : m < n =>
       \/ l[m].of < l[n].of
       \/ l[m].of = l[n].of /\ ts[l[m].of].type = "WORD" /\ "glob" \in ts[l[m].of].process
  /\ \A t \in DOMAIN ts : \E n \in DOMAIN l : l[n].of = t

\* From k on they have not been looked at.
Fresh(ts, l, k) ==
  \A n \in DOMAIN l : n >= k => l[n].token = ts[l[n].of] /\ l[n].text = ts[l[n].of].chars

WordsInv ==
  /\ state \in {"lexing", "preprocessing", "done", "undefined"}
  /\ state # "lexing" =>
       /\ done /\ InPlace(tokens, list)
       /\ index \in 1..(Len(list) + 1) /\ Fresh(tokens, list, index)
  /\ state = "undefined" => "glob" \in tokens[1].process

\* A sequence over some set is one over its own elements.
LEMMA OwnElements ==
  ASSUME NEW S, NEW s \in Seq(S)
  PROVE  ASequence(s) /\ DOMAIN s = 1..Len(s) /\ Len(s) \in Nat
<1>1. Len(s) \in Nat /\ s \in [1..Len(s) -> S] /\ DOMAIN s = 1..Len(s)
  BY LenProperties
<1>2. s \in [1..Len(s) -> {s[n] : n \in DOMAIN s}]
  BY <1>1
<1> QED
  BY <1>1, <1>2, SeqDef DEF ASequence

\* Its domain begins with 1.
LEMMA SequenceIs ==
  ASSUME NEW s, ASequence(s)
  PROVE  DOMAIN s = 1..Len(s) /\ Len(s) \in Nat
BY OwnElements DEF ASequence

\* One entry is replaced (new_word->token = expanded).
LEMMA Replaced ==
  ASSUME NEW s, ASequence(s), NEW k \in DOMAIN s, NEW e
  PROVE  LET new == [s EXCEPT ![k] = e] IN
           /\ ASequence(new) /\ DOMAIN new = DOMAIN s /\ Len(new) = Len(s)
           /\ new[k] = e /\ \A n \in DOMAIN s : n # k => new[n] = s[n]
<1> DEFINE new == [s EXCEPT ![k] = e]
           R == {s[n] : n \in DOMAIN s} \cup {e}
<1>1. DOMAIN s = 1..Len(s) /\ Len(s) \in Nat
  BY SequenceIs
<1>2. s \in [DOMAIN s -> R]
  BY LenProperties DEF ASequence
<1>3. new \in [1..Len(s) -> R] /\ new[k] = e /\ \A n \in DOMAIN s : n # k => new[n] = s[n]
  BY <1>1, <1>2
<1> HIDE DEF new, R
<1>4. new \in Seq(R) /\ Len(new) = Len(s) /\ DOMAIN new = 1..Len(s)
  BY <1>1, <1>3, FunctionIsSequence
<1>5. ASequence(new)
  BY <1>4, OwnElements
<1> QED
  BY <1>1, <1>3, <1>4, <1>5 DEF new

\* What remove_from_arraylist and merge_arraylists make of the list.
LEMMA SplicedIs ==
  ASSUME NEW S, list \in Seq(S), index \in 1..Len(list), NEW names \in Seq(S)
  PROVE  LET new == Spliced(names) IN
           /\ new \in Seq(S) /\ Len(new) = Len(list) - 1 + Len(names)
           /\ \A n \in 1..(index - 1) : new[n] = list[n]
           /\ \A n \in 1..Len(names) : new[index - 1 + n] = names[n]
           /\ \A n \in 1..(Len(list) - index) : new[index - 1 + Len(names) + n] = list[index + n]
<1> DEFINE left == SubSeq(list, 1, index - 1)
           right == SubSeq(list, index + 1, Len(list))
           rest == RemoveAt(list, index)
           front == SubSeq(rest, 1, index - 1)
           back == SubSeq(rest, index, Len(rest))
           mid == front \o names
           new == mid \o back
<1>1. /\ Len(list) \in Nat /\ Len(names) \in Nat /\ index \in 1..Len(list)
      /\ \A n \in 1..Len(list) : list[n] \in S
  BY LenProperties, ElementOfSeq
<1>2. /\ left \in Seq(S) /\ Len(left) = index - 1
      /\ \A n \in 1..(index - 1) : left[n] = list[n]
  BY <1>1, SubSeqProperties
<1>3. /\ right \in Seq(S) /\ Len(right) = Len(list) - index
      /\ \A n \in 1..(Len(list) - index) : right[n] = list[index + n]
  BY <1>1, SubSeqProperties
<1>4. rest = left \o right
  BY DEF RemoveAt
<1>5. Spliced(names) = new
  BY DEF Spliced
<1> HIDE DEF left, right, rest
<1>6. rest \in Seq(S) /\ IsJoined(left, right, rest)
  BY <1>2, <1>3, <1>4, Joined
<1>7. /\ Len(rest) = Len(list) - 1 /\ \A n \in 1..(index - 1) : rest[n] = list[n]
      /\ \A n \in 1..(Len(list) - index) : rest[index - 1 + n] = list[index + n]
      /\ \A n \in 1..Len(rest) : rest[n] \in S
  <2>1. /\ Len(rest) = Len(list) - 1 /\ \A n \in 1..(index - 1) : rest[n] = list[n]
        /\ \A n \in 1..(Len(list) - index) : rest[index - 1 + n] = list[index + n]
    BY <1>1, <1>2, <1>3, <1>6 DEF IsJoined
  <2> QED
    BY <1>6, <2>1, ElementOfSeq
<1>8. /\ front \in Seq(S) /\ Len(front) = index - 1
      /\ \A n \in 1..(index - 1) : front[n] = list[n]
  BY <1>1, <1>6, <1>7, SubSeqProperties
<1>9. /\ back \in Seq(S) /\ Len(back) = Len(list) - index
      /\ \A n \in 1..(Len(list) - index) : back[n] = list[index + n]
  <2>1. /\ back \in Seq(S) /\ Len(back) = Len(list) - index
        /\ \A n \in 1..(Len(list) - index) : back[n] = rest[index - 1 + n]
    BY <1>1, <1>6, <1>7, SubSeqProperties
  <2> QED
    BY <1>7, <2>1
<1> HIDE DEF front, back
<1>10. mid \in Seq(S) /\ IsJoined(front, names, mid)
  BY <1>8, Joined DEF mid
<1> HIDE DEF mid
<1>11. new \in Seq(S) /\ IsJoined(mid, back, new)
  BY <1>9, <1>10, Joined DEF new
<1> HIDE DEF new
<1>12. Len(mid) = index - 1 + Len(names)
  BY <1>8, <1>10 DEF IsJoined
<1>13. new \in Seq(S) /\ Len(new) = Len(list) - 1 + Len(names)
  BY <1>1, <1>9, <1>11, <1>12 DEF IsJoined
<1>14. \A n \in 1..(index - 1) : new[n] = list[n]
  <2> TAKE n \in 1..(index - 1)
  <2>1. n \in 1..Len(mid) /\ n \in 1..Len(front)
    BY <1>1, <1>8, <1>12
  <2> QED
    BY <1>8, <1>10, <1>11, <2>1 DEF IsJoined
<1>15. \A n \in 1..Len(names) : new[index - 1 + n] = names[n]
  <2> TAKE n \in 1..Len(names)
  <2>1. index - 1 + n \in 1..Len(mid)
    BY <1>1, <1>12
  <2>2. mid[index - 1 + n] = names[n]
    BY <1>8, <1>10 DEF IsJoined
  <2> QED
    BY <1>11, <2>1, <2>2 DEF IsJoined
<1>16. \A n \in 1..(Len(list) - index) : new[index - 1 + Len(names) + n] = list[index + n]
  BY <1>9, <1>11, <1>12 DEF IsJoined
<1> QED
  BY <1>5, <1>13, <1>14, <1>15, <1>16, Zenon

\* The list as it is made of the tokens.
LEMMA PlacedFirst ==
  ASSUME NEW ts, NEW len \in Nat, DOMAIN ts = 1..len
  PROVE  LET new == [n \in DOMAIN ts |-> [token |-> ts[n], of |-> n, text |-> ts[n].chars]]
         IN  InPlace(ts, new) /\ Len(new) = len /\ Fresh(ts, new, 1)
<1> DEFINE new == [n \in DOMAIN ts |-> [token |-> ts[n], of |-> n, text |-> ts[n].chars]]
           R == {new[n] : n \in 1..len}
<1>1. /\ DOMAIN new = 1..len
      /\ \A n \in 1..len : IsEntry(new[n]) /\ new[n].of = n /\ new[n].token = ts[n] /\ new[n].text = ts[n].chars
  BY DEF IsEntry
<1>2. new \in [1..len -> R]
  OBVIOUS
<1> HIDE DEF new, R
<1>3. new \in Seq(R) /\ Len(new) = len
  BY <1>2, FunctionIsSequence
<1>4. ASequence(new)
  BY <1>3, OwnElements
<1> QED
  BY <1>1, <1>3, <1>4 DEF InPlace, Fresh, new

\* A record with one field replaced.
LEMMA TextReplaced ==
  ASSUME NEW e, IsEntry(e), NEW text
  PROVE  LET new == [e EXCEPT !.text = text] IN
           IsEntry(new) /\ new.of = e.of /\ new.token = e.token
<1> DEFINE new == [e EXCEPT !.text = text]
<1>1. new = [token |-> e.token, of |-> e.of, text |-> text]
  BY DEF IsEntry
<1> HIDE DEF new
<1> QED
  BY <1>1 DEF IsEntry, new

\* Another text changes neither the order nor the tokens.
LEMMA PlacedText ==
  ASSUME NEW ts, NEW l, InPlace(ts, l), NEW k \in DOMAIN l, NEW text
  PROVE  LET new == [l EXCEPT ![k].text = text] IN
           InPlace(ts, new) /\ Len(new) = Len(l) /\ (Fresh(ts, l, k) => Fresh(ts, new, k + 1))
<1> DEFINE e == [l[k] EXCEPT !.text = text]
           new == [l EXCEPT ![k] = e]
<1>1. ASequence(l) /\ IsEntry(l[k])
  BY DEF InPlace
<1>2. IsEntry(e) /\ e.of = l[k].of /\ e.token = l[k].token
  BY <1>1, TextReplaced
<1> HIDE DEF e
<1>3. /\ ASequence(new) /\ DOMAIN new = DOMAIN l /\ Len(new) = Len(l)
      /\ new[k] = e /\ \A n \in DOMAIN l : n # k => new[n] = l[n]
  BY <1>1, Replaced
<1>4. DOMAIN l = 1..Len(l) /\ Len(l) \in Nat
  BY <1>1, SequenceIs
<1> HIDE DEF new
<1>5. \A n \in DOMAIN l : new[n].of = l[n].of /\ new[n].token = l[n].token
  BY <1>2, <1>3
<1>6. \A n \in DOMAIN l : IsEntry(new[n])
  BY <1>2, <1>3 DEF InPlace
<1>7. InPlace(ts, new)
  <2>1. \A n \in DOMAIN l : new[n].of \in DOMAIN ts /\ new[n].token.type = ts[new[n].of].type
    BY <1>5 DEF InPlace
  <2>2. ASSUME NEW m \in DOMAIN l, NEW n \in DOMAIN l, m < n
        PROVE  \/ new[m].of < new[n].of
               \/ /\ new[m].of = new[n].of /\ ts[new[m].of].type = "WORD"
                  /\ "glob" \in ts[new[m].of].process
    BY <1>5, <2>2 DEF InPlace
  <2>3. \A t \in DOMAIN ts : \E n \in DOMAIN l : new[n].of = t
    BY <1>5 DEF InPlace
  <2> QED
    BY <1>3, <1>6, <2>1, <2>2, <2>3 DEF InPlace
<1>8. Fresh(ts, l, k) => Fresh(ts, new, k + 1)
  BY <1>3, <1>4, <1>5 DEF Fresh
<1> QED
  BY <1>3, <1>7, <1>8 DEF new, e

\* What stands for a pattern: a name that it matches.
NameEntry(text) ==
  [token |-> [type |-> "WORD", chars |-> current.token.chars, escape |-> "no", process |-> {}],
   of |-> current.of, text |-> text]

\* The names take the place of the pattern, and nothing else changes (open_glob).
LEMMA NamesSpliced ==
  ASSUME InPlace(tokens, list), index \in 1..Len(list), NEW text, NEW count \in Nat \ {0}
  PROVE  LET new == Spliced(Names(text, count)) IN
           /\ ASequence(new) /\ Len(new) = Len(list) - 1 + count
           /\ \A n \in 1..(index - 1) : new[n] = list[n]
           /\ \A n \in 1..count : new[index - 1 + n] = NameEntry(text)
           /\ \A n \in 1..(Len(list) - index) : new[index - 1 + count + n] = list[index + n]
<1> DEFINE names == Names(text, count)
           e == NameEntry(text)
           new == Spliced(names)
           S == {list[n] : n \in DOMAIN list} \cup {e}
<1>1. list \in Seq(S)
  <2>1. list \in Seq({list[n] : n \in DOMAIN list})
    BY DEF InPlace, ASequence
  <2>2. {list[n] : n \in DOMAIN list} \subseteq S
    OBVIOUS
  <2> HIDE DEF S
  <2> QED
    BY <2>1, <2>2, SeqMonotonic
<1>2. /\ names \in Seq(S) /\ Len(names) = count /\ \A n \in 1..count : names[n] = e
  <2>1. names = [n \in 1..count |-> e]
    BY DEF Names, NameEntry
  <2>2. [n \in 1..count |-> e] \in [1..count -> S]
    OBVIOUS
  <2> HIDE DEF names, e, S
  <2> QED
    BY <2>1, <2>2, FunctionIsSequence
<1> HIDE DEF names, e, S
<1>3. /\ new \in Seq(S) /\ Len(new) = Len(list) - 1 + Len(names)
      /\ \A n \in 1..(index - 1) : new[n] = list[n]
      /\ \A n \in 1..Len(names) : new[index - 1 + n] = names[n]
      /\ \A n \in 1..(Len(list) - index) : new[index - 1 + Len(names) + n] = list[index + n]
  BY <1>1, <1>2, SplicedIs, Zenon
<1> HIDE DEF new
<1>4. ASequence(new)
  BY <1>3, OwnElements
<1>5. \A n \in 1..count : new[index - 1 + n] = e
  BY <1>2, <1>3
<1>6. Len(new) = Len(list) - 1 + count
  BY <1>2, <1>3
<1>7. \A n \in 1..(Len(list) - index) : new[index - 1 + count + n] = list[index + n]
  BY <1>2, <1>3
<1> QED
  BY <1>3, <1>4, <1>5, <1>6, <1>7, Zenon DEF new, names, e

\* The names stand where their pattern stood.
LEMMA PlacedNames ==
  ASSUME InPlace(tokens, list), index \in 1..Len(list), Fresh(tokens, list, index),
         Asks("glob"), NEW text, NEW count \in Nat \ {0}
  PROVE  LET new == Spliced(Names(text, count)) IN
           /\ InPlace(tokens, new) /\ After(count) \in 1..(Len(new) + 1)
           /\ Fresh(tokens, new, After(count))
<1> DEFINE names == Names(text, count)
           e == NameEntry(text)
           new == Spliced(names)
           From(n) == IF n < index THEN n
                      ELSE IF n < index + count THEN index ELSE n - count + 1
<1>1. DOMAIN list = 1..Len(list) /\ Len(list) \in Nat
  BY SequenceIs DEF InPlace
<1>2. IsEntry(e) /\ e.of = list[index].of /\ e.token.type = "WORD"
  BY DEF IsEntry, current, NameEntry
<1>3. /\ list[index].token = tokens[list[index].of]
      /\ tokens[list[index].of].type = "WORD" /\ "glob" \in tokens[list[index].of].process
  BY <1>1 DEF Fresh, Asks, current
<1>4. /\ ASequence(new) /\ Len(new) = Len(list) - 1 + count
      /\ \A n \in 1..(index - 1) : new[n] = list[n]
      /\ \A n \in 1..count : new[index - 1 + n] = e
      /\ \A n \in 1..(Len(list) - index) : new[index - 1 + count + n] = list[index + n]
  BY NamesSpliced, Zenon
<1> HIDE DEF names, e, new
<1>5. DOMAIN new = 1..(Len(list) - 1 + count)
  BY <1>4, SequenceIs
<1>6. ASSUME NEW n \in DOMAIN new
      PROVE  /\ From(n) \in DOMAIN list
             /\ new[n] = IF From(n) = index THEN e ELSE list[From(n)]
  <2>1. n \in 1..(Len(list) - 1 + count)
    BY <1>5
  <2>2. CASE n < index
    BY <1>1, <1>4, <2>1, <2>2
  <2>3. CASE index <= n /\ n < index + count
    <3>1. n - (index - 1) \in 1..count /\ index - 1 + (n - (index - 1)) = n
      BY <1>1, <2>1, <2>3
    <3>2. new[n] = e
      BY <1>4, <3>1
    <3> QED
      BY <1>1, <2>1, <2>3, <3>2
  <2>4. CASE index + count <= n
    <3>1. /\ n - (index - 1 + count) \in 1..(Len(list) - index)
          /\ index - 1 + count + (n - (index - 1 + count)) = n
          /\ index + (n - (index - 1 + count)) = n - count + 1
      BY <1>1, <2>1, <2>4
    <3>2. new[n] = list[n - count + 1]
      BY <1>4, <3>1
    <3> QED
      BY <1>1, <2>1, <2>4, <3>2
  <2> QED
    BY <1>1, <2>1, <2>2, <2>3, <2>4
<1>7. \A m, n \in DOMAIN new : m < n => From(m) < From(n) \/ (From(m) = index /\ From(n) = index)
  BY <1>1, <1>5
<1>8. \A k \in DOMAIN list : \E n \in DOMAIN new : From(n) = k
  <2> TAKE k \in DOMAIN list
  <2>1. CASE k < index
    <3>1. k \in DOMAIN new /\ From(k) = k
      BY <1>1, <1>5, <2>1
    <3> QED
      BY <3>1
  <2>2. CASE k = index
    <3>1. k \in DOMAIN new /\ From(k) = k
      BY <1>1, <1>5, <2>2
    <3> QED
      BY <3>1
  <2>3. CASE k > index
    <3>1. k + count - 1 \in DOMAIN new /\ From(k + count - 1) = k
      BY <1>1, <1>5, <2>3
    <3> QED
      BY <3>1
  <2> QED
    BY <1>1, <2>1, <2>2, <2>3
<1>9. \A n \in DOMAIN new : n >= index + count => From(n) > index
  BY <1>1, <1>5
<1> HIDE DEF From
<1>10. \A n \in DOMAIN new :
         /\ IsEntry(new[n]) /\ new[n].of = list[From(n)].of
         /\ new[n].token.type = tokens[list[From(n)].of].type
  BY <1>2, <1>3, <1>6 DEF InPlace
<1>11. ASSUME NEW m \in DOMAIN new, NEW n \in DOMAIN new, m < n
       PROVE  \/ new[m].of < new[n].of
              \/ /\ new[m].of = new[n].of /\ tokens[new[m].of].type = "WORD"
                 /\ "glob" \in tokens[new[m].of].process
  <2>1. CASE From(m) < From(n)
    BY <1>6, <1>10, <2>1 DEF InPlace
  <2>2. CASE From(m) = index /\ From(n) = index
    BY <1>3, <1>10, <2>2
  <2> QED
    BY <1>7, <1>11, <2>1, <2>2
<1>12. ASSUME NEW t \in DOMAIN tokens PROVE \E n \in DOMAIN new : new[n].of = t
  <2>1. PICK k \in DOMAIN list : list[k].of = t
    BY DEF InPlace
  <2>2. PICK n \in DOMAIN new : From(n) = k
    BY <1>8
  <2> QED
    BY <1>10, <2>1, <2>2
<1>13. InPlace(tokens, new)
  <2>1. \A n \in DOMAIN new : new[n].of \in DOMAIN tokens /\ new[n].token.type = tokens[new[n].of].type
    BY <1>6, <1>10 DEF InPlace
  <2> QED
    BY <1>4, <1>5, <1>10, <1>11, <1>12, <2>1 DEF InPlace
<1>14. Fresh(tokens, new, index + count)
  <2> SUFFICES ASSUME NEW n \in DOMAIN new, n >= index + count
               PROVE  new[n].token = tokens[new[n].of] /\ new[n].text = tokens[new[n].of].chars
    BY DEF Fresh
  <2>1. From(n) \in DOMAIN list /\ From(n) > index /\ new[n] = list[From(n)]
    BY <1>1, <1>6, <1>9
  <2> QED
    BY <1>1, <2>1 DEF Fresh
<1>15. After(count) = index + count /\ index + count \in 1..(Len(new) + 1)
  BY <1>1, <1>4 DEF After
<1> QED
  BY <1>13, <1>14, <1>15 DEF new, names

\* The invariant of the loop: every token of the line is expanded, replaced by the names
\* it matches, or left alone, each in its place.
LEMMA WordsStep == LexInv /\ WordsInv /\ [WNext]_<< lexing, words >> => WordsInv'
<1> SUFFICES ASSUME LexInv, WordsInv, [WNext]_<< lexing, words >> PROVE WordsInv'
  OBVIOUS
<1>1. CASE state = "lexing" /\ LexNext /\ UNCHANGED words
  BY <1>1 DEF words, WordsInv
<1>2. CASE Tokenized
  <2>1. tokens' = tokens /\ done' = done /\ done /\ index' = 1 /\ state' = "preprocessing"
    BY <1>2 DEF Tokenized, lexing
  <2>2. DOMAIN tokens = 1..Len(tokens) /\ Len(tokens) \in Nat
    BY OwnElements DEF LexInv, LexTyped
  <2>3. InPlace(tokens, list') /\ Len(list') = Len(tokens) /\ Fresh(tokens, list', 1)
    BY <1>2, <2>2, PlacedFirst DEF Tokenized
  <2>4. 1 \in 1..(Len(list') + 1)
    BY <2>2, <2>3
  <2>5. done' /\ state' # "undefined"
    BY <2>1, Zenon
  <2> QED
    BY <2>1, <2>3, <2>4, <2>5 DEF WordsInv
<1>3. CASE Expand
  <2>1. /\ tokens' = tokens /\ done' = done /\ state' = state /\ index' = index + 1
        /\ state = "preprocessing" /\ index <= Len(list)
    BY <1>3 DEF Expand, InLoop, lexing
  <2>2. done /\ InPlace(tokens, list) /\ index \in 1..(Len(list) + 1) /\ Fresh(tokens, list, index)
    BY <2>1 DEF WordsInv
  <2>3. PICK text : list' = [list EXCEPT ![index].text = text]
    BY <1>3 DEF Expand
  <2>4. DOMAIN list = 1..Len(list) /\ Len(list) \in Nat
    BY <2>2, SequenceIs DEF InPlace
  <2>5. index \in DOMAIN list
    BY <2>1, <2>2, <2>4
  <2>6. InPlace(tokens, list') /\ Len(list') = Len(list) /\ Fresh(tokens, list', index + 1)
    <3> DEFINE new == [list EXCEPT ![index].text = text]
    <3>1. InPlace(tokens, new) /\ Len(new) = Len(list) /\ Fresh(tokens, new, index + 1)
      BY <2>2, <2>5, PlacedText, Zenon
    <3> HIDE DEF new
    <3>2. list' = new
      BY <2>3 DEF new
    <3> QED
      BY <3>1, <3>2
  <2>7. index + 1 \in 1..(Len(list') + 1)
    BY <2>4, <2>5, <2>6
  <2>8. done'
    BY <2>1, <2>2, Zenon
  <2> QED
    BY <2>1, <2>6, <2>7, <2>8 DEF WordsInv
<1>4. CASE Glob
  <2>1. /\ tokens' = tokens /\ done' = done /\ state' = state /\ Asks("glob")
        /\ state = "preprocessing" /\ index <= Len(list)
    BY <1>4 DEF Glob, InLoop, lexing
  <2>2. done /\ InPlace(tokens, list) /\ index \in 1..(Len(list) + 1) /\ Fresh(tokens, list, index)
    BY <2>1 DEF WordsInv
  <2>3. PICK text \in Texts, count \in 1..MaxFiles :
          list' = Spliced(Names(text, count)) /\ index' = After(count)
    BY <1>4 DEF Glob
  <2>4. DOMAIN list = 1..Len(list) /\ Len(list) \in Nat
    BY <2>2, SequenceIs DEF InPlace
  <2>5. index \in 1..Len(list) /\ count \in Nat \ {0}
    BY <2>1, <2>2, <2>4
  <2>6. InPlace(tokens, list') /\ index' \in 1..(Len(list') + 1) /\ Fresh(tokens, list', index')
    BY <2>1, <2>2, <2>3, <2>5, PlacedNames
  <2>7. done'
    BY <2>1, <2>2, Zenon
  <2> QED
    BY <2>1, <2>6, <2>7 DEF WordsInv
<1>5. CASE GlobFirst
  <2>1. /\ tokens' = tokens /\ done' = done /\ list' = list /\ index' = index
        /\ state' = "undefined" /\ Asks("glob") /\ index = 1
        /\ state = "preprocessing" /\ index <= Len(list)
    BY <1>5 DEF GlobFirst, InLoop, lexing
  <2>2. done /\ InPlace(tokens, list) /\ index \in 1..(Len(list) + 1) /\ Fresh(tokens, list, index)
    BY <2>1 DEF WordsInv
  <2>3. DOMAIN list = 1..Len(list) /\ Len(list) \in Nat
    BY <2>2, SequenceIs DEF InPlace
  <2>4. DOMAIN tokens = 1..Len(tokens) /\ Len(tokens) \in Nat
    BY OwnElements DEF LexInv, LexTyped
  <2>5. 1 \in DOMAIN list /\ list[1].of \in DOMAIN tokens /\ list[1].token = tokens[list[1].of]
    BY <2>1, <2>2, <2>3 DEF InPlace, Fresh
  <2>6. list[1].of = 1
    <3>1. 1 \in DOMAIN tokens
      BY <2>4, <2>5
    <3>2. PICK n \in DOMAIN list : list[n].of = 1
      BY <2>2, <3>1 DEF InPlace
    <3>3. CASE n = 1
      BY <3>2, <3>3
    <3>4. CASE 1 < n
      <4>1. list[1].of < list[n].of \/ list[1].of = list[n].of
        BY <2>2, <2>5, <3>4 DEF InPlace
      <4> QED
        BY <2>4, <2>5, <3>2, <4>1
    <3> QED
      BY <2>3, <3>3, <3>4
  <2>7. "glob" \in tokens[1].process
    BY <2>1, <2>5, <2>6 DEF Asks, current
  <2>8. done'
    BY <2>1, <2>2, Zenon
  <2> QED
    BY <2>1, <2>2, <2>7, <2>8 DEF WordsInv
<1>6. CASE Preprocessed
  BY <1>6 DEF Preprocessed, WordsInv, lexing
<1>7. CASE UNCHANGED << lexing, words >>
  BY <1>7 DEF WordsInv, lexing, words
<1> QED
  BY <1>1, <1>2, <1>3, <1>4, <1>5, <1>6, <1>7 DEF WNext, Stop

\* The invariants of both loops, from the line on.
LEMMA WordsInvariant == WSpec => [](LexInv /\ WordsInv)
<1>1. WInit => WordsInv
  BY DEF WInit, WordsInv
<1> QED
  BY <1>1, LexInvariant, WordsStep, PTL DEF WSpec

\* tokenize and handle_line give the parser what its loops need to stop: a list with an
\* EOF at its end, and nowhere else (the assumption about KindLines below).
THEOREM ListEndsInEof == WSpec => []EofIsLast
<1>1. ASSUME LexInv, WordsInv, state = "done" 
      PROVE  list # << >> /\ \A n \in DOMAIN list : list[n].token.type = "EOF" <=> n = Len(list)
  <2>1. InPlace(tokens, list) /\ done
    BY <1>1 DEF WordsInv
  <2>2. DOMAIN list = 1..Len(list) /\ Len(list) \in Nat
    BY <2>1, SequenceIs DEF InPlace
  <2>3. DOMAIN tokens = 1..Len(tokens) /\ Len(tokens) \in Nat
    BY <1>1, OwnElements DEF LexInv, LexTyped
  <2>4. Len(tokens) \in DOMAIN tokens /\ \A t \in DOMAIN tokens : tokens[t].type = "EOF" <=> t = Len(tokens)
    <3>1. tokens # << >> /\ \A t \in DOMAIN tokens : tokens[t].type = "EOF" <=> t = Len(tokens)
      BY <1>1, <2>1, Zenon DEF LexInv, EndsInEof
    <3> QED
      BY <2>3, <3>1
  <2>5. \A n \in DOMAIN list : list[n].of \in DOMAIN tokens
          /\ (list[n].token.type = "EOF" <=> list[n].of = Len(tokens))
    BY <2>1, <2>4 DEF InPlace
  <2>6. PICK last \in DOMAIN list : list[last].of = Len(tokens)
    BY <2>1, <2>4 DEF InPlace
  <2>7. ASSUME NEW m \in DOMAIN list, NEW n \in DOMAIN list, m < n PROVE list[m].of # Len(tokens)
    <3> SUFFICES ASSUME list[m].of = Len(tokens) PROVE FALSE
      OBVIOUS
    <3>1. tokens[list[m].of].type # "WORD"
      BY <2>4
    <3>2. list[m].of < list[n].of
      BY <2>1, <2>7, <3>1 DEF InPlace
    <3> QED
      BY <2>3, <2>5, <3>2
  <2>8. last = Len(list)
    <3>1. Len(list) \in DOMAIN list /\ last <= Len(list)
      BY <2>2, <2>6
    <3>2. ~(last < Len(list))
      BY <2>6, <2>7, <3>1
    <3> QED
      BY <2>2, <2>6, <3>1, <3>2
  <2>9. list # << >>
    BY <2>2, <2>6
  <2> QED
    BY <2>2, <2>5, <2>6, <2>7, <2>8, <2>9
<1>2. LexInv /\ WordsInv => EofIsLast
  BY <1>1 DEF EofIsLast
<1> QED
  BY <1>2, WordsInvariant, PTL

\* However many names a pattern matches, and wherever it stands, the list that the
\* parser is given holds every token of the line in its order.
THEOREM NamesStayInPlace == WSpec => []NamesInPlace
<1>1. ASSUME WordsInv, state = "done"
      PROVE  /\ \A m, n \in DOMAIN list : m < n =>
                  \/ list[m].of < list[n].of
                  \/ list[m].of = list[n].of /\ "glob" \in tokens[list[m].of].process
             /\ {list[n].of : n \in DOMAIN list} = DOMAIN tokens
  <2>1. InPlace(tokens, list)
    BY <1>1 DEF WordsInv
  <2> QED
    BY <2>1 DEF InPlace
<1>2. WordsInv /\ EofIsLast => NamesInPlace
  BY <1>1 DEF NamesInPlace, WordsInv
<1> QED
  BY <1>2, WordsInvariant, ListEndsInEof, PTL
-----------------------------------------------------------------------------
(***************************************************************************)
(* The expansion of a word.  Its loop escapes behind an odd number of      *)
(* backslashes, counted from the word's first character; none stands in    *)
(* front of that, so the number is the line's.                             *)
(***************************************************************************)

\* The backslashes in front of a place: Backslashes, of a line that is given.
Slashes(l, k) == Cardinality({j \in 1..(k - 1) : \A n \in j..(k - 1) : l[n] = "backslash"})

\* They are counted from the last character that is none.
LEMMA SlashesCount ==
  ASSUME NEW l, NEW k \in Nat \ {0}
  PROVE  /\ Slashes(l, k) \in Nat
         /\ Slashes(l, k + 1) = IF l[k] = "backslash" THEN Slashes(l, k) + 1 ELSE 0
<1> DEFINE S(x) == {j \in 1..(x - 1) : \A n \in j..(x - 1) : l[n] = "backslash"}
<1>1. IsFiniteSet(S(k)) /\ Cardinality(S(k)) \in Nat /\ k \notin S(k)
  <2>1. S(k) \subseteq 1..(k - 1) /\ IsFiniteSet(1..(k - 1))
    BY FS_Interval
  <2> QED
    BY <2>1, FS_Subset, FS_CardinalityType
<1>2. CASE l[k] = "backslash"
  <2>1. ASSUME NEW j \in 1..k PROVE j \in S(k + 1) <=> j \in S(k) \/ j = k
    <3>1. (k + 1) - 1 = k /\ j..k = j..(k - 1) \cup {k} /\ (j # k => j \in 1..(k - 1))
      OBVIOUS
    <3> QED
      BY <1>2, <3>1
  <2>2. S(k + 1) = S(k) \cup {k}
    <3>1. S(k + 1) \subseteq 1..k /\ S(k) \subseteq 1..k /\ k \in 1..k
      OBVIOUS
    <3> HIDE DEF S
    <3> QED
      BY <2>1, <3>1
  <2> HIDE DEF S
  <2>3. Cardinality(S(k + 1)) = Cardinality(S(k)) + 1
    BY <1>1, <2>2, FS_AddElement
  <2> QED
    BY <1>1, <1>2, <2>3 DEF Slashes, S
<1>3. CASE l[k] # "backslash"
  <2>1. S(k + 1) = {}
    <3>1. \A j \in 1..((k + 1) - 1) : k \in j..((k + 1) - 1)
      OBVIOUS
    <3> QED
      BY <1>3, <3>1
  <2> HIDE DEF S
  <2>2. Cardinality(S(k + 1)) = 0
    BY <2>1, FS_EmptySet
  <2> QED
    BY <1>1, <1>3, <2>2 DEF Slashes, S
<1> QED
  BY <1>2, <1>3

\* A word begins with none in front of it.
LEMMA NoneInFront ==
  ASSUME NEW l, NEW k \in Nat \ {0}, k > 1 => l[k - 1] # "backslash"
  PROVE  Slashes(l, k) = 0
<1>1. CASE k = 1
  <2>1. {j \in 1..(k - 1) : \A n \in j..(k - 1) : l[n] = "backslash"} = {}
    BY <1>1
  <2> QED
    BY <2>1, FS_EmptySet DEF Slashes
<1>2. CASE k > 1
  <2>1. k - 1 \in Nat \ {0} /\ (k - 1) + 1 = k
    BY <1>2
  <2> QED
    BY <1>2, <2>1, SlashesCount
<1> QED
  BY <1>1, <1>2

\* What expand_variables keeps from one character to the next.
Expansion == [out : Seq(Nat), escape : BOOLEAN, name : Nat \cup {-1}]

\* What it has made of the n characters from first on: the dollars that an odd number of
\* backslashes protects, and no other, and ESCAPE is set behind such a number.
ReadTo(l, first, n, r) ==
  /\ r \in Expansion
  /\ r.escape = TRUE <=> Slashes(l, first + n) % 2 = 1
  /\ r.name # -1 => r.escape = FALSE
  /\ PlacesOf(r.out) \subseteq {0} \cup first..(first + n - 1)
  /\ \A k \in first..(first + n - 1) : l[k] = "dollar" =>
       (k \in PlacesOf(r.out) <=> Slashes(l, k) % 2 = 1)

\* The value of a variable holds no character of the line.
LEMMA ValueIs ==
  ASSUME NEW s \in Seq(Nat), NEW length, NEW zero
  PROVE  /\ s \o Value(length, zero) \in Seq(Nat)
         /\ PlacesOf(s \o Value(length, zero)) \ {0} = PlacesOf(s) \ {0}
<1>1. CASE Value(length, zero) = << >>
  <2>1. s \o << >> = s
    BY ConcatEmptySeq
  <2> QED
    BY <1>1, <2>1
<1>2. CASE Value(length, zero) = << 0 >>
  <2>1. s \o << 0 >> = Append(s, 0)
    BY AppendIsConcat
  <2> QED
    <3>1. 0 \in Nat
      OBVIOUS
    <3>2. Append(s, 0) \in Seq(Nat) /\ PlacesOf(Append(s, 0)) = PlacesOf(s) \cup {0}
      BY <3>1, Appended, PlacesAdded
    <3> QED
      BY <1>2, <2>1, <3>2
<1> QED
  BY <1>1, <1>2, Zenon DEF Value

\* The end of a name.
LEMMA EndedIs ==
  ASSUME NEW r \in Expansion, NEW zero
  PROVE  LET q == Ended(r, zero) IN
           /\ q \in Expansion /\ q.name = -1 /\ q.escape = r.escape
           /\ PlacesOf(q.out) \ {0} = PlacesOf(r.out) \ {0}
<1>1. CASE r.name = -1
  BY <1>1 DEF Ended
<1>2. CASE r.name # -1
  <2> DEFINE out == r.out \o Value(r.name, zero)
  <2>1. Ended(r, zero) = [out |-> out, escape |-> r.escape, name |-> -1]
    BY <1>2 DEF Ended, Expansion
  <2>2. out \in Seq(Nat) /\ PlacesOf(out) \ {0} = PlacesOf(r.out) \ {0}
    BY ValueIs DEF Expansion
  <2> HIDE DEF out
  <2> QED
    BY <2>1, <2>2 DEF Expansion
<1> QED
  BY <1>1, <1>2

\* One character more.
LEMMA StepReads ==
  ASSUME NEW first \in Nat \ {0}, NEW n \in Nat, NEW r, ReadTo(line, first, n, r), NEW zero
  PROVE  ReadTo(line, first, n + 1, Step(r, first + n, zero))
<1> DEFINE k == first + n
           q == IF line[k] # "plain" THEN Ended(r, zero) ELSE r
           s == Step(r, k, zero)
<1>1. /\ k \in Nat \ {0} /\ first + (n + 1) = k + 1 /\ first + n - 1 = k - 1
      /\ first + (n + 1) - 1 = k /\ first..k = first..(k - 1) \cup {k} /\ k \notin first..(k - 1)
      /\ first <= k
  OBVIOUS
<1>2. /\ q \in Expansion /\ q.escape = r.escape /\ (line[k] # "plain" => q.name = -1)
      /\ PlacesOf(q.out) \ {0} = PlacesOf(r.out) \ {0}
      /\ q.name # -1 => q.escape = FALSE
  BY EndedIs DEF ReadTo
<1>3. s = IF q.name >= 0 THEN [q EXCEPT !.name = @ + 1]
          ELSE IF line[k] = "dollar" /\ ~q.escape THEN [q EXCEPT !.name = 0]
          ELSE IF line[k] = "backslash" /\ ~q.escape THEN [q EXCEPT !.escape = TRUE]
          ELSE [out |-> Append(q.out, k), escape |-> FALSE, name |-> -1]
  BY DEF Step
<1>4. /\ Slashes(line, k) \in Nat
      /\ Slashes(line, k + 1) = IF line[k] = "backslash" THEN Slashes(line, k) + 1 ELSE 0
  BY <1>1, SlashesCount
<1> DEFINE e == Slashes(line, k)
           e1 == Slashes(line, k + 1)
           odd == e % 2 = 1
<1>5. /\ q.escape = TRUE <=> e % 2 = 1
      /\ PlacesOf(q.out) \subseteq {0} \cup first..(k - 1)
      /\ \A x \in first..(k - 1) : line[x] = "dollar" =>
           (x \in PlacesOf(q.out) <=> Slashes(line, x) % 2 = 1)
  <2>1. /\ r.escape = TRUE <=> e % 2 = 1
        /\ PlacesOf(r.out) \subseteq {0} \cup first..(k - 1)
        /\ \A x \in first..(k - 1) : line[x] = "dollar" =>
             (x \in PlacesOf(r.out) <=> Slashes(line, x) % 2 = 1)
    BY <1>1 DEF ReadTo
  <2>2. \A x \in first..(k - 1) : x # 0
    OBVIOUS
  <2> HIDE DEF q, k
  <2> QED
    BY <1>2, <2>1, <2>2
<1>6. q.escape = TRUE <=> odd
  BY <1>5
<1> HIDE DEF q, s, k
<1>7. ASSUME s \in Expansion, s.escape = TRUE <=> line[k] = "backslash" /\ ~odd, s.name # -1 => s.escape = FALSE,
             PlacesOf(s.out) \subseteq PlacesOf(q.out) \cup {k},
             PlacesOf(q.out) \subseteq PlacesOf(s.out),
             line[k] = "dollar" => (k \in PlacesOf(s.out) <=> odd)
      PROVE  ReadTo(line, first, n + 1, s)
  <2>1. PlacesOf(s.out) \subseteq {0} \cup first..k
    BY <1>1, <1>5, <1>7
  <2>2. \A x \in first..(k - 1) : x \in PlacesOf(s.out) <=> x \in PlacesOf(q.out)
    BY <1>1, <1>7
  <2>3. \A x \in first..k : line[x] = "dollar" =>
           (x \in PlacesOf(s.out) <=> Slashes(line, x) % 2 = 1)
    BY <1>1, <1>5, <1>7, <2>2
  <2>4. s.escape = TRUE <=> e1 % 2 = 1
    <3>1. e1 % 2 = 1 <=> line[k] = "backslash" /\ ~odd
      <4>1. e \in Nat /\ (e1 = IF line[k] = "backslash" THEN e + 1 ELSE 0)
        BY <1>4
      <4> HIDE DEF e, e1
      <4> QED
        BY <4>1
    <3> QED
      BY <1>7, <3>1
  <2> QED
    BY <1>1, <1>7, <2>1, <2>3, <2>4 DEF ReadTo
<1>8. k \notin PlacesOf(q.out)
  BY <1>1, <1>5
<1> HIDE DEF odd, e, e1
<1> SUFFICES ReadTo(line, first, n + 1, s)
  BY DEF s, k
<1>9. CASE q.name >= 0
  <2>1. s = [q EXCEPT !.name = @ + 1] /\ line[k] = "plain" /\ q.escape = FALSE /\ q.name # -1
    BY <1>2, <1>3, <1>9
  <2>2. s \in Expansion /\ s.out = q.out /\ s.escape = FALSE
    BY <1>2, <1>9, <2>1 DEF Expansion
  <2> QED
    BY <1>7, <1>6, <2>1, <2>2
<1>10. CASE ~(q.name >= 0) /\ line[k] = "dollar" /\ ~q.escape
  <2>1. s = [q EXCEPT !.name = 0] /\ q.escape = FALSE
    BY <1>2, <1>3, <1>10 DEF Expansion
  <2>2. s \in Expansion /\ s.out = q.out /\ s.escape = FALSE
    BY <1>2, <2>1 DEF Expansion
  <2> QED
    BY <1>5, <1>7, <1>8, <1>6, <1>10, <2>1, <2>2
<1>11. CASE ~(q.name >= 0) /\ line[k] = "backslash" /\ ~q.escape
  <2>1. s = [q EXCEPT !.escape = TRUE] /\ q.escape = FALSE /\ q.name = -1
    BY <1>2, <1>3, <1>11 DEF Expansion
  <2>2. s \in Expansion /\ s.out = q.out /\ s.escape = TRUE /\ s.name = -1
    BY <1>2, <2>1 DEF Expansion
  <2> QED
    BY <1>5, <1>7, <1>6, <1>11, <2>1, <2>2
<1>12. CASE ~(q.name >= 0) /\ (line[k] \in {"dollar", "backslash"} => q.escape)
  <2>1. s = [out |-> Append(q.out, k), escape |-> FALSE, name |-> -1]
    BY <1>3, <1>12
  <2>2. q.out \in Seq(Nat)
    BY <1>2 DEF Expansion
  <2>3. Append(q.out, k) \in Seq(Nat) /\ PlacesOf(Append(q.out, k)) = PlacesOf(q.out) \cup {k}
    BY <1>1, <2>2, Appended, PlacesAdded
  <2>4. s \in Expansion /\ PlacesOf(s.out) = PlacesOf(q.out) \cup {k} /\ s.escape = FALSE /\ s.name = -1
    BY <2>1, <2>3 DEF Expansion
  <2>5. line[k] \in {"dollar", "backslash"} => q.escape = TRUE
    BY <1>2, <1>12 DEF Expansion
  <2> QED
    BY <1>5, <1>7, <1>6, <2>4, <2>5
<1> QED
  <2>1. q.name >= 0 \/ ~(q.name >= 0)
    OBVIOUS
  <2> QED
    BY <1>9, <1>10, <1>11, <1>12, <2>1, Zenon

\* The loop over the characters of a word.
IsRead(chars, zero, g) ==
  g = [n \in 0..Len(chars) |->
         IF n = 0 THEN [out |-> << >>, escape |-> FALSE, name |-> -1]
         ELSE Step(g[n - 1], chars[n], zero)]

\* One step of it, as a value.
LEMMA StepType ==
  ASSUME NEW r \in Expansion, NEW k \in Nat, NEW zero
  PROVE  Step(r, k, zero) \in Expansion
<1> DEFINE q == IF line[k] # "plain" THEN Ended(r, zero) ELSE r
<1>1. q \in Expansion
  BY EndedIs
<1>2. Step(r, k, zero) =
        IF q.name >= 0 THEN [q EXCEPT !.name = @ + 1]
        ELSE IF line[k] = "dollar" /\ ~q.escape THEN [q EXCEPT !.name = 0]
        ELSE IF line[k] = "backslash" /\ ~q.escape THEN [q EXCEPT !.escape = TRUE]
        ELSE [out |-> Append(q.out, k), escape |-> FALSE, name |-> -1]
  BY DEF Step
<1> HIDE DEF q
<1>3. Append(q.out, k) \in Seq(Nat)
  BY <1>1, Appended DEF Expansion
<1>4. q.name >= 0 => [q EXCEPT !.name = @ + 1] \in Expansion
  <2> SUFFICES ASSUME q.name >= 0 PROVE [q EXCEPT !.name = @ + 1] \in Expansion
    OBVIOUS
  <2>1. q.name + 1 \in Nat
    BY <1>1 DEF Expansion
  <2> QED
    BY <1>1, <2>1 DEF Expansion
<1>5. [q EXCEPT !.name = 0] \in Expansion /\ [q EXCEPT !.escape = TRUE] \in Expansion
  BY <1>1 DEF Expansion
<1>6. [out |-> Append(q.out, k), escape |-> FALSE, name |-> -1] \in Expansion
  BY <1>3 DEF Expansion
<1> QED
  BY <1>2, <1>4, <1>5, <1>6, Zenon

\* The loop is a function of the number of characters read.
LEMMA ReadExists ==
  ASSUME NEW chars \in Seq(Nat), NEW zero
  PROVE  \E g : IsRead(chars, zero, g)
<1> DEFINE start == [out |-> << >>, escape |-> FALSE, name |-> -1]
           step == [p \in Expansion \X Nat |->
                      IF p[2] \in 1..Len(chars) THEN Step(p[1], chars[p[2]], zero) ELSE start]
<1>1. start \in Expansion
  BY EmptySeq DEF Expansion
<1>2. Len(chars) \in Nat /\ \A n \in 1..Len(chars) : chars[n] \in Nat
  BY LenProperties, ElementOfSeq
<1>3. ASSUME NEW r \in Expansion, NEW n \in 1..Len(chars)
      PROVE  step[<< r, n >>] = Step(r, chars[n], zero)
  <2>1. << r, n >> \in Expansion \X Nat /\ << r, n >>[1] = r /\ << r, n >>[2] = n
    BY <1>2
  <2> QED
    BY <2>1
<1> HIDE DEF start, step
<1>4. PICK f : Recursive(f, start, step)
  BY Recursion
<1>5. /\ f[0] = start
      /\ \A n \in Nat : n # 0 => f[n] = step[<< f[n - 1], n >>]
  BY <1>4 DEF Recursive
<1> DEFINE T == {n \in Nat : n <= Len(chars) => f[n] \in Expansion}
<1>6. Nat \subseteq T
  <2>1. 0 \in T
    BY <1>1, <1>5
  <2>2. ASSUME NEW n \in Nat, n \in T PROVE n + 1 \in T
    <3> SUFFICES ASSUME n + 1 <= Len(chars) PROVE f[n + 1] \in Expansion
      OBVIOUS
    <3>1. n + 1 \in 1..Len(chars) /\ (n + 1) - 1 = n /\ n + 1 # 0 /\ n + 1 \in Nat
      BY <1>2
    <3>2. f[n] \in Expansion
      BY <1>2, <2>2, <3>1
    <3>3. f[n + 1] = step[<< f[n], n + 1 >>]
      BY <1>5, <3>1
    <3> QED
      BY <1>2, <1>3, <3>1, <3>2, <3>3, StepType
  <2> HIDE DEF T
  <2> QED
    BY <2>1, <2>2, Induction
<1> DEFINE g == [n \in 0..Len(chars) |-> f[n]]
<1>7. ASSUME NEW n \in 0..Len(chars)
      PROVE  g[n] = IF n = 0 THEN start ELSE Step(g[n - 1], chars[n], zero)
  <2>1. CASE n = 0
    BY <1>5, <2>1
  <2>2. CASE n # 0
    <3>1. n \in 1..Len(chars) /\ n - 1 \in Nat /\ n - 1 \in 0..Len(chars) /\ n - 1 <= Len(chars)
          /\ n \in Nat
      BY <1>2, <2>2
    <3>2. f[n - 1] \in Expansion
      BY <1>6, <3>1
    <3>3. f[n] = step[<< f[n - 1], n >>]
      BY <1>5, <2>2, <3>1
    <3>4. f[n] = Step(f[n - 1], chars[n], zero)
      BY <1>3, <3>1, <3>2, <3>3
    <3>5. g[n - 1] = f[n - 1] /\ g[n] = f[n]
      BY <3>1
    <3> HIDE DEF g
    <3> QED
      BY <2>2, <3>4, <3>5
  <2> QED
    BY <2>1, <2>2
<1>8. g = [n \in 0..Len(chars) |-> IF n = 0 THEN start ELSE Step(g[n - 1], chars[n], zero)]
  <2>1. g = [n \in 0..Len(chars) |-> g[n]]
    OBVIOUS
  <2> HIDE DEF g
  <2> QED
    BY <1>7, <2>1
<1> HIDE DEF g
<1>9. IsRead(chars, zero, g)
  BY <1>8 DEF IsRead, start
<1> QED
  BY <1>9

\* What is left of the dollars of a word that is expanded (expand_variables).
LEMMA ExpandedIs ==
  ASSUME NEW chars \in Seq(Nat), NEW first \in Nat \ {0}, NEW zero,
         \A n \in 1..Len(chars) : chars[n] = first + n - 1,
         first > 1 => line[first - 1] # "backslash"
  PROVE  /\ Expanded(chars, zero) \in Seq(Nat)
         /\ \A k \in first..(first + Len(chars) - 1) : line[k] = "dollar" =>
              (k \in PlacesOf(Expanded(chars, zero)) <=> Slashes(line, k) % 2 = 1)
<1> DEFINE g == CHOOSE h : IsRead(chars, zero, h)
           start == [out |-> << >>, escape |-> FALSE, name |-> -1]
           len == Len(chars)
<1>1. IsRead(chars, zero, g)
  BY ReadExists
<1>2. Expanded(chars, zero) = Ended(g[len], zero).out
  BY DEF Expanded, IsRead
<1> HIDE DEF g
<1>3. len \in Nat
  BY LenProperties
<1>4. g[0] = start /\ \A n \in 1..len : g[n] = Step(g[n - 1], chars[n], zero)
  <2>1. \A n \in 0..len : g[n] = IF n = 0 THEN start ELSE Step(g[n - 1], chars[n], zero)
    <3> TAKE n \in 0..len
    <3> DEFINE G == [x \in 0..len |-> IF x = 0 THEN start ELSE Step(g[x - 1], chars[x], zero)]
    <3>1. g = G
      BY <1>1 DEF IsRead
    <3>2. G[n] = IF n = 0 THEN start ELSE Step(g[n - 1], chars[n], zero)
      BY Zenon
    <3> HIDE DEF G
    <3> QED
      BY <3>1, <3>2, Zenon
  <2>2. 0 \in 0..len /\ \A n \in 1..len : n \in 0..len /\ n # 0
    BY <1>3
  <2> QED
    BY <2>1, <2>2, Zenon
<1> HIDE DEF len
<1> DEFINE T == {n \in Nat : n <= len => ReadTo(line, first, n, g[n])}
<1>5. 0 \in T
  <2>1. Slashes(line, first) = 0 /\ 0 % 2 # 1
    BY NoneInFront
  <2>2. start \in Expansion /\ start.escape = FALSE /\ start.name = -1 /\ PlacesOf(start.out) = {}
    BY EmptySeq, PlacesOfNone DEF Expansion
  <2> HIDE DEF start
  <2>3. first + 0 = first /\ first..(first + 0 - 1) = {}
    OBVIOUS
  <2>4. ReadTo(line, first, 0, start)
    BY <2>1, <2>2, <2>3 DEF ReadTo
  <2> QED
    BY <1>4, <2>4
<1>6. ASSUME NEW n \in Nat, n \in T PROVE n + 1 \in T
  <2> SUFFICES ASSUME n + 1 <= len PROVE ReadTo(line, first, n + 1, g[n + 1])
    OBVIOUS
  <2>1. ReadTo(line, first, n, g[n])
    BY <1>3, <1>6
  <2>2. n + 1 \in 1..len /\ (n + 1) - 1 = n
    BY <1>3
  <2>3. g[n + 1] = Step(g[n], chars[n + 1], zero) /\ chars[n + 1] = first + n
    <3>1. chars[n + 1] = first + (n + 1) - 1 /\ first + (n + 1) - 1 = first + n
      BY <2>2 DEF len
    <3> QED
      BY <1>4, <2>2, <3>1
  <2> QED
    BY <2>1, <2>3, StepReads
<1>7. ReadTo(line, first, len, g[len])
  <2> HIDE DEF T
  <2>1. Nat \subseteq T
    BY <1>5, <1>6, Induction
  <2> QED
    BY <1>3, <2>1 DEF T
<1>8. /\ Ended(g[len], zero).out \in Seq(Nat)
      /\ PlacesOf(Ended(g[len], zero).out) \ {0} = PlacesOf(g[len].out) \ {0}
  BY <1>7, EndedIs DEF ReadTo, Expansion
<1>9. \A k \in first..(first + len - 1) : k # 0
  BY <1>3
<1> QED
  BY <1>2, <1>7, <1>8, <1>9 DEF ReadTo, len

\* The characters of a token lie next to each other.
LEMMA NextToEachOther ==
  ASSUME NEW chars \in Seq(Nat), \A n \in 1..(Len(chars) - 1) : chars[n + 1] = chars[n] + 1
  PROVE  /\ \A n \in 1..Len(chars) : chars[n] = chars[1] + n - 1
         /\ chars # << >> => /\ PlacesOf(chars) = chars[1]..(chars[1] + Len(chars) - 1)
                            /\ chars[1] \in PlacesOf(chars)
<1> DEFINE T == {n \in Nat : n + 1 <= Len(chars) => chars[n + 1] = chars[1] + n}
<1>1. Len(chars) \in Nat /\ DOMAIN chars = 1..Len(chars) /\ \A n \in 1..Len(chars) : chars[n] \in Nat
  BY LenProperties, ElementOfSeq
<1>2. 0 \in T
  <2>1. 0 + 1 <= Len(chars) => chars[1] + 0 = chars[1]
    BY <1>1
  <2> QED
    BY <2>1
<1>3. ASSUME NEW n \in Nat, n \in T PROVE n + 1 \in T
  <2> SUFFICES ASSUME (n + 1) + 1 <= Len(chars) PROVE chars[(n + 1) + 1] = chars[1] + (n + 1)
    OBVIOUS
  <2>1. n + 1 \in 1..(Len(chars) - 1) /\ 1 \in 1..Len(chars) /\ n + 1 <= Len(chars)
    BY <1>1
  <2>2. chars[(n + 1) + 1] = chars[n + 1] + 1 /\ chars[n + 1] = chars[1] + n
    BY <1>3, <2>1
  <2> QED
    BY <1>1, <2>1, <2>2
<1>4. Nat \subseteq T
  <2> HIDE DEF T
  <2> QED
    BY <1>2, <1>3, Induction
<1>5. \A n \in 1..Len(chars) : chars[n] = chars[1] + n - 1
  <2> TAKE n \in 1..Len(chars)
  <2> DEFINE m == n - 1
  <2>1. m \in Nat /\ m + 1 = n /\ m + 1 <= Len(chars) /\ 1 \in 1..Len(chars)
    BY <1>1
  <2> HIDE DEF m
  <2>2. chars[m + 1] = chars[1] + m
    BY <1>4, <2>1
  <2>3. chars[1] + m = chars[1] + n - 1
    BY <1>1, <2>1
  <2> QED
    BY <2>1, <2>2, <2>3
<1>6. ASSUME chars # << >> PROVE PlacesOf(chars) = chars[1]..(chars[1] + Len(chars) - 1)
  <2>1. 1 \in 1..Len(chars) /\ chars[1] \in Nat
    BY <1>1, <1>6
  <2>2. ASSUME NEW k \in chars[1]..(chars[1] + Len(chars) - 1) PROVE k \in PlacesOf(chars)
    <3>1. k - chars[1] + 1 \in 1..Len(chars) /\ chars[1] + (k - chars[1] + 1) - 1 = k
      BY <1>1, <2>1
    <3>2. chars[k - chars[1] + 1] = k
      BY <1>5, <3>1
    <3> QED
      BY <1>1, <3>1, <3>2 DEF PlacesOf
  <2>3. ASSUME NEW k \in PlacesOf(chars) PROVE k \in chars[1]..(chars[1] + Len(chars) - 1)
    <3>1. PICK n \in 1..Len(chars) : k = chars[n]
      BY <1>1 DEF PlacesOf
    <3> QED
      BY <1>1, <1>5, <2>1, <3>1
  <2> QED
    BY <2>2, <2>3
<1>7. chars # << >> => 1 \in DOMAIN chars
  BY <1>1
<1> QED
  BY <1>5, <1>6, <1>7 DEF PlacesOf

\* What ProtectedStays says of one token and its text.
Stays(l, t, text) ==
  \A k \in PlacesOf(t.chars) : l[k] = "dollar" /\ (t.escape = "dquote" => k # t.chars[1]) =>
    /\ Slashes(l, k) = 0 /\ t.escape # "quote" => k \notin PlacesOf(text)
    /\ Slashes(l, k) % 2 = 1 /\ t.type = "WORD" => k \in PlacesOf(text)

\* It holds of every token that has been expanded, or need not be.
LEMMA TextStays ==
  ASSUME NEW t \in LexedToken, TokenOK(line, t), \A k \in PlacesOf(t.chars) : k >= 1,
         NEW text,
         IF t.type = "WORD" /\ "var" \in t.process
         THEN \E zero \in BOOLEAN : text = Expanded(t.chars, zero) ELSE text = t.chars
  PROVE  text \in Seq(Nat) /\ Stays(line, t, text)
<1>1. /\ t.chars \in Seq(Nat) /\ Len(t.chars) \in Nat /\ t.escape \in {"no", "quote", "dquote"}
      /\ \A n \in 1..(Len(t.chars) - 1) : t.chars[n + 1] = t.chars[n] + 1
  BY LenProperties DEF LexedToken, TokenOK
<1> DEFINE first == t.chars[1]
           len == Len(t.chars)
<1>2. /\ \A n \in 1..len : t.chars[n] = first + n - 1
      /\ t.chars # << >> => /\ PlacesOf(t.chars) = first..(first + len - 1)
                           /\ first \in PlacesOf(t.chars)
  BY <1>1, NextToEachOther
<1>3. t.chars # << >> => first \in Nat \ {0}
  <2>1. t.chars # << >> => 1 \in 1..Len(t.chars)
    BY <1>1
  <2>2. t.chars # << >> => first \in Nat
    BY <1>1, <2>1, ElementOfSeq
  <2> QED
    BY <1>2, <2>2
<1>4. CASE t.type = "WORD" /\ "var" \in t.process
  <2>1. PICK zero \in BOOLEAN : text = Expanded(t.chars, zero)
    BY <1>4
  <2>2. CASE t.chars = << >>
    <3>1. len = 0 /\ 1 \in Nat \ {0}
      BY <2>2
    <3>2. /\ \A n \in 1..Len(t.chars) : t.chars[n] = 1 + n - 1
          /\ 1 > 1 => line[1 - 1] # "backslash"
      BY <3>1
    <3>3. Expanded(t.chars, zero) \in Seq(Nat)
      BY <1>1, <3>1, <3>2, ExpandedIs
    <3>4. text \in Seq(Nat)
      BY <2>1, <3>3
    <3> QED
      BY <2>2, <3>4, PlacesOfNone DEF Stays
  <2>3. CASE t.chars # << >>
    <3>1. first > 1 => line[first - 1] # "backslash"
      BY <1>4, <2>3 DEF TokenOK, StartsFree
    <3>2. /\ text \in Seq(Nat)
          /\ \A k \in first..(first + len - 1) : line[k] = "dollar" =>
               (k \in PlacesOf(text) <=> Slashes(line, k) % 2 = 1)
      <4>1. first \in Nat \ {0} /\ \A n \in 1..Len(t.chars) : t.chars[n] = first + n - 1
        BY <1>2, <1>3, <2>3
      <4> HIDE DEF first
      <4>2. /\ Expanded(t.chars, zero) \in Seq(Nat)
            /\ \A k \in first..(first + Len(t.chars) - 1) : line[k] = "dollar" =>
                 (k \in PlacesOf(Expanded(t.chars, zero)) <=> Slashes(line, k) % 2 = 1)
        BY <1>1, <3>1, <4>1, ExpandedIs
      <4> QED
        BY <2>1, <4>2
    <3>3. 0 % 2 # 1
      OBVIOUS
    <3> QED
      BY <1>2, <2>3, <3>2, <3>3 DEF Stays
  <2> QED
    BY <2>2, <2>3
<1>5. CASE ~(t.type = "WORD" /\ "var" \in t.process)
  <2>1. text = t.chars
    BY <1>5
  <2>2. ASSUME NEW k \in PlacesOf(t.chars), line[k] = "dollar", t.escape = "dquote" => k # first,
               Slashes(line, k) = 0, t.escape # "quote"
        PROVE  FALSE
    <3>1. t.type = "WORD"
      BY <2>2, OperatorTable DEF TokenOK
    <3>2. k \in Nat \ {0} /\ first \in Nat \ {0} /\ first <= k
      <4>1. t.chars # << >>
        BY <2>2, PlacesOfNone
      <4>2. first \in Nat \ {0} /\ len \in Nat /\ k \in first..(first + len - 1)
        BY <1>1, <1>2, <1>3, <2>2, <4>1
      <4> HIDE DEF first, len
      <4> QED
        BY <4>2
    <3>3. k = first \/ line[k - 1] # "backslash"
      <4> SUFFICES ASSUME k # first PROVE line[k - 1] # "backslash"
        OBVIOUS
      <4>1. k - 1 \in Nat \ {0} /\ (k - 1) + 1 = k
        BY <3>2
      <4>2. /\ Slashes(line, k - 1) \in Nat
            /\ Slashes(line, k) = IF line[k - 1] = "backslash" THEN Slashes(line, k - 1) + 1 ELSE 0
        BY <4>1, SlashesCount
      <4> QED
        BY <2>2, <4>2
    <3>4. k \in Asking(line, t.chars, "dollar")
      BY <2>2, <3>3 DEF Asking
    <3>5. t.escape = "no" \/ k # first
      BY <1>1, <2>2
    <3>6. Flagged(line, t.chars, t.escape, t.process)
      BY <3>1 DEF TokenOK
    <3> QED
      BY <1>5, <2>2, <3>1, <3>4, <3>5, <3>6 DEF Flagged
  <2> QED
    BY <1>1, <2>1, <2>2 DEF Stays
<1> QED
  BY <1>4, <1>5

\* What has been looked at: each entry has its token's characters and quotes, and its
\* dollars are kept or gone.
Told(l, ts, lst, upto) ==
  \A n \in DOMAIN lst : n < upto =>
    /\ lst[n].token.chars = ts[lst[n].of].chars
    /\ lst[n].token.escape = ts[lst[n].of].escape
    /\ lst[n].text \in Seq(Nat) /\ Stays(l, ts[lst[n].of], lst[n].text)

\* In the end all of the list has been looked at.
ToldInv ==
  /\ state # "lexing" => Told(line, tokens, list, index)
  /\ state = "done" => index > Len(list)

\* The text that handle_line gives the token at the index.
LEMMA TextOfCurrent ==
  ASSUME LexInv, InPlace(tokens, list), Fresh(tokens, list, index), index \in DOMAIN list,
         NEW text \in Texts
  PROVE  /\ list[index].token = tokens[list[index].of] /\ list[index].of \in DOMAIN tokens
         /\ text \in Seq(Nat) /\ Stays(line, tokens[list[index].of], text)
<1> DEFINE m == list[index].of
           t == tokens[m]
<1>1. /\ m \in DOMAIN tokens /\ list[index].token = t /\ list[index].text = t.chars
  <2>1. Len(list) \in Nat /\ DOMAIN list = 1..Len(list)
    BY SequenceIs DEF InPlace
  <2> QED
    BY <2>1 DEF InPlace, Fresh
<1>2. t \in LexedToken /\ TokenOK(line, t)
  BY <1>1, TokensOK, ElementOfSeq DEF LexInv, LexTyped
<1>3. \A k \in PlacesOf(t.chars) : k >= 1
  <2>1. \A k \in PlacesOf(t.chars) : k \in 1..(i - Len(word) - 1)
    BY <1>1 DEF LexInv, InRow
  <2> QED
    BY <2>1
<1> QED
  BY <1>1, <1>2, <1>3, TextStays DEF Texts, Asks, current

\* The text of one entry is replaced.
LEMMA ToldText ==
  ASSUME InPlace(tokens, list), index \in 1..Len(list), Told(line, tokens, list, index),
         NEW text \in Seq(Nat), list[index].token = tokens[list[index].of],
         Stays(line, tokens[list[index].of], text)
  PROVE  Told(line, tokens, [list EXCEPT ![index].text = text], index + 1)
<1> DEFINE e == [list[index] EXCEPT !.text = text]
           new == [list EXCEPT ![index] = e]
<1>1. /\ ASequence(list) /\ IsEntry(list[index]) /\ DOMAIN list = 1..Len(list)
      /\ Len(list) \in Nat /\ index \in DOMAIN list
  BY SequenceIs DEF InPlace
<1>2. e.of = list[index].of /\ e.token = list[index].token /\ e.text = text
  BY <1>1 DEF IsEntry
<1> HIDE DEF e
<1>3. /\ DOMAIN new = DOMAIN list /\ new[index] = e
      /\ \A n \in DOMAIN list : n # index => new[n] = list[n]
  BY <1>1, Replaced
<1> HIDE DEF new
<1>4. Told(line, tokens, new, index + 1)
  <2> SUFFICES ASSUME NEW n \in DOMAIN list, n < index + 1
               PROVE  /\ new[n].token.chars = tokens[new[n].of].chars
                      /\ new[n].token.escape = tokens[new[n].of].escape
                      /\ new[n].text \in Seq(Nat) /\ Stays(line, tokens[new[n].of], new[n].text)
    BY <1>3 DEF Told
  <2>1. CASE n = index
    BY <1>2, <1>3, <2>1
  <2>2. CASE n # index
    <3>1. n < index /\ new[n] = list[n]
      BY <1>1, <1>3, <2>2
    <3> QED
      BY <3>1 DEF Told
  <2> QED
    BY <2>1, <2>2
<1> QED
  BY <1>4 DEF new, e

\* Names have the characters and the text of their pattern, which stands in no quotes.
LEMMA ToldNames ==
  ASSUME InPlace(tokens, list), index \in 1..Len(list), Told(line, tokens, list, index),
         NEW text \in Seq(Nat), list[index].token = tokens[list[index].of],
         Stays(line, tokens[list[index].of], text), tokens[list[index].of].escape = "no",
         NEW count \in Nat \ {0}
  PROVE  Told(line, tokens, Spliced(Names(text, count)), After(count))
<1> DEFINE new == Spliced(Names(text, count))
           e == NameEntry(text)
<1>1. DOMAIN list = 1..Len(list) /\ Len(list) \in Nat
  BY SequenceIs DEF InPlace
<1>2. /\ ASequence(new) /\ Len(new) = Len(list) - 1 + count
      /\ \A n \in 1..(index - 1) : new[n] = list[n]
      /\ \A n \in 1..count : new[index - 1 + n] = e
  BY NamesSpliced, Zenon
<1>3. /\ e.of = list[index].of /\ e.text = text /\ e.token.escape = "no"
      /\ e.token.chars = list[index].token.chars
  BY DEF NameEntry, current
<1> HIDE DEF new, e
<1>4. DOMAIN new = 1..(Len(list) - 1 + count)
  BY <1>2, SequenceIs
<1> SUFFICES ASSUME NEW n \in DOMAIN new, n < index + count
             PROVE  /\ new[n].token.chars = tokens[new[n].of].chars
                    /\ new[n].token.escape = tokens[new[n].of].escape
                    /\ new[n].text \in Seq(Nat) /\ Stays(line, tokens[new[n].of], new[n].text)
  BY DEF Told, After, new
<1>5. CASE n < index
  <2>1. n \in 1..(index - 1) /\ n \in DOMAIN list /\ new[n] = list[n]
    BY <1>1, <1>2, <1>4, <1>5
  <2> QED
    BY <1>5, <2>1 DEF Told
<1>6. CASE index <= n
  <2>1. n - (index - 1) \in 1..count /\ index - 1 + (n - (index - 1)) = n
    BY <1>1, <1>4, <1>6
  <2>2. new[n] = e
    BY <1>2, <2>1
  <2> QED
    BY <1>3, <2>2
<1> QED
  BY <1>1, <1>4, <1>5, <1>6

\* The dollars of the tokens in front of the index are settled.
LEMMA ToldStep == LexInv /\ WordsInv /\ ToldInv /\ [WNext]_<< lexing, words >> => ToldInv'
<1> SUFFICES ASSUME LexInv, WordsInv, ToldInv, [WNext]_<< lexing, words >> PROVE ToldInv'
  OBVIOUS
<1>1. CASE state = "lexing" /\ LexNext /\ UNCHANGED words
  BY <1>1 DEF words, ToldInv
<1>2. CASE Tokenized
  <2>1. list' = [n \in DOMAIN tokens |-> [token |-> tokens[n], of |-> n, text |-> tokens[n].chars]]
        /\ index' = 1 /\ state' = "preprocessing"
    BY <1>2 DEF Tokenized
  <2>2. \A n \in DOMAIN tokens : ~(n < 1)
    BY OwnElements DEF LexInv, LexTyped
  <2> QED
    BY <2>1, <2>2 DEF ToldInv, Told
<1>3. ASSUME state = "preprocessing", index <= Len(list)
      PROVE  /\ InPlace(tokens, list) /\ Fresh(tokens, list, index) /\ index \in 1..Len(list)
             /\ index \in DOMAIN list /\ Told(line, tokens, list, index)
  <2>1. /\ InPlace(tokens, list) /\ Fresh(tokens, list, index) /\ index \in 1..(Len(list) + 1)
        /\ Told(line, tokens, list, index)
    BY <1>3 DEF WordsInv, ToldInv
  <2>2. DOMAIN list = 1..Len(list) /\ Len(list) \in Nat
    BY <2>1, SequenceIs DEF InPlace
  <2> QED
    BY <1>3, <2>1, <2>2
<1>4. CASE Expand
  <2>1. /\ line' = line /\ tokens' = tokens /\ index' = index + 1 /\ state' = state
        /\ state = "preprocessing" /\ index <= Len(list)
    BY <1>4 DEF Expand, InLoop, lexing
  <2>2. PICK text \in Texts : list' = [list EXCEPT ![index].text = text]
    BY <1>4 DEF Expand
  <2>3. Told(line, tokens, [list EXCEPT ![index].text = text], index + 1)
    BY <1>3, <2>1, TextOfCurrent, ToldText
  <2> QED
    BY <2>1, <2>2, <2>3 DEF ToldInv
<1>5. CASE Glob
  <2>1. /\ line' = line /\ tokens' = tokens /\ Asks("glob") /\ state' = state
        /\ state = "preprocessing" /\ index <= Len(list)
    BY <1>5 DEF Glob, InLoop, lexing
  <2>2. PICK text \in Texts, count \in 1..MaxFiles :
          list' = Spliced(Names(text, count)) /\ index' = After(count)
    BY <1>5 DEF Glob
  <2>3. /\ list[index].token = tokens[list[index].of] /\ list[index].of \in DOMAIN tokens
        /\ text \in Seq(Nat) /\ Stays(line, tokens[list[index].of], text)
    BY <1>3, <2>1, TextOfCurrent
  <2>4. tokens[list[index].of].escape = "no"
    <3> DEFINE t == tokens[list[index].of]
    <3>1. t.type = "WORD" /\ "glob" \in t.process /\ TokenOK(line, t)
      BY <2>1, <2>3, TokensOK DEF Asks, current
    <3> QED
      BY <3>1 DEF TokenOK, Flagged
  <2>5. count \in Nat \ {0}
    OBVIOUS
  <2>6. Told(line, tokens, Spliced(Names(text, count)), After(count))
    BY <1>3, <2>1, <2>3, <2>4, <2>5, ToldNames
  <2> QED
    BY <2>1, <2>2, <2>6 DEF ToldInv
<1>6. CASE GlobFirst \/ Preprocessed
  BY <1>6 DEF GlobFirst, Preprocessed, InLoop, ToldInv, lexing
<1>7. CASE UNCHANGED << lexing, words >>
  BY <1>7 DEF ToldInv, lexing, words
<1> QED
  BY <1>1, <1>2, <1>4, <1>5, <1>6, <1>7 DEF WNext, Stop

\* The invariants of the two loops, and what has become of the dollars.
LEMMA ToldInvariant == WSpec => [](LexInv /\ WordsInv /\ ToldInv)
<1>1. WInit => ToldInv
  BY DEF WInit, ToldInv
<1> QED
  BY <1>1, WordsInvariant, ToldStep, PTL DEF WSpec

\* A dollar is expanded unless an odd number of backslashes, or a pair of single quotes,
\* protects it, for words of any length and any number of names a pattern matches: the
\* lexer and expand_variables agree.
THEOREM DollarsAreProtected == WSpec => []ProtectedStays
<1>1. ASSUME LexInv, WordsInv, ToldInv, state = "done", NEW n \in DOMAIN list
      PROVE  LET t == list[n].token IN
             \A k \in CharsOf(list[n].of) :
               line[k] = "dollar" /\ (t.escape = "dquote" => k # t.chars[1]) =>
                 /\ Backslashes(k) = 0 /\ t.escape # "quote" => ~Contains(list[n].text, k)
                 /\ Backslashes(k) % 2 = 1 /\ t.type = "WORD" => Contains(list[n].text, k)
  <2>1. InPlace(tokens, list) /\ index > Len(list) /\ Told(line, tokens, list, index)
    BY <1>1 DEF WordsInv, ToldInv
  <2>2. n < index
    <3>1. DOMAIN list = 1..Len(list) /\ Len(list) \in Nat /\ index \in Nat
      BY <1>1, <2>1, SequenceIs DEF InPlace, WordsInv
    <3> QED
      BY <2>1, <3>1
  <2> DEFINE t == tokens[list[n].of]
  <2>3. /\ list[n].of \in DOMAIN tokens /\ list[n].token.type = t.type
        /\ list[n].token.chars = t.chars /\ list[n].token.escape = t.escape
        /\ list[n].text \in Seq(Nat) /\ Stays(line, t, list[n].text)
    BY <2>1, <2>2 DEF InPlace, Told
  <2>4. CharsOf(list[n].of) = PlacesOf(t.chars)
    BY <1>1, <2>3, TokensOK
  <2>5. \A k : Backslashes(k) = Slashes(line, k)
    BY DEF Backslashes, Slashes
  <2>6. \A k : Contains(list[n].text, k) <=> k \in PlacesOf(list[n].text)
    <3>1. DOMAIN list[n].text = 1..Len(list[n].text)
      BY <2>3, LenProperties
    <3> QED
      BY <3>1 DEF Contains, PlacesOf
  <2> QED
    BY <2>3, <2>4, <2>5, <2>6 DEF Stays
<1>2. LexInv /\ WordsInv /\ ToldInv => ProtectedStays
  BY <1>1 DEF ProtectedStays
<1> QED
  BY <1>2, ToldInvariant, PTL
-----------------------------------------------------------------------------
(***************************************************************************)
(* The parser.  The argument is about the token behind a command, which    *)
(* the loops hand on by their breaks: it is a bind when the pipeline loop  *)
(* has it, and ends a chain when the chain loop has it.                    *)
(***************************************************************************)

EofLast ==
  /\ Len(kinds) > 0
  /\ \A k \in DOMAIN kinds : kinds[k] = "EOF" <=> k = Len(kinds)

NoneEnds(ps) == \A n \in DOMAIN ps : ps[n].next # "NEXT_NOTHING"

HandedOn ==
  /\ level \in {"cmd", "pipeline"} => NoneEnds(pipelines)
  /\ level = "pipeline" => Token \in Binds
  /\ level = "chain" => Ender /\ pipelines # << >> /\ Gated(pipelines)

ChainsOK ==
  /\ \A m \in DOMAIN commands :
       commands[m].pipelines # << >> /\ Gated(commands[m].pipelines)
  /\ level = "parsed" => commands # << >>

ParserInv == TypeOK /\ EofLast /\ HandedOn /\ ChainsOK
-----------------------------------------------------------------------------
\* A token that is not the end of the line has another one behind it.
LEMMA Follows ==
  ASSUME TypeOK, EofLast, NEW k \in DOMAIN kinds, kinds[k] # "EOF"
  PROVE  k + 1 \in DOMAIN kinds
<1>1. DOMAIN kinds = 1..Len(kinds) /\ Len(kinds) \in Nat
  BY LenProperties DEF TypeOK
<1>2. k # Len(kinds)
  BY DEF EofLast
<1> QED
  BY <1>1, <1>2

\* The places of words are the same as long as the line is.
LEMMA SameLine ==
  ASSUME kinds' = kinds
  PROVE  /\ WordPlaces' = WordPlaces /\ RedirType' = RedirType
         /\ CommandType' = CommandType /\ PipelineType' = PipelineType
         /\ ChainType' = ChainType /\ (EofLast <=> EofLast')
BY DEF WordPlaces, RedirType, CommandType, PipelineType, ChainType, EofLast

\* A line that ends in EOF satisfies the invariant before the first token is read.
LEMMA ParserInit == Init => ParserInv
<1> SUFFICES ASSUME Init PROVE ParserInv
  OBVIOUS
<1>1. PICK l \in KindLines : kinds = Append(l, "EOF")
  BY DEF Init
<1>2. l \in Seq(Tokens \ {"EOF"}) /\ l \in Seq(Tokens)
  BY KindLinesAssumption, SeqMonotonic
<1>3. "EOF" \in Tokens
  BY DEF Tokens
<1>4. TypeOK
  <2>1. kinds \in Seq(Tokens) /\ 1 \in DOMAIN kinds
    BY <1>1, <1>2, <1>3, Appended
  <2>2. \A S : << >> \in Seq(S)
    BY EmptySeq
  <2> QED
    BY <2>1, <2>2 DEF Init, TypeOK
<1>5. EofLast
  <2>1. \A k \in 1..Len(l) : l[k] # "EOF"
    BY <1>2, ElementOfSeq
  <2> QED
    BY <1>1, <1>2, <1>3, <2>1, Appended DEF EofLast
<1> QED
  BY <1>4, <1>5 DEF Init, ParserInv, HandedOn, ChainsOK, NoneEnds

\* What create_io_redirection returns, and that the word behind is not the end.
LEMMA RedirectionType ==
  ASSUME ParserInv, Token \in Redirs, RedirOK(place)
  PROVE  Redirection(place) \in RedirType /\ place + 2 \in DOMAIN kinds
<1>1. place + 1 \in DOMAIN kinds
  BY Follows DEF ParserInv, TypeOK, Token, Redirs
<1>2. place + 1 \in WordPlaces
  BY <1>1 DEF RedirOK, WordPlaces
<1>3. kinds[place + 1] # "EOF"
  BY DEF RedirOK, Words
<1>4. place + 2 \in DOMAIN kinds
  BY <1>1, <1>3, Follows DEF ParserInv, TypeOK
<1>5. FromOf(place) \in {"word", "fd"} \X Nat
  BY DEF FromOf, ParserInv, TypeOK
<1>6. TypeOf(place) \in {"FD", "PATH", "PATH_ENABLE_REWRITE"}
  BY DEF TypeOf
<1> QED
  BY <1>2, <1>4, <1>5, <1>6 DEF Redirection, RedirType

\* The invariant of the loops: whatever token the parser is at, the next step of the
\* loop that has it keeps the index in the line and the chains well shaped.
LEMMA ParserStep == ParserInv /\ [Next]_vars => ParserInv'
<1> SUFFICES ASSUME ParserInv, [Next]_vars PROVE ParserInv'
  OBVIOUS
<1> USE DEF ParserInv
<1>1. CASE Word
  <2>1. place \in WordPlaces /\ place + 1 \in DOMAIN kinds
    BY <1>1, Follows DEF Word, Token, WordPlaces, Words, TypeOK
  <2>2. TypeOK'
    BY <1>1, <2>1, Appended, SameLine DEF Word, TypeOK
  <2> QED
    BY <1>1, <2>2, SameLine DEF Word, HandedOn, ChainsOK
<1>2. CASE Redirect
  <2>1. TypeOK'
    BY <1>2, RedirectionType, Appended, SameLine DEF Redirect, TypeOK
  <2> QED
    BY <1>2, <2>1, SameLine DEF Redirect, HandedOn, ChainsOK
<1>3. CASE Fail
  <2>1. TypeOK'
    BY <1>3, SameLine DEF Fail, TypeOK
  <2> QED
    BY <1>3, <2>1, SameLine DEF Fail, HandedOn, ChainsOK
<1>4. CASE EmptyCommand
  <2>1. TypeOK'
    BY <1>4, SameLine DEF EmptyCommand, TypeOK
  <2> QED
    BY <1>4, <2>1, SameLine DEF EmptyCommand, HandedOn, ChainsOK, Token
<1>5. CASE Command
  <2>1. argv \in CommandType
    BY <1>5 DEF Command, CommandType, TypeOK
  <2>2. Token = "BIND_PIPE" => place + 1 \in DOMAIN kinds
    BY Follows DEF Token, TypeOK
  <2>3. TypeOK'
    BY <1>5, <2>1, <2>2, Appended, SameLine DEF Command, TypeOK
  <2> QED
    BY <1>5, <2>3, SameLine DEF Command, HandedOn, ChainsOK, Token
<1>6. CASE DropPipeline
  <2>1. place + 1 \in DOMAIN kinds
    BY <1>6, Follows DEF DropPipeline, Token, TypeOK
  <2>2. TypeOK'
    BY <1>6, <2>1, SameLine DEF DropPipeline, TypeOK
  <2> QED
    BY <1>6, <2>2, SameLine DEF DropPipeline, HandedOn, ChainsOK
<1>7. CASE Pipeline
  <2> DEFINE p == [cmds |-> cmds, next |-> NextAction, redirs |-> redirs]
  <2>1. p \in PipelineType
    BY DEF TypeOK, PipelineType, NextAction
  <2>2. pipelines' = Append(pipelines, p) /\ kinds' = kinds /\ commands' = commands
    BY <1>7 DEF Pipeline, PipelineTo
  <2>3. p.next = "NEXT_NOTHING" <=> Ender
    BY <1>7 DEF Pipeline, PipelineTo, NextAction, Ender, HandedOn, Binds, Tokens, Words,
                Redirs, Separators, Gates
  <2>4. ~Ender => place + 1 \in DOMAIN kinds
    BY Follows DEF Ender, Token, TypeOK
  <2>5. TypeOK'
    BY <1>7, <2>1, <2>2, <2>4, Appended, SameLine DEF Pipeline, PipelineTo, TypeOK
  <2>6. NoneEnds(pipelines)
    BY <1>7 DEF Pipeline, PipelineTo, HandedOn
  <2>7. /\ Len(pipelines) \in Nat /\ DOMAIN pipelines = 1..Len(pipelines)
        /\ Len(pipelines') = Len(pipelines) + 1 /\ DOMAIN pipelines' = 1..(Len(pipelines) + 1)
        /\ \A n \in 1..Len(pipelines) : pipelines'[n] = pipelines[n]
        /\ pipelines'[Len(pipelines) + 1].next = p.next
    BY <2>1, <2>2, Appended DEF TypeOK
  <2> HIDE DEF p
  <2>8. Ender => Gated(pipelines')
    BY <2>3, <2>6, <2>7 DEF NoneEnds, Gated
  <2>9. ~Ender => NoneEnds(pipelines')
    BY <2>3, <2>6, <2>7 DEF NoneEnds
  <2>10. pipelines' # << >>
    BY <2>7
  <2>11. HandedOn'
    BY <1>7, <2>8, <2>9, <2>10 DEF Pipeline, PipelineTo, HandedOn, Ender, Token
  <2>12. ChainsOK'
    BY <1>7 DEF Pipeline, PipelineTo, ChainsOK
  <2> QED
    BY <2>2, <2>5, <2>11, <2>12, SameLine
<1>8. CASE Chain
  <2> DEFINE ch == [pipelines |-> pipelines, mode |-> ModeOf(Token)]
  <2>1. ch \in ChainType
    BY DEF TypeOK, ChainType, ModeOf
  <2>2. commands' = Append(commands, ch) /\ kinds' = kinds
    BY <1>8 DEF Chain
  <2>3. Token # "EOF" => place + 1 \in DOMAIN kinds
    BY Follows DEF Token, TypeOK
  <2>4. TypeOK'
    BY <1>8, <2>1, <2>2, <2>3, Appended, SameLine DEF Chain, TypeOK
  <2>5. ch.pipelines # << >> /\ Gated(ch.pipelines)
    BY <1>8 DEF Chain, HandedOn
  <2>6. ChainsOK'
    <3>1. /\ commands \in Seq(ChainType) /\ DOMAIN commands = 1..Len(commands)
          /\ DOMAIN commands' = 1..(Len(commands) + 1) /\ Len(commands) \in Nat
          /\ \A m \in 1..Len(commands) : commands'[m] = commands[m]
          /\ commands'[Len(commands) + 1] = ch /\ commands' # << >>
      <4> DEFINE longer == Append(commands, ch)
      <4>1. commands \in Seq(ChainType)
        BY DEF TypeOK
      <4> HIDE DEF ch
      <4>2. /\ DOMAIN commands = 1..Len(commands)
            /\ DOMAIN longer = 1..(Len(commands) + 1) /\ Len(commands) \in Nat
            /\ \A m \in 1..Len(commands) : longer[m] = commands[m]
            /\ longer[Len(commands) + 1] = ch /\ longer # << >>
        BY <2>1, <4>1, Appended
      <4>3. commands' = longer
        BY <2>2
      <4> HIDE DEF longer
      <4> QED
        BY <4>1, <4>2, <4>3
    <3> HIDE DEF ch
    <3>2. ASSUME NEW m \in DOMAIN commands'
          PROVE  commands'[m].pipelines # << >> /\ Gated(commands'[m].pipelines)
      <4>1. CASE m \in 1..Len(commands)
        BY <3>1, <4>1 DEF ChainsOK
      <4>2. CASE m = Len(commands) + 1
        BY <2>5, <3>1, <4>2
      <4> QED
        BY <3>1, <4>1, <4>2
    <3> QED
      BY <3>1, <3>2 DEF ChainsOK
  <2>7. HandedOn'
    BY <1>8 DEF Chain, HandedOn, NoneEnds
  <2> QED
    BY <2>2, <2>4, <2>6, <2>7, SameLine
<1>9. CASE UNCHANGED vars
  BY <1>9, SameLine DEF vars, TypeOK, HandedOn, ChainsOK, Token, Ender
<1> QED
  BY <1>1, <1>2, <1>3, <1>4, <1>5, <1>6, <1>7, <1>8, <1>9
  DEF Next, BadRedirect, UnexpectedEnd, Returned

\* The inductive invariant of every line.
LEMMA ParserInvariant == Spec => []ParserInv
BY ParserInit, ParserStep, PTL DEF Spec

\* The parser stays in the line, and everything it builds is made of the line's words:
\* the index of the three loops, the lists and the chains (parse).
THEOREM ParserStaysInLine == Spec => []TypeOK
BY ParserInvariant, PTL DEF ParserInv

\* The shape of the chains that execute_foreground follows with next_action and
\* next_pipeline: only the last pipeline of a chain has no gate.
THEOREM ChainsAlwaysExecutable == Spec => []ChainsAreExecutable
<1>1. ParserInv => ChainsAreExecutable
  BY DEF ParserInv, ChainsOK, ChainsAreExecutable
<1> QED
  BY <1>1, ParserInvariant, PTL
-----------------------------------------------------------------------------
(***************************************************************************)
(* What a line means.  ParserMeaning cuts the whole line at once, and the  *)
(* parser reads it token by token: in front of every token, the lists it   *)
(* has built so far are the cuts of the line up to there, and a cut more   *)
(* is one element more.  Cuts are listed by their rank, so that each of    *)
(* these steps is a fact about one more element of a set of places.        *)
(***************************************************************************)

\* Ascending lists its places, each at its rank.
LEMMA AscendingIs ==
  ASSUME NEW S, S \subseteq Nat, IsFiniteSet(S)
  PROVE  /\ Ascending(S) \in Seq(S) /\ Len(Ascending(S)) = Cardinality(S)
         /\ Cardinality(S) \in Nat /\ DOMAIN Ascending(S) = 1..Cardinality(S)
         /\ \A n \in 1..Cardinality(S) : Rank(S, Ascending(S)[n]) = n
<1> DEFINE f == Ascending(S)
           w == Cardinality(S)
<1>1. w \in Nat
  BY FS_CardinalityType
<1>2. ASSUME NEW n \in 1..w PROVE f[n] \in S /\ Rank(S, f[n]) = n
  <2>1. f[n] = CHOOSE k \in S : Rank(S, k) = n
    BY DEF Ascending, Rank
  <2>2. \E k \in S : Rank(S, k) = n
    BY RankedOnce
  <2> HIDE DEF f
  <2> QED
    BY <2>1, <2>2
<1>3. f \in [1..w -> S]
  <2>1. f = [n \in 1..w |-> f[n]]
    BY DEF Ascending
  <2> HIDE DEF f, w
  <2> QED
    BY <1>2, <2>1
<1> HIDE DEF f, w
<1>4. f \in Seq(S) /\ Len(f) = w /\ DOMAIN f = 1..w
  BY <1>1, <1>3, FunctionIsSequence
<1> QED
  BY <1>1, <1>2, <1>4 DEF f, w

\* It lists all of them.
LEMMA AscendingAll ==
  ASSUME NEW S, S \subseteq Nat, IsFiniteSet(S)
  PROVE  /\ Range(Ascending(S)) = S
         /\ Ascending(S) = << >> <=> S = {}
<1> DEFINE f == Ascending(S)
           w == Cardinality(S)
<1>1. /\ f \in Seq(S) /\ w \in Nat /\ DOMAIN f = 1..w /\ Len(f) = w
      /\ \A n \in 1..w : f[n] \in S /\ Rank(S, f[n]) = n
  <2>1. /\ f \in Seq(S) /\ w \in Nat /\ DOMAIN f = 1..w /\ Len(f) = w
        /\ \A n \in 1..w : Rank(S, f[n]) = n
    BY AscendingIs
  <2> HIDE DEF f, w
  <2> QED
    BY <2>1, ElementOfSeq
<1>2. ASSUME NEW k \in S PROVE \E n \in 1..w : f[n] = k
  <2> DEFINE n == Rank(S, k)
  <2>1. n \in Nat /\ n <= w /\ n # 0
    <3>1. k \in Nat /\ k <= k
      OBVIOUS
    <3>2. n \in Nat /\ n <= w /\ IsFiniteSet({j \in S : j <= k})
      BY <3>1, RankType
    <3>3. n # 0
      <4> DEFINE B == {j \in S : j <= k}
      <4>1. B # {} /\ IsFiniteSet(B)
        BY <3>1, <3>2
      <4> HIDE DEF B
      <4>2. Cardinality(B) # 0
        BY <4>1, FS_EmptySet
      <4> QED
        BY <4>2 DEF B, Rank
    <3> QED
      BY <3>2, <3>3
  <2>2. n \in 1..w
    BY <1>1, <2>1
  <2>3. f[n] \in S /\ Rank(S, f[n]) = Rank(S, k)
    BY <1>1, <2>2
  <2>4. f[n] = k
    <3> HIDE DEF f, n
    <3> QED
      BY <2>3, RankTells
  <2> QED
    BY <2>2, <2>4
<1>3. Range(f) = S
  <2> HIDE DEF f, w
  <2> QED
    BY <1>1, <1>2 DEF Range
<1>4. f = << >> <=> S = {}
  <2>1. f = << >> <=> w = 0
    BY <1>1, EmptySeq
  <2>2. w = 0 <=> S = {}
    BY FS_EmptySet
  <2> QED
    BY <2>1, <2>2
<1> QED
  BY <1>3, <1>4

\* Two sequences are one if they agree at every place.
LEMMA AppendedIs ==
  ASSUME NEW R, NEW s \in Seq(R), NEW e \in R, NEW u \in Seq(R), Len(u) = Len(s) + 1,
         \A n \in 1..Len(s) : u[n] = s[n], u[Len(s) + 1] = e
  PROVE  u = Append(s, e)
<1> DEFINE t == Append(s, e)
<1>1. /\ t \in Seq(R) /\ Len(t) = Len(s) + 1 /\ Len(s) \in Nat
      /\ \A n \in 1..Len(s) : t[n] = s[n]
      /\ t[Len(s) + 1] = e
  BY Appended
<1> HIDE DEF t
<1>2. \A n \in 1..Len(u) : u[n] = t[n]
  BY <1>1
<1> QED
  BY <1>1, <1>2, SeqEqual DEF t

\* A place behind all the others comes last.
LEMMA AscendingAdded ==
  ASSUME NEW S, S \subseteq Nat, IsFiniteSet(S), NEW x \in Nat, \A j \in S : j < x
  PROVE  Ascending(S \cup {x}) = Append(Ascending(S), x)
<1> DEFINE T == S \cup {x}
           w == Cardinality(S)
           s == Ascending(S)
           u == Ascending(T)
<1>1. T \subseteq Nat /\ IsFiniteSet(T) /\ x \notin S /\ w \in Nat /\ Cardinality(T) = w + 1
  BY FS_AddElement, FS_CardinalityType
<1>2. /\ s \in Seq(S) /\ Len(s) = w
      /\ \A n \in 1..w : Rank(S, s[n]) = n
  BY AscendingIs
<1>3. /\ u \in Seq(T) /\ Len(u) = w + 1
      /\ \A n \in 1..(w + 1) : Rank(T, u[n]) = n
  BY <1>1, AscendingIs
<1>4. \A k \in S : Rank(T, k) = Rank(S, k)
  <2> TAKE k \in S
  <2>1. {j \in T : j <= k} = {j \in S : j <= k}
    OBVIOUS
  <2> QED
    BY <2>1 DEF Rank
<1>5. Rank(T, x) = w + 1
  <2>1. \A j \in T : j <= x
    BY <1>1
  <2> QED
    BY <1>1, <2>1, RankEnds
<1> HIDE DEF T, w, s, u
<1>6. ASSUME NEW n \in 1..w PROVE u[n] = s[n]
  <2>1. s[n] \in S /\ s[n] \in T /\ Rank(T, s[n]) = n
    BY <1>2, <1>4, ElementOfSeq DEF T
  <2>2. n \in 1..(w + 1)
    BY <1>1
  <2>3. u[n] \in T /\ Rank(T, u[n]) = n
    BY <1>3, <2>2, ElementOfSeq
  <2> QED
    BY <1>1, <2>1, <2>3, RankTells
<1>7. u[w + 1] = x
  <2>1. w + 1 \in 1..(w + 1) /\ x \in T
    BY <1>1 DEF T
  <2>2. u[w + 1] \in T /\ Rank(T, u[w + 1]) = w + 1
    BY <1>3, <2>1, ElementOfSeq
  <2> QED
    BY <1>1, <1>5, <2>1, <2>2, RankTells
<1>8. s \in Seq(T) /\ x \in T
  BY <1>2, SeqMonotonic DEF T
<1> QED
  BY <1>2, <1>3, <1>6, <1>7, <1>8, AppendedIs DEF T, s, u
\* The places of S strictly between a and z.
Chosen(S, a, z) == {k \in (a + 1)..(z - 1) : k \in S}

\* They are finitely many.
LEMMA ChosenFinite ==
  ASSUME NEW S, NEW a \in Nat, NEW z \in Nat
  PROVE  Chosen(S, a, z) \subseteq Nat /\ IsFiniteSet(Chosen(S, a, z))
<1>1. a + 1 \in Int /\ z - 1 \in Int
  OBVIOUS
<1>2. IsFiniteSet((a + 1)..(z - 1))
  BY <1>1, FS_Interval
<1>3. Chosen(S, a, z) \subseteq (a + 1)..(z - 1) /\ Chosen(S, a, z) \subseteq Nat
  BY DEF Chosen
<1> QED
  BY <1>2, <1>3, FS_Subset

\* From one place to the next.
LEMMA ChosenNext ==
  ASSUME NEW S, NEW a \in Nat, NEW z \in Nat, a < z
  PROVE  /\ z \in S => Ascending(Chosen(S, a, z + 1)) = Append(Ascending(Chosen(S, a, z)), z)
         /\ z \notin S => Chosen(S, a, z + 1) = Chosen(S, a, z)
<1>1. z \in S => Chosen(S, a, z + 1) = Chosen(S, a, z) \cup {z}
  BY DEF Chosen
<1>2. \A j \in Chosen(S, a, z) : j < z
  BY DEF Chosen
<1>3. z \notin S => Chosen(S, a, z + 1) = Chosen(S, a, z)
  BY DEF Chosen
<1> QED
  BY <1>1, <1>2, <1>3, ChosenFinite, AscendingAdded

\* Between a place and the next there is none, and none is listed as none.
LEMMA ChosenNone ==
  /\ \A S, a : a \in Nat => Chosen(S, a, a + 1) = {}
  /\ Ascending({}) = << >>
<1>1. \A S, a : a \in Nat => Chosen(S, a, a + 1) = {}
  BY DEF Chosen
<1>2. IsFiniteSet({}) /\ {} \subseteq Nat
  BY FS_EmptySet
<1>3. Ascending({}) = << >>
  BY <1>2, AscendingAll
<1> QED
  BY <1>1, <1>3

Spans == Nat \X Nat

\* The places of the tokens of some kinds.
OfKinds(some) == {k \in Nat : kinds[k] \in some}

\* A span by its ends, and what it is cut into.
Span(a, z) == << a, z >>
CutAt(a, z, some) == Cut(<< a, z >>, some)

\* The cuts between two places, in order.
CutsIn(a, z, some) == Ascending(Chosen(OfKinds(some), a, z))

\* What Cut is made of.
LEMMA CutIs ==
  ASSUME NEW a \in Nat, NEW z \in Nat, NEW some
  PROVE  /\ CutsIn(a, z, some) \in Seq(Nat) /\ Append(CutsIn(a, z, some), z) \in Seq(Nat)
         /\ CutAt(a, z, some) =
              [n \in 1..(Len(CutsIn(a, z, some)) + 1) |->
                << IF n = 1 THEN a ELSE Append(CutsIn(a, z, some), z)[n - 1], Append(CutsIn(a, z, some), z)[n] >>]
         /\ CutAt(a, z, some) \in Seq(Spans)
         /\ Len(CutAt(a, z, some)) = Len(CutsIn(a, z, some)) + 1
<1> DEFINE T == Chosen(OfKinds(some), a, z)
           f == CutsIn(a, z, some)
           v == Append(f, z)
           u == [n \in 1..(Len(f) + 1) |-> << IF n = 1 THEN a ELSE v[n - 1], v[n] >>]
<1>1. T = {k \in Inside(<< a, z >>) : kinds[k] \in some}
  BY DEF Chosen, OfKinds, Inside
<1>2. f \in Seq(Nat)
  <2>1. f \in Seq(T) /\ T \subseteq Nat
    BY ChosenFinite, AscendingIs DEF CutsIn
  <2> HIDE DEF T
  <2> QED
    BY <2>1, SeqMonotonic
<1>3. v \in Seq(Nat) /\ Len(v) = Len(f) + 1 /\ Len(f) \in Nat
  BY <1>2, Appended
<1>4. CutAt(a, z, some) = u
  BY <1>1, <1>3 DEF Cut, CutAt, CutsIn
<1> HIDE DEF v
<1>5. ASSUME NEW n \in 1..(Len(f) + 1)
      PROVE  << IF n = 1 THEN a ELSE v[n - 1], v[n] >> \in Spans
  <2>1. v[n] \in Nat
    BY <1>3, ElementOfSeq
  <2>2. n # 1 => v[n - 1] \in Nat
    <3>1. n # 1 => n - 1 \in 1..Len(v)
      BY <1>3
    <3> QED
      BY <1>3, <3>1, ElementOfSeq
  <2> QED
    BY <2>1, <2>2 DEF Spans
<1>6. u \in [1..(Len(f) + 1) -> Spans]
  BY <1>5
<1> HIDE DEF u
<1>7. u \in Seq(Spans) /\ Len(u) = Len(f) + 1
  <2>1. Len(f) + 1 \in Nat
    BY <1>3
  <2> QED
    BY <1>6, <2>1, FunctionIsSequence
<1> QED
  BY <1>2, <1>3, <1>4, <1>7 DEF u, v

\* The spans that end at b, if some span began at a before b, and none if a is b.
Before(a, b, some) == IF a = b THEN << >> ELSE CutAt(a, b, some)

\* b is the beginning a itself or a cut, and none is between b and z.
Begins(a, b, some) == b = a \/ kinds[b] \in some
Uncut(b, z, some) == \A k \in (b + 1)..(z - 1) : kinds[k] \notin some

\* The last span begins at the last cut.
LEMMA LastSpan ==
  ASSUME NEW a \in Nat, NEW b \in Nat, NEW z \in Nat, NEW some, a <= b, b < z,
         Begins(a, b, some), Uncut(b, z, some)
  PROVE  /\ Before(a, b, some) \in Seq(Spans)
         /\ CutAt(a, z, some) = Append(Before(a, b, some), Span(b, z))
<1> DEFINE S == OfKinds(some)
           f == CutsIn(a, b, some)
           h == CutsIn(a, z, some)
           u == CutAt(a, z, some)
           t == Before(a, b, some)
<1>1. /\ h \in Seq(Nat) /\ Append(h, z) \in Seq(Nat) /\ Len(h) \in Nat
      /\ u = [n \in 1..(Len(h) + 1) |->
                << IF n = 1 THEN a ELSE Append(h, z)[n - 1], Append(h, z)[n] >>]
      /\ u \in Seq(Spans) /\ Len(u) = Len(h) + 1
  <2>1. /\ h \in Seq(Nat) /\ Append(h, z) \in Seq(Nat)
        /\ u = [n \in 1..(Len(h) + 1) |->
                  << IF n = 1 THEN a ELSE Append(h, z)[n - 1], Append(h, z)[n] >>]
        /\ u \in Seq(Spans) /\ Len(u) = Len(h) + 1
    BY CutIs
  <2>2. Len(h) \in Nat
    BY <2>1, LenProperties
  <2> HIDE DEF h, u
  <2> QED
    BY <2>1, <2>2
<1>2. Span(b, z) \in Spans /\ << >> \in Seq(Spans)
  BY DEF Spans, Span
<1>3. CASE b = a
  <2>1. t = << >>
    BY <1>3 DEF Before
  <2>2. Chosen(S, a, z) = {}
    BY <1>3 DEF Chosen, OfKinds, Uncut
  <2>3. h = << >>
    BY <2>2, ChosenNone DEF CutsIn
  <2>4. Len(h) = 0 /\ Append(h, z)[1] = z
    BY <2>3
  <2>5. Len(u) = 1 /\ u[1] = Span(b, z)
    <3> HIDE DEF h, u
    <3> QED
      BY <1>1, <1>3, <2>4 DEF Span
  <2>6. Len(t) = 0
    BY <2>1
  <2> HIDE DEF h, u, t
  <2>7. u = Append(t, Span(b, z))
    BY <1>1, <1>2, <2>1, <2>5, <2>6, AppendedIs
  <2> QED
    BY <1>2, <2>1, <2>7 DEF u, t
<1>4. CASE b # a
  <2>1. Chosen(S, a, z) = Chosen(S, a, b + 1) /\ b \in S /\ a < b
    BY <1>4 DEF Chosen, OfKinds, Begins, Uncut
  <2>2. h = Append(f, b)
    <3>1. Ascending(Chosen(S, a, b + 1)) = Append(Ascending(Chosen(S, a, b)), b)
      <4> HIDE DEF S
      <4> QED
        BY <2>1, ChosenNext
    <3> QED
      BY <2>1, <3>1 DEF CutsIn
  <2>3. t = CutAt(a, b, some)
    BY <1>4 DEF Before
  <2>4. /\ f \in Seq(Nat) /\ Len(f) \in Nat
        /\ t = [n \in 1..(Len(f) + 1) |->
                  << IF n = 1 THEN a ELSE Append(f, b)[n - 1], Append(f, b)[n] >>]
        /\ t \in Seq(Spans) /\ Len(t) = Len(f) + 1
    <3>1. f \in Seq(Nat) => Len(f) \in Nat
      BY LenProperties
    <3> QED
      BY <2>3, <3>1, CutIs
  <2> HIDE DEF h, u, t, f
  <2>5. Len(h) = Len(f) + 1 /\ h[Len(f) + 1] = b
    BY <2>2, <2>4, Appended
  <2>6. \A n \in 1..Len(h) : Append(h, z)[n] = h[n]
    BY <1>1, Appended
  <2>7. Append(h, z)[Len(h) + 1] = z
    BY <1>1, Appended
  <2>8. ASSUME NEW n \in 1..Len(t) PROVE u[n] = t[n]
    <3>1. n \in 1..Len(h) /\ n \in 1..(Len(h) + 1) /\ n \in 1..(Len(f) + 1)
      BY <1>1, <2>4, <2>5
    <3>2. Append(h, z)[n] = Append(f, b)[n]
      BY <2>2, <2>6, <3>1
    <3>3. n # 1 => Append(h, z)[n - 1] = Append(f, b)[n - 1]
      <4>1. n # 1 => n - 1 \in 1..Len(h)
        BY <1>1, <3>1
      <4> QED
        BY <2>2, <2>6, <4>1
    <3>4. u[n] = << IF n = 1 THEN a ELSE Append(h, z)[n - 1], Append(h, z)[n] >>
      BY <1>1, <3>1
    <3>5. t[n] = << IF n = 1 THEN a ELSE Append(f, b)[n - 1], Append(f, b)[n] >>
      BY <2>4, <3>1
    <3> QED
      BY <3>2, <3>3, <3>4, <3>5
  <2>9. u[Len(t) + 1] = Span(b, z)
    <3>1. Len(t) + 1 \in 1..(Len(h) + 1) /\ Len(t) + 1 # 1 /\ Len(t) + 1 = Len(h) + 1
          /\ Len(t) + 1 - 1 = Len(h) /\ Len(h) \in 1..Len(h)
      BY <1>1, <2>4, <2>5
    <3>2. u[Len(t) + 1] = << Append(h, z)[Len(h)], Append(h, z)[Len(h) + 1] >>
      BY <1>1, <3>1
    <3>3. Append(h, z)[Len(h)] = b
      BY <2>4, <2>5, <2>6, <3>1
    <3> QED
      BY <2>7, <3>2, <3>3 DEF Span
  <2>10. Len(u) = Len(t) + 1
    BY <1>1, <2>4, <2>5
  <2>11. u = Append(t, Span(b, z))
    <3>1. u \in Seq(Spans) /\ t \in Seq(Spans) /\ Span(b, z) \in Spans
      BY <1>1, <1>2, <2>4
    <3> QED
      BY <2>8, <2>9, <2>10, <3>1, AppendedIs
  <2>12. t \in Seq(Spans)
    BY <2>4
  <2> QED
    BY <2>11, <2>12 DEF u, t
<1> QED
  BY <1>3, <1>4
\* A part of the line between two cuts with none in it is one of its spans.
LEMMA SpanFound ==
  ASSUME NEW b \in Nat, NEW p \in Nat, NEW e \in Nat, NEW some, b < p, p <= e,
         Begins(0, b, some), Begins(e, p, some), Uncut(b, p, some)
  PROVE  \E n \in DOMAIN CutAt(0, e, some) : CutAt(0, e, some)[n] = Span(b, p)
<1> DEFINE T == Chosen(OfKinds(some), 0, e)
           f == CutsIn(0, e, some)
           u == CutAt(0, e, some)
           r == Rank(T, b)
           w == Cardinality(T)
<1>1. T \subseteq Nat /\ IsFiniteSet(T) /\ (b # 0 => b \in T) /\ (p # e => p \in T)
  <2>1. (b # 0 => b \in T) /\ (p # e => p \in T)
    BY DEF Chosen, OfKinds, Begins
  <2> HIDE DEF T
  <2> QED
    BY <2>1, ChosenFinite DEF T
<1>2. (\A j \in T : 0 < j /\ j < e) /\ (\A j \in T : j <= p - 1 => j <= b)
  BY DEF Chosen, OfKinds, Uncut
<1>3. /\ f \in Seq(Nat) /\ Append(f, e) \in Seq(Nat) /\ f \in Seq(T)
      /\ u = [n \in 1..(Len(f) + 1) |->
                << IF n = 1 THEN 0 ELSE Append(f, e)[n - 1], Append(f, e)[n] >>]
      /\ Len(f) = w /\ w \in Nat /\ (\A n \in 1..w : Rank(T, f[n]) = n)
  <2>1. f = Ascending(T)
    BY DEF CutsIn
  <2>2. /\ f \in Seq(Nat) /\ Append(f, e) \in Seq(Nat)
        /\ u = [n \in 1..(Len(f) + 1) |->
                  << IF n = 1 THEN 0 ELSE Append(f, e)[n - 1], Append(f, e)[n] >>]
    BY CutIs
  <2> HIDE DEF T, f, u
  <2>3. /\ f \in Seq(T) /\ Len(f) = Cardinality(T) /\ Cardinality(T) \in Nat
        /\ \A n \in 1..Cardinality(T) : Rank(T, f[n]) = n
    BY <1>1, <2>1, AscendingIs
  <2> QED
    BY <2>2, <2>3
<1> HIDE DEF T, f, u
<1>4. r \in Nat /\ r <= w /\ Rank(T, p - 1) \in Nat /\ p - 1 \in Nat
  <2>1. p - 1 \in Nat
    OBVIOUS
  <2> QED
    BY <1>1, <2>1, RankType
<1>5. Rank(T, p - 1) = r
  <2>1. ASSUME NEW j \in T PROVE j <= p - 1 <=> j <= b
    <3>1. j \in Nat /\ (j <= p - 1 => j <= b)
      BY <1>1, <1>2
    <3> QED
      BY <3>1
  <2>2. {j \in T : j <= p - 1} = {j \in T : j <= b}
    BY <2>1
  <2> QED
    BY <2>2 DEF Rank
<1>6. \A n \in 1..w : f[n] \in T /\ Append(f, e)[n] = f[n]
  BY <1>3, ElementOfSeq, Appended
<1>7. Append(f, e)[w + 1] = e
  BY <1>3, Appended
<1> HIDE DEF r, w
<1>8. r + 1 \in 1..(w + 1) /\ Append(f, e)[r + 1] = p
  <2>1. CASE p = e
    <3>1. \A j \in T : j <= p - 1
      BY <1>1, <1>2, <2>1
    <3>2. Rank(T, p - 1) = w
      BY <1>1, <1>4, <3>1, RankEnds DEF w
    <3> QED
      BY <1>3, <1>4, <1>5, <1>7, <2>1, <3>2
  <2>2. CASE p # e
    <3>1. p \in T /\ p = p - 1 + 1
      BY <1>1, <2>2
    <3>2. Rank(T, p) = r + 1
      BY <1>1, <1>4, <1>5, <3>1, RankNext
    <3>3. Rank(T, p) <= w
      BY <1>1, RankType DEF w
    <3>4. r + 1 \in 1..w /\ r + 1 \in 1..(w + 1)
      BY <1>3, <1>4, <3>2, <3>3
    <3>5. Rank(T, f[r + 1]) = Rank(T, p) /\ f[r + 1] \in T
      BY <1>3, <1>6, <3>2, <3>4
    <3>6. f[r + 1] = p
      BY <1>1, <3>1, <3>5, RankTells
    <3> QED
      BY <1>6, <3>4, <3>6
  <2> QED
    BY <2>1, <2>2
<1>9. (b = 0 => r = 0) /\ (b # 0 => r \in 1..w /\ Append(f, e)[r] = b)
  <2>1. ASSUME b = 0 PROVE r = 0
    BY <1>1, <1>2, <2>1, RankEnds DEF r
  <2>2. ASSUME b # 0 PROVE r \in 1..w /\ Append(f, e)[r] = b
    <3>1. b \in T /\ 0 \in Nat /\ 0 <= b /\ 0 # b
      BY <1>1, <2>2
    <3>2. Rank(T, 0) < r /\ Rank(T, 0) \in Nat
      BY <1>1, <3>1, RankGrows, RankType DEF r
    <3>3. r \in 1..w
      BY <1>3, <1>4, <3>2
    <3>4. Rank(T, f[r]) = Rank(T, b) /\ f[r] \in T
      BY <1>3, <1>6, <3>3 DEF r
    <3>5. f[r] = b
      BY <1>1, <3>1, <3>4, RankTells
    <3> QED
      BY <1>6, <3>3, <3>5
  <2> QED
    BY <2>1, <2>2
<1>10. DOMAIN u = 1..(w + 1)
  BY <1>3
<1>11. u[r + 1] = Span(b, p)
  <2>1. r + 1 \in 1..(Len(f) + 1)
    BY <1>3, <1>8
  <2>2. u = [n \in 1..(Len(f) + 1) |->
              << IF n = 1 THEN 0 ELSE Append(f, e)[n - 1], Append(f, e)[n] >>]
    BY <1>3
  <2>3. u[r + 1] = << IF r + 1 = 1 THEN 0 ELSE Append(f, e)[r + 1 - 1], Append(f, e)[r + 1] >>
    BY <1>4, <2>1, <2>2
  <2>4. r + 1 - 1 = r /\ (r + 1 = 1 <=> r = 0)
    BY <1>4
  <2>5. (IF r + 1 = 1 THEN 0 ELSE Append(f, e)[r + 1 - 1]) = b
    <3>1. CASE b = 0
      BY <1>9, <2>4, <3>1
    <3>2. CASE b # 0
      <4>1. r # 0 /\ r + 1 # 1 /\ Append(f, e)[r] = b
        BY <1>3, <1>4, <1>9, <3>2
      <4> QED
        BY <2>4, <4>1
    <3> QED
      BY <3>1, <3>2
  <2> QED
    BY <1>8, <2>3, <2>5 DEF Span
<1> QED
  BY <1>8, <1>10, <1>11 DEF u

\* A function over a sequence, and over one element more.
LEMMA AppliedNext ==
  ASSUME NEW R, NEW s \in Seq(R), NEW e \in R, NEW g
  PROVE  [n \in DOMAIN Append(s, e) |-> g[Append(s, e)[n]]]
           = Append([n \in DOMAIN s |-> g[s[n]]], g[e])
<1> DEFINE V == {g[x] : x \in R}
           t == Append(s, e)
           l == [n \in DOMAIN s |-> g[s[n]]]
           u == [n \in DOMAIN t |-> g[t[n]]]
<1>1. /\ DOMAIN t = 1..(Len(s) + 1) /\ DOMAIN s = 1..Len(s) /\ Len(s) \in Nat
      /\ \A n \in 1..Len(s) : t[n] = s[n]
      /\ t[Len(s) + 1] = e /\ t \in Seq(R) /\ Len(t) = Len(s) + 1
  BY Appended
<1> HIDE DEF t
<1>2. l \in [1..Len(s) -> V]
  BY <1>1, ElementOfSeq
<1>3. u \in [1..(Len(s) + 1) -> V]
  BY <1>1, ElementOfSeq
<1>4. \A n \in 1..Len(s) : u[n] = l[n]
  BY <1>1
<1>5. u[Len(s) + 1] = g[e]
  BY <1>1
<1>6. Len(s) \in Nat /\ Len(s) + 1 \in Nat /\ g[e] \in V
  BY <1>1
<1> HIDE DEF V, l, u
<1>7. l \in Seq(V) /\ Len(l) = Len(s)
  BY <1>2, <1>6, FunctionIsSequence
<1>8. u \in Seq(V) /\ Len(u) = Len(s) + 1
  BY <1>3, <1>6, FunctionIsSequence
<1>9. u = Append(l, g[e])
  BY <1>4, <1>5, <1>6, <1>7, <1>8, AppendedIs
<1> QED
  BY <1>9 DEF t, u, l

\* The same for what ParserMeaning makes of spans and places.
LEMMA OverNext ==
  /\ \A s \in Seq(Spans) : \A e \in Spans :
       /\ Over(Append(s, e), Arguments) = Append(Over(s, Arguments), Arguments(e))
       /\ Over(Append(s, e), PipelineOf) = Append(Over(s, PipelineOf), PipelineOf(e))
       /\ Over(Append(s, e), ChainOf) = Append(Over(s, ChainOf), ChainOf(e))
  /\ \A s \in Seq(Nat) : \A e \in Nat :
       Over(Append(s, e), Redirection) = Append(Over(s, Redirection), Redirection(e))
<1>1. ASSUME NEW s \in Seq(Spans), NEW e \in Spans
      PROVE  /\ Over(Append(s, e), Arguments) = Append(Over(s, Arguments), Arguments(e))
             /\ Over(Append(s, e), PipelineOf) = Append(Over(s, PipelineOf), PipelineOf(e))
             /\ Over(Append(s, e), ChainOf) = Append(Over(s, ChainOf), ChainOf(e))
  <2> DEFINE t == Append(s, e)
  <2>1. (\A n \in DOMAIN t : t[n] \in Spans) /\ (\A n \in DOMAIN s : s[n] \in Spans)
    <3>1. t \in Seq(Spans) /\ DOMAIN t = 1..Len(t) /\ DOMAIN s = 1..Len(s)
      BY Appended
    <3> HIDE DEF t
    <3> QED
      BY <3>1, ElementOfSeq
  <2>2. Over(t, Arguments) = Append(Over(s, Arguments), Arguments(e))
    <3> DEFINE g == [x \in Spans |-> Arguments(x)]
    <3>1. [n \in DOMAIN t |-> g[t[n]]] = Append([n \in DOMAIN s |-> g[s[n]]], g[e])
      <4> HIDE DEF g
      <4> QED
        BY AppliedNext
    <3>2. Over(t, Arguments) = [n \in DOMAIN t |-> g[t[n]]] /\ g[e] = Arguments(e)
      BY <2>1 DEF Over
    <3>3. Over(s, Arguments) = [n \in DOMAIN s |-> g[s[n]]]
      BY <2>1 DEF Over
    <3> HIDE DEF g, t
    <3> QED
      BY <3>1, <3>2, <3>3
  <2>3. Over(t, PipelineOf) = Append(Over(s, PipelineOf), PipelineOf(e))
    <3> DEFINE g == [x \in Spans |-> PipelineOf(x)]
    <3>1. [n \in DOMAIN t |-> g[t[n]]] = Append([n \in DOMAIN s |-> g[s[n]]], g[e])
      <4> HIDE DEF g
      <4> QED
        BY AppliedNext
    <3>2. Over(t, PipelineOf) = [n \in DOMAIN t |-> g[t[n]]] /\ g[e] = PipelineOf(e)
      BY <2>1 DEF Over
    <3>3. Over(s, PipelineOf) = [n \in DOMAIN s |-> g[s[n]]]
      BY <2>1 DEF Over
    <3> HIDE DEF g, t
    <3> QED
      BY <3>1, <3>2, <3>3
  <2>4. Over(t, ChainOf) = Append(Over(s, ChainOf), ChainOf(e))
    <3> DEFINE g == [x \in Spans |-> ChainOf(x)]
    <3>1. [n \in DOMAIN t |-> g[t[n]]] = Append([n \in DOMAIN s |-> g[s[n]]], g[e])
      <4> HIDE DEF g
      <4> QED
        BY AppliedNext
    <3>2. Over(t, ChainOf) = [n \in DOMAIN t |-> g[t[n]]] /\ g[e] = ChainOf(e)
      BY <2>1 DEF Over
    <3>3. Over(s, ChainOf) = [n \in DOMAIN s |-> g[s[n]]]
      BY <2>1 DEF Over
    <3> HIDE DEF g, t
    <3> QED
      BY <3>1, <3>2, <3>3
  <2> QED
    BY <2>2, <2>3, <2>4
<1>2. ASSUME NEW s \in Seq(Nat), NEW e \in Nat
      PROVE  Over(Append(s, e), Redirection) = Append(Over(s, Redirection), Redirection(e))
  <2> DEFINE t == Append(s, e)
             g == [x \in Nat |-> Redirection(x)]
  <2>1. (\A n \in DOMAIN t : t[n] \in Nat) /\ (\A n \in DOMAIN s : s[n] \in Nat)
    <3>1. t \in Seq(Nat) /\ DOMAIN t = 1..Len(t) /\ DOMAIN s = 1..Len(s)
      BY Appended
    <3> HIDE DEF t
    <3> QED
      BY <3>1, ElementOfSeq
  <2>2. [n \in DOMAIN t |-> g[t[n]]] = Append([n \in DOMAIN s |-> g[s[n]]], g[e])
    <3> HIDE DEF g
    <3> QED
      BY AppliedNext
  <2>3. Over(t, Redirection) = [n \in DOMAIN t |-> g[t[n]]] /\ g[e] = Redirection(e)
    BY <2>1 DEF Over
  <2>4. Over(s, Redirection) = [n \in DOMAIN s |-> g[s[n]]]
    BY <2>1 DEF Over
  <2> HIDE DEF g, t
  <2>5. Over(t, Redirection) = Append(Over(s, Redirection), Redirection(e))
    BY <2>2, <2>3, <2>4
  <2> QED
    BY <2>5 DEF t
<1> QED
  BY <1>1, <1>2

\* Nothing, over nothing.
LEMMA OverNone ==
  /\ Over(<< >>, Arguments) = << >> /\ Over(<< >>, PipelineOf) = << >>
  /\ Over(<< >>, ChainOf) = << >> /\ Over(<< >>, Redirection) = << >>
BY DEF Over
RedirsIn(span) == Over(Ascending({k \in Inside(span) : kinds[k] \in Redirs}), Redirection)

\* The arguments and redirections of a span, from one place to the next.
LEMMA ReadNext ==
  ASSUME NEW a \in Nat, NEW p \in Nat, a < p
  PROVE  /\ IsArgument(p) => Arguments(<< a, p + 1 >>) = Append(Arguments(<< a, p >>), p)
         /\ ~IsArgument(p) => Arguments(<< a, p + 1 >>) = Arguments(<< a, p >>)
         /\ kinds[p] \in Redirs =>
              RedirsIn(<< a, p + 1 >>) = Append(RedirsIn(<< a, p >>), Redirection(p))
         /\ kinds[p] \notin Redirs => RedirsIn(<< a, p + 1 >>) = RedirsIn(<< a, p >>)
<1> DEFINE S == {k \in Nat : IsArgument(k)}
           D == OfKinds(Redirs)
<1>1. \A z \in Nat : Arguments(<< a, z >>) = Ascending(Chosen(S, a, z))
  <2> TAKE z \in Nat
  <2>1. {k \in Inside(<< a, z >>) : IsArgument(k)} = Chosen(S, a, z)
    BY DEF Inside, Chosen
  <2> HIDE DEF S
  <2> QED
    BY <2>1 DEF Arguments
<1>2. \A z \in Nat : RedirsIn(<< a, z >>) = Over(Ascending(Chosen(D, a, z)), Redirection)
  <2> TAKE z \in Nat
  <2>1. {k \in Inside(<< a, z >>) : kinds[k] \in Redirs} = Chosen(D, a, z)
    BY DEF Inside, Chosen, OfKinds
  <2> HIDE DEF D
  <2> QED
    BY <2>1 DEF RedirsIn
<1>3. Ascending(Chosen(D, a, p)) \in Seq(Nat)
  BY CutIs DEF CutsIn
<1>4. (p \in S <=> IsArgument(p)) /\ (p \in D <=> kinds[p] \in Redirs) /\ p + 1 \in Nat
  BY DEF OfKinds
<1> HIDE DEF S, D
<1>5. /\ p \in S => Ascending(Chosen(S, a, p + 1)) = Append(Ascending(Chosen(S, a, p)), p)
      /\ p \notin S => Chosen(S, a, p + 1) = Chosen(S, a, p)
      /\ p \in D => Ascending(Chosen(D, a, p + 1)) = Append(Ascending(Chosen(D, a, p)), p)
      /\ p \notin D => Chosen(D, a, p + 1) = Chosen(D, a, p)
  BY ChosenNext
<1>6. Over(Append(Ascending(Chosen(D, a, p)), p), Redirection)
        = Append(Over(Ascending(Chosen(D, a, p)), Redirection), Redirection(p))
  BY <1>3, OverNext
<1>7. Arguments(<< a, p >>) = Ascending(Chosen(S, a, p))
      /\ Arguments(<< a, p + 1 >>) = Ascending(Chosen(S, a, p + 1))
  BY <1>1, <1>4
<1>8. RedirsIn(<< a, p >>) = Over(Ascending(Chosen(D, a, p)), Redirection)
      /\ RedirsIn(<< a, p + 1 >>) = Over(Ascending(Chosen(D, a, p + 1)), Redirection)
  BY <1>2, <1>4
<1>9. IsArgument(p) => Arguments(<< a, p + 1 >>) = Append(Arguments(<< a, p >>), p)
  BY <1>4, <1>5, <1>7
<1>10. ~IsArgument(p) => Arguments(<< a, p + 1 >>) = Arguments(<< a, p >>)
  BY <1>4, <1>5, <1>7
<1>11. kinds[p] \in Redirs =>
         RedirsIn(<< a, p + 1 >>) = Append(RedirsIn(<< a, p >>), Redirection(p))
  BY <1>4, <1>5, <1>6, <1>8
<1>12. kinds[p] \notin Redirs => RedirsIn(<< a, p + 1 >>) = RedirsIn(<< a, p >>)
  BY <1>4, <1>5, <1>8
<1> QED
  BY <1>9, <1>10, <1>11, <1>12

\* Right behind a cut nothing is read.
LEMMA ReadFirst ==
  ASSUME NEW a \in Nat
  PROVE  Arguments(<< a, a + 1 >>) = << >> /\ RedirsIn(<< a, a + 1 >>) = << >>
<1>1. Inside(<< a, a + 1 >>) = {}
  BY DEF Inside
<1>2. Arguments(<< a, a + 1 >>) = Ascending({})
  <2>1. {k \in Inside(<< a, a + 1 >>) : IsArgument(k)} = {}
    BY <1>1
  <2> QED
    BY <2>1 DEF Arguments
<1>3. RedirsIn(<< a, a + 1 >>) = Over(Ascending({}), Redirection)
  <2>1. {k \in Inside(<< a, a + 1 >>) : kinds[k] \in Redirs} = {}
    BY <1>1
  <2> QED
    BY <2>1 DEF RedirsIn
<1> QED
  BY <1>2, <1>3, ChosenNone, OverNone

Pipes == {"BIND_PIPE"}

\* Where the parser stands in a well-formed line: the chain, the pipeline and the
\* command it reads begin behind s, g and b.
Stands(p, s, g, b) ==
  /\ s \in 0..g /\ g \in 0..b /\ b \in 0..(p - 1)
  /\ Begins(0, s, Separators) /\ Uncut(s, p, Separators)
  /\ Begins(s, g, Gates) /\ Uncut(g, p, Separators \cup Gates)
  /\ Begins(g, b, Pipes) /\ Uncut(b, p, Cuts)

\* What it has of the command, of its pipeline, and of the chain.
NoTarget(p) == p > 1 => kinds[p - 1] \notin Redirs

HasCommand(p, av, cs, g, b) ==
  /\ NoTarget(p)
  /\ av = Arguments(<< b, p >>)
  /\ cs = Over(Before(g, b, Pipes), Arguments)

HasPipeline(p, av, cs, g) ==
  /\ kinds[p] \in Separators \cup Gates \cup {"EOF"} /\ av = << >>
  /\ cs = Over(Cut(<< g, p >>, Pipes), Arguments)

HasRedirs(p, rs, ps, s, g) ==
  /\ rs = RedirsIn(<< g, p >>)
  /\ ps = Over(Before(s, g, Gates), PipelineOf)

HasChain(p, av, rs, cs, ps, s) ==
  /\ kinds[p] \in Separators \cup {"EOF"} /\ av = << >> /\ cs = << >> /\ rs = << >>
  /\ ps = Over(Cut(<< s, p >>, Gates), PipelineOf)

Reads(p, l, av, rs, cs, ps, chains, s, g, b) ==
  /\ Stands(p, s, g, b)
  /\ chains = Over(Before(0, s, Separators), ChainOf)
  /\ l = "cmd" => HasCommand(p, av, cs, g, b)
  /\ l = "pipeline" => HasPipeline(p, av, cs, g)
  /\ l \in {"cmd", "pipeline"} => HasRedirs(p, rs, ps, s, g)
  /\ l = "chain" => HasChain(p, av, rs, cs, ps, s)

WrittenInv ==
  WellFormed =>
    /\ level # "failed"
    /\ level = "parsed" => commands = Meaning
    /\ level \in {"cmd", "pipeline", "chain"} =>
         \E s, g, b \in Nat :
           Reads(place, level, argv, redirs, cmds, pipelines, commands, s, g, b)

\* The line stays, and so does all that is said of it.
LEMMA LineStays ==
  ASSUME UNCHANGED kinds
  PROVE  /\ WellFormed' <=> WellFormed
         /\ Meaning' = Meaning
         /\ \A p, l, av, rs, cs, ps, chains, s, g, b :
              Reads(p, l, av, rs, cs, ps, chains, s, g, b)'
                <=> Reads(p, l, av, rs, cs, ps, chains, s, g, b)
<1>1. \A span, some : Cut(span, some)' = Cut(span, some)
  BY DEF Cut, Ascending, Inside
<1>2. \A span : Arguments(span)' = Arguments(span)
  BY DEF Arguments, Ascending, Inside, IsArgument
<1>3. \A k : Redirection(k)' = Redirection(k)
  BY DEF Redirection, FromOf, TypeOf
<1>4. \A span : RedirsIn(span)' = RedirsIn(span)
  BY <1>3 DEF RedirsIn, Over, Ascending, Inside
<1>5. \A span : PipelineOf(span)' = PipelineOf(span)
  BY <1>1, <1>2, <1>4 DEF PipelineOf, Over, RedirsIn
<1>6. \A span : ChainOf(span)' = ChainOf(span)
  BY <1>1, <1>5 DEF ChainOf, Over
<1>7. WellFormed' <=> WellFormed
  BY <1>1, <1>2 DEF WellFormed, RedirsOK, Line
<1>8. Meaning' = Meaning
  BY <1>1, <1>6 DEF Meaning, Over, Line
<1>9. \A a, b, some : Before(a, b, some)' = Before(a, b, some)
  BY <1>1 DEF Before, CutAt
<1>10. \A p, s, g, b : Stands(p, s, g, b)' <=> Stands(p, s, g, b)
  BY DEF Stands, Begins, Uncut
<1>11. \A p, l, av, rs, cs, ps, chains, s, g, b :
         Reads(p, l, av, rs, cs, ps, chains, s, g, b)'
           <=> Reads(p, l, av, rs, cs, ps, chains, s, g, b)
  BY <1>1, <1>2, <1>4, <1>5, <1>6, <1>9, <1>10
  DEF Reads, Over, NoTarget, HasCommand, HasPipeline, HasRedirs, HasChain
<1> QED
  BY <1>7, <1>8, <1>11
\* It is enough to look at the line as it was.
LEMMA WrittenThen ==
  ASSUME UNCHANGED kinds,
         WellFormed =>
           /\ level' # "failed"
           /\ level' = "parsed" => commands' = Meaning
           /\ level' \in {"cmd", "pipeline", "chain"} =>
                \E s, g, b \in Nat :
                  Reads(place', level', argv', redirs', cmds', pipelines', commands', s, g, b)
  PROVE  WrittenInv'
<1>1. WellFormed' <=> WellFormed
  BY LineStays
<1>2. Meaning' = Meaning
  BY LineStays
<1>3. \A s, g, b :
        Reads(place', level', argv', redirs', cmds', pipelines', commands', s, g, b)
          => Reads(place, level, argv, redirs, cmds, pipelines, commands, s, g, b)'
  BY LineStays
<1> QED
  BY <1>1, <1>2, <1>3 DEF WrittenInv

\* The command, the pipeline and the chain in front of the token all go on behind it.
LEMMA StandsOn ==
  ASSUME NEW p \in Nat, NEW s \in Nat, NEW g \in Nat, NEW b \in Nat, Stands(p, s, g, b),
         kinds[p] \in Tokens
  PROVE  /\ kinds[p] \notin Cuts => Stands(p + 1, s, g, b)
         /\ kinds[p] = "BIND_PIPE" => Stands(p + 1, s, g, p)
         /\ kinds[p] \in Gates => Stands(p + 1, s, p, p)
         /\ kinds[p] \in Separators => Stands(p + 1, p, p, p)
<1>1. ASSUME NEW j, NEW some, Uncut(j, p, some), kinds[p] \notin some, j \in Nat
      PROVE  Uncut(j, p + 1, some)
  <2> SUFFICES ASSUME NEW k \in (j + 1)..(p + 1 - 1) PROVE kinds[k] \notin some
    BY DEF Uncut
  <2>1. k \in (j + 1)..(p - 1) \/ k = p
    BY <1>1
  <2> QED
    BY <1>1, <2>1 DEF Uncut
<1>2. \A some : Uncut(p, p + 1, some) /\ Begins(p, p, some)
  BY DEF Uncut, Begins
<1>3. /\ s \in 0..g /\ g \in 0..b /\ b \in 0..p /\ g \in 0..p /\ s \in 0..p /\ p \in 0..p
      /\ p + 1 - 1 = p /\ b \in 0..(p - 1)
  BY DEF Stands
<1>4. /\ Begins(0, s, Separators) /\ Uncut(s, p, Separators)
      /\ Begins(s, g, Gates) /\ Uncut(g, p, Separators \cup Gates)
      /\ Begins(g, b, Pipes) /\ Uncut(b, p, Cuts)
  BY DEF Stands
<1>5. ASSUME kinds[p] \notin Cuts PROVE Stands(p + 1, s, g, b)
  <2>1. kinds[p] \notin Separators \cup Gates /\ kinds[p] \notin Separators
    BY <1>5 DEF Cuts
  <2>2. /\ Uncut(s, p + 1, Separators) /\ Uncut(g, p + 1, Separators \cup Gates)
        /\ Uncut(b, p + 1, Cuts)
    BY <1>1, <1>4, <1>5, <2>1
  <2> QED
    BY <1>3, <1>4, <2>2 DEF Stands
<1>6. ASSUME kinds[p] = "BIND_PIPE" PROVE Stands(p + 1, s, g, p)
  <2>1. /\ kinds[p] \notin Separators \cup Gates /\ kinds[p] \notin Separators
        /\ Begins(g, p, Pipes)
    BY <1>6 DEF Separators, Gates, Begins, Pipes
  <2>2. Uncut(s, p + 1, Separators) /\ Uncut(g, p + 1, Separators \cup Gates)
    BY <1>1, <1>4, <2>1
  <2> QED
    BY <1>2, <1>3, <1>4, <2>1, <2>2 DEF Stands
<1>7. ASSUME kinds[p] \in Gates PROVE Stands(p + 1, s, p, p)
  <2>1. kinds[p] \notin Separators /\ Begins(s, p, Gates)
    BY <1>7 DEF Separators, Gates, Begins
  <2>2. Uncut(s, p + 1, Separators)
    BY <1>1, <1>4, <2>1
  <2> QED
    BY <1>2, <1>3, <1>4, <2>1, <2>2 DEF Stands
<1>8. ASSUME kinds[p] \in Separators PROVE Stands(p + 1, p, p, p)
  <2>1. Begins(0, p, Separators)
    BY <1>8 DEF Begins
  <2> QED
    BY <1>2, <1>3, <2>1 DEF Stands
<1> QED
  BY <1>5, <1>6, <1>7, <1>8

\* A command of a well-formed line has a word in front of what ends it.
LEMMA CommandHasWord ==
  ASSUME ParserInv, WellFormed, NEW s \in Nat, NEW g \in Nat, NEW b \in Nat,
         Stands(place, s, g, b), Token \in Binds
  PROVE  Arguments(<< b, place >>) # << >>
<1>1. /\ place \in Nat /\ Len(kinds) \in Nat /\ place <= Len(kinds) /\ b < place
      /\ kinds[place] = "EOF" <=> place = Len(kinds)
      /\ kinds[place] \in Cuts \cup {"EOF"}
  <2>1. kinds \in Seq(Tokens) /\ place \in 1..Len(kinds) /\ Len(kinds) \in Nat
    BY LenProperties DEF ParserInv, TypeOK
  <2>2. kinds[place] = "EOF" <=> place = Len(kinds)
    BY DEF ParserInv, EofLast, TypeOK
  <2>3. kinds[place] \in Cuts \cup {"EOF"}
    BY DEF Token, Binds, Tokens, Cuts
  <2> QED
    BY <2>1, <2>2, <2>3 DEF Stands
<1>2. Begins(0, b, Cuts) /\ Uncut(b, place, Cuts)
  BY DEF Stands, Cuts, Begins, Pipes
<1>3. Begins(Len(kinds), place, Cuts)
  BY <1>1 DEF Begins
<1>4. \E n \in DOMAIN CutAt(0, Len(kinds), Cuts) :
        CutAt(0, Len(kinds), Cuts)[n] = Span(b, place)
  BY <1>1, <1>2, <1>3, SpanFound
<1>5. \E n \in DOMAIN Cut(Line, Cuts) : Cut(Line, Cuts)[n] = << b, place >>
  BY <1>4 DEF Line, CutAt, Span
<1> QED
  <2>1. PICK n \in DOMAIN Cut(Line, Cuts) : Cut(Line, Cuts)[n] = << b, place >>
    BY <1>5
  <2>2. Arguments(Cut(Line, Cuts)[n]) # << >>
    BY <2>1 DEF WellFormed
  <2> QED
    BY <2>1, <2>2

\* The token that is read.
LEMMA TokenHere ==
  ASSUME ParserInv
  PROVE  /\ place \in Nat /\ place > 0 /\ place + 1 \in Nat /\ Token = kinds[place]
         /\ kinds[place] \in Tokens /\ place \in DOMAIN kinds
         /\ kinds[place] = "EOF" => place = Len(kinds)
<1>1. kinds \in Seq(Tokens) /\ place \in 1..Len(kinds) /\ Len(kinds) \in Nat
  BY LenProperties DEF ParserInv, TypeOK
<1>2. kinds[place] \in Tokens
  BY <1>1, ElementOfSeq
<1> QED
  BY <1>1, <1>2 DEF Token, ParserInv, EofLast, TypeOK

\* A command behind the ones before it makes the commands of the pipeline so far.
CommandsTo(g, b, p) ==
  /\ Over(Cut(<< g, p >>, Pipes), Arguments)
       = Append(Over(Before(g, b, Pipes), Arguments), Arguments(<< b, p >>))
  /\ Before(g, p, Pipes) = Cut(<< g, p >>, Pipes)

\* What a command becomes behind the ones before it.
LEMMA CommandRead ==
  ASSUME NEW s \in Nat, NEW g \in Nat, NEW b \in Nat, NEW p \in Nat, Stands(p, s, g, b)
  PROVE  CommandsTo(g, b, p)
<1>1. g <= b /\ b < p /\ g # p
  BY DEF Stands
<1>2. Begins(g, b, Pipes)
  BY DEF Stands
<1>3. Uncut(b, p, Pipes)
  BY DEF Stands, Uncut, Cuts, Pipes
<1>4. /\ Before(g, b, Pipes) \in Seq(Spans)
      /\ CutAt(g, p, Pipes) = Append(Before(g, b, Pipes), Span(b, p))
  BY <1>1, <1>2, <1>3, LastSpan
<1>5. Span(b, p) \in Spans
  BY DEF Spans, Span
<1>6. Over(Append(Before(g, b, Pipes), Span(b, p)), Arguments)
        = Append(Over(Before(g, b, Pipes), Arguments), Arguments(Span(b, p)))
  BY <1>4, <1>5, OverNext
<1> QED
  BY <1>1, <1>4, <1>6 DEF CommandsTo, Before, CutAt, Span

\* What a pipeline becomes behind the ones before it.
LEMMA PipelineRead ==
  ASSUME NEW s \in Nat, NEW g \in Nat, NEW b \in Nat, NEW p \in Nat, Stands(p, s, g, b)
  PROVE  /\ Over(Cut(<< s, p >>, Gates), PipelineOf)
              = Append(Over(Before(s, g, Gates), PipelineOf), PipelineOf(<< g, p >>))
         /\ Before(s, p, Gates) = Cut(<< s, p >>, Gates)
<1>1. s <= g /\ g < p /\ s # p
  BY DEF Stands
<1>2. Begins(s, g, Gates)
  BY DEF Stands
<1>3. Uncut(g, p, Gates)
  BY DEF Stands, Uncut, Cuts, Pipes
<1>4. /\ Before(s, g, Gates) \in Seq(Spans)
      /\ CutAt(s, p, Gates) = Append(Before(s, g, Gates), Span(g, p))
  BY <1>1, <1>2, <1>3, LastSpan
<1>5. Span(g, p) \in Spans
  BY DEF Spans, Span
<1>6. Over(Append(Before(s, g, Gates), Span(g, p)), PipelineOf)
        = Append(Over(Before(s, g, Gates), PipelineOf), PipelineOf(Span(g, p)))
  BY <1>4, <1>5, OverNext
<1> QED
  BY <1>1, <1>4, <1>6 DEF Before, CutAt, Span

\* What a chain becomes behind the ones before it.
LEMMA ChainRead ==
  ASSUME NEW s \in Nat, NEW g \in Nat, NEW b \in Nat, NEW p \in Nat, Stands(p, s, g, b)
  PROVE  /\ Over(Cut(<< 0, p >>, Separators), ChainOf)
              = Append(Over(Before(0, s, Separators), ChainOf), ChainOf(<< s, p >>))
         /\ Before(0, p, Separators) = Cut(<< 0, p >>, Separators)
<1>1. 0 <= s /\ s < p /\ 0 # p
  BY DEF Stands
<1>2. Begins(0, s, Separators)
  BY DEF Stands
<1>3. Uncut(s, p, Separators)
  BY DEF Stands, Uncut, Cuts, Pipes
<1>4. /\ Before(0, s, Separators) \in Seq(Spans)
      /\ CutAt(0, p, Separators) = Append(Before(0, s, Separators), Span(s, p))
  BY <1>1, <1>2, <1>3, LastSpan
<1>5. Span(s, p) \in Spans
  BY DEF Spans, Span
<1>6. Over(Append(Before(0, s, Separators), Span(s, p)), ChainOf)
        = Append(Over(Before(0, s, Separators), ChainOf), ChainOf(Span(s, p)))
  BY <1>4, <1>5, OverNext
<1> QED
  BY <1>1, <1>4, <1>6 DEF Before, CutAt, Span

\* What the three loops have, one by one.
LEMMA ReadsParts ==
  ASSUME ParserInv, NEW s \in Nat, NEW g \in Nat, NEW b \in Nat,
         Reads(place, level, argv, redirs, cmds, pipelines, commands, s, g, b)
  PROVE  /\ Stands(place, s, g, b) /\ b < place /\ g < place
         /\ commands = Over(Before(0, s, Separators), ChainOf)
         /\ level = "cmd" => /\ HasCommand(place, argv, cmds, g, b)
                             /\ HasRedirs(place, redirs, pipelines, s, g)
         /\ level = "pipeline" => /\ HasPipeline(place, argv, cmds, g)
                                  /\ HasRedirs(place, redirs, pipelines, s, g)
         /\ level = "chain" => HasChain(place, argv, redirs, cmds, pipelines, s)
<1>1. Stands(place, s, g, b)
  BY DEF Reads
<1>2. b < place /\ g < place
  BY <1>1, TokenHere DEF Stands
<1> QED
  BY <1>1, <1>2 DEF Reads

\* A word joins the command.
LEMMA WordRead ==
  ASSUME ParserInv, NEW s \in Nat, NEW g \in Nat, NEW b \in Nat,
         Reads(place, level, argv, redirs, cmds, pipelines, commands, s, g, b), Word
  PROVE  Reads(place', level', argv', redirs', cmds', pipelines', commands', s, g, b)
<1>1. /\ level = "cmd" /\ level' = "cmd" /\ kinds[place] \in Words /\ place' = place + 1
      /\ argv' = Append(argv, place)
      /\ redirs' = redirs /\ cmds' = cmds /\ pipelines' = pipelines /\ commands' = commands
  BY DEF Word, Token
<1>2. /\ Stands(place, s, g, b) /\ b < place /\ g < place
      /\ HasCommand(place, argv, cmds, g, b) /\ HasRedirs(place, redirs, pipelines, s, g)
      /\ commands = Over(Before(0, s, Separators), ChainOf)
  BY <1>1, ReadsParts
<1>3. kinds[place] \notin Cuts /\ kinds[place] \notin Redirs
  BY <1>1 DEF Words, Redirs, Cuts, Separators, Gates
<1>4. Stands(place + 1, s, g, b)
  BY <1>2, <1>3, StandsOn, TokenHere
<1>5. HasCommand(place + 1, argv', cmds', g, b)
  <2>1. IsArgument(place)
    BY <1>1, <1>2 DEF IsArgument, HasCommand, NoTarget
  <2>2. Arguments(<< b, place + 1 >>) = Append(Arguments(<< b, place >>), place)
    BY <1>2, <2>1, ReadNext, TokenHere
  <2>3. NoTarget(place + 1)
    BY <1>3, TokenHere DEF NoTarget
  <2> QED
    BY <1>1, <1>2, <2>2, <2>3 DEF HasCommand
<1>6. HasRedirs(place + 1, redirs', pipelines', s, g)
  <2>1. RedirsIn(<< g, place + 1 >>) = RedirsIn(<< g, place >>)
    BY <1>2, <1>3, ReadNext, TokenHere
  <2> QED
    BY <1>1, <1>2, <2>1 DEF HasRedirs
<1> QED
  BY <1>1, <1>2, <1>4, <1>5, <1>6 DEF Reads

\* A redirection joins the pipeline, and its target no command.
LEMMA RedirectRead ==
  ASSUME ParserInv, NEW s \in Nat, NEW g \in Nat, NEW b \in Nat,
         Reads(place, level, argv, redirs, cmds, pipelines, commands, s, g, b), Redirect
  PROVE  Reads(place', level', argv', redirs', cmds', pipelines', commands', s, g, b)
<1> DEFINE q == place + 1
<1>1. /\ level = "cmd" /\ level' = "cmd" /\ kinds[place] \in Redirs
      /\ kinds[q] \in Words /\ redirs' = Append(redirs, Redirection(place))
      /\ argv' = argv /\ cmds' = cmds /\ pipelines' = pipelines /\ commands' = commands
  BY DEF Redirect, Token, RedirOK
<1>2. /\ Stands(place, s, g, b) /\ b < place /\ g < place
      /\ HasCommand(place, argv, cmds, g, b) /\ HasRedirs(place, redirs, pipelines, s, g)
      /\ commands = Over(Before(0, s, Separators), ChainOf)
  BY <1>1, ReadsParts
<1>3. /\ kinds[place] \notin Cuts /\ kinds[place] \notin Words
      /\ kinds[q] \notin Cuts /\ kinds[q] \notin Redirs /\ kinds[q] \in Tokens
  BY <1>1 DEF Words, Redirs, Cuts, Separators, Gates, Tokens
<1>4. /\ q \in Nat /\ q > 1 /\ q - 1 = place /\ b < q /\ g < q
      /\ place' = q + 1 /\ q + 1 - 1 = q
  BY <1>2, TokenHere DEF Redirect
<1>5. /\ Arguments(<< b, q >>) = Arguments(<< b, place >>)
      /\ RedirsIn(<< g, q >>) = Append(RedirsIn(<< g, place >>), Redirection(place))
  <2>1. ~IsArgument(place)
    BY <1>3 DEF IsArgument
  <2> QED
    BY <1>1, <1>2, <2>1, ReadNext, TokenHere
<1>6. Stands(q, s, g, b)
  BY <1>2, <1>3, StandsOn, TokenHere
<1>7. ~IsArgument(q)
  BY <1>1, <1>4 DEF IsArgument
<1> HIDE DEF q
<1>8. Stands(q + 1, s, g, b)
  BY <1>3, <1>4, <1>6, StandsOn
<1>9. /\ Arguments(<< b, q + 1 >>) = Arguments(<< b, q >>)
      /\ RedirsIn(<< g, q + 1 >>) = RedirsIn(<< g, q >>)
  BY <1>3, <1>4, <1>7, ReadNext
<1>10. HasCommand(place', argv', cmds', g, b)
  <2>1. NoTarget(q + 1)
    BY <1>3, <1>4 DEF NoTarget
  <2> QED
    BY <1>1, <1>2, <1>4, <1>5, <1>9, <2>1 DEF HasCommand
<1>11. HasRedirs(place', redirs', pipelines', s, g)
  BY <1>1, <1>2, <1>4, <1>5, <1>9 DEF HasRedirs
<1> QED
  BY <1>1, <1>2, <1>4, <1>8, <1>10, <1>11 DEF Reads

\* The bind behind a command, which its pipeline has.
LEMMA CommandEnds ==
  ASSUME ParserInv, NEW s \in Nat, NEW g \in Nat, NEW b \in Nat,
         Reads(place, level, argv, redirs, cmds, pipelines, commands, s, g, b), Command
  PROVE  \E t \in Nat :
           Reads(place', level', argv', redirs', cmds', pipelines', commands', s, g, t)
<1>1. /\ level = "cmd" /\ kinds[place] \in Binds /\ argv' = << >>
      /\ cmds' = Append(cmds, argv)
      /\ redirs' = redirs /\ pipelines' = pipelines /\ commands' = commands
  BY DEF Command, Token
<1>2. /\ Stands(place, s, g, b) /\ b < place /\ g < place
      /\ HasCommand(place, argv, cmds, g, b) /\ HasRedirs(place, redirs, pipelines, s, g)
      /\ commands = Over(Before(0, s, Separators), ChainOf)
  BY <1>1, ReadsParts
<1>3. /\ Over(Cut(<< g, place >>, Pipes), Arguments)
           = Append(Over(Before(g, b, Pipes), Arguments), Arguments(<< b, place >>))
      /\ Before(g, place, Pipes) = Cut(<< g, place >>, Pipes)
  <2>1. place \in Nat /\ Stands(place, s, g, b)
    BY <1>2, TokenHere
  <2>2. CommandsTo(g, b, place)
    BY <2>1, CommandRead
  <2> QED
    BY <2>2 DEF CommandsTo
<1>4. cmds' = Over(Cut(<< g, place >>, Pipes), Arguments)
  BY <1>1, <1>2, <1>3 DEF HasCommand
<1>5. kinds[place] \notin Redirs /\ kinds[place] \in Cuts \cup {"EOF"}
  BY <1>1 DEF Binds, Tokens, Words, Redirs, Cuts, Separators, Gates
<1>6. CASE kinds[place] = "BIND_PIPE"
  <2>1. level' = "cmd" /\ place' = place + 1 /\ place + 1 - 1 = place
    BY <1>6, TokenHere DEF Command, Token
  <2>2. Stands(place + 1, s, g, place)
    BY <1>2, <1>6, StandsOn, TokenHere
  <2>3. HasCommand(place + 1, argv', cmds', g, place)
    <3>1. Arguments(<< place, place + 1 >>) = << >>
      BY ReadFirst, TokenHere
    <3>2. NoTarget(place + 1)
      BY <1>5, <2>1, TokenHere DEF NoTarget
    <3> QED
      BY <1>1, <1>3, <1>4, <3>1, <3>2 DEF HasCommand
  <2>4. HasRedirs(place + 1, redirs', pipelines', s, g)
    <3>1. RedirsIn(<< g, place + 1 >>) = RedirsIn(<< g, place >>)
      BY <1>2, <1>5, ReadNext, TokenHere
    <3> QED
      BY <1>1, <1>2, <3>1 DEF HasRedirs
  <2>5. Reads(place', level', argv', redirs', cmds', pipelines', commands', s, g, place)
    BY <1>1, <1>2, <2>1, <2>2, <2>3, <2>4 DEF Reads
  <2> QED
    BY <2>5, TokenHere
<1>7. CASE kinds[place] # "BIND_PIPE"
  <2>1. level' = "pipeline" /\ place' = place
    BY <1>7 DEF Command, Token
  <2>2. HasPipeline(place, argv', cmds', g)
    BY <1>1, <1>4, <1>5, <1>7 DEF Cuts, HasPipeline
  <2>3. Reads(place', level', argv', redirs', cmds', pipelines', commands', s, g, b)
    BY <1>1, <1>2, <2>1, <2>2 DEF Reads
  <2> QED
    BY <2>3
<1> QED
  BY <1>6, <1>7

\* The gate behind a pipeline, or what ends its chain.
LEMMA PipelineEnds ==
  ASSUME ParserInv, NEW s \in Nat, NEW g \in Nat, NEW b \in Nat,
         Reads(place, level, argv, redirs, cmds, pipelines, commands, s, g, b), Pipeline
  PROVE  \E t, u \in Nat :
           Reads(place', level', argv', redirs', cmds', pipelines', commands', s, t, u)
<1> DEFINE p == [cmds |-> cmds, next |-> NextAction, redirs |-> redirs]
<1>1. /\ level = "pipeline" /\ argv' = argv /\ cmds' = << >> /\ redirs' = << >>
      /\ pipelines' = Append(pipelines, p) /\ commands' = commands
  BY DEF Pipeline, PipelineTo
<1>2. /\ Stands(place, s, g, b) /\ b < place /\ g < place
      /\ HasPipeline(place, argv, cmds, g) /\ HasRedirs(place, redirs, pipelines, s, g)
      /\ commands = Over(Before(0, s, Separators), ChainOf)
  BY <1>1, ReadsParts
<1>3. p = PipelineOf(<< g, place >>)
  <2>1. cmds = Over(Cut(<< g, place >>, {"BIND_PIPE"}), Arguments)
        /\ redirs = Over(Ascending({k \in Inside(<< g, place >>) : kinds[k] \in Redirs}),
                         Redirection)
    BY <1>2 DEF HasPipeline, HasRedirs, RedirsIn, Pipes
  <2> QED
    BY <2>1 DEF PipelineOf, NextAction, Token
<1> HIDE DEF p
<1>4. /\ Over(Cut(<< s, place >>, Gates), PipelineOf)
           = Append(Over(Before(s, g, Gates), PipelineOf), PipelineOf(<< g, place >>))
      /\ Before(s, place, Gates) = Cut(<< s, place >>, Gates)
  BY <1>2, PipelineRead, TokenHere
<1>5. pipelines' = Over(Cut(<< s, place >>, Gates), PipelineOf)
  BY <1>1, <1>2, <1>3, <1>4 DEF HasRedirs
<1>6. argv' = << >> /\ kinds[place] \in Separators \cup Gates \cup {"EOF"}
  BY <1>1, <1>2 DEF HasPipeline
<1>7. CASE Ender
  <2>1. level' = "chain" /\ place' = place /\ kinds[place] \in Separators \cup {"EOF"}
    BY <1>7 DEF Pipeline, PipelineTo, Ender, Token
  <2>2. HasChain(place, argv', redirs', cmds', pipelines', s)
    BY <1>1, <1>5, <1>6, <2>1 DEF HasChain
  <2>3. Reads(place', level', argv', redirs', cmds', pipelines', commands', s, g, b)
    BY <1>1, <1>2, <2>1, <2>2 DEF Reads
  <2> QED
    BY <2>3
<1>8. CASE ~Ender
  <2>1. level' = "cmd" /\ place' = place + 1 /\ kinds[place] \in Gates
        /\ place + 1 - 1 = place
    BY <1>6, <1>8, TokenHere DEF Pipeline, PipelineTo, Ender, Token
  <2>2. Stands(place + 1, s, place, place)
    BY <1>2, <2>1, StandsOn, TokenHere
  <2>3. /\ Arguments(<< place, place + 1 >>) = << >>
        /\ RedirsIn(<< place, place + 1 >>) = << >>
    BY ReadFirst, TokenHere
  <2>4. HasCommand(place + 1, argv', cmds', place, place)
    <3>1. Over(Before(place, place, Pipes), Arguments) = << >>
      BY OverNone DEF Before
    <3>2. NoTarget(place + 1)
      BY <2>1, TokenHere DEF Gates, Redirs, NoTarget
    <3> QED
      BY <1>1, <1>6, <2>3, <3>1, <3>2 DEF HasCommand
  <2>5. HasRedirs(place + 1, redirs', pipelines', s, place)
    BY <1>1, <1>4, <1>5, <2>3 DEF HasRedirs
  <2>6. Reads(place', level', argv', redirs', cmds', pipelines', commands', s, place, place)
    BY <1>1, <1>2, <2>1, <2>2, <2>4, <2>5 DEF Reads
  <2> QED
    BY <2>6, TokenHere
<1> QED
  BY <1>7, <1>8

\* The separator behind a chain, or the end of the line.
LEMMA ChainEnds ==
  ASSUME ParserInv, NEW s \in Nat, NEW g \in Nat, NEW b \in Nat,
         Reads(place, level, argv, redirs, cmds, pipelines, commands, s, g, b), Chain
  PROVE  \/ level' = "parsed" /\ commands' = Meaning
         \/ /\ level' = "cmd"
            /\ Reads(place', level', argv', redirs', cmds', pipelines', commands',
                     place, place, place)
<1> DEFINE ch == [pipelines |-> pipelines, mode |-> ModeOf(Token)]
<1>1. /\ level = "chain" /\ argv' = argv /\ cmds' = cmds /\ redirs' = redirs
      /\ pipelines' = << >> /\ commands' = Append(commands, ch)
  BY DEF Chain
<1>2. /\ Stands(place, s, g, b) /\ b < place /\ g < place
      /\ HasChain(place, argv, redirs, cmds, pipelines, s)
      /\ commands = Over(Before(0, s, Separators), ChainOf)
  BY <1>1, ReadsParts
<1>3. ch = ChainOf(<< s, place >>)
  BY <1>2 DEF ChainOf, HasChain, ModeOf, Token
<1> HIDE DEF ch
<1>4. /\ Over(Cut(<< 0, place >>, Separators), ChainOf)
           = Append(Over(Before(0, s, Separators), ChainOf), ChainOf(<< s, place >>))
      /\ Before(0, place, Separators) = Cut(<< 0, place >>, Separators)
  BY <1>2, ChainRead, TokenHere
<1>5. commands' = Over(Cut(<< 0, place >>, Separators), ChainOf)
  BY <1>1, <1>2, <1>3, <1>4
<1>6. argv' = << >> /\ cmds' = << >> /\ redirs' = << >>
      /\ kinds[place] \in Separators \cup {"EOF"}
  BY <1>1, <1>2 DEF HasChain
<1>7. CASE kinds[place] = "EOF"
  <2>1. level' = "parsed" /\ place = Len(kinds)
    BY <1>7, TokenHere DEF Chain, Token
  <2>2. commands' = Meaning
    BY <1>5, <2>1 DEF Meaning, Line
  <2> QED
    BY <2>1, <2>2
<1>8. CASE kinds[place] # "EOF"
  <2>1. level' = "cmd" /\ place' = place + 1 /\ kinds[place] \in Separators
        /\ place + 1 - 1 = place
    BY <1>6, <1>8, TokenHere DEF Chain, Token
  <2>2. Stands(place + 1, place, place, place)
    BY <1>2, <2>1, StandsOn, TokenHere
  <2>3. /\ Arguments(<< place, place + 1 >>) = << >>
        /\ RedirsIn(<< place, place + 1 >>) = << >>
    BY ReadFirst, TokenHere
  <2>4. /\ Over(Before(place, place, Pipes), Arguments) = << >>
        /\ Over(Before(place, place, Gates), PipelineOf) = << >>
    BY OverNone DEF Before
  <2>5. HasCommand(place + 1, argv', cmds', place, place)
    <3>1. NoTarget(place + 1)
      BY <2>1, TokenHere DEF Separators, Redirs, NoTarget
    <3> QED
      BY <1>6, <2>3, <2>4, <3>1 DEF HasCommand
  <2>6. HasRedirs(place + 1, redirs', pipelines', place, place)
    BY <1>1, <1>6, <2>3, <2>4 DEF HasRedirs
  <2>7. Reads(place', level', argv', redirs', cmds', pipelines', commands', place, place, place)
    BY <1>4, <1>5, <2>1, <2>2, <2>5, <2>6 DEF Reads
  <2> QED
    BY <2>1, <2>7
<1> QED
  BY <1>7, <1>8

\* Nothing in a well-formed line makes the parser give up or drop a pipeline.
LEMMA NoFault ==
  ASSUME ParserInv, WellFormed, NEW s \in Nat, NEW g \in Nat, NEW b \in Nat,
         Reads(place, level, argv, redirs, cmds, pipelines, commands, s, g, b)
  PROVE  ~BadRedirect /\ ~UnexpectedEnd /\ ~EmptyCommand /\ ~DropPipeline
<1>1. Stands(place, s, g, b) /\ (level = "cmd" => argv = Arguments(<< b, place >>))
  BY DEF Reads, HasCommand
<1>2. ~BadRedirect
  <2> SUFFICES ASSUME Token \in Redirs PROVE RedirOK(place)
    BY DEF BadRedirect
  <2>1. place \in DOMAIN kinds /\ kinds[place] \in Redirs
    BY TokenHere
  <2>2. kinds[place - 1] \in Words /\ kinds[place + 1] \in Words
    BY <2>1 DEF WellFormed, RedirsOK
  <2> QED
    BY <2>2 DEF RedirOK
<1>3. "EOF" \in Binds
  BY DEF Binds, Tokens, Words, Redirs
<1>4. ~(level = "cmd" /\ Token \in Binds /\ argv = << >>)
  BY <1>1, CommandHasWord
<1>5. ~UnexpectedEnd /\ ~EmptyCommand
  BY <1>3, <1>4 DEF UnexpectedEnd, EmptyCommand
<1>6. ~DropPipeline
  BY DEF DropPipeline, Reads, HasPipeline, Token, Separators, Gates
<1> QED
  BY <1>2, <1>5, <1>6

\* In front of the first token nothing is read yet.
LEMMA WrittenInit == Init => WrittenInv
<1> SUFFICES ASSUME Init PROVE WrittenInv
  OBVIOUS
<1>1. /\ place = 1 /\ level = "cmd" /\ argv = << >> /\ redirs = << >> /\ cmds = << >>
      /\ pipelines = << >> /\ commands = << >>
  BY DEF Init
<1>2. Stands(1, 0, 0, 0)
  BY DEF Stands, Begins, Uncut
<1>3. Arguments(<< 0, 1 >>) = << >> /\ RedirsIn(<< 0, 1 >>) = << >>
  <2>1. Arguments(<< 0, 0 + 1 >>) = << >> /\ RedirsIn(<< 0, 0 + 1 >>) = << >>
    BY ReadFirst
  <2> QED
    BY <2>1
<1>4. /\ Over(Before(0, 0, Pipes), Arguments) = << >>
      /\ Over(Before(0, 0, Gates), PipelineOf) = << >>
      /\ Over(Before(0, 0, Separators), ChainOf) = << >>
  BY OverNone DEF Before
<1>5. Reads(place, level, argv, redirs, cmds, pipelines, commands, 0, 0, 0)
  BY <1>1, <1>2, <1>3, <1>4 DEF Reads, HasCommand, HasRedirs, NoTarget
<1> QED
  BY <1>1, <1>5 DEF WrittenInv

\* Every step of the three loops.
LEMMA WrittenStep == ParserInv /\ WrittenInv /\ [Next]_vars => WrittenInv'
<1> SUFFICES ASSUME ParserInv, WrittenInv, [Next]_vars PROVE WrittenInv'
  OBVIOUS
<1>1. UNCHANGED kinds
  BY DEF Next, Word, Redirect, BadRedirect, UnexpectedEnd, EmptyCommand, Command, DropPipeline,
         Pipeline, PipelineTo, Chain, Returned, Fail, vars
<1> DEFINE Now(s, g, b) ==
             Reads(place, level, argv, redirs, cmds, pipelines, commands, s, g, b)
           Then(s, g, b) ==
             Reads(place', level', argv', redirs', cmds', pipelines', commands', s, g, b)
<1>2. CASE UNCHANGED vars
  <2>1. \A s, g, b : Now(s, g, b) => Then(s, g, b)
    BY <1>2 DEF vars
  <2>2. level' = level /\ commands' = commands
    BY <1>2 DEF vars
  <2> HIDE DEF Now, Then
  <2>3. WellFormed =>
          /\ level' # "failed"
          /\ level' = "parsed" => commands' = Meaning
          /\ level' \in {"cmd", "pipeline", "chain"} => \E s, g, b \in Nat : Then(s, g, b)
    BY <2>1, <2>2 DEF WrittenInv, Now
  <2> QED
    BY <1>1, <2>3, WrittenThen DEF Then
<1>3. ASSUME Next, ~UNCHANGED vars, WellFormed
      PROVE  /\ level' # "failed"
             /\ level' = "parsed" => commands' = Meaning
             /\ level' \in {"cmd", "pipeline", "chain"} => \E s, g, b \in Nat : Then(s, g, b)
  <2>1. level \in {"cmd", "pipeline", "chain"}
    BY <1>3 DEF Next, Word, Redirect, BadRedirect, UnexpectedEnd, EmptyCommand, Command,
                DropPipeline, Pipeline, PipelineTo, Chain, Returned
  <2>2. PICK s \in Nat, g \in Nat, b \in Nat : Now(s, g, b)
    BY <1>3, <2>1 DEF WrittenInv
  <2>3. ~BadRedirect /\ ~UnexpectedEnd /\ ~EmptyCommand /\ ~DropPipeline
    BY <1>3, <2>2, NoFault
  <2>4. Word \/ Redirect \/ Command \/ Pipeline \/ Chain
    BY <1>3, <2>3 DEF Next, Returned
  <2>5. CASE Word \/ Redirect
    <3>1. Then(s, g, b)
      BY <2>2, <2>5, WordRead, RedirectRead
    <3>2. level' = "cmd"
      BY <2>5 DEF Word, Redirect
    <3> QED
      BY <3>1, <3>2
  <2>6. CASE Command
    <3>1. \E t \in Nat : Then(s, g, t)
      BY <2>2, <2>6, CommandEnds
    <3>2. level' \in {"cmd", "pipeline"}
      BY <2>6 DEF Command
    <3> QED
      BY <3>1, <3>2
  <2>7. CASE Pipeline
    <3>1. \E t, u \in Nat : Then(s, t, u)
      BY <2>2, <2>7, PipelineEnds
    <3>2. level' \in {"cmd", "chain"}
      BY <2>7 DEF Pipeline, PipelineTo
    <3> QED
      BY <3>1, <3>2
  <2>8. CASE Chain
    <3>1. \/ level' = "parsed" /\ commands' = Meaning
          \/ level' = "cmd" /\ Then(place, place, place)
      BY <2>2, <2>8, ChainEnds
    <3>2. place \in Nat
      BY TokenHere
    <3> HIDE DEF Then
    <3> QED
      BY <3>1, <3>2
  <2> QED
    BY <2>4, <2>5, <2>6, <2>7, <2>8
<1>4. CASE Next /\ ~UNCHANGED vars
  <2> HIDE DEF Then
  <2>1. WellFormed =>
          /\ level' # "failed"
          /\ level' = "parsed" => commands' = Meaning
          /\ level' \in {"cmd", "pipeline", "chain"} => \E s, g, b \in Nat : Then(s, g, b)
    BY <1>3, <1>4
  <2> QED
    BY <1>1, <2>1, WrittenThen DEF Then
<1> QED
  BY <1>2, <1>4

\* A line in which every command has a word and every redirection its target is never
\* refused, and becomes exactly the chains, pipelines, commands and redirections it says
\* (parse, its three loops and the breaks between them), however long it is.
THEOREM WellFormedMeans == Spec => []ParsedAsWritten
<1>1. WrittenInv => ParsedAsWritten
  BY DEF WrittenInv, ParsedAsWritten
<1> QED
  BY <1>1, ParserInvariant, WrittenInit, WrittenStep, PTL DEF Spec
-----------------------------------------------------------------------------
(***************************************************************************)
(* What an ill-formed line loses.  The arguments in front of a token fall  *)
(* into those of the command, of its pipeline and of all before, and those *)
(* that a pipe has dropped; a pipe drops a pipeline only behind an empty   *)
(* command, since a command with a word leaves none between it and a pipe. *)
(***************************************************************************)

\* What ends a pipeline.
Ends == Separators \cup Gates

\* No token of some kinds from k to the place in front of p.
Free(k, p, some) == \A m \in k..(p - 1) : kinds[m] \notin some

\* The pipe at p drops the word at k, and some pipe in front of p does.
DropsAt(k, p) ==
  /\ k < p /\ kinds[p] = "BIND_PIPE" /\ Free(k, p + 1, Ends)
  /\ \E bind \in k..(p - 1) : kinds[bind] = "BIND_PIPE" /\ Arguments(<< bind, p >>) = << >>

DroppedBy(k, p) == \E pipe \in 1..(p - 1) : DropsAt(k, pipe)

\* The arguments in front of p: all that are not dropped, those of the command that is
\* read, those of its pipeline, and those in front of the pipeline.
Kept(p) == {k \in 1..(p - 1) : IsArgument(k) /\ ~DroppedBy(k, p)}
OfCommand(p) == {k \in 1..(p - 1) : IsArgument(k) /\ Free(k, p, Cuts)}
OfPipeline(p) == {k \in Kept(p) : Free(k, p, Ends)}
OfOthers(p) == {k \in Kept(p) : ~Free(k, p, Ends)}

WordsIn(cs) == UNION {Range(a) : a \in Range(cs)}
WordsOfAll(ps) == UNION {WordsOf(q) : q \in Range(ps)}
PlacedIn(chains) == UNION {WordsOfAll(ch.pipelines) : ch \in Range(chains)}

\* Where the arguments in front of p are while each loop runs.
WordsPlaced(p, l, av, cs, ps, chains) ==
  /\ l \in {"cmd", "pipeline"} => WordsOfAll(ps) \cup PlacedIn(chains) = OfOthers(p)
  /\ l = "cmd" =>
       /\ NoTarget(p) /\ Range(av) = OfCommand(p)
       /\ WordsIn(cs) = OfPipeline(p) \ OfCommand(p)
  /\ l = "pipeline" =>
       /\ kinds[p] \in Binds /\ WordsIn(cs) = OfPipeline(p) /\ av = << >>
       /\ kinds[p] = "BIND_PIPE" => OfCommand(p) = {}
  /\ l = "chain" =>
       /\ kinds[p] \in Separators \cup {"EOF"} /\ av = << >> /\ cs = << >>
       /\ WordsOfAll(ps) \cup PlacedIn(chains) = Kept(p)
  /\ l = "parsed" => kinds[p] = "EOF" /\ PlacedIn(chains) = Kept(p)

LostInv == WordsPlaced(place, level, argv, cmds, pipelines, commands)

\* One place more is looked at.
LEMMA FreeNext ==
  ASSUME NEW p \in Nat, NEW k \in 1..p, NEW some
  PROVE  /\ k < p => (Free(k, p + 1, some) <=> Free(k, p, some) /\ kinds[p] \notin some)
         /\ Free(k, p + 1, some) => kinds[p] \notin some
         /\ k = p => (Free(k, p + 1, some) <=> kinds[p] \notin some)
<1>1. p + 1 - 1 = p /\ p \in k..p /\ (\A m \in k..p : m \in k..(p - 1) \/ m = p)
      /\ (\A m \in k..(p - 1) : m \in k..p)
  OBVIOUS
<1>2. Free(k, p + 1, some) <=> \A m \in k..p : kinds[m] \notin some
  BY <1>1 DEF Free
<1>3. Free(k, p, some) <=> \A m \in k..(p - 1) : kinds[m] \notin some
  BY DEF Free
<1>4. k = p => k..(p - 1) = {}
  OBVIOUS
<1> QED
  BY <1>1, <1>2, <1>3, <1>4

\* A pipe drops words in front of it only.
LEMMA DroppedNext ==
  ASSUME NEW p \in Nat, p > 0, NEW k \in Nat
  PROVE  /\ DroppedBy(k, p + 1) <=> DroppedBy(k, p) \/ DropsAt(k, p)
         /\ ~DroppedBy(k, k) /\ ~DropsAt(k, k)
         /\ kinds[p] # "BIND_PIPE" => ~DropsAt(k, p)
<1>1. p + 1 - 1 = p /\ (\A m \in 1..p : m \in 1..(p - 1) \/ m = p) /\ p \in 1..p
      /\ (\A m \in 1..(p - 1) : m \in 1..p)
  OBVIOUS
<1>2. DroppedBy(k, p + 1) <=> DroppedBy(k, p) \/ DropsAt(k, p)
  BY <1>1 DEF DroppedBy
<1>3. \A pipe : DropsAt(k, pipe) => k < pipe /\ kinds[pipe] = "BIND_PIPE"
  BY DEF DropsAt
<1>4. \A pipe \in 1..(k - 1) : ~(k < pipe)
  OBVIOUS
<1>5. ~DroppedBy(k, k)
  BY <1>3, <1>4 DEF DroppedBy
<1> QED
  BY <1>2, <1>3, <1>5

\* A command without a word.
LEMMA NoArguments ==
  ASSUME NEW b \in Nat, NEW p \in Nat
  PROVE  Arguments(<< b, p >>) = << >> <=> \A j \in (b + 1)..(p - 1) : ~IsArgument(j)
<1> DEFINE T == {k \in Inside(<< b, p >>) : IsArgument(k)}
<1>1. T = Chosen({k \in Nat : IsArgument(k)}, b, p)
  BY DEF Inside, Chosen
<1>2. T \subseteq Nat /\ IsFiniteSet(T)
  BY <1>1, ChosenFinite
<1>3. T = {} <=> \A j \in (b + 1)..(p - 1) : ~IsArgument(j)
  BY DEF Inside
<1>4. Arguments(<< b, p >>) = Ascending(T)
  BY DEF Arguments
<1> HIDE DEF T
<1> QED
  BY <1>2, <1>3, <1>4, AscendingAll

\* The words of a command with arguments are safe from the pipe behind it.
LEMMA DropsNone ==
  ASSUME NEW p \in Nat, p > 0, OfCommand(p) # {}, NEW k \in Nat, k > 0
  PROVE  ~DropsAt(k, p)
<1> SUFFICES ASSUME NEW bind \in k..(p - 1), kinds[bind] = "BIND_PIPE",
                    Arguments(<< bind, p >>) = << >>
             PROVE  FALSE
  BY DEF DropsAt
<1>1. PICK j \in 1..(p - 1) : IsArgument(j) /\ Free(j, p, Cuts)
  BY DEF OfCommand
<1>2. kinds[bind] \in Cuts
  BY DEF Cuts
<1>3. ~(bind \in j..(p - 1))
  BY <1>1, <1>2 DEF Free
<1>4. bind \in Nat /\ j \in (bind + 1)..(p - 1)
  BY <1>1, <1>3
<1> QED
  BY <1>1, <1>4, NoArguments

\* The words of a pipeline are dropped by the pipe behind an empty command.
LEMMA DropsAll ==
  ASSUME NEW p \in Nat, OfCommand(p) = {}, kinds[p] = "BIND_PIPE",
         NEW k \in 1..(p - 1), IsArgument(k), Free(k, p, Ends)
  PROVE  DropsAt(k, p)
<1> DEFINE T == {m \in k..(p - 1) : kinds[m] = "BIND_PIPE"}
<1>1. ASSUME NEW j \in k..(p - 1), IsArgument(j)
      PROVE  \E m \in j..(p - 1) : kinds[m] = "BIND_PIPE"
  <2>1. j \in 1..(p - 1)
    OBVIOUS
  <2>2. ~Free(j, p, Cuts)
    BY <1>1, <2>1 DEF OfCommand
  <2>3. PICK m \in j..(p - 1) : kinds[m] \in Cuts
    BY <2>2 DEF Free
  <2>4. m \in k..(p - 1)
    OBVIOUS
  <2>5. kinds[m] \notin Ends
    BY <2>4 DEF Free
  <2> QED
    BY <2>3, <2>5 DEF Cuts, Ends
<1>2. T \subseteq Nat /\ T # {} /\ (\A x \in T : x <= p)
  BY <1>1
<1>3. Max(T) \in T /\ \A y \in T : Max(T) >= y
  <2> HIDE DEF T
  <2> QED
    BY <1>2, GreatestOf
<1> DEFINE b == Max(T)
<1>4. b \in k..(p - 1) /\ kinds[b] = "BIND_PIPE" /\ b \in Nat
  <2> HIDE DEF b
  <2> QED
    BY <1>3 DEF b
<1> HIDE DEF b
<1>5. ASSUME NEW j \in (b + 1)..(p - 1), IsArgument(j) PROVE FALSE
  <2>1. j \in k..(p - 1)
    BY <1>4
  <2>2. PICK m \in j..(p - 1) : kinds[m] = "BIND_PIPE"
    BY <1>5, <2>1, <1>1
  <2>3. m \in T /\ m > b /\ m \in Nat
    BY <1>4, <2>1, <2>2
  <2>4. b >= m
    BY <1>3, <2>3 DEF b
  <2> QED
    BY <1>4, <2>3, <2>4
<1>6. Arguments(<< b, p >>) = << >>
  BY <1>4, <1>5, NoArguments
<1>7. Free(k, p + 1, Ends)
  <2>1. kinds[p] \notin Ends
    BY DEF Ends, Separators, Gates
  <2>2. k \in 1..p /\ k < p
    OBVIOUS
  <2> QED
    BY <2>1, <2>2, FreeNext
<1>8. k < p
  OBVIOUS
<1> QED
  BY <1>4, <1>6, <1>7, <1>8 DEF DropsAt
\* The arguments of the command are among its pipeline's, and these and the others are
\* all that are kept.
LEMMA AllKept ==
  ASSUME NEW p \in Nat
  PROVE  OfCommand(p) \subseteq OfPipeline(p) /\ OfPipeline(p) \cup OfOthers(p) = Kept(p)
<1>1. ASSUME NEW k \in OfCommand(p) PROVE k \in OfPipeline(p)
  <2>1. k \in 1..(p - 1) /\ IsArgument(k) /\ \A m \in k..(p - 1) : kinds[m] \notin Cuts
    BY DEF OfCommand, Free
  <2>2. Free(k, p, Ends)
    BY <2>1 DEF Free, Cuts, Ends
  <2>3. ~DroppedBy(k, p)
    <3>1. SUFFICES ASSUME NEW pipe \in 1..(p - 1), DropsAt(k, pipe) PROVE FALSE
      BY DEF DroppedBy
    <3>2. pipe \in k..(p - 1) /\ kinds[pipe] \in Cuts
      BY <2>1, <3>1 DEF DropsAt, Cuts
    <3> QED
      BY <2>1, <3>2
  <2> QED
    BY <2>1, <2>2, <2>3 DEF OfPipeline, Kept
<1>2. OfPipeline(p) \cup OfOthers(p) = Kept(p)
  BY DEF OfPipeline, OfOthers
<1> QED
  BY <1>1, <1>2

\* What is kept, from one place to the next.
LEMMA KeptNext ==
  ASSUME NEW p \in Nat, p > 0, NEW k \in 1..p
  PROVE  /\ k < p => (k \in Kept(p + 1) <=> k \in Kept(p) /\ ~DropsAt(k, p))
         /\ k = p => (k \in Kept(p + 1) <=> IsArgument(p))
         /\ k < p <=> k \in 1..(p - 1)
         /\ k \in Kept(p + 1) => IsArgument(k)
<1>1. k \in 1..(p + 1 - 1) /\ (k < p <=> k \in 1..(p - 1))
  OBVIOUS
<1>2. k \in Kept(p + 1) <=> IsArgument(k) /\ ~DroppedBy(k, p) /\ ~DropsAt(k, p)
  <2>1. DroppedBy(k, p + 1) <=> DroppedBy(k, p) \/ DropsAt(k, p)
    BY DroppedNext
  <2> QED
    BY <1>1, <2>1 DEF Kept
<1>3. k < p => (k \in Kept(p) <=> IsArgument(k) /\ ~DroppedBy(k, p))
  BY <1>1 DEF Kept
<1>4. k = p => ~DroppedBy(k, p) /\ ~DropsAt(k, p)
  BY DroppedNext
<1> QED
  BY <1>1, <1>2, <1>3, <1>4

\* The sets hold places in front of p.
LEMMA SetsInFront ==
  ASSUME NEW p \in Nat, p > 0
  PROVE  /\ Kept(p + 1) \subseteq 1..p /\ OfCommand(p + 1) \subseteq 1..p
         /\ Kept(p) \subseteq 1..(p - 1) /\ OfCommand(p) \subseteq 1..(p - 1)
         /\ OfPipeline(p) \subseteq 1..(p - 1) /\ OfOthers(p) \subseteq 1..(p - 1)
         /\ OfPipeline(p + 1) \subseteq 1..p /\ OfOthers(p + 1) \subseteq 1..p
         /\ \A k \in 1..(p - 1) : k \in 1..p /\ k < p
<1>1. p + 1 - 1 = p /\ \A k \in 1..(p - 1) : k \in 1..p /\ k < p
  OBVIOUS
<1> QED
  BY <1>1 DEF Kept, OfCommand, OfPipeline, OfOthers

ItsWord(p) == IF IsArgument(p) THEN {p} ELSE {}

\* Behind a word or a redirection.
LEMMA SetsInCommand ==
  ASSUME NEW p \in Nat, p > 0, kinds[p] \notin Cuts
  PROVE  /\ OfCommand(p + 1) = OfCommand(p) \cup ItsWord(p)
         /\ OfPipeline(p + 1) = OfPipeline(p) \cup ItsWord(p)
         /\ OfOthers(p + 1) = OfOthers(p)
<1>1. kinds[p] \notin Ends /\ kinds[p] # "BIND_PIPE"
  BY DEF Cuts, Ends
<1>2. ASSUME NEW k \in 1..p
      PROVE  /\ k \in OfCommand(p + 1) <=> k \in OfCommand(p) \cup ItsWord(p)
             /\ k \in OfPipeline(p + 1) <=> k \in OfPipeline(p) \cup ItsWord(p)
             /\ k \in OfOthers(p + 1) <=> k \in OfOthers(p)
  <2>1. /\ k < p => (Free(k, p + 1, Cuts) <=> Free(k, p, Cuts))
        /\ k < p => (Free(k, p + 1, Ends) <=> Free(k, p, Ends))
        /\ k = p => Free(k, p + 1, Cuts) /\ Free(k, p + 1, Ends)
    BY <1>1, FreeNext
  <2>2. ~DropsAt(k, p)
    BY <1>1, DroppedNext
  <2>3. k \in 1..(p + 1 - 1)
    OBVIOUS
  <2>4. CASE k < p
    <3>1. k \in 1..(p - 1) /\ k \notin ItsWord(p)
      BY <2>4 DEF ItsWord
    <3>2. k \in Kept(p + 1) <=> k \in Kept(p)
      BY <2>2, <2>4, KeptNext
    <3> QED
      BY <2>1, <2>3, <2>4, <3>1, <3>2 DEF OfCommand, OfPipeline, OfOthers
  <2>5. CASE k = p
    <3>1. k \notin 1..(p - 1) /\ (k \in ItsWord(p) <=> IsArgument(k))
      BY <2>5 DEF ItsWord
    <3>2. k \in Kept(p + 1) <=> IsArgument(k)
      BY <2>5, KeptNext
    <3>3. k \notin OfCommand(p) /\ k \notin OfPipeline(p) /\ k \notin OfOthers(p)
      BY <3>1 DEF OfCommand, OfPipeline, OfOthers, Kept
    <3> QED
      BY <2>1, <2>3, <2>5, <3>1, <3>2, <3>3 DEF OfCommand, OfPipeline, OfOthers
  <2> QED
    BY <2>4, <2>5
<1>3. ItsWord(p) \subseteq 1..p
  BY DEF ItsWord
<1>4. OfCommand(p + 1) = OfCommand(p) \cup ItsWord(p)
  BY <1>2, <1>3, SetsInFront
<1>5. OfPipeline(p + 1) = OfPipeline(p) \cup ItsWord(p)
  BY <1>2, <1>3, SetsInFront
<1>6. OfOthers(p + 1) = OfOthers(p)
  BY <1>2, SetsInFront
<1> QED
  BY <1>4, <1>5, <1>6

\* Behind a pipe.
LEMMA SetsPiped ==
  ASSUME NEW p \in Nat, p > 0, kinds[p] = "BIND_PIPE"
  PROVE  /\ OfCommand(p + 1) = {} /\ OfOthers(p + 1) = OfOthers(p)
         /\ OfCommand(p) # {} => OfPipeline(p + 1) = OfPipeline(p)
         /\ OfCommand(p) = {} => OfPipeline(p + 1) = {}
<1>1. kinds[p] \notin Ends /\ kinds[p] \in Cuts /\ ~IsArgument(p)
  BY DEF Cuts, Ends, Separators, Gates, IsArgument, Words
<1>2. ASSUME NEW k \in 1..p, k < p
      PROVE  /\ k \in OfOthers(p + 1) <=> k \in OfOthers(p)
             /\ OfCommand(p) # {} => (k \in OfPipeline(p + 1) <=> k \in OfPipeline(p))
             /\ OfCommand(p) = {} => k \notin OfPipeline(p + 1)
  <2>1. Free(k, p + 1, Ends) <=> Free(k, p, Ends)
    BY <1>1, <1>2, FreeNext
  <2>2. k \in Kept(p + 1) <=> k \in Kept(p) /\ ~DropsAt(k, p)
    BY <1>2, KeptNext
  <2>3. DropsAt(k, p) => Free(k, p, Ends)
    BY <2>1 DEF DropsAt
  <2>4. OfCommand(p) # {} => ~DropsAt(k, p)
    BY DropsNone
  <2>5. OfCommand(p) = {} /\ IsArgument(k) /\ Free(k, p, Ends) => DropsAt(k, p)
    <3>1. k \in 1..(p - 1)
      BY <1>2
    <3> QED
      BY <3>1, DropsAll
  <2>6. k \in Kept(p) => IsArgument(k)
    BY DEF Kept
  <2> QED
    BY <2>1, <2>2, <2>3, <2>4, <2>5, <2>6 DEF OfPipeline, OfOthers
<1>3. p \notin Kept(p + 1)
  BY <1>1, KeptNext
<1>4. p \notin OfOthers(p + 1) /\ p \notin OfPipeline(p + 1)
  BY <1>3 DEF OfOthers, OfPipeline
<1>5. \A k \in 1..p : k < p \/ k = p
  OBVIOUS
<1>6. OfCommand(p + 1) = {}
  <2>1. \A k \in 1..p : ~Free(k, p + 1, Cuts)
    BY <1>1, FreeNext
  <2>2. \A k \in OfCommand(p + 1) : Free(k, p + 1, Cuts)
    BY DEF OfCommand
  <2> QED
    BY <2>1, <2>2, SetsInFront
<1>7. OfOthers(p + 1) = OfOthers(p)
  <2>1. \A k \in 1..p : k \in OfOthers(p + 1) <=> k \in OfOthers(p)
    <3>1. p \notin OfOthers(p)
      BY SetsInFront
    <3> QED
      BY <1>2, <1>4, <1>5, <3>1
  <2> QED
    BY <2>1, SetsInFront
<1>8. ASSUME OfCommand(p) # {} PROVE OfPipeline(p + 1) = OfPipeline(p)
  <2>1. \A k \in 1..p : k \in OfPipeline(p + 1) <=> k \in OfPipeline(p)
    <3>1. p \notin OfPipeline(p)
      BY SetsInFront
    <3> QED
      BY <1>2, <1>4, <1>5, <1>8, <3>1
  <2> QED
    BY <2>1, SetsInFront
<1>9. OfCommand(p) = {} => OfPipeline(p + 1) = {}
  BY <1>2, <1>4, <1>5, SetsInFront
<1> QED
  BY <1>6, <1>7, <1>8, <1>9

\* Behind what ends a pipeline.
LEMMA SetsEnded ==
  ASSUME NEW p \in Nat, p > 0, kinds[p] \in Ends
  PROVE  OfCommand(p + 1) = {} /\ OfPipeline(p + 1) = {} /\ OfOthers(p + 1) = Kept(p)
<1>1. kinds[p] \in Cuts /\ kinds[p] # "BIND_PIPE" /\ ~IsArgument(p)
  BY DEF Cuts, Ends, Separators, Gates, IsArgument, Words
<1>2. \A k \in 1..p : ~Free(k, p + 1, Cuts) /\ ~Free(k, p + 1, Ends)
  BY <1>1, FreeNext
<1>3. \A k \in 1..p : k \in Kept(p + 1) <=> k \in Kept(p)
  <2> TAKE k \in 1..p
  <2>1. ~DropsAt(k, p)
    BY <1>1, DroppedNext
  <2>2. CASE k < p
    BY <2>1, <2>2, KeptNext
  <2>3. CASE k = p
    <3>1. k \notin Kept(p)
      BY <2>3, SetsInFront
    <3> QED
      BY <1>1, <2>3, <3>1, KeptNext
  <2> QED
    BY <2>2, <2>3
<1>4. Kept(p + 1) = Kept(p)
  BY <1>3, SetsInFront
<1>5. OfCommand(p + 1) = {}
  <2>1. \A k \in OfCommand(p + 1) : Free(k, p + 1, Cuts)
    BY DEF OfCommand
  <2> QED
    BY <1>2, <2>1, SetsInFront
<1>6. OfPipeline(p + 1) = {} /\ OfOthers(p + 1) = Kept(p + 1)
  <2>1. \A k \in Kept(p + 1) : ~Free(k, p + 1, Ends)
    BY <1>2, SetsInFront
  <2> QED
    BY <2>1 DEF OfPipeline, OfOthers
<1> QED
  BY <1>4, <1>5, <1>6

\* The words of one command, pipeline and chain more.
LEMMA WordsAdded ==
  /\ \A S : \A s \in Seq(S) : \A e \in S : Range(Append(s, e)) = Range(s) \cup {e}
  /\ \A S : \A cs \in Seq(S) : \A a \in S : WordsIn(Append(cs, a)) = WordsIn(cs) \cup Range(a)
  /\ \A S : \A ps \in Seq(S) : \A q \in S :
       WordsOfAll(Append(ps, q)) = WordsOfAll(ps) \cup WordsIn(q.cmds)
  /\ \A S : \A chains \in Seq(S) : \A ch \in S :
       PlacedIn(Append(chains, ch)) = PlacedIn(chains) \cup WordsOfAll(ch.pipelines)
<1>1. ASSUME NEW S, NEW s \in Seq(S), NEW e \in S
      PROVE  Range(Append(s, e)) = Range(s) \cup {e}
  <2> DEFINE t == Append(s, e)
  <2>1. /\ DOMAIN t = 1..(Len(s) + 1) /\ DOMAIN s = 1..Len(s) /\ Len(s) \in Nat
        /\ \A n \in 1..Len(s) : t[n] = s[n]
        /\ t[Len(s) + 1] = e
    BY Appended
  <2> HIDE DEF t
  <2>2. \A n \in 1..(Len(s) + 1) : n \in 1..Len(s) \/ n = Len(s) + 1
    BY <2>1
  <2>3. Len(s) + 1 \in 1..(Len(s) + 1) /\ \A n \in 1..Len(s) : n \in 1..(Len(s) + 1)
    BY <2>1
  <2>4. Range(t) = Range(s) \cup {e}
    BY <2>1, <2>2, <2>3 DEF Range
  <2> QED
    BY <2>4 DEF t
<1>2. ASSUME NEW S, NEW cs \in Seq(S), NEW a \in S
      PROVE  WordsIn(Append(cs, a)) = WordsIn(cs) \cup Range(a)
  <2>1. Range(Append(cs, a)) = Range(cs) \cup {a}
    BY <1>1
  <2> QED
    BY <2>1 DEF WordsIn
<1>3. ASSUME NEW S, NEW ps \in Seq(S), NEW q \in S
      PROVE  WordsOfAll(Append(ps, q)) = WordsOfAll(ps) \cup WordsIn(q.cmds)
  <2>1. Range(Append(ps, q)) = Range(ps) \cup {q}
    BY <1>1
  <2>2. WordsOf(q) = WordsIn(q.cmds)
    BY DEF WordsOf, WordsIn
  <2> QED
    BY <2>1, <2>2 DEF WordsOfAll
<1>4. ASSUME NEW S, NEW chains \in Seq(S), NEW ch \in S
      PROVE  PlacedIn(Append(chains, ch)) = PlacedIn(chains) \cup WordsOfAll(ch.pipelines)
  <2>1. Range(Append(chains, ch)) = Range(chains) \cup {ch}
    BY <1>1
  <2> QED
    BY <2>1 DEF PlacedIn
<1> QED
  BY <1>1, <1>2, <1>3, <1>4

\* No words are in nothing.
LEMMA NoWords ==
  Range(<< >>) = {} /\ WordsIn(<< >>) = {} /\ WordsOfAll(<< >>) = {} /\ PlacedIn(<< >>) = {}
BY DEF Range, WordsIn, WordsOfAll, PlacedIn
\* The line stays, and so do the sets.
LEMMA SetsStay ==
  ASSUME UNCHANGED kinds
  PROVE  \A p, l, av, cs, ps, chains :
           WordsPlaced(p, l, av, cs, ps, chains)' <=> WordsPlaced(p, l, av, cs, ps, chains)
<1>1. \A k : IsArgument(k)' <=> IsArgument(k)
  BY DEF IsArgument
<1>2. \A k, p, some : Free(k, p, some)' <=> Free(k, p, some)
  BY DEF Free
<1>3. \A span : Arguments(span)' = Arguments(span)
  BY DEF Arguments, Ascending, Inside, IsArgument
<1>4. \A k, p : DropsAt(k, p)' <=> DropsAt(k, p)
  BY <1>2, <1>3 DEF DropsAt
<1>5. \A k, p : DroppedBy(k, p)' <=> DroppedBy(k, p)
  BY <1>4 DEF DroppedBy
<1>6. \A p : Kept(p)' = Kept(p) /\ OfCommand(p)' = OfCommand(p)
  BY <1>1, <1>2, <1>5 DEF Kept, OfCommand
<1>7. \A p : OfPipeline(p)' = OfPipeline(p) /\ OfOthers(p)' = OfOthers(p)
  BY <1>2, <1>6 DEF OfPipeline, OfOthers
<1>8. \A p : (NoTarget(p)' <=> NoTarget(p)) /\ (kinds[p])' = kinds[p]
  BY DEF NoTarget
<1> QED
  BY <1>6, <1>7, <1>8 DEF WordsPlaced

\* It is enough to look at the line as it was.
LEMMA LostThen ==
  ASSUME UNCHANGED kinds, WordsPlaced(place', level', argv', cmds', pipelines', commands')
  PROVE  LostInv'
<1>1. WordsPlaced(place', level', argv', cmds', pipelines', commands')
        => WordsPlaced(place, level, argv, cmds, pipelines, commands)'
  BY SetsStay
<1> QED
  BY <1>1 DEF LostInv

\* What the loops have, while the command loop runs.
LEMMA HasWords ==
  ASSUME ParserInv, LostInv
  PROVE  /\ place \in Nat /\ place > 0 /\ kinds[place] = Token
         /\ place + 1 \in Nat /\ place + 1 > 0 /\ place + 1 > 1 /\ place + 1 - 1 = place
         /\ argv \in Seq(WordPlaces) /\ cmds \in Seq(CommandType)
         /\ pipelines \in Seq(PipelineType) /\ commands \in Seq(ChainType)
         /\ level \in {"cmd", "pipeline"} =>
              WordsOfAll(pipelines) \cup PlacedIn(commands) = OfOthers(place)
         /\ level = "cmd" =>
              /\ NoTarget(place) /\ Range(argv) = OfCommand(place)
              /\ WordsIn(cmds) = OfPipeline(place) \ OfCommand(place)
         /\ level = "pipeline" =>
              /\ kinds[place] \in Binds /\ WordsIn(cmds) = OfPipeline(place) /\ argv = << >>
              /\ kinds[place] = "BIND_PIPE" => OfCommand(place) = {}
         /\ level = "chain" =>
              /\ kinds[place] \in Separators \cup {"EOF"} /\ argv = << >> /\ cmds = << >>
              /\ WordsOfAll(pipelines) \cup PlacedIn(commands) = Kept(place)
<1>1. /\ place \in Nat /\ place > 0 /\ kinds[place] = Token /\ place + 1 \in Nat
      /\ place + 1 > 0 /\ place + 1 > 1 /\ place + 1 - 1 = place
  BY TokenHere
<1>2. /\ argv \in Seq(WordPlaces) /\ cmds \in Seq(CommandType)
      /\ pipelines \in Seq(PipelineType) /\ commands \in Seq(ChainType)
  BY DEF ParserInv, TypeOK
<1> QED
  BY <1>1, <1>2 DEF LostInv, WordsPlaced

\* A word: one argument more.
LEMMA WordKeeps == ParserInv /\ LostInv /\ Word => LostInv'
<1> SUFFICES ASSUME ParserInv, LostInv, Word PROVE LostInv'
  OBVIOUS
<1>1. /\ level = "cmd" /\ level' = "cmd" /\ kinds[place] \in Words /\ place' = place + 1
      /\ argv' = Append(argv, place) /\ kinds' = kinds
      /\ cmds' = cmds /\ pipelines' = pipelines /\ commands' = commands
  BY DEF Word, Token
<1>2. /\ kinds[place] \notin Cuts /\ IsArgument(place) /\ NoTarget(place + 1)
  <2>1. kinds[place] \notin Cuts /\ kinds[place] \notin Redirs
    BY <1>1 DEF Words, Redirs, Cuts, Separators, Gates
  <2>2. NoTarget(place)
    BY <1>1, HasWords
  <2>3. IsArgument(place)
    BY <1>1, <2>2 DEF NoTarget, IsArgument
  <2>4. NoTarget(place + 1)
    BY <2>1, HasWords DEF NoTarget
  <2> QED
    BY <2>1, <2>3, <2>4
<1>3. /\ OfCommand(place + 1) = OfCommand(place) \cup {place}
      /\ OfPipeline(place + 1) = OfPipeline(place) \cup {place}
      /\ OfOthers(place + 1) = OfOthers(place)
  BY <1>2, SetsInCommand, HasWords DEF ItsWord
<1>4. Range(argv') = Range(argv) \cup {place}
  <2>1. argv \in Seq(WordPlaces) /\ place \in WordPlaces
    BY <1>1, TokenHere, HasWords DEF WordPlaces
  <2> QED
    BY <1>1, <2>1, WordsAdded
<1>5. place \notin OfPipeline(place)
  <2>1. OfPipeline(place) \subseteq 1..(place - 1)
    BY HasWords, SetsInFront
  <2> QED
    BY <2>1, HasWords
<1>6. WordsPlaced(place + 1, "cmd", argv', cmds', pipelines', commands')
  BY <1>1, <1>2, <1>3, <1>4, <1>5, HasWords DEF WordsPlaced
<1> QED
  BY <1>1, <1>6, LostThen

\* A redirection: two tokens more, and no argument.
LEMMA RedirectKeeps == ParserInv /\ LostInv /\ Redirect => LostInv'
<1> SUFFICES ASSUME ParserInv, LostInv, Redirect PROVE LostInv'
  OBVIOUS
<1> DEFINE q == place + 1
<1>1. /\ level = "cmd" /\ level' = "cmd" /\ kinds[place] \in Redirs /\ kinds[q] \in Words
      /\ argv' = argv /\ kinds' = kinds
      /\ cmds' = cmds /\ pipelines' = pipelines /\ commands' = commands
  BY DEF Redirect, Token, RedirOK
<1>2. /\ kinds[place] \notin Cuts /\ kinds[q] \notin Cuts /\ ~IsArgument(place)
      /\ ~IsArgument(q) /\ kinds[q] \notin Redirs
  BY <1>1, HasWords DEF Words, Redirs, Cuts, Separators, Gates, IsArgument
<1>3. q \in Nat /\ q > 0 /\ q + 1 - 1 = q /\ place' = q + 1
  BY HasWords DEF Redirect
<1>4. /\ OfCommand(q) = OfCommand(place) /\ OfPipeline(q) = OfPipeline(place)
      /\ OfOthers(q) = OfOthers(place)
  <2>1. ItsWord(place) = {}
    BY <1>2 DEF ItsWord
  <2>2. /\ OfCommand(q) = OfCommand(place) \cup ItsWord(place)
        /\ OfPipeline(q) = OfPipeline(place) \cup ItsWord(place)
        /\ OfOthers(q) = OfOthers(place)
    BY <1>2, SetsInCommand, HasWords
  <2> QED
    BY <2>1, <2>2
<1> HIDE DEF q
<1>5. /\ OfCommand(q + 1) = OfCommand(q) /\ OfPipeline(q + 1) = OfPipeline(q)
      /\ OfOthers(q + 1) = OfOthers(q)
  BY <1>2, <1>3, SetsInCommand DEF ItsWord
<1>6. NoTarget(q + 1)
  BY <1>2, <1>3 DEF NoTarget
<1>7. WordsPlaced(q + 1, "cmd", argv', cmds', pipelines', commands')
  BY <1>1, <1>4, <1>5, <1>6, HasWords DEF WordsPlaced
<1> QED
  BY <1>1, <1>3, <1>7, LostThen

\* A command: its arguments join those of the pipeline.
LEMMA CommandKeeps == ParserInv /\ LostInv /\ Command => LostInv'
<1> SUFFICES ASSUME ParserInv, LostInv, Command PROVE LostInv'
  OBVIOUS
<1>1. /\ level = "cmd" /\ kinds[place] \in Binds /\ argv # << >> /\ argv' = << >>
      /\ cmds' = Append(cmds, argv) /\ kinds' = kinds
      /\ pipelines' = pipelines /\ commands' = commands
  BY DEF Command, Token
<1>2. WordsIn(cmds') = OfPipeline(place)
  <2>1. cmds \in Seq(CommandType) /\ argv \in CommandType
    BY <1>1, HasWords DEF CommandType
  <2>2. WordsIn(cmds') = WordsIn(cmds) \cup Range(argv)
    BY <1>1, <2>1, WordsAdded
  <2>3. OfCommand(place) \subseteq OfPipeline(place)
    BY AllKept, HasWords
  <2> QED
    BY <1>1, <2>2, <2>3, HasWords
<1>3. CASE kinds[place] = "BIND_PIPE"
  <2>1. level' = "cmd" /\ place' = place + 1
    BY <1>3 DEF Command, Token
  <2>2. OfCommand(place) # {}
    <3>1. argv \in Seq(WordPlaces) /\ Range(argv) = OfCommand(place)
      BY <1>1, HasWords
    <3>2. 1 \in DOMAIN argv
      BY <1>1, <3>1, EmptySeq, LenProperties
    <3> QED
      BY <3>1, <3>2 DEF Range
  <2>3. /\ OfCommand(place + 1) = {} /\ OfOthers(place + 1) = OfOthers(place)
        /\ OfPipeline(place + 1) = OfPipeline(place)
    BY <1>3, <2>2, SetsPiped, HasWords
  <2>4. NoTarget(place + 1)
    BY <1>3, HasWords DEF NoTarget, Redirs
  <2>5. WordsPlaced(place + 1, "cmd", argv', cmds', pipelines', commands')
    BY <1>1, <1>2, <2>3, <2>4, HasWords, NoWords DEF WordsPlaced
  <2> QED
    BY <1>1, <2>1, <2>5, LostThen
<1>4. CASE kinds[place] # "BIND_PIPE"
  <2>1. level' = "pipeline" /\ place' = place
    BY <1>4 DEF Command, Token
  <2>2. WordsPlaced(place, "pipeline", argv', cmds', pipelines', commands')
    BY <1>1, <1>2, <1>4, HasWords DEF WordsPlaced
  <2> QED
    BY <1>1, <2>1, <2>2, LostThen
<1> QED
  BY <1>3, <1>4

\* A bind with no command in front of it.
LEMMA EmptyKeeps == ParserInv /\ LostInv /\ EmptyCommand => LostInv'
<1> SUFFICES ASSUME ParserInv, LostInv, EmptyCommand PROVE LostInv'
  OBVIOUS
<1>1. /\ level = "cmd" /\ level' = "pipeline" /\ kinds[place] \in Binds /\ argv = << >>
      /\ kinds' = kinds /\ place' = place /\ argv' = argv /\ cmds' = cmds
      /\ pipelines' = pipelines /\ commands' = commands
  BY DEF EmptyCommand, Token
<1>2. OfCommand(place) = {}
  BY <1>1, HasWords, NoWords
<1>3. WordsPlaced(place, "pipeline", argv', cmds', pipelines', commands')
  BY <1>1, <1>2, HasWords DEF WordsPlaced
<1> QED
  BY <1>1, <1>3, LostThen

\* A pipe with no command in front of it: the words of the pipeline are dropped.
LEMMA DropKeeps == ParserInv /\ LostInv /\ DropPipeline => LostInv'
<1> SUFFICES ASSUME ParserInv, LostInv, DropPipeline PROVE LostInv'
  OBVIOUS
<1>1. /\ level = "pipeline" /\ level' = "cmd" /\ kinds[place] = "BIND_PIPE"
      /\ kinds' = kinds /\ place' = place + 1 /\ argv' = argv /\ cmds' = << >>
      /\ pipelines' = pipelines /\ commands' = commands
  BY DEF DropPipeline, Token
<1>2. /\ OfCommand(place + 1) = {} /\ OfOthers(place + 1) = OfOthers(place)
      /\ OfPipeline(place + 1) = {}
  <2>1. OfCommand(place) = {}
    BY <1>1, HasWords
  <2> QED
    BY <1>1, <2>1, SetsPiped, HasWords
<1>3. NoTarget(place + 1)
  BY <1>1, HasWords DEF NoTarget, Redirs
<1>4. argv = << >>
  BY <1>1, HasWords
<1>5. WordsPlaced(place + 1, "cmd", argv', cmds', pipelines', commands')
  BY <1>1, <1>2, <1>3, <1>4, HasWords, NoWords DEF WordsPlaced
<1> QED
  BY <1>1, <1>5, LostThen

\* The end of a pipeline: its words join the others.
LEMMA PipelineKeeps == ParserInv /\ LostInv /\ Pipeline => LostInv'
<1> SUFFICES ASSUME ParserInv, LostInv, Pipeline PROVE LostInv'
  OBVIOUS
<1> DEFINE q == [cmds |-> cmds, next |-> NextAction, redirs |-> redirs]
<1>1. /\ level = "pipeline" /\ kinds[place] # "BIND_PIPE" /\ argv' = argv /\ cmds' = << >>
      /\ pipelines' = Append(pipelines, q) /\ commands' = commands /\ kinds' = kinds
  BY DEF Pipeline, PipelineTo, Token
<1>2. argv = << >> /\ kinds[place] \in Binds
  BY <1>1, HasWords
<1>3. WordsOfAll(pipelines') \cup PlacedIn(commands') = Kept(place)
  <2>1. pipelines \in Seq(PipelineType) /\ q \in PipelineType /\ q.cmds = cmds
    BY DEF ParserInv, TypeOK, PipelineType, NextAction
  <2> HIDE DEF q
  <2>2. WordsOfAll(pipelines') = WordsOfAll(pipelines) \cup WordsIn(cmds)
    BY <1>1, <2>1, WordsAdded
  <2>3. OfPipeline(place) \cup OfOthers(place) = Kept(place)
    BY AllKept, HasWords
  <2>4. /\ WordsIn(cmds) = OfPipeline(place)
        /\ WordsOfAll(pipelines) \cup PlacedIn(commands) = OfOthers(place)
    BY <1>1, HasWords
  <2> QED
    BY <1>1, <2>2, <2>3, <2>4
<1> HIDE DEF q
<1>4. CASE Ender
  <2>1. level' = "chain" /\ place' = place /\ kinds[place] \in Separators \cup {"EOF"}
    BY <1>4 DEF Pipeline, PipelineTo, Ender, Token
  <2>2. WordsPlaced(place, "chain", argv', cmds', pipelines', commands')
    BY <1>1, <1>2, <1>3, <2>1 DEF WordsPlaced
  <2> QED
    BY <1>1, <2>1, <2>2, LostThen
<1>5. CASE ~Ender
  <2>1. level' = "cmd" /\ place' = place + 1
    BY <1>5 DEF Pipeline, PipelineTo
  <2>2. kinds[place] \in Ends
    BY <1>1, <1>2, <1>5
    DEF Ender, Token, Binds, Tokens, Words, Redirs, Separators, Gates, Ends
  <2>3. OfCommand(place + 1) = {} /\ OfPipeline(place + 1) = {}
        /\ OfOthers(place + 1) = Kept(place)
    BY <2>2, SetsEnded, HasWords
  <2>4. NoTarget(place + 1)
    BY <2>2, HasWords DEF NoTarget, Redirs, Ends, Separators, Gates
  <2>5. WordsPlaced(place + 1, "cmd", argv', cmds', pipelines', commands')
    BY <1>1, <1>2, <1>3, <2>3, <2>4, NoWords DEF WordsPlaced
  <2> QED
    BY <1>1, <2>1, <2>5, LostThen
<1> QED
  BY <1>4, <1>5

\* The end of a chain: its words are placed.
LEMMA ChainKeeps == ParserInv /\ LostInv /\ Chain => LostInv'
<1> SUFFICES ASSUME ParserInv, LostInv, Chain PROVE LostInv'
  OBVIOUS
<1> DEFINE ch == [pipelines |-> pipelines, mode |-> ModeOf(Token)]
<1>1. /\ level = "chain" /\ argv' = argv /\ cmds' = cmds /\ kinds' = kinds
      /\ pipelines' = << >> /\ commands' = Append(commands, ch)
  BY DEF Chain
<1>2. argv = << >> /\ cmds = << >> /\ kinds[place] \in Separators \cup {"EOF"}
  BY <1>1, HasWords
<1>3. PlacedIn(commands') = Kept(place)
  <2>1. commands \in Seq(ChainType) /\ ch \in ChainType /\ ch.pipelines = pipelines
    BY DEF ParserInv, TypeOK, ChainType, ModeOf
  <2> HIDE DEF ch
  <2>2. PlacedIn(commands') = PlacedIn(commands) \cup WordsOfAll(pipelines)
    BY <1>1, <2>1, WordsAdded
  <2>3. WordsOfAll(pipelines) \cup PlacedIn(commands) = Kept(place)
    BY <1>1, HasWords
  <2> QED
    BY <2>2, <2>3
<1>4. CASE kinds[place] = "EOF"
  <2>1. level' = "parsed" /\ place' = place
    BY <1>4 DEF Chain, Token
  <2>2. WordsPlaced(place, "parsed", argv', cmds', pipelines', commands')
    BY <1>3, <1>4 DEF WordsPlaced
  <2> QED
    BY <1>1, <2>1, <2>2, LostThen
<1>5. CASE kinds[place] # "EOF"
  <2>1. level' = "cmd" /\ place' = place + 1
    BY <1>5 DEF Chain, Token
  <2>2. kinds[place] \in Ends
    BY <1>2, <1>5 DEF Ends
  <2>3. OfCommand(place + 1) = {} /\ OfPipeline(place + 1) = {}
        /\ OfOthers(place + 1) = Kept(place)
    BY <2>2, SetsEnded, HasWords
  <2>4. NoTarget(place + 1)
    BY <2>2, HasWords DEF NoTarget, Redirs, Ends, Separators, Gates
  <2>5. WordsPlaced(place + 1, "cmd", argv', cmds', pipelines', commands')
    BY <1>1, <1>2, <1>3, <2>3, <2>4, NoWords DEF WordsPlaced
  <2> QED
    BY <1>1, <2>1, <2>5, LostThen
<1> QED
  BY <1>4, <1>5

\* In front of the first token there is no argument.
LEMMA LostInit == Init => LostInv
<1> SUFFICES ASSUME Init PROVE LostInv
  OBVIOUS
<1>1. /\ place = 1 /\ level = "cmd" /\ argv = << >> /\ cmds = << >>
      /\ pipelines = << >> /\ commands = << >>
  BY DEF Init
<1>2. Kept(1) = {} /\ OfCommand(1) = {}
  BY DEF Kept, OfCommand
<1>3. OfPipeline(1) = {} /\ OfOthers(1) = {}
  BY <1>2 DEF OfPipeline, OfOthers
<1>4. NoTarget(1)
  BY DEF NoTarget
<1>5. WordsPlaced(1, "cmd", << >>, << >>, << >>, << >>)
  BY <1>2, <1>3, <1>4, NoWords DEF WordsPlaced
<1> QED
  BY <1>1, <1>5 DEF LostInv

\* Every step of the three loops.
LEMMA LostStep == ParserInv /\ LostInv /\ [Next]_vars => LostInv'
<1> SUFFICES ASSUME ParserInv, LostInv, [Next]_vars PROVE LostInv'
  OBVIOUS
<1>1. CASE Fail
  <2>1. kinds' = kinds /\ place' = place /\ level' = "failed"
    BY <1>1 DEF Fail
  <2>2. WordsPlaced(place, "failed", argv', cmds', pipelines', commands')
    BY DEF WordsPlaced
  <2> QED
    BY <2>1, <2>2, LostThen
<1>2. CASE UNCHANGED vars
  <2>1. WordsPlaced(place', level', argv', cmds', pipelines', commands') /\ kinds' = kinds
    BY <1>2 DEF vars, LostInv
  <2> QED
    BY <2>1, LostThen
<1> QED
  BY <1>1, <1>2, WordKeeps, RedirectKeeps, CommandKeeps, EmptyKeeps, DropKeeps, PipelineKeeps,
     ChainKeeps
  DEF Next, BadRedirect, UnexpectedEnd, Returned

\* At the end of the line, dropped is what some pipe of the line drops.
LEMMA DroppedAtEnd ==
  ASSUME ParserInv, kinds[place] = "EOF"
  PROVE  Kept(place) = {k \in DOMAIN kinds : IsArgument(k) /\ ~Dropped(k)}
<1>1. /\ place \in Nat /\ place > 0 /\ DOMAIN kinds = 1..place
  <2>1. kinds \in Seq(Tokens) /\ place = Len(kinds) /\ place \in Nat /\ place > 0
    BY TokenHere DEF ParserInv, TypeOK
  <2> QED
    BY <2>1, LenProperties
<1>2. ASSUME NEW k \in 1..(place - 1) PROVE DroppedBy(k, place) <=> Dropped(k)
  <2>1. ASSUME NEW pipe \in 1..place, pipe > k, kinds[pipe] = "BIND_PIPE"
        PROVE  /\ pipe \in 1..(place - 1)
               /\ Free(k, pipe + 1, Ends)
                    <=> \A m \in k..pipe : kinds[m] \notin Separators \cup Gates
    <3>1. pipe # place
      BY <2>1
    <3>2. pipe + 1 - 1 = pipe
      OBVIOUS
    <3> QED
      BY <1>1, <3>1, <3>2 DEF Free, Ends
  <2>2. \A pipe \in 1..(place - 1) : pipe \in 1..place
    BY <1>1
  <2>3. \A pipe : DropsAt(k, pipe) => k < pipe /\ kinds[pipe] = "BIND_PIPE"
    BY DEF DropsAt
  <2>4. \A pipe \in 1..place : k < pipe <=> pipe > k
    BY <1>1
  <2>5. ASSUME NEW pipe \in 1..place
        PROVE  pipe \in 1..(place - 1) /\ DropsAt(k, pipe)
                 <=> /\ pipe > k /\ kinds[pipe] = "BIND_PIPE"
                     /\ \A m \in k..pipe : kinds[m] \notin Separators \cup Gates
                     /\ \E bind \in k..(pipe - 1) :
                          kinds[bind] = "BIND_PIPE" /\ Arguments(<< bind, pipe >>) = << >>
    BY <2>1, <2>4 DEF DropsAt
  <2> QED
    BY <1>1, <2>2, <2>5 DEF DroppedBy, Dropped
<1>3. ~IsArgument(place)
  BY DEF IsArgument, Words
<1>4. \A k \in 1..place : k \in 1..(place - 1) \/ k = place
  BY <1>1
<1>5. \A k \in 1..(place - 1) : k \in 1..place
  BY <1>1
<1> QED
  BY <1>1, <1>2, <1>3, <1>4, <1>5 DEF Kept

\* A line that parse accepts has every argument in a command, except those of a pipeline
\* that a pipe behind an empty command drops (the breaks at parser.ch:204 and 220).
THEOREM OnlyPipesDrop == Spec => []OnlyDroppedLost
<1>1. ParserInv /\ LostInv => OnlyDroppedLost
  <2> SUFFICES ASSUME ParserInv, LostInv, level = "parsed"
               PROVE  Placed = {k \in DOMAIN kinds : IsArgument(k) /\ ~Dropped(k)}
    BY DEF OnlyDroppedLost
  <2>1. kinds[place] = "EOF" /\ PlacedIn(commands) = Kept(place)
    BY DEF LostInv, WordsPlaced
  <2>2. Placed = PlacedIn(commands)
    BY DEF Placed, PlacedIn, WordsOfAll
  <2> QED
    BY <2>1, <2>2, DroppedAtEnd
<1> QED
  BY <1>1, ParserInvariant, LostInit, LostStep, PTL DEF Spec
=============================================================================
