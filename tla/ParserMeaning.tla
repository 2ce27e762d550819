---------------------------- MODULE ParserMeaning ----------------------------
(***************************************************************************)
(* What a line means, said of the whole line at once, and what parse makes *)
(* of it: a chain is what lies between two of ";", "&" and the end, a      *)
(* pipeline what lies between two gates in it, a command what lies between *)
(* two pipes in that.                                                      *)
(***************************************************************************)
EXTENDS Parser, FiniteSetsExt, SequencesExt

\* The places in S, in their order.
Ascending(S) ==
  [n \in 1..Cardinality(S) |-> CHOOSE k \in S : Cardinality({j \in S : j <= k}) = n]

\* A span is a pair of places: the tokens strictly between them.
Inside(span) == (span[1] + 1)..(span[2] - 1)

\* The spans inside a span that the tokens of some kinds cut.
Cut(span, some) ==
  LET cuts == Ascending({k \in Inside(span) : kinds[k] \in some})
      ends == Append(cuts, span[2])
  IN  [n \in 1..Len(ends) |-> << IF n = 1 THEN span[1] ELSE ends[n - 1], ends[n] >>]

Line == << 0, Len(kinds) >>

\* A word is an argument unless a redirection stands before it.  The descriptor in
\* front of a redirection is an argument: nothing takes it from argv_list.
IsArgument(k) == kinds[k] \in Words /\ ~(k > 1 /\ kinds[k - 1] \in Redirs)

Arguments(span) == Ascending({k \in Inside(span) : IsArgument(k)})

Over(spans, F(_)) == [n \in DOMAIN spans |-> F(spans[n])]

PipelineOf(span) ==
  [cmds |-> Over(Cut(span, {"BIND_PIPE"}), Arguments),
   next |-> CASE kinds[span[2]] = "BIND_AND" -> "NEXT_SUCCESS"
              [] kinds[span[2]] = "BIND_OR" -> "NEXT_FAIL"
              [] OTHER -> "NEXT_NOTHING",
   redirs |-> Over(Ascending({k \in Inside(span) : kinds[k] \in Redirs}), Redirection)]

ChainOf(span) ==
  [pipelines |-> Over(Cut(span, Gates), PipelineOf),
   mode |-> IF kinds[span[2]] = "BIND_BG" THEN "BACKGROUND" ELSE "FOREGROUND"]

Meaning == Over(Cut(Line, Separators), ChainOf)

\* Every command has a word, and every redirection stands behind one and has a target.
Cuts == Separators \cup Gates \cup {"BIND_PIPE"}

RedirsOK ==
  \A k \in DOMAIN kinds :
    kinds[k] \in Redirs => k > 1 /\ kinds[k - 1] \in Words /\ kinds[k + 1] \in Words

WellFormed ==
  /\ RedirsOK
  /\ \A n \in DOMAIN Cut(Line, Cuts) : Arguments(Cut(Line, Cuts)[n]) # << >>
-----------------------------------------------------------------------------
WordsOf(p) == UNION {Range(a) : a \in Range(p.cmds)}

\* The words of the chains.
Placed == UNION {UNION {WordsOf(p) : p \in Range(c.pipelines)} : c \in Range(commands)}

\* A well-formed line is accepted, and becomes the chains, pipelines, commands and
\* redirections it says, each with its gate and mode: however the three loops of parse
\* hand the token behind a command on, none of them takes or leaves one too many.
ParsedAsWritten ==
  /\ level = "parsed" /\ WellFormed => commands = Meaning
  /\ level = "failed" => ~WellFormed

\* An ill-formed line that parse accepts loses words to a single mistake: a pipe with
\* no command between it and the bind before drops the pipeline it stands in.
\* Every other argument is in a command of its own (the breaks at parser.c:204 and 220).
Dropped(k) ==
  \E pipe \in DOMAIN kinds :
    /\ pipe > k /\ kinds[pipe] = "BIND_PIPE"
    /\ \A m \in k..pipe : kinds[m] \notin Separators \cup Gates
    /\ \E bind \in k..(pipe - 1) :
         kinds[bind] = "BIND_PIPE" /\ Arguments(<< bind, pipe >>) = << >>

OnlyDroppedLost ==
  level = "parsed" =>
    Placed = {k \in DOMAIN kinds : IsArgument(k) /\ ~Dropped(k)}
=============================================================================
