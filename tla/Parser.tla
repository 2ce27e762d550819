------------------------------- MODULE Parser -------------------------------
(***************************************************************************)
(* The parser (src/src/parser/parser.c, parse): three nested loops over    *)
(* the tokens of a line that share one index, and whose breaks decide how  *)
(* far the token behind a command is passed on.                            *)
(*                                                                         *)
(* A word is the place of its token in the line.  Not modelled: the memory *)
(* that the error paths free or leave, and the text of a path.             *)
(***************************************************************************)
EXTENDS Integers, Sequences

CONSTANT KindLines     \* the lines considered: sequences of tokens, without the EOF

\* digitful words have a kind of their own (the empty word is one), and so have the
\* words "&" followed by digits.
Words == {"WORD", "DIGITS", "FDREF"}
Redirs == {"IN_REDIR", "OUT_REDIR_REWRITE", "OUT_REDIR_APPEND"}
Separators == {"BIND_SEMICOLON", "BIND_BG"}
Gates == {"BIND_AND", "BIND_OR"}
Tokens == Words \cup Redirs \cup Separators \cup Gates \cup {"BIND_PIPE", "EOF"}

ASSUME KindLinesAssumption == \A l \in KindLines : l \in Seq(Tokens \ {"EOF"})

VARIABLES
  kinds,
  place,
  level,        \* the loop the parser is in, or how it returned
  argv,         \* argv_list
  redirs,       \* io_redirections
  cmds,         \* the commands of the pipeline under construction
  pipelines,    \* the pipelines of the chain under construction
  commands      \* the chains that are complete

vars == << kinds, place, level, argv, redirs, cmds, pipelines, commands >>

Token == kinds[place]

Init ==
  /\ \E l \in KindLines : kinds = Append(l, "EOF")
  /\ place = 1 /\ level = "cmd"
  /\ argv = << >> /\ redirs = << >> /\ cmds = << >>
  /\ pipelines = << >> /\ commands = << >>
-----------------------------------------------------------------------------
(* create_io_redirection *)

\* What may stand in front of a redirection; a digitful word is the descriptor.
RedirOK(k) ==
  /\ kinds[k + 1] \in Words
  /\ k > 1 => kinds[k - 1] \in Words \cup Separators

TypeOf(k) ==
  IF kinds[k + 1] = "FDREF" THEN "FD"
  ELSE IF kinds[k] = "OUT_REDIR_REWRITE" THEN "PATH_ENABLE_REWRITE" ELSE "PATH"

FromOf(k) ==
  IF k > 1 /\ kinds[k - 1] = "DIGITS" THEN << "word", k - 1 >>
  ELSE << "fd", IF kinds[k] = "IN_REDIR" THEN 0 ELSE 1 >>

Redirection(k) == [from |-> FromOf(k), to |-> k + 1, type |-> TypeOf(k)]
-----------------------------------------------------------------------------
(* The commands of a pipeline. *)

Fail ==
  /\ level' = "failed" /\ commands' = << >>
  /\ argv' = << >> /\ redirs' = << >> /\ cmds' = << >> /\ pipelines' = << >>
  /\ UNCHANGED << kinds, place >>

Word ==
  /\ level = "cmd" /\ Token \in Words
  /\ argv' = Append(argv, place)
  /\ place' = place + 1
  /\ UNCHANGED << kinds, level, redirs, cmds, pipelines, commands >>

\* (Fault) One token more is skipped.
RedirectSkipsMore ==
  /\ level = "cmd" /\ Token \in Redirs /\ RedirOK(place)
  /\ redirs' = Append(redirs, Redirection(place))
  /\ place' = place + 3
  /\ UNCHANGED << kinds, level, argv, cmds, pipelines, commands >>

Redirect ==
  /\ level = "cmd" /\ Token \in Redirs /\ RedirOK(place)
  /\ redirs' = Append(redirs, Redirection(place))
  /\ place' = place + 2
  /\ UNCHANGED << kinds, level, argv, cmds, pipelines, commands >>

BadRedirect ==
  /\ level = "cmd" /\ Token \in Redirs /\ ~RedirOK(place)
  /\ Fail

Binds == Tokens \ (Words \cup Redirs)

\* A line without any token is left quietly, any other with a message.
UnexpectedEnd ==
  /\ level = "cmd" /\ Token = "EOF" /\ argv = << >>
  /\ Fail

EmptyCommand ==
  /\ level = "cmd" /\ Token \in Binds \ {"EOF"} /\ argv = << >>
  /\ level' = "pipeline"
  /\ UNCHANGED << kinds, place, argv, redirs, cmds, pipelines, commands >>

\* (Fault) A pipe ends the pipeline, too.
CommandAlwaysBreaks ==
  /\ level = "cmd" /\ Token \in Binds /\ argv # << >>
  /\ cmds' = Append(cmds, argv)
  /\ argv' = << >>
  /\ level' = "pipeline"
  /\ UNCHANGED << kinds, place, redirs, pipelines, commands >>

Command ==
  /\ level = "cmd" /\ Token \in Binds /\ argv # << >>
  /\ cmds' = Append(cmds, argv)
  /\ argv' = << >>
  /\ IF Token = "BIND_PIPE" THEN place' = place + 1 /\ UNCHANGED level
                            ELSE level' = "pipeline" /\ UNCHANGED place
  /\ UNCHANGED << kinds, redirs, pipelines, commands >>
-----------------------------------------------------------------------------
(* The pipelines of a chain, and the chains. *)

\* A pipe with no command in front: the pipeline under construction is dropped.
DropPipeline ==
  /\ level = "pipeline" /\ Token = "BIND_PIPE"
  /\ cmds' = << >>
  /\ place' = place + 1 /\ level' = "cmd"
  /\ UNCHANGED << kinds, argv, redirs, pipelines, commands >>

NextAction ==
  CASE Token = "BIND_AND" -> "NEXT_SUCCESS"
    [] Token = "BIND_OR" -> "NEXT_FAIL"
    [] OTHER -> "NEXT_NOTHING"

\* (Fault) Only a semicolon and the end of the line end a chain.
EnderForeground == Token \in {"BIND_SEMICOLON", "EOF"}

\* What ends a chain.
Ender == Token \in Separators \cup {"EOF"}

PipelineTo(next) ==
  /\ level = "pipeline" /\ Token # "BIND_PIPE"
  /\ pipelines' = Append(pipelines, [cmds |-> cmds, next |-> NextAction, redirs |-> redirs])
  /\ cmds' = << >>
  /\ redirs' = next
  /\ IF Ender THEN level' = "chain" /\ UNCHANGED place
              ELSE level' = "cmd" /\ place' = place + 1
  /\ UNCHANGED << kinds, argv, commands >>

\* (Fault) The size of io_redirections is not reset.
PipelineKeepsRedirs == PipelineTo(redirs)

Pipeline == PipelineTo(<< >>)

ModeOf(token) == IF token = "BIND_BG" THEN "BACKGROUND" ELSE "FOREGROUND"

Chain ==
  /\ level = "chain"
  /\ commands' = Append(commands, [pipelines |-> pipelines, mode |-> ModeOf(Token)])
  /\ pipelines' = << >>
  /\ IF Token = "EOF" THEN level' = "parsed" /\ UNCHANGED place
                      ELSE level' = "cmd" /\ place' = place + 1
  /\ UNCHANGED << kinds, argv, redirs, cmds >>

\* parse has returned.
Returned == level \in {"parsed", "failed"} /\ UNCHANGED vars

Next ==
  \/ Word \/ Redirect \/ BadRedirect \/ UnexpectedEnd \/ EmptyCommand \/ Command
  \/ DropPipeline \/ Pipeline \/ Chain
  \/ Returned

Spec == Init /\ [][Next]_vars
-----------------------------------------------------------------------------
\* What execute_foreground and execute_pipeline are given.
WordPlaces == {k \in DOMAIN kinds : kinds[k] \in Words}
RedirType == [from : {"word", "fd"} \X Nat, to : WordPlaces,
              type : {"FD", "PATH", "PATH_ENABLE_REWRITE"}]
CommandType == Seq(WordPlaces) \ {<< >>}
PipelineType == [cmds : Seq(CommandType), redirs : Seq(RedirType),
                 next : {"NEXT_SUCCESS", "NEXT_FAIL", "NEXT_NOTHING"}]
ChainType == [pipelines : Seq(PipelineType), mode : {"FOREGROUND", "BACKGROUND"}]

TypeOK ==
  /\ kinds \in Seq(Tokens) /\ place \in DOMAIN kinds
  /\ level \in {"cmd", "pipeline", "chain", "parsed", "failed"}
  /\ argv \in Seq(WordPlaces)
  /\ redirs \in Seq(RedirType)
  /\ cmds \in Seq(CommandType)
  /\ pipelines \in Seq(PipelineType)
  /\ commands \in Seq(ChainType)

\* Every pipeline but the last ends in a gate.
Gated(ps) == \A n \in DOMAIN ps : ps[n].next = "NEXT_NOTHING" <=> n = Len(ps)

\* What the executor relies on (the loops at interpreter.c:128 and 161, which follow
\* next_action and next_pipeline): an accepted line has a chain, every chain has a
\* pipeline, and in every chain all pipelines but the last end in a gate.
ChainsAreExecutable ==
  level = "parsed" =>
    /\ commands # << >>
    /\ \A m \in DOMAIN commands :
         commands[m].pipelines # << >> /\ Gated(commands[m].pipelines)
=============================================================================
