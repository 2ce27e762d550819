----------------------------- MODULE MCPipeline -----------------------------
(* Pipeline on short pipelines. *)
EXTENDS Pipeline, SequencesExt

CONSTANT MaxCmds     \* bound: the commands of a pipeline

\* Nobody types: the first command does not read.
First == Kinds \ {"filter", "head"}

\* What "yes" writes does not reach the terminal, or it would go on for ever.
ShortPipelines ==
  {p \in UNION {[1..n -> Kinds] : n \in 1..MaxCmds} :
     /\ p[1] \in First
     /\ \A c \in 1..Len(p) :
          p[c] = "yes" => \E d \in (c + 1)..Len(p) : p[d] \notin {"yes", "filter"}}

Redir(from, to) == [from |-> from, to |-> to]

\* < f, > f, 2> f, 2>&1, >&2, and two that name a descriptor the leader uses.
SomeRedirs == {Redir(0, -1), Redir(1, -1), Redir(2, -1), Redir(2, 1), Redir(1, 2),
               Redir(3, -1), Redir(1, 4)}

\* One pipeline, and two with up to two redirections in front.
SomeChains ==
  {<< [cmds |-> p, redirs |-> << >>] >> : p \in ShortPipelines}
    \cup {<< [cmds |-> p, redirs |-> r], [cmds |-> q, redirs |-> s] >> :
            p, q \in {<< "builtin" >>, << "source", "filter" >>},
            r \in BoundedSeq(SomeRedirs, 2), s \in BoundedSeq({Redir(2, 1), Redir(0, -1)}, 1)}
=============================================================================
