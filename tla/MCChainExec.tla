---------------------------- MODULE MCChainExec ----------------------------
(* ChainExec on short chains. *)
EXTENDS ChainExec

CONSTANT MaxPipelines    \* bound: the pipelines of a chain

\* "&& &&" leaves a pipeline without a command.
Commands ==
  {<< >>, << "program" >>, << "builtin" >>, << "program", "program" >>,
   << "program", "exit" >>, << "exit" >>}

\* Chains of MaxPipelines pipelines, the longest ones without pipes.
SmallChains ==
  UNION {{[i \in 1..n |-> [cmds |-> c[i], next |-> IF i = n THEN "end" ELSE g[i]]] :
            c \in [1..n -> {w \in Commands : n = MaxPipelines => Len(w) < 2}],
            g \in [1..n -> {"and", "or"}]} :
         n \in 1..MaxPipelines}
=============================================================================
