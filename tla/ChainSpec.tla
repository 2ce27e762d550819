------------------------------ MODULE ChainSpec ------------------------------
(***************************************************************************)
(* What a chain of pipelines promises.  A pipeline starts its commands;    *)
(* its status is that of the command reported last, or of a builtin that   *)
(* the shell ran.  The pipeline to run next is the first whose gate, && or *)
(* ||, accepts that status.  No pipeline is left while a command of it is  *)
(* there, but for those that were overlooked: once, at any moment, all     *)
(* that are there may be.  When one of these has stopped its pipeline may  *)
(* be run again.  A chain may be aborted at any time.                      *)
(***************************************************************************)
EXTENDS Integers, Sequences, FiniteSetsExt

CONSTANT Procs

VARIABLES
  chain,
  pos,          \* the pipeline that runs, 0 when the chain is over
  commands,     \* of every process: "free", or the state of a command
  overlooked,   \* the commands that no pipeline waits for any more
  moved,        \* whether commands have been overlooked: it happens once
  status,       \* what the pipeline has reported last
  aborted

vars == << chain, pos, commands, overlooked, moved, status, aborted >>

Runs == pos # 0 /\ ~aborted
Live == {"running", "stopped", "stopSeen"}
Ends == {"ok", "fail", "signal"}
There == {p \in Procs : commands[p] # "free"}

Accepts(gate, ok) == (gate = "and" /\ ok) \/ (gate = "or" /\ ~ok)

\* The pipelines behind i that a status of i would let run.
Accepting(i, ok) == {j \in (i + 1)..Len(chain) : Accepts(chain[j - 1].next, ok)}

First(S) == IF S = {} THEN 0 ELSE Min(S)

Init ==
  /\ pos = 1 /\ status = "ok"
  /\ aborted = FALSE /\ moved = FALSE
  /\ commands = [p \in Procs |-> "free"]
  /\ overlooked = {}

Start(p) ==
  /\ Runs
  /\ \E i \in DOMAIN chain[pos].cmds : chain[pos].cmds[i] = "program"
  /\ commands[p] = "free"
  /\ commands' = [commands EXCEPT ![p] = "running"]
  /\ UNCHANGED << chain, pos, overlooked, moved, status, aborted >>

\* A command ends, stops or continues: at any time, and behind the chain, too.
Changes(p) ==
  /\ commands[p] \in Live
  /\ \E s \in Ends \cup {"running", "stopped"} : commands' = [commands EXCEPT ![p] = s]
  /\ UNCHANGED << chain, pos, overlooked, moved, status, aborted >>

\* The pipeline gets to know how a command ended.
Ended(p) ==
  /\ Runs
  /\ commands[p] \in Ends
  /\ status' = commands[p]
  /\ commands' = [commands EXCEPT ![p] = "free"]
  /\ overlooked' = overlooked \ {p}
  /\ UNCHANGED << chain, pos, moved, aborted >>

\* Or that it has stopped, once.
Stopped(p) ==
  /\ Runs
  /\ commands[p] = "stopped"
  /\ status' = "stopped"
  /\ commands' = [commands EXCEPT ![p] = "stopSeen"]
  /\ UNCHANGED << chain, pos, overlooked, moved, aborted >>

\* A first pipeline that is one builtin reports what it returned.
Builtin ==
  /\ Runs /\ pos = 1
  /\ chain[1].cmds = << "builtin" >>
  /\ status' \in {"ok", "fail"}
  /\ UNCHANGED << chain, pos, commands, overlooked, moved, aborted >>

Overlook ==
  /\ ~moved
  /\ moved' = TRUE
  /\ overlooked' = There
  /\ UNCHANGED << chain, pos, commands, status, aborted >>

\* The pipeline is over: the gates decide by the status.
Follow ==
  /\ Runs
  /\ status \in {"ok", "fail"}
  /\ There \subseteq overlooked
  /\ pos' = First(Accepting(pos, status = "ok"))
  /\ status' = IF pos' = 0 THEN status ELSE "ok"
  /\ UNCHANGED << chain, commands, overlooked, moved, aborted >>

\* It runs once more: one of its commands stopped and was overlooked then.
Again ==
  /\ Runs
  /\ status = "stopped"
  /\ There \subseteq overlooked /\ There # {}
  /\ status' = "ok"
  /\ UNCHANGED << chain, pos, commands, overlooked, moved, aborted >>

Abort ==
  /\ Runs
  /\ aborted' = TRUE
  /\ UNCHANGED << chain, pos, commands, overlooked, moved, status >>

Next ==
  \/ \E p \in Procs : Start(p) \/ Changes(p) \/ Ended(p) \/ Stopped(p)
  \/ Builtin \/ Overlook \/ Follow \/ Again \/ Abort

Spec == Init /\ [][Next]_vars
=============================================================================
