----------------------------- MODULE ChainExec -----------------------------
(***************************************************************************)
(* A foreground chain (src/src/parser/interpreter.c, execute_foreground,   *)
(* execute_pipeline, execute_cmd): the shell runs a first builtin itself,  *)
(* then forks the job's leader, which runs the pipelines and waits for the *)
(* processes of its own group with waitpid(0, ...).  Meanwhile the shell,  *)
(* in add_job, moves the leader to a group of its own: the commands forked *)
(* before that stay in the group of the shell.                             *)
(*                                                                         *)
(* Not modelled here: the pipes between the commands, what redirections    *)
(* and builtins do, and that the leader itself may be stopped (JobControl).*)
(***************************************************************************)
EXTENDS Integers, Sequences

CONSTANTS Procs,     \* bound: the processes the leader may fork
          Chains     \* the chains considered

Kinds == {"program", "builtin", "exit"}
Gates == {"and", "or", "end"}
Pipeline == [cmds : Seq(Kinds), next : Gates]

ASSUME ChainsAssumption == \A c \in Chains : c \in Seq(Pipeline) /\ c # << >>

VARIABLES
  chain,
  pos,        \* the pipeline the shell or the leader is at, 0 when there is none
  next,       \* the command of it to start next
  tail,       \* what its last command is: a process, or a builtin's status
  shell,      \* where the shell is
  leader,     \* where the leader is
  group,      \* the group the leader is in: the shell's, or the job's own
  waited,     \* the group a waitpid call in progress looks at
  status,     \* what waitpid reported last, or the builtin that the shell ran
  st,         \* of every process: its state; of a zombie, how it ended
  grp         \* and its group

world == << st, grp >>
vars == << chain, pos, next, tail, shell, leader, group, waited, status, world >>

Alive == {"running", "stopped", "stopSeen"}
Ended == {"ok", "fail", "signal"}
Children == {p \in Procs : st[p] # "free"}
Running == {p \in Procs : st[p] \in Alive}

Init ==
  /\ chain \in Chains
  /\ pos = 1 /\ next = 1
  /\ tail = "ok" /\ status = "ok"
  /\ shell = "line" /\ leader = "none"
  /\ group = "shell" /\ waited = "none"
  /\ st = [p \in Procs |-> "free"]
  /\ grp = [p \in Procs |-> "none"]

\* !(!!status ^ next_action)
Accepts(gate, ok) == (gate = "and" /\ ok) \/ (gate = "or" /\ ~ok)

\* (Fault) Only the next pipeline is looked at.
ShiftOnce(i, ok) ==
  IF i < Len(chain) /\ Accepts(chain[i].next, ok) THEN i + 1 ELSE 0

\* The loop that shifts to the pipeline to run after pipeline i, 0 if there is none.
Shift(i, ok) ==
  LET from[j \in 1..Len(chain)] ==
        IF j = Len(chain) THEN 0
        ELSE IF Accepts(chain[j].next, ok) THEN j + 1 ELSE from[j + 1]
  IN  from[i]
-----------------------------------------------------------------------------
(* The shell. *)

Sole(kind) == chain[1].cmds = << kind >>

\* A first pipeline that is one builtin runs in the shell itself.
RunInShell ==
  /\ shell = "line"
  /\ Sole("builtin")
  /\ status' \in {"ok", "fail"}
  /\ shell' = "decide"
  /\ UNCHANGED << chain, pos, next, tail, leader, group, waited, world >>

\* The shell returns, or goes on to fork a leader, which has a status of its own.
ShellFollows ==
  /\ shell = "decide"
  /\ pos' = Shift(1, status = "ok")
  /\ IF pos' = 0 THEN shell' = "idle" /\ UNCHANGED status
                 ELSE shell' = "fork" /\ status' = "ok"
  /\ UNCHANGED << chain, next, tail, leader, group, waited, world >>

ShellExits ==
  /\ shell = "line"
  /\ Sole("exit")
  /\ shell' = "exited"
  /\ UNCHANGED << chain, pos, next, tail, leader, group, waited, status, world >>

AtFork == shell = "fork" \/ (shell = "line" /\ ~Sole("builtin") /\ ~Sole("exit"))

ForkLeader ==
  /\ AtFork
  /\ shell' = "add"
  /\ leader' = "exec"
  /\ UNCHANGED << chain, pos, next, tail, group, waited, status, world >>

\* fork fails: alarm_msg, return -1.
CannotFork ==
  /\ AtFork
  /\ shell' = "idle"
  /\ UNCHANGED << chain, pos, next, tail, leader, group, waited, status, world >>

\* add_job: setpgid(leader, leader).
AddJob ==
  /\ shell = "add"
  /\ group' = "job"
  /\ shell' = "wait"
  /\ UNCHANGED << chain, pos, next, tail, leader, waited, status, world >>

\* set_foreground_by_num: waitpid collects the leader.
CollectLeader ==
  /\ shell = "wait"
  /\ leader \in {"ended", "quit", "killed"}
  /\ shell' = "idle"
  /\ UNCHANGED << chain, pos, next, tail, leader, group, waited, status, world >>
-----------------------------------------------------------------------------
(* The leader. *)

AtCommand(kind) ==
  /\ leader = "exec"
  /\ next <= Len(chain[pos].cmds)
  /\ chain[pos].cmds[next] = kind

\* execute_cmd: fork and exec.  The command starts in the group of the leader.
StartProgram ==
  /\ AtCommand("program")
  /\ \E p \in Procs :
       /\ st[p] = "free"
       /\ st' = [st EXCEPT ![p] = "running"]
       /\ grp' = [grp EXCEPT ![p] = group]
       /\ tail' = p
  /\ next' = next + 1
  /\ UNCHANGED << chain, pos, shell, leader, group, waited, status >>

\* fork fails: alarm_msg.
CannotStart ==
  /\ AtCommand("program")
  /\ tail' = "fail"
  /\ next' = next + 1
  /\ UNCHANGED << chain, pos, shell, leader, group, waited, status, world >>

\* A builtin runs in the leader; what it returns is dropped.
RunBuiltin ==
  /\ AtCommand("builtin")
  /\ tail' \in {"ok", "fail"}
  /\ next' = next + 1
  /\ UNCHANGED << chain, pos, shell, leader, group, waited, status, world >>

\* A redirection that cannot be opened: _exit(2) before the first command.
CannotRedirect ==
  /\ leader = "exec" /\ next = 1
  /\ leader' = "quit"
  /\ UNCHANGED << chain, pos, next, tail, shell, group, waited, status, world >>

\* exit ends the leader, whatever it has started.
LeaderQuits ==
  /\ AtCommand("exit")
  /\ leader' = "quit"
  /\ UNCHANGED << chain, pos, next, tail, shell, group, waited, status, world >>

EndOfPipeline ==
  /\ leader = "exec"
  /\ next > Len(chain[pos].cmds)
  /\ leader' = "wait"
  /\ UNCHANGED << chain, pos, next, tail, shell, group, waited, status, world >>

\* waitpid(0, &status, WUNTRACED): 0 is the group of the caller at the call.
CallWait ==
  /\ leader = "wait" /\ waited = "none"
  /\ waited' = group
  /\ UNCHANGED << chain, pos, next, tail, shell, leader, group, status, world >>

\* A zombie is collected, and its pid free again.
Collect(p) ==
  /\ st[p] \in Ended
  /\ status' = st[p]
  /\ tail' = IF tail = p THEN st[p] ELSE tail
  /\ st' = [st EXCEPT ![p] = "free"]
  /\ grp' = [grp EXCEPT ![p] = "none"]

\* (Fault) waitpid is called once.
WaitOnce(p) ==
  /\ leader = "wait" /\ grp[p] = waited
  /\ Collect(p)
  /\ leader' = "decide"
  /\ waited' = "none"
  /\ UNCHANGED << chain, pos, next, shell, group >>

WaitReports(p) ==
  /\ leader = "wait" /\ grp[p] = waited
  /\ \/ Collect(p)
     \/ /\ st[p] = "stopped"
        /\ st' = [st EXCEPT ![p] = "stopSeen"]
        /\ status' = "stopped"
        /\ UNCHANGED << tail, grp >>
  /\ waited' = "none"
  /\ UNCHANGED << chain, pos, next, shell, leader, group >>

\* (Fault) The loop ends only when every child has been collected.
WaitFailsLate ==
  /\ leader = "wait" /\ waited # "none"
  /\ Children = {}
  /\ leader' = "decide"
  /\ waited' = "none"
  /\ UNCHANGED << chain, pos, next, tail, shell, group, status, world >>

\* ECHILD: no child is left in the group.
WaitFails ==
  /\ leader = "wait" /\ waited # "none"
  /\ \A p \in Children : grp[p] # waited
  /\ leader' = "decide"
  /\ waited' = "none"
  /\ UNCHANGED << chain, pos, next, tail, shell, group, status, world >>

\* WIFSIGNALED: _exit(128 + signum)
ExitBySignal ==
  /\ leader = "decide" /\ status = "signal"
  /\ leader' = "ended"
  /\ UNCHANGED << chain, pos, next, tail, shell, group, waited, status, world >>

\* WIFEXITED: the next pipeline, with a status of its own, or _exit(exit_code).
GoToNext ==
  /\ leader = "decide" /\ status \in {"ok", "fail"}
  /\ pos' = Shift(pos, status = "ok")
  /\ IF pos' = 0 THEN leader' = "ended" /\ UNCHANGED status
                 ELSE leader' = "exec" /\ status' = "ok"
  /\ next' = 1
  /\ UNCHANGED << chain, tail, shell, group, waited, world >>

\* Neither: alarm_msg, and the loop runs the same pipeline again.
RunAgain ==
  /\ leader = "decide" /\ status = "stopped"
  /\ next' = 1
  /\ leader' = "exec"
  /\ status' = "ok"
  /\ UNCHANGED << chain, pos, tail, shell, group, waited, world >>
-----------------------------------------------------------------------------
(* The commands, and signals. *)

ProgramEnds(p) ==
  /\ p \in Running
  /\ \E result \in Ended : st' = [st EXCEPT ![p] = result]
  /\ UNCHANGED << chain, pos, next, tail, shell, leader, group, waited, status, grp >>

ProgramStops(p) ==
  /\ st[p] = "running"
  /\ st' = [st EXCEPT ![p] = "stopped"]
  /\ UNCHANGED << chain, pos, next, tail, shell, leader, group, waited, status, grp >>

ProgramContinues(p) ==
  /\ st[p] \in {"stopped", "stopSeen"}
  /\ st' = [st EXCEPT ![p] = "running"]
  /\ UNCHANGED << chain, pos, next, tail, shell, leader, group, waited, status, grp >>

\* The leader has the default handlers: a signal to its group kills it too.
LeaderDies ==
  /\ leader \in {"exec", "wait", "decide"}
  /\ leader' = "killed"
  /\ UNCHANGED << chain, pos, next, tail, shell, group, waited, status, world >>

Finished ==
  /\ shell \in {"idle", "exited"} /\ Running = {}
  /\ UNCHANGED vars

Shell ==
  \/ RunInShell \/ ShellFollows \/ ShellExits
  \/ ForkLeader \/ CannotFork \/ AddJob \/ CollectLeader

Leader ==
  \/ StartProgram \/ CannotStart \/ RunBuiltin \/ CannotRedirect \/ LeaderQuits
  \/ EndOfPipeline
  \/ CallWait \/ (\E p \in Procs : WaitReports(p)) \/ WaitFails
  \/ ExitBySignal \/ GoToNext \/ RunAgain

World ==
  \/ \E p \in Procs : ProgramEnds(p) \/ ProgramStops(p) \/ ProgramContinues(p)
  \/ LeaderDies

Next == Shell \/ Leader \/ World \/ Finished

Spec == Init /\ [][Next]_vars

\* The scheduler runs a leader that is not blocked in waitpid.
FairSpec == Spec /\ WF_vars(Leader)
-----------------------------------------------------------------------------
\* When the leader looks at the status of a pipeline, and when it has ended, the only
\* commands left are those it forked in the shell's group before setpgid came: whatever
\* it forked later has been collected, and if setpgid has not come yet nothing is left
\* (the waitpid loop, jobs.c:15).
JobCollected ==
  leader \in {"decide", "ended"} =>
    \A p \in Children : grp[p] = "shell" /\ group = "job"

\* The leader does not wait for commands that have all ended.
LeaderGoesOn == (leader = "wait" /\ Running = {}) ~> (leader # "wait" \/ Running # {})

\* The leader and the shell go through the chain as its gates demand of the statuses
\* that waitpid reported, and leave or repeat a pipeline only with what setpgid hid.
Meaning ==
  INSTANCE ChainSpec WITH
    commands <- st,
    overlooked <- {p \in Children : grp[p] # group},
    moved <- group = "job",
    aborted <- \/ leader \in {"quit", "killed"} \/ (leader = "ended" /\ pos # 0)
               \/ shell = "exited" \/ (shell = "idle" /\ leader = "none" /\ pos # 0)
ImplementsChain == Meaning!Spec

\* interpreter.c:126 puts the condition to the "return status of previous pipeline":
\* of a pipeline that is one builtin, with a gate behind it, what the builtin returned.
GateSeesStatus ==
  leader = "decide" /\ pos < Len(chain) /\ chain[pos].cmds = << "builtin" >> =>
    status = tail
=============================================================================
