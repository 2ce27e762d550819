-------------------------- MODULE ChainExecProofs --------------------------
(***************************************************************************)
(* Proofs about ChainExec, for chains of any length and any number of      *)
(* processes: a pipeline is over only when its commands in the job's group *)
(* have been collected, and the chain is followed as ChainSpec says.       *)
(***************************************************************************)
EXTENDS ChainExec, NatInduction

\* The parts of the state the proofs speak of.
Typed ==
  /\ chain \in Seq(Pipeline) /\ chain # << >>
  /\ pos \in 0..Len(chain)
  /\ next \in Nat \ {0}
  /\ shell \in {"line", "decide", "fork", "add", "wait", "idle", "exited"}
  /\ leader \in {"none", "exec", "wait", "decide", "ended", "quit", "killed"}
  /\ group \in {"shell", "job"}
  /\ waited \in {"none", "shell", "job"}
  /\ status \in Ended \cup {"stopped"}
  /\ st \in [Procs -> {"free"} \cup Alive \cup Ended]
  /\ grp \in [Procs -> {"none", "shell", "job"}]

\* The shell forks the leader from one of its lines, and both stand at a pipeline until
\* the chain is over.
InStep ==
  /\ leader # "none" => shell \in {"add", "wait", "idle"}
  /\ shell \in {"line", "decide"} => pos = 1
  /\ shell = "decide" => Sole("builtin") /\ status \in {"ok", "fail"}
  /\ shell = "fork" => pos # 0
  /\ leader \in {"exec", "wait", "decide", "quit", "killed"} => pos # 0
  /\ waited # "none" => leader \in {"wait", "killed"}

\* Until setpgid every command is in the shell's group, and so is each while the leader
\* waits for those in that group: it forks none then.
GroupsKept ==
  /\ \A p \in Children : grp[p] # "none"
  /\ leader = "none" => Children = {}
  /\ shell \in {"line", "decide", "fork", "add"} => group = "shell"
  /\ waited = "job" => group = "job"
  /\ group = "shell" \/ (leader = "wait" /\ waited = "shell") =>
       \A p \in Children : grp[p] = "shell"

\* Every pipeline begins with a status of its own, and a stop that was reported is that
\* of a command that is still there.
StatusKept ==
  /\ shell \in {"line", "fork"} \/ leader = "exec" => status = "ok"
  /\ leader \in {"wait", "decide"} /\ status = "stopped" => Children # {}

IInv == Typed /\ InStep /\ GroupsKept /\ StatusKept /\ JobCollected
-----------------------------------------------------------------------------
(* The safety of the waitpid loop. *)

LEMMA InitInv == Init => IInv
<1> SUFFICES ASSUME Init PROVE IInv
  OBVIOUS
<1>1. Typed
  BY ChainsAssumption DEF Init, Typed, Ended
<1>2. Children = {}
  BY DEF Init, Children
<1> QED
  BY <1>1, <1>2 DEF Init, IInv, InStep, GroupsKept, StatusKept, JobCollected

\* The pipelines behind i that a status of i lets run (ChainSpec, of the gates here).
Behind(i, ok) == {j \in (i + 1)..Len(chain) : Accepts(chain[j - 1].next, ok)}

\* The first pipeline behind the next one is the first behind this one, unless the
\* gate here lets the next one run.
LEMMA BehindNext ==
  ASSUME chain \in Seq(Pipeline), NEW i \in 1..Len(chain), NEW ok \in BOOLEAN
  PROVE  /\ i = Len(chain) => Behind(i, ok) = {}
         /\ i # Len(chain) /\ Accepts(chain[i].next, ok) =>
              Behind(i, ok) # {} /\ Min(Behind(i, ok)) = i + 1
         /\ i # Len(chain) /\ ~Accepts(chain[i].next, ok) =>
              i + 1 \in 1..Len(chain) /\ Behind(i, ok) = Behind(i + 1, ok)
<1>1. ASSUME i # Len(chain), Accepts(chain[i].next, ok)
      PROVE  Behind(i, ok) # {} /\ Min(Behind(i, ok)) = i + 1
  <2>1. i + 1 \in Behind(i, ok) /\ Behind(i, ok) \subseteq Nat
    BY <1>1 DEF Behind
  <2>2. \A j \in Behind(i, ok) : i + 1 <= j
    BY DEF Behind
  <2>3. Min(Behind(i, ok)) \in Behind(i, ok) /\ Min(Behind(i, ok)) <= i + 1
    BY <2>1, LeastOf
  <2> QED
    BY <2>1, <2>2, <2>3
<1>2. ASSUME i # Len(chain), ~Accepts(chain[i].next, ok)
      PROVE  i + 1 \in 1..Len(chain) /\ Behind(i, ok) = Behind(i + 1, ok)
  BY <1>2 DEF Behind
<1> QED
  BY <1>1, <1>2 DEF Behind

\* The loop of execute_foreground finds the first pipeline whose gate accepts the
\* status, however many it skips.
LEMMA ShiftFindsFirst ==
  ASSUME chain \in Seq(Pipeline), NEW i \in 1..Len(chain), NEW ok \in BOOLEAN
  PROVE  /\ Shift(i, ok) = IF Behind(i, ok) = {} THEN 0 ELSE Min(Behind(i, ok))
         /\ Shift(i, ok) \in 0..Len(chain)
<1> DEFINE n == Len(chain)
           First(j) == IF Behind(j, ok) = {} THEN 0 ELSE Min(Behind(j, ok))
           Turn(f, j) == IF j = n THEN 0
                         ELSE IF Accepts(chain[j].next, ok) THEN j + 1 ELSE f[j + 1]
           first == [j \in 1..n |-> First(j)]
           from == CHOOSE f : f = [j \in 1..n |-> Turn(f, j)]
<1>1. \A j \in 1..n : First(j) = Turn(first, j)
  <2> TAKE j \in 1..n
  <2>1. j # n => j + 1 \in 1..n
    OBVIOUS
  <2>2. j # n => first[j + 1] = First(j + 1)
    BY <2>1
  <2> HIDE DEF first
  <2> QED
    BY <2>2, BehindNext
<1>2. from = [j \in 1..n |-> Turn(from, j)]
  <2>1. first = [j \in 1..n |-> Turn(first, j)]
    BY <1>1
  <2> HIDE DEF first, Turn
  <2> QED
    BY <2>1
<1>3. Shift(i, ok) = from[i]
  BY DEF Shift
<1> HIDE DEF from, first
<1>4. ASSUME NEW j \in 1..n, from[j] # First(j) PROVE FALSE
  <2> DEFINE Wrong == {k \in 0..n : \E m \in 1..n : k = n - m /\ from[m] # First(m)}
  <2>1. n - j \in Wrong /\ Wrong \subseteq Nat
    BY <1>4
  <2>2. PICK k \in Wrong : \A m \in Wrong : k <= m
    <3> HIDE DEF Wrong
    <3> QED
      BY <2>1, Least
  <2>3. PICK m \in 1..n : k = n - m /\ from[m] # First(m)
    BY <2>2
  <2>4. m # n => m + 1 \in 1..n /\ from[m + 1] = First(m + 1)
    <3> SUFFICES ASSUME m # n, from[m + 1] # First(m + 1) PROVE FALSE
      OBVIOUS
    <3>1. m + 1 \in 1..n /\ n - (m + 1) \in 0..n
      OBVIOUS
    <3>2. n - (m + 1) \in Wrong
      <4> HIDE DEF First
      <4> QED
        BY <3>1
    <3>3. k <= n - (m + 1)
      BY <3>2, <2>2
    <3> QED
      BY <3>3, <2>3
  <2>5. from[m] = Turn(from, m)
    BY <1>2
  <2>6. m # n => first[m + 1] = First(m + 1)
    BY <2>4 DEF first
  <2>7. First(m) = Turn(first, m)
    BY <1>1
  <2> HIDE DEF First
  <2> QED
    BY <2>3, <2>4, <2>5, <2>6, <2>7
<1>5. First(i) \in 0..n
  <2>1. Behind(i, ok) \subseteq 1..n
    BY DEF Behind
  <2> QED
    BY <2>1, LeastOf
<1> QED
  BY <1>3, <1>4, <1>5
-----------------------------------------------------------------------------
(* Typing, and the shell and the leader in step. *)

LEMMA StepTyped ==
  ASSUME Typed, InStep, [Next]_vars
  PROVE  Typed' /\ InStep'
<1> USE DEF Typed, InStep, world, Sole
<1>0. Typed /\ InStep
  OBVIOUS
<1>s. 1 \in 1..Len(chain)
  BY <1>0
<1>1. CASE RunInShell
  BY <1>0, <1>1 DEF RunInShell, Ended
<1>2. CASE ShellFollows
  <2>1. pos' \in 0..Len(chain)
    BY <1>0, <1>2, <1>s, ShiftFindsFirst DEF ShellFollows
  <2> QED
    BY <1>0, <1>2, <2>1 DEF ShellFollows, Ended
<1>3. CASE ShellExits
  BY <1>0, <1>3 DEF ShellExits
<1>4. CASE ForkLeader
  BY <1>0, <1>4 DEF ForkLeader, AtFork
<1>5. CASE CannotFork
  BY <1>0, <1>5 DEF CannotFork, AtFork
<1>6. CASE AddJob \/ CollectLeader
  BY <1>0, <1>6 DEF AddJob, CollectLeader
<1>7. CASE StartProgram
  BY <1>0, <1>7 DEF StartProgram, AtCommand, Alive, Ended
<1>8. CASE CannotStart \/ RunBuiltin
  BY <1>0, <1>8 DEF CannotStart, RunBuiltin, AtCommand
<1>9. CASE CannotRedirect \/ LeaderQuits
  BY <1>0, <1>9 DEF CannotRedirect, LeaderQuits, AtCommand
<1>10. CASE EndOfPipeline
  BY <1>0, <1>10 DEF EndOfPipeline
<1>11. CASE CallWait
  BY <1>0, <1>11 DEF CallWait
<1>12. ASSUME NEW p \in Procs, WaitReports(p) PROVE Typed' /\ InStep'
  BY <1>0, <1>12 DEF WaitReports, Collect, Alive, Ended
<1>13. CASE WaitFails
  BY <1>0, <1>13 DEF WaitFails
<1>14. CASE ExitBySignal
  BY <1>0, <1>14 DEF ExitBySignal
<1>15. CASE GoToNext
  <2>1. pos \in 1..Len(chain)
    BY <1>0, <1>15 DEF GoToNext
  <2>2. pos' \in 0..Len(chain)
    BY <1>0, <1>15, <2>1, ShiftFindsFirst DEF GoToNext
  <2> QED
    BY <1>0, <1>15, <2>2 DEF GoToNext, Ended
<1>16. CASE RunAgain
  BY <1>0, <1>16 DEF RunAgain, Ended
<1>17. ASSUME NEW p \in Procs, ProgramEnds(p) \/ ProgramStops(p) \/ ProgramContinues(p)
       PROVE  Typed' /\ InStep'
  BY <1>0, <1>17 DEF ProgramEnds, ProgramStops, ProgramContinues, Alive, Ended
<1>18. CASE LeaderDies
  BY <1>0, <1>18 DEF LeaderDies
<1>19. CASE UNCHANGED vars
  BY <1>0, <1>19 DEF vars
<1> QED
  BY <1>1, <1>2, <1>3, <1>4, <1>5, <1>6, <1>7, <1>8, <1>9, <1>10, <1>11, <1>12, <1>13,
     <1>14, <1>15, <1>16, <1>17, <1>18, <1>19
  DEF Next, Shell, Leader, World, Finished

\* Only these steps matter for the groups of the children: the leader forks in its own
\* group and does not wait then; setpgid; a waitpid call fixes the group; and
\* commands are collected.
LEMMA StepCollected ==
  ASSUME IInv, [Next]_vars
  PROVE  GroupsKept' /\ StatusKept' /\ JobCollected'
<1> USE DEF IInv, InStep, GroupsKept, StatusKept, JobCollected, Children, world
<1>0. Typed /\ InStep /\ GroupsKept /\ StatusKept /\ JobCollected
  OBVIOUS
<1>1. CASE RunInShell \/ ShellExits \/ CannotFork
  BY <1>0, <1>1 DEF RunInShell, ShellExits, CannotFork, AtFork
<1>2. CASE ShellFollows
  BY <1>0, <1>2 DEF ShellFollows
<1>3. CASE ForkLeader
  BY <1>0, <1>3 DEF ForkLeader, AtFork
<1>4. CASE AddJob \/ CollectLeader
  BY <1>0, <1>4 DEF AddJob, CollectLeader, Typed
<1>5. CASE StartProgram
  <2>1. PICK p \in Procs : /\ st[p] = "free"
                           /\ st' = [st EXCEPT ![p] = "running"]
                           /\ grp' = [grp EXCEPT ![p] = group]
    BY <1>5 DEF StartProgram
  <2>2. \A q \in Procs : q # p => st'[q] = st[q] /\ grp'[q] = grp[q]
    BY <2>1 DEF Typed
  <2>3. grp'[p] = group /\ group # "none"
    BY <2>1 DEF Typed
  <2>4. leader = "exec" /\ UNCHANGED << shell, leader, group, waited, status >>
    BY <1>5 DEF StartProgram, AtCommand
  <2> QED
    BY <1>0, <2>2, <2>3, <2>4
<1>6. CASE CannotStart \/ RunBuiltin \/ CannotRedirect \/ LeaderQuits
  BY <1>0, <1>6 DEF CannotStart, RunBuiltin, CannotRedirect, LeaderQuits, AtCommand
<1>7. CASE EndOfPipeline
  BY <1>0, <1>7 DEF EndOfPipeline
<1>8. CASE CallWait
  BY <1>0, <1>8 DEF CallWait
<1>9. ASSUME NEW p \in Procs, WaitReports(p)
      PROVE  GroupsKept' /\ StatusKept' /\ JobCollected'
  <2>1. leader' = "wait" /\ waited' = "none" /\ leader = "wait" /\ UNCHANGED << shell, group >>
    BY <1>9 DEF WaitReports
  <2>2. \A q \in Procs : st'[q] # "free" => st[q] # "free" /\ grp'[q] = grp[q]
    BY <1>0, <1>9 DEF WaitReports, Collect, Typed
  <2>3. status' = "stopped" => st'[p] # "free"
    BY <1>0, <1>9 DEF WaitReports, Collect, Typed, Ended
  <2> QED
    BY <1>0, <2>1, <2>2, <2>3
<1>10. CASE WaitFails
  <2>1. waited = "shell" => Children = {}
    BY <1>0, <1>10 DEF WaitFails
  <2>2. waited = "job" => \A p \in Children : grp[p] = "shell"
    BY <1>0, <1>10 DEF WaitFails, Typed
  <2> QED
    BY <1>0, <1>10, <2>1, <2>2 DEF WaitFails, Typed
<1>11. CASE ExitBySignal \/ RunAgain
  BY <1>0, <1>11 DEF ExitBySignal, RunAgain
<1>12. CASE GoToNext
  BY <1>0, <1>12 DEF GoToNext
<1>13. ASSUME NEW p \in Procs, ProgramEnds(p) \/ ProgramStops(p) \/ ProgramContinues(p)
       PROVE  GroupsKept' /\ StatusKept' /\ JobCollected'
  <2>1. \A q \in Procs : st'[q] # "free" <=> st[q] # "free"
    BY <1>0, <1>13 DEF ProgramEnds, ProgramStops, ProgramContinues, Typed, Running, Alive,
                       Ended
  <2>2. UNCHANGED << grp, shell, leader, group, waited, status >>
    BY <1>13 DEF ProgramEnds, ProgramStops, ProgramContinues
  <2> QED
    BY <1>0, <2>1, <2>2
<1>14. CASE LeaderDies
  BY <1>0, <1>14 DEF LeaderDies
<1>15. CASE UNCHANGED vars
  BY <1>0, <1>15 DEF vars
<1> QED
  BY <1>1, <1>2, <1>3, <1>4, <1>5, <1>6, <1>7, <1>8, <1>9, <1>10, <1>11, <1>12, <1>13, <1>14,
     <1>15
  DEF Next, Shell, Leader, World, Finished

\* The inductive invariant of every chain.
THEOREM Inductive == Spec => []IInv
<1>1. IInv /\ [Next]_vars => IInv'
  BY StepTyped, StepCollected DEF IInv
<1> QED
  BY InitInv, <1>1, PTL DEF Spec

\* When the leader looks at the status of a pipeline, and when it has ended, the only
\* commands left are those it forked in the shell's group before setpgid came, and none
\* if it has not come yet (the waitpid loop of execute_foreground, jobs.c:15).
THEOREM PipelineIsCollected == Spec => []JobCollected
<1>1. IInv => JobCollected
  BY DEF IInv
<1> QED
  BY Inductive, <1>1, PTL
-----------------------------------------------------------------------------
(* The chain is followed as ChainSpec says. *)

Aborted ==
  \/ leader \in {"quit", "killed"} \/ (leader = "ended" /\ pos # 0)
  \/ shell = "exited" \/ (shell = "idle" /\ leader = "none" /\ pos # 0)

Overlooked == {p \in Children : grp[p] # group}

\* What ChainSpec looks at is what Shift finds.
LEMMA ShiftFollows ==
  ASSUME Typed, pos # 0, NEW ok \in BOOLEAN
  PROVE  Shift(pos, ok) = Meaning!First(Meaning!Accepting(pos, ok))
<1>1. pos \in 1..Len(chain)
  BY DEF Typed
<1>2. Meaning!Accepting(pos, ok) = Behind(pos, ok)
  BY <1>1 DEF Meaning!Accepting, Meaning!Accepts, Behind, Accepts, Typed
<1> QED
  BY <1>1, <1>2, ShiftFindsFirst DEF Typed, Min, Meaning!Min, Meaning!First

\* A step that shifts is a step of ChainSpec: every command there has been overlooked.
LEMMA Follows ==
  ASSUME Typed, pos # 0, ~Aborted, ~Aborted', Children = Overlooked,
         status \in {"ok", "fail"},
         pos' = Shift(pos, status = "ok"),
         status' = IF pos' = 0 THEN status ELSE "ok",
         UNCHANGED << chain, group, st, grp >>
  PROVE  Meaning!Follow
<1>1. pos' = Meaning!First(Meaning!Accepting(pos, status = "ok"))
  BY ShiftFollows
<1>2. Children' = Children /\ Meaning!There = Children
  BY DEF Children, Meaning!There
<1>3. Meaning!Runs
  BY DEF Meaning!Runs, Aborted
<1> HIDE DEF Children
<1> QED
  BY <1>1, <1>2, <1>3 DEF Meaning!Follow, Aborted, Overlooked

\* One that gives the chain up is one, too.
LEMMA Aborts ==
  ASSUME pos # 0, ~Aborted, Aborted', UNCHANGED << chain, pos, st, grp, group, status >>
  PROVE  Meaning!Abort
BY DEF Meaning!Abort, Meaning!Runs, Aborted, Children

\* And one that does neither is none.
LEMMA Stutters ==
  ASSUME Aborted' = Aborted, UNCHANGED << chain, pos, st, grp, group, status >>
  PROVE  UNCHANGED Meaning!vars
BY DEF Meaning!vars, Aborted, Children

\* A command that the leader starts is not overlooked.
LEMMA Starts ==
  ASSUME IInv, StartProgram
  PROVE  \E p \in Procs : Meaning!Start(p)
<1>1. PICK p \in Procs : /\ st[p] = "free"
                         /\ st' = [st EXCEPT ![p] = "running"]
                         /\ grp' = [grp EXCEPT ![p] = group]
  BY DEF StartProgram
<1>2. leader = "exec" /\ UNCHANGED << chain, pos, shell, leader, group, status >>
  BY DEF StartProgram, AtCommand
<1>3. ~Aborted /\ ~Aborted' /\ pos # 0
  BY <1>2 DEF Aborted, IInv, InStep
<1>4. next \in DOMAIN chain[pos].cmds /\ chain[pos].cmds[next] = "program"
  <2>1. pos \in 1..Len(chain) /\ chain \in Seq(Pipeline) /\ next \in Nat \ {0}
    BY <1>3 DEF IInv, Typed
  <2>2. chain[pos] \in Pipeline
    BY <2>1
  <2>3. chain[pos].cmds \in Seq(Kinds)
    BY <2>2 DEF Pipeline
  <2> QED
    BY <2>1, <2>3 DEF StartProgram, AtCommand
<1>5. Overlooked' = Overlooked
  <2>1. \A q \in Procs : q # p => st'[q] = st[q] /\ grp'[q] = grp[q]
    BY <1>1 DEF IInv, Typed
  <2>2. st'[p] = "running" /\ grp'[p] = group
    BY <1>1 DEF IInv, Typed
  <2> QED
    BY <1>1, <1>2, <2>1, <2>2 DEF Overlooked, Children
<1> QED
  BY <1>1, <1>2, <1>3, <1>4, <1>5 DEF Meaning!Start, Meaning!Runs, Aborted, Overlooked

\* What waitpid reports the pipeline gets to know, of an overlooked command, too.
LEMMA Reports ==
  ASSUME IInv, NEW p \in Procs, WaitReports(p)
  PROVE  Meaning!Ended(p) \/ Meaning!Stopped(p)
<1>1. leader = "wait" /\ UNCHANGED << chain, pos, shell, leader, group >>
  BY DEF WaitReports
<1>2. ~Aborted /\ ~Aborted' /\ pos # 0
  BY <1>1 DEF Aborted, IInv, InStep
<1>3. \A q \in Procs : q # p => st'[q] = st[q] /\ grp'[q] = grp[q]
  BY DEF WaitReports, Collect, IInv, Typed
<1>4. CASE Collect(p)
  <2>1. st'[p] = "free" /\ st[p] # "free"
    BY <1>4 DEF Collect, IInv, Typed, Ended
  <2>2. Overlooked' = Overlooked \ {p}
    BY <1>1, <1>3, <2>1 DEF Overlooked, Children
  <2> QED
    BY <1>1, <1>2, <1>4, <2>2
    DEF Collect, Meaning!Ended, Meaning!Runs, Meaning!Ends, Ended, Aborted, Overlooked
<1>5. CASE /\ st[p] = "stopped"
           /\ st' = [st EXCEPT ![p] = "stopSeen"]
           /\ status' = "stopped"
           /\ UNCHANGED << tail, grp >>
  <2>1. st'[p] = "stopSeen"
    BY <1>5 DEF IInv, Typed
  <2>2. Overlooked' = Overlooked
    BY <1>1, <1>3, <1>5, <2>1 DEF Overlooked, Children
  <2> QED
    BY <1>1, <1>2, <1>5, <2>2 DEF Meaning!Stopped, Meaning!Runs, Aborted, Overlooked
<1> QED
  BY <1>4, <1>5 DEF WaitReports

\* A command that ends, stops or continues does so in ChainSpec.
LEMMA CommandChanges ==
  ASSUME IInv, NEW p \in Procs, ProgramEnds(p) \/ ProgramStops(p) \/ ProgramContinues(p)
  PROVE  Meaning!Changes(p)
<1>1. UNCHANGED << chain, pos, shell, leader, group, status, grp >>
  BY DEF ProgramEnds, ProgramStops, ProgramContinues
<1>2. PICK s \in Ended \cup {"running", "stopped"} :
        st[p] \in Alive /\ st' = [st EXCEPT ![p] = s]
  BY DEF ProgramEnds, ProgramStops, ProgramContinues, Running, Alive, Ended
<1>3. \A q \in Procs : st'[q] # "free" <=> st[q] # "free"
  BY <1>2 DEF IInv, Typed, Alive, Ended
<1>4. Overlooked' = Overlooked
  BY <1>1, <1>3 DEF Overlooked, Children
<1> QED
  BY <1>1, <1>2, <1>4
  DEF Meaning!Changes, Meaning!Live, Meaning!Ends, Alive, Ended, Overlooked

\* When the leader decides, whatever is there has been overlooked.
LEMMA DecidesAlone ==
  ASSUME IInv, leader = "decide"
  PROVE  Children = Overlooked
BY DEF IInv, JobCollected, Overlooked

\* Every step of the shell, of the leader and of the world is one of the chain or leaves
\* it alone.
LEMMA StepFollows ==
  ASSUME IInv, [Next]_vars
  PROVE  [Meaning!Next]_(Meaning!vars)
<1> DEFINE Goal == Meaning!Next \/ UNCHANGED Meaning!vars
<1> SUFFICES Goal
  OBVIOUS
<1> USE DEF InStep, Aborted, world
<1>0. InStep /\ GroupsKept /\ StatusKept /\ Typed
  BY DEF IInv
<1>1. CASE RunInShell
  <2>1. /\ pos = 1 /\ ~Aborted /\ ~Aborted' /\ chain[1].cmds = << "builtin" >>
        /\ status' \in {"ok", "fail"} /\ UNCHANGED << chain, pos, st, grp, group >>
    BY <1>0, <1>1 DEF RunInShell, Sole
  <2>2. Meaning!Builtin
    BY <2>1 DEF Meaning!Builtin, Meaning!Runs, Children
  <2> QED
    BY <2>2 DEF Meaning!Next
<1>2. CASE ShellFollows
  <2>1. pos = 1 /\ leader = "none" /\ ~Aborted /\ ~Aborted' /\ status \in {"ok", "fail"}
    BY <1>0, <1>2 DEF ShellFollows
  <2>2. Children = Overlooked
    BY <1>0, <2>1 DEF GroupsKept, Overlooked
  <2>3. /\ pos' = Shift(pos, status = "ok") /\ status' = IF pos' = 0 THEN status ELSE "ok"
        /\ UNCHANGED << chain, group, st, grp >>
    BY <1>2, <2>1 DEF ShellFollows
  <2>4. Meaning!Follow
    <3> HIDE DEF Aborted
    <3> QED
      BY <1>0, <2>1, <2>2, <2>3, Follows
  <2> QED
    BY <2>4 DEF Meaning!Next
<1>3. CASE ShellExits \/ CannotFork
  <2>1. pos # 0 /\ ~Aborted /\ Aborted' /\ UNCHANGED << chain, pos, st, grp, group, status >>
    BY <1>0, <1>3 DEF ShellExits, CannotFork, AtFork
  <2> QED
    BY <2>1, Aborts DEF Meaning!Next
<1>4. CASE ForkLeader \/ CollectLeader
  <2>1. Aborted' = Aborted /\ UNCHANGED << chain, pos, st, grp, group, status >>
    BY <1>0, <1>4 DEF ForkLeader, CollectLeader, AtFork
  <2> QED
    BY <2>1, Stutters
<1>5. CASE AddJob
  <2>1. Aborted' = Aborted /\ UNCHANGED << chain, pos, st, grp, status >>
    BY <1>0, <1>5 DEF AddJob
  <2>2. group = "shell" /\ group' = "job"
    BY <1>0, <1>5 DEF AddJob, GroupsKept
  <2>3. Overlooked' = Children
    BY <1>0, <2>1, <2>2 DEF GroupsKept, Overlooked, Children
  <2>4. Meaning!Overlook
    BY <2>1, <2>2, <2>3 DEF Meaning!Overlook, Meaning!There, Overlooked, Children
  <2> QED
    BY <2>4 DEF Meaning!Next
<1>6. CASE StartProgram
  BY <1>6, Starts DEF Meaning!Next
<1>7. CASE CannotStart \/ RunBuiltin \/ EndOfPipeline \/ CallWait \/ WaitFails
  <2>1. Aborted' = Aborted /\ UNCHANGED << chain, pos, st, grp, group, status >>
    BY <1>0, <1>7 DEF CannotStart, RunBuiltin, EndOfPipeline, CallWait, WaitFails, AtCommand
  <2> QED
    BY <2>1, Stutters
<1>8. CASE CannotRedirect \/ LeaderQuits \/ ExitBySignal \/ LeaderDies
  <2>1. pos # 0 /\ ~Aborted /\ Aborted' /\ UNCHANGED << chain, pos, st, grp, group, status >>
    BY <1>0, <1>8 DEF CannotRedirect, LeaderQuits, ExitBySignal, LeaderDies, AtCommand
  <2> QED
    BY <2>1, Aborts DEF Meaning!Next
<1>9. CASE GoToNext
  <2>1. pos # 0 /\ ~Aborted /\ ~Aborted' /\ status \in {"ok", "fail"}
    BY <1>0, <1>9 DEF GoToNext
  <2>2. Children = Overlooked
    BY <1>9, DecidesAlone DEF GoToNext
  <2>3. /\ pos' = Shift(pos, status = "ok") /\ status' = IF pos' = 0 THEN status ELSE "ok"
        /\ UNCHANGED << chain, group, st, grp >>
    BY <1>9 DEF GoToNext
  <2>4. Meaning!Follow
    <3> HIDE DEF Aborted
    <3> QED
      BY <1>0, <2>1, <2>2, <2>3, Follows
  <2> QED
    BY <2>4 DEF Meaning!Next
<1>10. CASE RunAgain
  <2>1. /\ pos # 0 /\ ~Aborted /\ ~Aborted' /\ status = "stopped" /\ status' = "ok"
        /\ UNCHANGED << chain, pos, st, grp, group >>
    BY <1>0, <1>10 DEF RunAgain
  <2>2. Children = Overlooked /\ Children # {}
    BY <1>0, <1>10, DecidesAlone DEF RunAgain, StatusKept
  <2>3. Meaning!Again
    BY <2>1, <2>2 DEF Meaning!Again, Meaning!Runs, Meaning!There, Overlooked, Children
  <2> QED
    BY <2>3 DEF Meaning!Next
<1>11. ASSUME NEW p \in Procs, WaitReports(p) PROVE Goal
  BY <1>11, Reports DEF Meaning!Next
<1>12. ASSUME NEW p \in Procs, ProgramEnds(p) \/ ProgramStops(p) \/ ProgramContinues(p)
       PROVE  Goal
  BY <1>12, CommandChanges DEF Meaning!Next
<1>13. CASE UNCHANGED vars
  BY <1>13, Stutters DEF vars
<1> QED
  BY <1>1, <1>2, <1>3, <1>4, <1>5, <1>6, <1>7, <1>8, <1>9, <1>10, <1>11, <1>12, <1>13
  DEF Next, Shell, Leader, World, Finished

\* The gates are followed on the statuses that waitpid reported: the pipeline to run next is
\* the first whose gate accepts the status of the command reported last, no pipeline is
\* left with a command there unless setpgid hid it, and only such a command that has
\* stopped has its pipeline run again (execute_foreground).
THEOREM ChainIsFollowed == Spec => ImplementsChain
<1>1. Init => Meaning!Init
  BY DEF Init, Meaning!Init, Children
<1>2. IInv /\ [Next]_vars => [Meaning!Next]_(Meaning!vars)
  BY StepFollows
<1> QED
  BY <1>1, <1>2, Inductive, PTL DEF Spec, ImplementsChain, Meaning!Spec
=============================================================================
