----------------------------- MODULE JobControl -----------------------------
(***************************************************************************)
(* Job control of zhsh: the command loop, execute_foreground,              *)
(* execute_background, wait_jobs, fg, bg, jobs and exit, run by the shell  *)
(* and by every copy of it, over the kernel's process table and terminal.  *)
(*                                                                         *)
(* execute_background forks and its child branch is empty: the child       *)
(* returns into the caller's loop and goes on as a second zhsh, with a     *)
(* copy of the jobs list, the rest of the line to run and SHELL_PID still  *)
(* the first shell's.  Such a child is called a copy.  A process is        *)
(* therefore unused, a command (the leader of a job), or a shell.          *)
(*                                                                         *)
(* The model follows a session until the first shell dies or is suspended, *)
(* or a shell reads a freed cell.  Not modelled: reuse of pids, failing    *)
(* forks (the code only reports them), the commands below a job's leader   *)
(* (a job is its leader; SIGCONT and tcsetpgrp reach its group).           *)
(***************************************************************************)
EXTENDS JobTable, FiniteSets

CONSTANTS Main,        \* the first shell: SHELL_PID
          NoPid,       \* no process
          MaxCopies,   \* bound: how many background chains a session may fork
          LeaderBuiltins  \* do lines use fg, bg or exit inside a longer chain?

ASSUME MainAssumption == Main \in Pids
ASSUME NoPidAssumption == NoPid \notin Pids
ASSUME MaxCopiesAssumption == MaxCopies \in Nat
ASSUME LeaderBuiltinsAssumption == LeaderBuiltins \in BOOLEAN

VARIABLES
  \* The kernel.
  state,      \* of every process; "stopSeen": stopped, and wait told its parent
  parent,     \* the process that forked it
  pgid,       \* its process group
  fgPgrp,     \* the terminal's foreground group
  ttyMode,    \* "raw": setup_tty, "canon": reset_tty
  \* Each shell process.
  pc,         \* where its code is; "cmd" for a command, "gone" for a dead shell
  list,       \* its jobs list
  stale,      \* its jobs->tail->next points at a freed cell
  lastUpd,    \* last_updt_job
  job,        \* the job its current handler works on
  cursor      \* wait_jobs: the position of the cell to look at

kernel == << state, parent, pgid, fgPgrp, ttyMode >>
table == << list, stale, lastUpd >>
vars == << kernel, pc, table, job, cursor >>

States == {"free", "running", "stopped", "stopSeen", "zombie", "reaped"}

FgSteps == {"fgset", "fgcont", "fgwait", "fgend"}
BgSteps == {"bgcont", "bgend"}
Adding == {"addfg", "addbg"}
Working == {"reap", "read", "line"} \cup Adding \cup FgSteps \cup BgSteps
Pcs == Working \cup {"none", "cmd", "gone", "undefined"}

Alive(p) == state[p] \in {"running", "stopped", "stopSeen"}

\* A zombie still holds its pid and its place in its group.
InKernel(p) == Alive(p) \/ state[p] = "zombie"

IsShell(p) == pc[p] \notin {"none", "cmd"}

Copies == {p \in Pids \ {Main} : IsShell(p)}

\* A session is followed while the first shell runs and all code is defined.
SessionOn == state[Main] = "running" /\ \A s \in Pids : pc[s] # "undefined"

\* Shell s is scheduled and its code is at l.
At(s, l) == SessionOn /\ state[s] = "running" /\ pc[s] = l

GoTo(s, l) == pc' = [pc EXCEPT ![s] = l]

ChildOf(s, p) == parent[p] = s /\ state[p] # "reaped"
-----------------------------------------------------------------------------
Init ==
  /\ state = [p \in Pids |-> IF p = Main THEN "running" ELSE "free"]
  /\ parent = [p \in Pids |-> NoPid]
  /\ pgid = [p \in Pids |-> IF p = Main THEN Main ELSE NoPid]
  /\ fgPgrp = Main
  /\ ttyMode = "raw"
  /\ pc = [p \in Pids |-> IF p = Main THEN "reap" ELSE "none"]
  /\ list = [p \in Pids |-> << >>]
  /\ stale = [p \in Pids |-> FALSE]
  /\ lastUpd = [p \in Pids |-> NoJob]
  /\ job = [p \in Pids |-> NoPid]
  /\ cursor = [p \in Pids |-> 1]
-----------------------------------------------------------------------------
(* What the kernel does. *)

\* The processes in D die.  The orphans' zombies are collected by init.
Dead(D) ==
  [p \in Pids |->
     IF p \in D
     THEN IF parent[p] \in D \/ (parent[p] \in Pids /\ ~Alive(parent[p]))
          THEN "reaped" ELSE "zombie"
     ELSE IF state[p] = "zombie" /\ parent[p] \in D THEN "reaped" ELSE state[p]]

PcOfDead(D) == [p \in Pids |-> IF p \in D /\ IsShell(p) THEN "gone" ELSE pc[p]]

\* kill(-g, SIGCONT)
Continued(g) ==
  [p \in Pids |-> IF pgid[p] = g /\ state[p] \in {"stopped", "stopSeen"}
                  THEN "running" ELSE state[p]]

\* tcsetpgrp(tty, g) fails unless g is a group of the session.
Foreground(g) == IF \E p \in Pids : InKernel(p) /\ pgid[p] = g THEN g ELSE fgPgrp

\* fork() in shell s.  Process p starts in the group of s.
Fork(s, p) ==
  /\ state[p] = "free"
  /\ state' = [state EXCEPT ![p] = "running"]
  /\ parent' = [parent EXCEPT ![p] = s]
  /\ pgid' = [pgid EXCEPT ![p] = pgid[s]]
-----------------------------------------------------------------------------
(* wait_jobs: one iteration of its loop is one step.  job->next is read      *)
(* before the cell is removed; at the tail it may be stale, and reading the  *)
(* freed cell either leaves defined behaviour or happens to look like NULL.  *)

NextCell(s) ==
  \/ UNCHANGED pc
  \/ cursor[s] = Len(list[s]) /\ stale[s] /\ GoTo(s, "undefined")

AtCell(s, p) ==
  /\ At(s, "reap")
  /\ cursor[s] \in 1..Len(list[s])
  /\ list[s][cursor[s]].pid = p

RemoveCell(s) ==
  /\ list' = [list EXCEPT ![s] = remove_job(list[s], cursor[s])]
  /\ stale' = [stale EXCEPT ![s] = Dangles(list[s], stale[s], cursor[s])]

\* waitpid returns 0: the child has not died.
ReapNothing(s) == \E p \in Pids :
  /\ AtCell(s, p)
  /\ ChildOf(s, p) /\ Alive(p)
  /\ cursor' = [cursor EXCEPT ![s] = cursor[s] + 1]
  /\ NextCell(s)
  /\ UNCHANGED << kernel, table, job >>

\* (Fault) The loop goes on from the removed cell's successor twice.
ReapDeadAndSkip(s) == \E p \in Pids :
  /\ AtCell(s, p)
  /\ ChildOf(s, p) /\ state[p] = "zombie"
  /\ state' = [state EXCEPT ![p] = "reaped"]
  /\ RemoveCell(s)
  /\ NextCell(s)
  /\ cursor' = [cursor EXCEPT ![s] = cursor[s] + 1]
  /\ UNCHANGED << parent, pgid, fgPgrp, ttyMode, lastUpd, job >>

\* waitpid collects the child: its status is printed and the job removed.
ReapDead(s) == \E p \in Pids :
  /\ AtCell(s, p)
  /\ ChildOf(s, p) /\ state[p] = "zombie"
  /\ state' = [state EXCEPT ![p] = "reaped"]
  /\ RemoveCell(s)
  /\ NextCell(s)
  /\ UNCHANGED << parent, pgid, fgPgrp, ttyMode, lastUpd, job, cursor >>

\* (Fault) The job is kept, and the loop does not advance (a continue).
ReapMissingContinues(s) == \E p \in Pids :
  /\ AtCell(s, p)
  /\ ~ChildOf(s, p)
  /\ UNCHANGED vars

\* (Fault) ret <= 0: a child that has not died is removed as well.
ReapMissingOrAlive(s) == \E p \in Pids :
  /\ AtCell(s, p)
  /\ ~ChildOf(s, p) \/ Alive(p)
  /\ RemoveCell(s)
  /\ NextCell(s)
  /\ UNCHANGED << kernel, lastUpd, job, cursor >>

\* waitpid fails with ECHILD: collected before, or not this process's child.
ReapMissing(s) == \E p \in Pids :
  /\ AtCell(s, p)
  /\ ~ChildOf(s, p)
  /\ RemoveCell(s)
  /\ NextCell(s)
  /\ UNCHANGED << kernel, lastUpd, job, cursor >>

\* The end of the list: promt() and the blocking read.
ReapEnd(s) ==
  /\ At(s, "reap")
  /\ cursor[s] > Len(list[s])
  /\ GoTo(s, "read")
  /\ cursor' = [cursor EXCEPT ![s] = 1]
  /\ UNCHANGED << kernel, table, job >>
-----------------------------------------------------------------------------
(* The command loop.  A line is any sequence of chains and builtins. *)

\* The user's Enter reaches the shell in the foreground.
ReadLine(s) ==
  /\ At(s, "read")
  /\ fgPgrp = pgid[s]
  /\ GoTo(s, "line")
  /\ UNCHANGED << kernel, table, job, cursor >>

\* Reading from the background: SIGTTIN, which nothing ignores.  (In a copy whose
\* parent is dead the read fails instead, and it gets no further.)
ReadInBackground(s) ==
  /\ At(s, "read")
  /\ fgPgrp # pgid[s]
  /\ parent[s] \in Pids => Alive(parent[s])
  /\ state' = [state EXCEPT ![s] = "stopped"]
  /\ UNCHANGED << parent, pgid, fgPgrp, ttyMode, pc, table, job, cursor >>

\* The next round of the loop: wait_jobs starts at the head.
EndOfLine(s) ==
  /\ At(s, "line")
  /\ GoTo(s, "reap")
  /\ cursor' = [cursor EXCEPT ![s] = 1]
  /\ UNCHANGED << kernel, table, job >>

\* execute_foreground, up to the fork of the job's leader.
RunForeground(s) == \E p \in Pids :
  /\ At(s, "line")
  /\ Fork(s, p)
  /\ pc' = [pc EXCEPT ![s] = "addfg", ![p] = "cmd"]
  /\ job' = [job EXCEPT ![s] = p]
  /\ UNCHANGED << fgPgrp, ttyMode, table, cursor >>

\* execute_background: the child keeps everything, and goes on with the line.
RunBackground(s) == \E p \in Pids :
  /\ At(s, "line")
  /\ Cardinality(Copies) < MaxCopies
  /\ Fork(s, p)
  /\ pc' = [pc EXCEPT ![s] = "addbg", ![p] = "line"]
  /\ list' = [list EXCEPT ![p] = list[s]]
  /\ stale' = [stale EXCEPT ![p] = stale[s]]
  /\ lastUpd' = [lastUpd EXCEPT ![p] = lastUpd[s]]
  /\ job' = [job EXCEPT ![s] = p]
  /\ UNCHANGED << fgPgrp, ttyMode, cursor >>

\* (Fault) The job is left in the group of the shell.
AddJobWithoutGroup(s) ==
  /\ SessionOn /\ state[s] = "running" /\ pc[s] \in Adding
  /\ list' = [list EXCEPT ![s] = add_job(list[s], job[s])]
  /\ stale' = [stale EXCEPT ![s] = FALSE]
  /\ lastUpd' = [lastUpd EXCEPT ![s] = NextNum(list[s])]
  /\ GoTo(s, IF pc[s] = "addfg" THEN "fgset" ELSE "bgcont")
  /\ UNCHANGED << kernel, job, cursor >>

\* add_job in the parent: setpgid(p, p), then the cell is linked behind the tail.
AddJob(s) ==
  /\ SessionOn /\ state[s] = "running" /\ pc[s] \in Adding
  /\ LET p == job[s] IN
       /\ pgid' = [pgid EXCEPT ![p] = IF InKernel(p) THEN p ELSE pgid[p]]
       /\ list' = [list EXCEPT ![s] = add_job(list[s], p)]
       /\ stale' = [stale EXCEPT ![s] = FALSE]
       /\ lastUpd' = [lastUpd EXCEPT ![s] = NextNum(list[s])]
  /\ GoTo(s, IF pc[s] = "addfg" THEN "fgset" ELSE "bgcont")
  /\ UNCHANGED << state, parent, fgPgrp, ttyMode, job, cursor >>

\* exit: reset_tty and _exit (history_save has no effect here).
Exit(s) ==
  /\ At(s, "line")
  /\ ttyMode' = "canon"
  /\ state' = Dead({s})
  /\ pc' = PcOfDead({s})
  /\ UNCHANGED << parent, pgid, fgPgrp, table, job, cursor >>

\* print_all_jobs, or get_job for a number that is not listed: the walk reads
\* tail->next.  When that is stale, what follows is undefined.
WalkOffTail(s) ==
  /\ At(s, "line")
  /\ stale[s]
  /\ GoTo(s, "undefined")
  /\ UNCHANGED << kernel, table, job, cursor >>
-----------------------------------------------------------------------------
(* fg and bg.  An unlisted number is only reported. *)

Pick(s, k, l) ==
  /\ job' = [job EXCEPT ![s] = list[s][k].pid]
  /\ GoTo(s, l)
  /\ UNCHANGED << kernel, table, cursor >>

ByNumber(s, l) ==
  /\ At(s, "line")
  /\ \E num \in {list[s][k].num : k \in 1..Len(list[s])} :
       \E k \in Positions(list[s], num) : Pick(s, k, l)

\* set_..._last_updated_job: last_updt_job, or the tail when it is not listed.
LastUpdated(s, l) ==
  /\ At(s, "line")
  /\ \/ \E k \in Positions(list[s], lastUpd[s]) : Pick(s, k, l)
     \/ /\ Positions(list[s], lastUpd[s]) = {}
        /\ list[s] # << >>
        /\ Pick(s, Len(list[s]), l)

Fg(s) == ByNumber(s, "fgset")
FgLast(s) == LastUpdated(s, "fgset")
Bg(s) == ByNumber(s, "bgcont")
BgLast(s) == LastUpdated(s, "bgcont")

\* set_foreground_by_num, line by line.
FgSet(s) ==
  /\ At(s, "fgset")
  /\ fgPgrp' = Foreground(job[s])
  /\ GoTo(s, IF StatOf(list[s], job[s]) = {"STOPPED"} THEN "fgcont" ELSE "fgwait")
  /\ UNCHANGED << state, parent, pgid, ttyMode, table, job, cursor >>

\* reset_tty, kill(-pid, SIGCONT), stat = RUNNING
Resume(s) ==
  /\ ttyMode' = "canon"
  /\ state' = Continued(job[s])
  /\ list' = [list EXCEPT ![s] = SetStat(list[s], job[s], "RUNNING")]

FgCont(s) ==
  /\ At(s, "fgcont")
  /\ Resume(s)
  /\ GoTo(s, "fgwait")
  /\ UNCHANGED << parent, pgid, fgPgrp, stale, lastUpd, job, cursor >>

MarkStopped(s) ==
  /\ list' = [list EXCEPT ![s] = SetStat(list[s], job[s], "STOPPED")]
  /\ \E k \in 1..Len(list[s]) :
       /\ list[s][k].pid = job[s]
       /\ lastUpd' = [lastUpd EXCEPT ![s] = list[s][k].num]

\* Whatever ended the job, TERMINATED included, is overwritten by DONE.
MarkDone(s) ==
  /\ list' = [list EXCEPT ![s] = SetStat(list[s], job[s], "DONE")]
  /\ UNCHANGED lastUpd

WaitDead(s) ==
  /\ At(s, "fgwait")
  /\ ChildOf(s, job[s]) /\ state[job[s]] = "zombie"
  /\ state' = [state EXCEPT ![job[s]] = "reaped"]
  /\ MarkDone(s)
  /\ GoTo(s, "fgend")
  /\ UNCHANGED << parent, pgid, fgPgrp, ttyMode, stale, job, cursor >>

WaitStopped(s) ==
  /\ At(s, "fgwait")
  /\ ChildOf(s, job[s]) /\ state[job[s]] = "stopped"
  /\ state' = [state EXCEPT ![job[s]] = "stopSeen"]
  /\ MarkStopped(s)
  /\ GoTo(s, "fgend")
  /\ UNCHANGED << parent, pgid, fgPgrp, ttyMode, stale, job, cursor >>

\* waitpid fails: `status` was never assigned, and may look like either.
WaitFails(s) ==
  /\ At(s, "fgwait")
  /\ ~ChildOf(s, job[s])
  /\ MarkDone(s) \/ MarkStopped(s)
  /\ GoTo(s, "fgend")
  /\ UNCHANGED << kernel, stale, job, cursor >>

\* (Fault) The terminal is taken back only from a job that is still there.
FgEndKeepsTerminal(s) ==
  /\ At(s, "fgend")
  /\ fgPgrp' = IF InKernel(job[s]) THEN Foreground(Main) ELSE fgPgrp
  /\ ttyMode' = "raw"
  /\ GoTo(s, "line")
  /\ job' = [job EXCEPT ![s] = NoPid]
  /\ UNCHANGED << state, parent, pgid, table, cursor >>

\* tcsetpgrp(STDOUT, SHELL_PID), setup_tty()
FgEnd(s) ==
  /\ At(s, "fgend")
  /\ fgPgrp' = Foreground(Main)
  /\ ttyMode' = "raw"
  /\ GoTo(s, "line")
  /\ job' = [job EXCEPT ![s] = NoPid]
  /\ UNCHANGED << state, parent, pgid, table, cursor >>

\* set_background_by_num: nothing puts the terminal back into raw mode.
BgCont(s) ==
  /\ At(s, "bgcont")
  /\ IF StatOf(list[s], job[s]) = {"STOPPED"}
     THEN Resume(s)
     ELSE UNCHANGED << ttyMode, state, list >>
  /\ GoTo(s, "bgend")
  /\ UNCHANGED << parent, pgid, fgPgrp, stale, lastUpd, job, cursor >>

BgEnd(s) ==
  /\ At(s, "bgend")
  /\ fgPgrp' = Foreground(Main)
  /\ GoTo(s, "line")
  /\ job' = [job EXCEPT ![s] = NoPid]
  /\ UNCHANGED << state, parent, pgid, ttyMode, table, cursor >>
-----------------------------------------------------------------------------
(* The world: commands that end, signals, the keyboard. *)

\* A command ends, or a command or a copy is killed (stopped ones by SIGKILL,
\* or by the SIGHUP that orphaned stopped groups get).
Dies(p) ==
  /\ SessionOn /\ p # Main /\ Alive(p)
  /\ state' = Dead({p})
  /\ pc' = PcOfDead({p})
  /\ UNCHANGED << parent, pgid, fgPgrp, ttyMode, table, job, cursor >>

\* SIGSTOP, ^Z, SIGTTIN in a command.
Stops(p) ==
  /\ SessionOn /\ p # Main /\ state[p] = "running"
  /\ state' = [state EXCEPT ![p] = "stopped"]
  /\ UNCHANGED << parent, pgid, fgPgrp, ttyMode, pc, table, job, cursor >>

\* SIGCONT from another program.
Continues(p) ==
  /\ SessionOn /\ state[p] \in {"stopped", "stopSeen"}
  /\ state' = [state EXCEPT ![p] = "running"]
  /\ UNCHANGED << parent, pgid, fgPgrp, ttyMode, pc, table, job, cursor >>

\* ^C at the keyboard: SIGINT to the foreground group, the shell's own included.
Interrupt ==
  /\ SessionOn
  /\ LET D == {p \in Pids : state[p] = "running" /\ pgid[p] = fgPgrp}
     IN  state' = Dead(D) /\ pc' = PcOfDead(D)
  /\ UNCHANGED << parent, pgid, fgPgrp, ttyMode, table, job, cursor >>

\* In "true && fg" it is the forked leader of the chain that runs fg, on its copy
\* of the list: it moves the terminal and continues jobs that are not its own.
\* Its own position in fg, bg or exit is not followed.
LeaderRunsBuiltin(p) ==
  /\ LeaderBuiltins
  /\ SessionOn /\ state[p] = "running" /\ pc[p] = "cmd"
  /\ \E g \in Pids :
       \/ fgPgrp' = Foreground(g) /\ UNCHANGED << state, ttyMode >>
       \/ fgPgrp' = Foreground(Main) /\ ttyMode' = "raw" /\ UNCHANGED state
       \/ ttyMode' = "canon" /\ state' = Continued(g) /\ UNCHANGED fgPgrp
  /\ UNCHANGED << parent, pgid, pc, table, job, cursor >>

SessionOver == ~SessionOn /\ UNCHANGED vars

WaitJobs(s) == ReapNothing(s) \/ ReapDead(s) \/ ReapMissing(s) \/ ReapEnd(s)

SetForeground(s) ==
  FgSet(s) \/ FgCont(s) \/ WaitDead(s) \/ WaitStopped(s) \/ WaitFails(s) \/ FgEnd(s)

SetBackground(s) == BgCont(s) \/ BgEnd(s)

\* What shell s does once it has been told what to do.
Handle(s) == WaitJobs(s) \/ AddJob(s) \/ SetForeground(s) \/ SetBackground(s)

\* What the user's line makes it start.
Command(s) ==
  \/ ReadLine(s) \/ ReadInBackground(s) \/ EndOfLine(s)
  \/ RunForeground(s) \/ RunBackground(s)
  \/ Fg(s) \/ FgLast(s) \/ Bg(s) \/ BgLast(s)
  \/ WalkOffTail(s) \/ Exit(s)

World ==
  \/ Interrupt
  \/ \E p \in Pids : Dies(p) \/ Stops(p) \/ Continues(p) \/ LeaderRunsBuiltin(p)

Next == (\E s \in Pids : Handle(s) \/ Command(s)) \/ World \/ SessionOver

Spec == Init /\ [][Next]_vars

\* The scheduler runs a shell whose next step is not blocked in a system call.
FairSpec == Spec /\ WF_vars(Handle(Main))
-----------------------------------------------------------------------------
TypeOK ==
  /\ state \in [Pids -> States]
  /\ parent \in [Pids -> Pids \cup {NoPid}]
  /\ pgid \in [Pids -> Pids \cup {NoPid}]
  /\ fgPgrp \in Pids
  /\ ttyMode \in {"raw", "canon"}
  /\ pc \in [Pids -> Pcs]
  /\ list \in [Pids -> Seq(Job)]
  /\ stale \in [Pids -> BOOLEAN]
  /\ lastUpd \in [Pids -> Int]
  /\ job \in [Pids -> Pids \cup {NoPid}]
  /\ cursor \in [Pids -> Nat]
-----------------------------------------------------------------------------
(* What must hold. *)

\* In every shell's list the numbers strictly increase: a number the user types
\* names at most one job, although numbers are reused (new_job, remove_job).
NumbersIncrease == \A s \in Pids : Increasing(list[s])

\* No child is lost: until it is collected, a child of a working shell is in that
\* shell's list, or is the one its handler is about to add (add_job, wait_jobs).
NoOrphan ==
  \A s, p \in Pids :
    pc[s] \in Working /\ ChildOf(s, p) =>
      p \in PidsOf(list[s]) \/ (pc[s] \in Adding /\ job[s] = p)

\* When a shell prompts, every job it lists is an uncollected child of its own:
\* wait_jobs has left behind neither a job that fg collected nor one of the jobs
\* a copy inherits, so that the first fg or bg of a line never finds a dead job.
PromptTableIsLive ==
  \A s \in Pids :
    pc[s] = "read" => \A p \in PidsOf(list[s]) : ChildOf(s, p)

\* A shell never waits for a job whose stop it has already been told of, which
\* nothing would end: set_foreground_by_num continues exactly the jobs that its
\* list records as STOPPED, and waitpid reports a stop once.
NoHangOnStopped ==
  \A s \in Pids :
    pc[s] = "fgwait" /\ ChildOf(s, job[s]) => state[job[s]] # "stopSeen"

\* As long as the first shell alone runs zhsh's code (no chain in the background,
\* no fg or bg inside a chain), the terminal belongs to the job it waits for, and
\* to the shell everywhere else (set_foreground_by_num and set_background_by_num).
TerminalOwner ==
  SessionOn /\ Copies = {} /\ ~LeaderBuiltins =>
    IF pc[Main] \in {"fgcont", "fgwait"}
    THEN InKernel(job[Main]) => fgPgrp = job[Main]
    ELSE pc[Main] # "fgend" => fgPgrp = Main

\* When the job in the foreground has died, the shell collects it, takes the
\* terminal back and goes on with the line (unless the session ends first).
ForegroundReturns ==
  (pc[Main] = "fgwait" /\ ChildOf(Main, job[Main]) /\ state[job[Main]] = "zombie")
    ~> (~SessionOn \/ (pc[Main] = "line" /\ fgPgrp = Main))

\* wait_jobs always comes to its end, whatever it removes on the way.
WalkEnds == (pc[Main] = "reap") ~> (~SessionOn \/ pc[Main] = "read")
-----------------------------------------------------------------------------
(* Why it holds: an inductive invariant. *)

\* Nobody has a child, a list entry or a handler's job that was not forked; only
\* a process that lives runs code.
ProcessesOK ==
  /\ \A p \in Pids : state[p] = "free" =>
       pc[p] = "none" /\ parent[p] = NoPid /\ \A q \in Pids : parent[q] # p
  /\ \A s \in Pids : pc[s] \in Working => Alive(s)
  /\ \A s \in Pids : \A p \in PidsOf(list[s]) : state[p] # "free"

\* Between fork and add_job the child is not listed, and nobody has waited for it.
AddingOK ==
  \A s \in Pids : pc[s] \in Adding =>
    /\ job[s] \in Pids /\ job[s] \notin PidsOf(list[s])
    /\ parent[job[s]] = s
    /\ state[job[s]] \notin {"free", "reaped", "stopSeen"}

\* The job that fg or bg works on is in the list.
HandlerOK ==
  \A s \in Pids : pc[s] \in FgSteps \cup BgSteps => job[s] \in PidsOf(list[s])

\* No list names a process twice.
ListsOK == \A s \in Pids : DistinctPids(list[s])

\* The cells that wait_jobs has passed hold uncollected children.
WalkedIsLive ==
  \A s \in Pids : pc[s] = "reap" =>
    \A k \in 1..Len(list[s]) : k < cursor[s] => ChildOf(s, list[s][k].pid)

\* A stop the shell was told of is in its list, and a waited-for job is not STOPPED.
StopsOK ==
  \A s \in Pids : \A k \in 1..Len(list[s]) :
    LET p == list[s][k].pid IN
      /\ pc[s] \in Working /\ parent[p] = s /\ state[p] = "stopSeen" =>
           list[s][k].stat = "STOPPED"
      /\ pc[s] = "fgwait" /\ p = job[s] => list[s][k].stat # "STOPPED"

\* Every job has been given a group of its own (setpgid in new_job).
GroupsOK ==
  \A s \in Pids : pc[s] \in Working =>
    \A p \in PidsOf(list[s]) : ChildOf(s, p) => pgid[p] = p

\* The first shell leads its group, and lists only children of its own.
MainOK ==
  /\ pgid[Main] = Main /\ parent[Main] = NoPid
  /\ pc[Main] \in Working => \A p \in PidsOf(list[Main]) : parent[p] = Main

\* The inductive invariant: what the list and the handlers rely on, and the
\* properties above it supports (new_job, remove_job, wait_jobs, fg and bg).
IInv ==
  /\ TypeOK
  /\ ProcessesOK /\ AddingOK /\ HandlerOK /\ ListsOK
  /\ NumbersIncrease /\ NoOrphan
  /\ WalkedIsLive /\ PromptTableIsLive
  /\ StopsOK /\ GroupsOK /\ MainOK /\ TerminalOwner
=============================================================================
