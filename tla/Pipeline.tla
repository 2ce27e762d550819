------------------------------ MODULE Pipeline ------------------------------
(***************************************************************************)
(* The descriptors of the pipelines of a chain                             *)
(* (src/src/parser/interpreter.c, execute_pipeline and execute_cmd): the   *)
(* leader redirects its own descriptors, connects and starts the commands  *)
(* one after the other, each inherits all that the leader has open, and    *)
(* the commands write, read and wait for the end of their input.           *)
(*                                                                         *)
(* The data is counted in blocks.  Process 0 is the leader, process c the  *)
(* command c of the pipeline that runs; pipe i lies between commands i and *)
(* i + 1.  Statuses and gates are in ChainExec; of the groups, only which  *)
(* commands the leader cannot wait for.                                    *)
(***************************************************************************)
EXTENDS Integers, Sequences, FiniteSetsExt

CONSTANTS Chains,       \* the chains considered: sequences of pipelines
          Capacity,     \* the blocks a pipe holds
          Blocks,       \* bound: the blocks a source writes
          MaxFd         \* bound: the greatest descriptor

\* A source writes Blocks blocks; "yes" writes for ever; a filter copies its whole
\* input, "head" one block of it.  A builtin writes one block from the leader itself.
Kinds == {"source", "yes", "filter", "head", "builtin"}

\* from_fd, and to: a descriptor (FD), or -1 for a path.
Redirs == [from : Nat, to : Nat \cup {-1}]

Pipeline == [cmds : Seq(Kinds) \ {<< >>}, redirs : Seq(Redirs)]

ASSUME ChainsAssumption == \A ch \in Chains : ch \in Seq(Pipeline) /\ ch # << >>
ASSUME CapacityAssumption == Capacity \in Nat \ {0} /\ Blocks \in Nat
ASSUME FdsAssumption == MaxFd \in Nat /\ MaxFd >= 2

VARIABLES
  chain,
  current,    \* the pipeline that runs
  at,         \* the command the leader is at
  leader,     \* what it does next
  local,      \* the descriptors it remembers: backup, infd and output
  group,      \* the group it is in: the shell's, or the job's own
  overlooked, \* the commands that were left in the shell's group
  fds,        \* of every process: what its descriptors are open on
  st,         \* of every command
  todo,       \* the blocks a command has read or made, and not written
  fill,       \* the blocks in every pipe
  delivered   \* the blocks that came out of the pipeline

jobs == << group, overlooked >>
vars == << chain, current, at, leader, local, jobs, fds, st, todo, fill, delivered >>

cmds == chain[current].cmds
Cmds == DOMAIN cmds
Pipes == 1..(Len(cmds) - 1)

Tty == << "tty" >>
Closed == << "closed" >>
File(q, n) == << "file", q, n >>      \* what redirection n of pipeline q opens
ReadEnd(i) == << "read", i >>
WriteEnd(i) == << "write", i >>

NoFds == [f \in 0..MaxFd |-> Closed]

Holders(end) == {q \in DOMAIN fds : \E f \in 0..MaxFd : fds[q][f] = end}

\* The commands of a pipeline before they are started.
Unborn(pipeline, table) ==
  /\ at' = 1 /\ leader' = "backup"
  /\ fds' = [q \in 0..Len(pipeline.cmds) |-> IF q = 0 THEN table ELSE NoFds]
  /\ st' = [c \in DOMAIN pipeline.cmds |-> "unborn"]
  /\ todo' = [c \in DOMAIN pipeline.cmds |->
               CASE pipeline.cmds[c] = "source" -> Blocks
                 [] pipeline.cmds[c] = "yes" -> 1 [] OTHER -> 0]
  /\ fill' = [i \in 1..(Len(pipeline.cmds) - 1) |-> 0]
  /\ delivered' = 0
  /\ overlooked' = {}

Init ==
  /\ chain \in Chains /\ current = 1
  /\ at = 1 /\ leader = "backup"
  /\ local = << >>
  /\ group = "shell" /\ overlooked = {}
  /\ fds = [q \in 0..Len(cmds) |-> [f \in 0..MaxFd |-> IF q = 0 /\ f < 3 THEN Tty ELSE Closed]]
  /\ st = [c \in Cmds |-> "unborn"]
  /\ todo = [c \in Cmds |-> CASE cmds[c] = "source" -> Blocks [] cmds[c] = "yes" -> 1 [] OTHER -> 0]
  /\ fill = [i \in Pipes |-> 0]
  /\ delivered = 0
-----------------------------------------------------------------------------
(* The leader. *)

\* dup, open and pipe return the lowest free descriptors, as far as there are any.
FreeFds == {f \in 0..MaxFd : fds[0][f] = Closed}
Lowest == Min(FreeFds)
SecondLowest == Min(FreeFds \ {Lowest})

OneLeft == FreeFds # {}
TwoLeft == OneLeft /\ FreeFds \ {Lowest} # {}

Leads(table, next) ==
  /\ fds' = [fds EXCEPT ![0] = table]
  /\ leader' = next
  /\ UNCHANGED << chain, current, at, jobs, st, todo, fill, delivered >>

\* backup[0] = dup(0), backup[1] = dup(1)
Backup ==
  /\ leader = "backup" /\ TwoLeft
  /\ LET b == << Lowest, SecondLowest >> IN
       /\ local' = [backup |-> b, redir |-> 1, infd |-> b[1], output |-> b[2]]
       /\ Leads([fds[0] EXCEPT ![b[1]] = fds[0][0], ![b[2]] = fds[0][1]], "redirect")

redir == chain[current].redirs[local.redir]

Redirecting == leader = "redirect" /\ local.redir <= Len(chain[current].redirs)

\* (Fault) The descriptor is duplicated onto the one it is redirected to.
RedirectFdBackwards ==
  /\ Redirecting /\ redir.to >= 0
  /\ local' = [local EXCEPT !.redir = @ + 1]
  /\ Leads(IF fds[0][redir.from] = Closed THEN fds[0]
           ELSE [fds[0] EXCEPT ![redir.to] = fds[0][redir.from]], "redirect")

\* dup2(to.fd, from_fd), which fails if nothing is open there.
RedirectFd ==
  /\ Redirecting /\ redir.to >= 0
  /\ local' = [local EXCEPT !.redir = @ + 1]
  /\ Leads(IF redir.to > MaxFd \/ fds[0][redir.to] = Closed THEN fds[0]
           ELSE [fds[0] EXCEPT ![redir.from] = fds[0][redir.to]], "redirect")

\* to_fd = open(path), dup2(to_fd, from_fd).  to_fd stays open.
RedirectPath ==
  /\ Redirecting /\ redir.to < 0 /\ OneLeft
  /\ local' = [local EXCEPT !.redir = @ + 1]
  /\ LET file == File(current, local.redir)
     IN  Leads([fds[0] EXCEPT ![Lowest] = file, ![redir.from] = file], "redirect")

\* The file cannot be opened: _exit(2).
CannotRedirect ==
  /\ Redirecting /\ redir.to < 0
  /\ Leads(NoFds, "quit")
  /\ UNCHANGED local

\* input = dup(STDIN), output = dup(STDOUT); infd = input.
Redirected ==
  /\ leader = "redirect" /\ local.redir > Len(chain[current].redirs) /\ TwoLeft
  /\ local' = [local EXCEPT !.infd = Lowest, !.output = SecondLowest]
  /\ Leads([fds[0] EXCEPT ![Lowest] = fds[0][0], ![SecondLowest] = fds[0][1]], "connect")

\* (Fault) dup2(infd, STDIN) is left out.
FromStdin == [fds[0] EXCEPT ![local.infd] = Closed]

\* dup2(infd, STDIN), close(infd)
FromInfd == [fds[0] EXCEPT ![0] = fds[0][local.infd], ![local.infd] = Closed]

\* (Fault) The write end is not closed after dup2(outfd, STDOUT).
ConnectKeepsOutfd ==
  /\ leader = "connect" /\ at < Len(cmds) /\ OneLeft
  /\ LET read == Min({local.infd, Lowest}) IN
       /\ local' = [local EXCEPT !.infd = read]
       /\ Leads([FromInfd EXCEPT ![read] = ReadEnd(at), ![1] = WriteEnd(at),
                                 ![Max({local.infd, Lowest})] = WriteEnd(at)], "start")

\* A turn for a command that is not the last: a new pipe, whose write end, dup2 and close,
\* becomes standard output, and whose read end becomes infd.
ConnectToPipe ==
  /\ leader = "connect" /\ at < Len(cmds) /\ OneLeft
  /\ LET read == Min({local.infd, Lowest}) IN
       /\ local' = [local EXCEPT !.infd = read]
       /\ Leads([FromInfd EXCEPT ![read] = ReadEnd(at), ![1] = WriteEnd(at)], "start")

\* (Fault) The last command gets no output of its own.
ConnectKeepsStdout ==
  /\ leader = "connect" /\ at = Len(cmds)
  /\ UNCHANGED local
  /\ Leads(FromInfd, "start")

\* The turn for the last command: dup2(output, STDOUT), close(output).
ConnectLast ==
  /\ leader = "connect" /\ at = Len(cmds)
  /\ UNCHANGED local
  /\ Leads([FromInfd EXCEPT ![1] = fds[0][local.output], ![local.output] = Closed], "start")

NextCommand ==
  /\ at' = at + 1
  /\ leader' = IF at < Len(cmds) THEN "connect" ELSE "restore"

\* fork: the command gets a copy of all the leader has open.
Start ==
  /\ leader = "start" /\ cmds[at] # "builtin"
  /\ st' = [st EXCEPT ![at] = "running"]
  /\ fds' = [fds EXCEPT ![at] = fds[0]]
  /\ NextCommand
  /\ UNCHANGED << chain, current, local, jobs, todo, fill, delivered >>

CannotStart ==
  /\ leader = "start" /\ cmds[at] # "builtin"
  /\ st' = [st EXCEPT ![at] = "failed"]
  /\ NextCommand
  /\ UNCHANGED << chain, current, local, jobs, fds, todo, fill, delivered >>

\* A block is written to an end: into a pipe with room, to the terminal or a file.
Into(end) ==
  \/ end[1] \in {"tty", "file"} /\ delivered' = delivered + 1 /\ UNCHANGED fill
  \/ \E i \in Pipes : /\ end = WriteEnd(i) /\ fill[i] < Capacity
                      /\ fill' = [fill EXCEPT ![i] = @ + 1]
                      /\ UNCHANGED delivered

RunBuiltin ==
  /\ leader = "start" /\ cmds[at] = "builtin"
  /\ Into(fds[0][1])
  /\ st' = [st EXCEPT ![at] = "ended"]
  /\ NextCommand
  /\ UNCHANGED << chain, current, local, jobs, fds, todo >>

\* dup2(backup[0], STDIN), dup2(backup[1], STDOUT).  backup stays open.
Restore ==
  /\ leader = "restore"
  /\ Leads([fds[0] EXCEPT ![0] = fds[0][local.backup[1]], ![1] = fds[0][local.backup[2]]], "wait")
  /\ UNCHANGED local

\* The waitpid loop has collected every command in the group the leader is in.
Done ==
  /\ leader = "wait"
  /\ \A c \in Cmds \ overlooked : st[c] \in {"ended", "failed"}
  /\ leader' = "done"
  /\ UNCHANGED << chain, current, at, local, jobs, fds, st, todo, fill, delivered >>

\* The gates let the next pipeline through.  Commands that are left from this one run on
\* and are followed no further: they have their pipes to themselves (OneWriter).
NextPipeline ==
  /\ leader = "done" /\ current < Len(chain)
  /\ current' = current + 1
  /\ Unborn(chain[current + 1], fds[0])
  /\ local' = << >>
  /\ UNCHANGED << chain, group >>

\* The shell, in add_job: setpgid(leader, leader).  The commands that run stay behind.
AddJob ==
  /\ group = "shell" /\ group' = "job"
  /\ overlooked' = {c \in Cmds : st[c] = "running"}
  /\ UNCHANGED << chain, current, at, leader, local, fds, st, todo, fill, delivered >>
-----------------------------------------------------------------------------
(* The commands. *)

Writes(c) ==
  /\ st[c] = "running" /\ todo[c] > 0
  /\ Into(fds[c][1])
  /\ todo' = [todo EXCEPT ![c] = IF cmds[c] = "yes" THEN @ ELSE @ - 1]
  /\ st' = [st EXCEPT ![c] = IF cmds[c] = "head" THEN "ended" ELSE @]
  /\ fds' = [fds EXCEPT ![c] = IF cmds[c] = "head" THEN NoFds ELSE @]
  /\ UNCHANGED << chain, current, at, leader, local, jobs >>

Reads(c) ==
  /\ st[c] = "running" /\ todo[c] = 0 /\ cmds[c] \in {"filter", "head"}
  /\ \E i \in Pipes :
       /\ fds[c][0] = ReadEnd(i) /\ fill[i] > 0
       /\ fill' = [fill EXCEPT ![i] = @ - 1]
  /\ todo' = [todo EXCEPT ![c] = 1]
  /\ UNCHANGED << chain, current, at, leader, local, jobs, fds, st, delivered >>

\* The input is over: of a pipe that is empty and nobody has open for writing, of the
\* terminal, by ^D, or of a file, which is empty.
InputOver(c) ==
  fds[c][0][1] \in {"tty", "file"}
    \/ \E i \in Pipes : /\ fds[c][0] = ReadEnd(i)
                        /\ fill[i] = 0 /\ Holders(WriteEnd(i)) = {}

\* SIGPIPE: nobody has the read end of the output open.
NobodyReads(c) ==
  \E i \in Pipes : fds[c][1] = WriteEnd(i) /\ Holders(ReadEnd(i)) = {}

Finished(c) ==
  IF todo[c] > 0 THEN NobodyReads(c) ELSE cmds[c] = "source" \/ InputOver(c)

Ends(c) ==
  /\ st[c] = "running" /\ Finished(c)
  /\ st' = [st EXCEPT ![c] = "ended"]
  /\ fds' = [fds EXCEPT ![c] = NoFds]
  /\ UNCHANGED << chain, current, at, leader, local, jobs, todo, fill, delivered >>

Leader ==
  \/ Backup \/ RedirectFd \/ RedirectPath \/ CannotRedirect \/ Redirected
  \/ ConnectToPipe \/ ConnectLast \/ Start \/ CannotStart \/ RunBuiltin
  \/ Restore \/ Done \/ NextPipeline

Command(c) == Writes(c) \/ Reads(c) \/ Ends(c)

Next == Leader \/ AddJob \/ \E c \in Cmds : Command(c)

Spec == Init /\ [][Next]_vars

\* Every process that is not blocked in the kernel runs.  The leader may be blocked in a
\* waitpid that it called before add_job, for commands that are overlooked now.
LeaderRuns ==
  /\ leader = "wait" => \A c \in Cmds : st[c] # "running"
  /\ Leader

FairSpec == Spec /\ WF_vars(LeaderRuns) /\ WF_vars(\E c \in Cmds : Command(c))
-----------------------------------------------------------------------------
Started == leader \in {"wait", "done"}

\* The write end of a pipe is open in the command before it, and in the leader only
\* until it connects the next one: no other process keeps the reader from seeing the
\* end of its input.  When all commands are started the leader has no pipe open at all
\* (the dup2 and close calls of execute_pipeline).
OneWriter ==
  \A i \in Pipes :
    /\ Holders(WriteEnd(i)) \subseteq
         IF << leader, at >> \in {<< "start", i >>, << "connect", i + 1 >>} THEN {0, i} ELSE {i}
    /\ Started => 0 \notin Holders(ReadEnd(i))

\* Every redirection so far names descriptors 0 to 2 only.
Plain ==
  \A q \in 1..current : \A n \in DOMAIN chain[q].redirs :
    chain[q].redirs[n].from < 3 /\ chain[q].redirs[n].to < 3

\* What a redirection makes of the ends that 0, 1 and 2 are open on.
Apply(ends, r, file) == [ends EXCEPT ![r.from] = IF r.to < 0 THEN file ELSE ends[r.to]]

\* What the first n redirections of pipeline q make of them.
After(ch, ends, q, n) ==
  LET after[k \in Nat] ==
        IF k = 0 THEN ends ELSE Apply(after[k - 1], ch[q].redirs[k], File(q, k))
  IN  after[n]

\* Those in front of a pipeline: 0 and 1 are the shell's.
InFront(ends) == [f \in 0..2 |-> IF f < 2 THEN Tty ELSE ends[2]]

\* Those the commands of pipeline q are to get.
Wanted(ch, q) ==
  LET wanted[p \in Nat] ==
        IF p = 0 THEN [f \in 0..2 |-> Tty]
        ELSE After(ch, InFront(wanted[p - 1]), p, Len(ch[p].redirs))
  IN  wanted[q]

\* The leader has for 0 and 1, when it starts a command, the pipes beside it, and at
\* both ends of the pipeline what the redirections say, applied in their order and to
\* all commands alike for 2.  No pipeline disturbs 0 and 1 for the next: the numbers
\* that dup, open and pipe return never collide.  (A redirection of descriptor 3, say,
\* overwrites backup.)
CommandsGetTheirEnds ==
  leader = "start" /\ Plain =>
    /\ fds[0][0] = IF at = 1 THEN Wanted(chain, current)[0] ELSE ReadEnd(at - 1)
    /\ fds[0][1] = IF at = Len(cmds) THEN Wanted(chain, current)[1] ELSE WriteEnd(at)
    /\ fds[0][2] = Wanted(chain, current)[2]

\* What execute_pipeline is for: every command but the first copies its input.
AllFilters == \A c \in Cmds : IF c = 1 THEN cmds[c] \in {"source", "builtin"}
                              ELSE cmds[c] = "filter"

NoneFailed == \A c \in Cmds : st[c] # "failed"

\* All that the first command wrote, or is to write, has come out at the end.
Delivered == delivered = IF cmds[1] = "source" THEN Blocks ELSE 1

\* When the last command of such a pipeline has ended, everything has come out: no
\* command took its input for ended while more was to come.  So it is when the leader
\* goes on, but for one case: setpgid came between the fork of the last command and
\* its end, so that waitpid overlooks it.  Commands before it may be overlooked: the
\* last waits for their output, and the leader for the last.
AllDelivered ==
  AllFilters /\ NoneFailed =>
    /\ st[Len(cmds)] = "ended" => Delivered
    /\ leader = "done" /\ Len(cmds) \notin overlooked => Delivered

\* Such a pipeline ends, whatever is overlooked: the end of the input reaches every
\* command, one after the other, though the leader and all of them share the descriptors
\* they inherited, and the leader goes on.
PipelineEnds ==
  AllFilters ~> \/ leader = "done" /\ \A c \in Cmds : st[c] # "running"
                \/ leader = "quit" \/ ~NoneFailed
=============================================================================
