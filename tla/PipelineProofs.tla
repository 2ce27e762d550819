--------------------------- MODULE PipelineProofs ---------------------------
(***************************************************************************)
(* Proofs about Pipeline, for chains of any length, pipes of any capacity  *)
(* and any number of descriptors: who has which end open, that commands    *)
(* get the ends they should, and that all data comes out.                  *)
(***************************************************************************)
EXTENDS Pipeline, NatInduction

Fds == 0..MaxFd

Locals == [backup : Fds \X Fds, redir : Nat, infd : Fds, output : Fds]

Typed ==
  /\ chain \in Seq(Pipeline)
  /\ current \in 1..Len(chain)
  /\ at \in 1..(Len(cmds) + 1)
  /\ leader \in {"backup", "redirect", "connect", "start", "restore", "wait", "done", "quit"}
  /\ leader \in {"redirect", "connect", "start", "restore"} => local \in Locals
  /\ group \in {"shell", "job"} /\ overlooked \subseteq Cmds
  /\ DOMAIN fds = 0..Len(cmds) /\ \A q \in 0..Len(cmds) : DOMAIN fds[q] = Fds
  /\ st \in [Cmds -> {"unborn", "running", "ended", "failed"}]
  /\ todo \in [Cmds -> Nat]
  /\ fill \in [Pipes -> Nat]
  /\ delivered \in Nat

\* The commands are started in their order.
InOrder ==
  /\ \A c \in Cmds : st[c] = "unborn" <=> c >= at
  /\ leader \in {"backup", "redirect"} => at = 1
  /\ leader \in {"connect", "start"} => at <= Len(cmds)
  /\ leader \in {"restore", "wait", "done"} => at = Len(cmds) + 1

\* An end of no pipe.
Outer(e) == e[1] \in {"tty", "file"}

\* The leader's descriptors, but those of F, are closed or open on the end of no pipe.
OuterBut(F) == \A f \in Fds \ F : Outer(fds[0][f]) \/ fds[0][f] = Closed

\* The descriptors the leader remembers are its own, and not standard ones.
OwnFds ==
  /\ leader \in {"redirect", "connect", "start", "restore"} =>
       /\ local.backup[1] \in 3..MaxFd /\ local.backup[2] \in 3..MaxFd
       /\ local.backup[1] # local.backup[2]
       /\ Outer(fds[0][local.backup[1]]) /\ Outer(fds[0][local.backup[2]])
       /\ local.redir \in 1..(Len(chain[current].redirs) + 1)
  /\ leader \in {"connect", "start"} =>
       /\ local.infd \in 3..MaxFd /\ local.output \in 3..MaxFd
       /\ local.infd \notin {local.backup[1], local.backup[2], local.output}
       /\ local.output \notin {local.backup[1], local.backup[2]}

\* What the leader has open, step by step.
LeaderHolds ==
  /\ leader # "quit" => \A f \in 0..2 : fds[0][f] # Closed
  /\ leader \in {"backup", "redirect", "wait", "done", "quit"} => OuterBut({})
  /\ leader = "connect" =>
       /\ OuterBut({0, 1, local.infd})
       /\ at = 1 => OuterBut({})
       /\ at > 1 => fds[0][1] = WriteEnd(at - 1) /\ fds[0][local.infd] = ReadEnd(at - 1)
       /\ at > 2 => fds[0][0] = ReadEnd(at - 2)
       /\ at = 2 => Outer(fds[0][0])
       /\ Outer(fds[0][local.infd]) \/ at > 1
       /\ Outer(fds[0][local.output])
  /\ leader = "start" =>
       /\ IF at > 1 THEN fds[0][0] = ReadEnd(at - 1) ELSE Outer(fds[0][0])
       /\ IF at < Len(cmds)
          THEN /\ OuterBut({0, 1, local.infd})
               /\ fds[0][1] = WriteEnd(at) /\ fds[0][local.infd] = ReadEnd(at)
               /\ Outer(fds[0][local.output])
          ELSE OuterBut({0}) /\ Outer(fds[0][1])
  /\ leader = "restore" => /\ OuterBut({0})
                           /\ Outer(fds[0][0]) \/ fds[0][0] = ReadEnd(Len(cmds) - 1)

\* What a command has open: its input and its output, and the read end of its own
\* output, which it inherits.
CommandsHold ==
  \A c \in Cmds :
    /\ st[c] # "running" => \A f \in Fds : fds[c][f] = Closed
    /\ st[c] = "running" =>
         /\ IF c > 1 THEN fds[c][0] = ReadEnd(c - 1) ELSE Outer(fds[c][0])
         /\ IF c < Len(cmds) THEN fds[c][1] = WriteEnd(c) ELSE Outer(fds[c][1])
         /\ c < Len(cmds) => \E f \in Fds : fds[c][f] = ReadEnd(c)
         /\ \A f \in Fds : \/ Outer(fds[c][f]) \/ fds[c][f] = Closed
                           \/ fds[c][f] \in {WriteEnd(c), ReadEnd(c - 1), ReadEnd(c)}

\* The topology: what OneWriter rests on.
Connected == Typed /\ InOrder /\ OwnFds /\ LeaderHolds /\ CommandsHold

\* What 0, 1 and 2 of the leader are open on when redirections stay within them.
Named ==
  Plain =>
    /\ leader = "backup" =>
         /\ fds[0][0] = Tty /\ fds[0][1] = Tty
         /\ fds[0][2] = Wanted(chain, current - 1)[2]
    /\ leader = "redirect" =>
         \A f \in 0..2 :
           fds[0][f] = After(chain, InFront(Wanted(chain, current - 1)), current, local.redir - 1)[f]
    /\ leader \in {"redirect", "connect", "start", "restore"} =>
         fds[0][local.backup[1]] = Tty /\ fds[0][local.backup[2]] = Tty
    /\ leader \in {"connect", "start", "restore", "wait", "done"} =>
         fds[0][2] = Wanted(chain, current)[2]
    /\ leader = "connect" =>
         /\ at = 1 => fds[0][local.infd] = Wanted(chain, current)[0]
         /\ fds[0][local.output] = Wanted(chain, current)[1]
    /\ leader = "start" =>
         /\ at = 1 => fds[0][0] = Wanted(chain, current)[0]
         /\ fds[0][IF at < Len(cmds) THEN local.output ELSE 1] = Wanted(chain, current)[1]
    /\ leader \in {"wait", "done"} => fds[0][0] = Tty /\ fds[0][1] = Tty

\* Every command's output, out[c] blocks, is in the pipe behind it, in the next command, or
\* has left that one; and a command ends when its input is over.
Balanced(out) ==
  /\ out[Len(cmds)] = delivered
  /\ \A c \in Pipes : out[c] = fill[c] + todo[c + 1] + out[c + 1]
  /\ cmds[1] = "source" => out[1] + todo[1] = Blocks
  /\ cmds[1] = "builtin" => todo[1] = 0 /\ out[1] = IF st[1] = "unborn" THEN 0 ELSE 1

\* The leader goes on without the last command only if it overlooks it.
LastIsWaitedFor ==
  leader = "done" /\ Len(cmds) \notin overlooked => st[Len(cmds)] = "ended"

Flows ==
  AllFilters /\ NoneFailed =>
    /\ \E out \in [Cmds -> Nat] : Balanced(out)
    /\ \A c \in Cmds :
         st[c] = "ended" => todo[c] = 0 /\ (c > 1 => fill[c - 1] = 0 /\ st[c - 1] = "ended")
    /\ LastIsWaitedFor
-----------------------------------------------------------------------------
(* Ends and descriptors. *)

\* The ends of pipes, files, the terminal and nothing are told apart.
LEMMA EndsDiffer ==
  /\ Outer(Tty) /\ \A q, n : Outer(File(q, n))
  /\ ~Outer(Closed) /\ \A i : ~Outer(ReadEnd(i)) /\ ~Outer(WriteEnd(i))
  /\ \A i : ReadEnd(i) # Closed /\ WriteEnd(i) # Closed
  /\ \A i, j : ReadEnd(i) # WriteEnd(j)
  /\ \A i, j : (ReadEnd(i) = ReadEnd(j) \/ WriteEnd(i) = WriteEnd(j)) => i = j
BY DEF Outer, Tty, Closed, File, ReadEnd, WriteEnd

\* dup and open return a descriptor that was closed, so none of the first three.
LEMMA LowestIsFree ==
  ASSUME OneLeft, \A f \in 0..2 : fds[0][f] # Closed
  PROVE  Lowest \in 3..MaxFd /\ fds[0][Lowest] = Closed
<1>1. Lowest \in FreeFds
  BY LeastOf DEF OneLeft, Lowest, FreeFds
<1> QED
  BY <1>1, FdsAssumption DEF FreeFds

\* The second dup returns another one, and so does the second end of a pipe.
LEMMA SecondIsFree ==
  ASSUME TwoLeft, \A f \in 0..2 : fds[0][f] # Closed
  PROVE  /\ Lowest \in 3..MaxFd /\ fds[0][Lowest] = Closed
         /\ SecondLowest \in 3..MaxFd /\ fds[0][SecondLowest] = Closed
         /\ Lowest # SecondLowest
<1>1. SecondLowest \in FreeFds \ {Lowest}
  BY LeastOf DEF TwoLeft, SecondLowest, FreeFds
<1> QED
  BY <1>1, LowestIsFree, FdsAssumption DEF TwoLeft, FreeFds

\* The pipeline that runs: its commands, and its redirections.
LEMMA CmdsType ==
  ASSUME Typed
  PROVE  /\ cmds \in Seq(Kinds) /\ cmds # << >>
         /\ Len(cmds) \in Nat /\ Len(cmds) >= 1 /\ Cmds = 1..Len(cmds)
         /\ chain[current].redirs \in Seq(Redirs)
         /\ Len(chain[current].redirs) \in Nat
         /\ DOMAIN chain[current].redirs = 1..Len(chain[current].redirs)
<1>1. chain[current] \in Pipeline
  BY DEF Typed
<1>2. cmds \in Seq(Kinds) /\ cmds # << >> /\ chain[current].redirs \in Seq(Redirs)
  BY <1>1 DEF Pipeline, cmds
<1> QED
  BY <1>2 DEF Cmds

\* A process that has ended has nothing open.
LEMMA NoneOpen ==
  DOMAIN NoFds = Fds /\ \A f \in Fds : NoFds[f] = Closed
BY DEF NoFds, Fds

\* A step of the leader on its own descriptors leaves the commands theirs.
LEMMA LeadsAlone ==
  ASSUME Connected, NEW T, DOMAIN T = Fds, NEW next, Leads(T, next),
         next \in {"redirect", "connect", "start", "wait", "quit"},
         next \in {"redirect", "connect", "start"} => local' \in Locals
  PROVE  /\ fds'[0] = T /\ \A c \in Cmds : fds'[c] = fds[c]
         /\ Typed' /\ CommandsHold'
         /\ \A c \in Cmds : st'[c] = "unborn" <=> c >= at'
         /\ UNCHANGED << cmds, Cmds, Pipes, at, chain, current >> /\ leader' = next
<1>1. /\ fds' = [fds EXCEPT ![0] = T] /\ leader' = next
      /\ UNCHANGED << chain, current, at, group, overlooked, st, todo, fill, delivered >>
  BY DEF Leads, jobs
<1>2. UNCHANGED << cmds, Cmds, Pipes >>
  BY <1>1 DEF cmds, Cmds, Pipes
<1>3. DOMAIN fds = 0..Len(cmds) /\ Cmds = 1..Len(cmds) /\ Len(cmds) \in Nat
  BY DEF Connected, Typed, Cmds, cmds, Pipeline
<1>4. fds'[0] = T /\ \A c \in Cmds : fds'[c] = fds[c]
  BY <1>1, <1>3
<1>5. Typed'
  <2>1. DOMAIN fds' = 0..Len(cmds) /\ \A q \in 0..Len(cmds) : DOMAIN fds'[q] = Fds
    BY <1>1, <1>3, <1>4 DEF Connected, Typed
  <2> QED
    BY <1>1, <1>2, <2>1 DEF Connected, Typed
<1>6. CommandsHold'
  BY <1>1, <1>2, <1>4 DEF Connected, CommandsHold
<1> QED
  BY <1>1, <1>2, <1>4, <1>5, <1>6 DEF Connected, InOrder
-----------------------------------------------------------------------------
(* The leader keeps the topology, step by step. *)

LEMMA BackupConnects ==
  ASSUME Connected, Backup
  PROVE  Connected'
<1> DEFINE T == [fds[0] EXCEPT ![Lowest] = fds[0][0], ![SecondLowest] = fds[0][1]]
<1>1. leader = "backup" /\ TwoLeft /\ Leads(T, "redirect")
  BY DEF Backup
<1>2. local' = [backup |-> << Lowest, SecondLowest >>, redir |-> 1,
                infd |-> Lowest, output |-> SecondLowest]
  BY DEF Backup
<1>3. DOMAIN fds[0] = Fds /\ 0 \in Fds /\ 1 \in Fds /\ 2 \in Fds
  BY FdsAssumption DEF Connected, Typed, Fds, cmds, Pipeline
<1>4. (\A f \in 0..2 : fds[0][f] # Closed) /\ OuterBut({})
  BY <1>1 DEF Connected, LeaderHolds
<1>5. /\ Lowest \in 3..MaxFd /\ SecondLowest \in 3..MaxFd /\ Lowest # SecondLowest
      /\ Lowest \in Fds /\ SecondLowest \in Fds
  BY <1>1, <1>4, SecondIsFree, FdsAssumption DEF Fds
<1>6. DOMAIN T = Fds /\ local' \in Locals
  BY <1>2, <1>3, <1>5 DEF Locals
<1>7. /\ fds'[0] = T /\ Typed' /\ CommandsHold' /\ leader' = "redirect"
      /\ UNCHANGED << cmds, Cmds, at, chain, current >>
      /\ \A c \in Cmds : st'[c] = "unborn" <=> c >= at'
  BY <1>1, <1>6, LeadsAlone
<1>8. \A f \in Fds : fds'[0][f] = IF f = Lowest THEN fds[0][0]
                                  ELSE IF f = SecondLowest THEN fds[0][1] ELSE fds[0][f]
  BY <1>3, <1>5, <1>7
<1>9. InOrder'
  BY <1>1, <1>7 DEF Connected, InOrder
<1>10. LeaderHolds'
  <2>1. \A f \in 0..2 : fds'[0][f] # Closed
    BY <1>3, <1>4, <1>5, <1>8
  <2>2. OuterBut({})'
    BY <1>3, <1>4, <1>8 DEF OuterBut
  <2> QED
    BY <1>7, <2>1, <2>2 DEF LeaderHolds
<1>11. OwnFds'
  <2>1. Outer(fds[0][0]) /\ Outer(fds[0][1])
    BY <1>3, <1>4 DEF OuterBut
  <2>2. Outer(fds'[0][Lowest]) /\ Outer(fds'[0][SecondLowest])
    BY <1>5, <1>8, <2>1
  <2>3. Len(chain[current].redirs) \in Nat
    BY DEF Connected, Typed, Pipeline
  <2> QED
    BY <1>2, <1>5, <1>7, <2>2, <2>3 DEF OwnFds
<1> QED
  BY <1>7, <1>9, <1>10, <1>11 DEF Connected

\* The redirection the leader is at.
LEMMA RedirType ==
  ASSUME Connected, Redirecting
  PROVE  redir.from \in Nat /\ redir.to \in Nat \cup {-1}
<1>1. Typed /\ chain[current].redirs \in Seq(Redirs)
  BY CmdsType DEF Connected
<1>2. local.redir \in 1..Len(chain[current].redirs)
  BY <1>1, CmdsType DEF Redirecting, Connected, OwnFds
<1>3. redir \in Redirs
  BY <1>1, <1>2 DEF redir
<1> QED
  BY <1>3 DEF Redirs

\* A redirection: of any descriptor, to what is open elsewhere, or to a file.
LEMMA RedirectConnects ==
  ASSUME Connected, RedirectFd \/ RedirectPath
  PROVE  Connected'
<1>1. Redirecting /\ leader = "redirect" /\ local' = [local EXCEPT !.redir = @ + 1]
  BY DEF RedirectFd, RedirectPath, Redirecting
<1>2. DOMAIN fds[0] = Fds /\ 0 \in Fds /\ 1 \in Fds /\ 2 \in Fds
  BY FdsAssumption DEF Connected, Typed, Fds, cmds, Pipeline
<1>3. (\A f \in 0..2 : fds[0][f] # Closed) /\ OuterBut({})
  BY <1>1 DEF Connected, LeaderHolds
<1>4. PICK T : /\ Leads(T, "redirect") /\ DOMAIN T = Fds
               /\ \A f \in Fds : T[f] = fds[0][f] \/ Outer(T[f])
  <2>1. CASE RedirectFd
    <3> DEFINE T == IF redir.to > MaxFd \/ fds[0][redir.to] = Closed THEN fds[0]
                    ELSE [fds[0] EXCEPT ![redir.from] = fds[0][redir.to]]
    <3>1. Leads(T, "redirect") /\ DOMAIN T = Fds /\ redir.to >= 0
      BY <2>1, <1>2 DEF RedirectFd
    <3>2. redir.to <= MaxFd => redir.to \in Fds
      BY <1>1, <3>1, RedirType, FdsAssumption DEF Fds
    <3>3. ASSUME NEW f \in Fds, T[f] # fds[0][f] PROVE Outer(T[f])
      <4>1. redir.to <= MaxFd /\ fds[0][redir.to] # Closed /\ T[f] = fds[0][redir.to]
        BY <3>3, <1>1, <1>2, RedirType, FdsAssumption
      <4> QED
        BY <4>1, <3>2, <1>3 DEF OuterBut
    <3> HIDE DEF T
    <3> QED
      BY <3>1, <3>3
  <2>2. CASE RedirectPath
    <3> DEFINE file == File(current, local.redir)
               T == [fds[0] EXCEPT ![Lowest] = file, ![redir.from] = file]
    <3>1. Leads(T, "redirect") /\ DOMAIN T = Fds
      BY <2>2, <1>2 DEF RedirectPath
    <3>2. \A f \in Fds : T[f] = fds[0][f] \/ Outer(T[f])
      BY <1>2, EndsDiffer
    <3> QED
      BY <3>1, <3>2
  <2> QED
    BY <2>1, <2>2
<1>5. local.redir \in 1..Len(chain[current].redirs) /\ Len(chain[current].redirs) \in Nat
  BY <1>1, CmdsType DEF Redirecting, Connected, OwnFds
<1>6. /\ local' \in Locals /\ local'.redir = local.redir + 1
      /\ local'.backup = local.backup
  <2>1. local \in Locals
    BY <1>1 DEF Connected, Typed
  <2> QED
    BY <2>1, <1>1, <1>5 DEF Locals
<1>7. /\ fds'[0] = T /\ Typed' /\ CommandsHold' /\ leader' = "redirect"
      /\ UNCHANGED << cmds, Cmds, at, chain, current >>
      /\ \A c \in Cmds : st'[c] = "unborn" <=> c >= at'
  BY <1>4, <1>6, LeadsAlone
<1>8. InOrder'
  BY <1>1, <1>7 DEF Connected, InOrder
<1>9. LeaderHolds'
  <2>1. \A f \in 0..2 : fds'[0][f] # Closed
    BY <1>2, <1>3, <1>4, <1>7, EndsDiffer
  <2>2. OuterBut({})'
    BY <1>3, <1>4, <1>7 DEF OuterBut
  <2> QED
    BY <1>7, <2>1, <2>2 DEF LeaderHolds
<1>10. OwnFds'
  <2>1. /\ local.backup[1] \in 3..MaxFd /\ local.backup[2] \in 3..MaxFd
        /\ local.backup[1] # local.backup[2]
        /\ Outer(fds[0][local.backup[1]]) /\ Outer(fds[0][local.backup[2]])
    BY <1>1 DEF Connected, OwnFds
  <2>2. Outer(fds'[0][local.backup[1]]) /\ Outer(fds'[0][local.backup[2]])
    BY <2>1, <1>4, <1>7, FdsAssumption DEF Fds
  <2>3. local'.redir \in 1..(Len(chain[current].redirs) + 1)
    BY <1>5, <1>6
  <2> QED
    BY <1>6, <1>7, <2>1, <2>2, <2>3 DEF OwnFds
<1> QED
  BY <1>7, <1>8, <1>9, <1>10 DEF Connected

\* A leader that cannot open a path leaves.
LEMMA CannotRedirectConnects ==
  ASSUME Connected, CannotRedirect
  PROVE  Connected'
<1>1. Leads(NoFds, "quit") /\ DOMAIN NoFds = Fds
  BY DEF CannotRedirect, NoFds, Fds
<1>2. /\ fds'[0] = NoFds /\ Typed' /\ CommandsHold' /\ leader' = "quit"
      /\ \A c \in Cmds : st'[c] = "unborn" <=> c >= at'
      /\ UNCHANGED Cmds
  BY <1>1, LeadsAlone
<1>3. \A f \in Fds : fds'[0][f] = Closed
  BY <1>2 DEF NoFds, Fds
<1> QED
  BY <1>2, <1>3 DEF Connected, InOrder, OwnFds, LeaderHolds, OuterBut

\* Behind the redirections, infd and output are copies of what 0 and 1 are open on.
LEMMA RedirectedConnects ==
  ASSUME Connected, Redirected
  PROVE  Connected'
<1> DEFINE T == [fds[0] EXCEPT ![Lowest] = fds[0][0], ![SecondLowest] = fds[0][1]]
<1>1. leader = "redirect" /\ TwoLeft /\ Leads(T, "connect")
  BY DEF Redirected
<1>2. local' = [local EXCEPT !.infd = Lowest, !.output = SecondLowest]
  BY DEF Redirected
<1>3. DOMAIN fds[0] = Fds /\ 0 \in Fds /\ 1 \in Fds /\ 2 \in Fds
  BY FdsAssumption DEF Connected, Typed, Fds, cmds, Pipeline
<1>4. (\A f \in 0..2 : fds[0][f] # Closed) /\ OuterBut({})
  BY <1>1 DEF Connected, LeaderHolds
<1>5. /\ Lowest \in 3..MaxFd /\ SecondLowest \in 3..MaxFd /\ Lowest # SecondLowest
      /\ fds[0][Lowest] = Closed /\ fds[0][SecondLowest] = Closed
      /\ Lowest \in Fds /\ SecondLowest \in Fds
  BY <1>1, <1>4, SecondIsFree, FdsAssumption DEF Fds
<1>6. /\ DOMAIN T = Fds /\ local' \in Locals
      /\ local'.infd = Lowest /\ local'.output = SecondLowest
      /\ local'.backup = local.backup /\ local'.redir = local.redir
  BY <1>1, <1>2, <1>3, <1>5 DEF Locals, Connected, Typed
<1>7. /\ fds'[0] = T /\ Typed' /\ CommandsHold' /\ leader' = "connect"
      /\ UNCHANGED << cmds, Cmds, at, chain, current >>
      /\ \A c \in Cmds : st'[c] = "unborn" <=> c >= at'
  BY <1>1, <1>6, LeadsAlone
<1>8. \A f \in Fds : fds'[0][f] = IF f = Lowest THEN fds[0][0]
                                  ELSE IF f = SecondLowest THEN fds[0][1] ELSE fds[0][f]
  BY <1>3, <1>5, <1>7
<1>9. at = 1 /\ 1 <= Len(cmds)
  BY <1>1, CmdsType DEF Connected, InOrder
<1>10. InOrder'
  BY <1>7, <1>9 DEF InOrder
<1>11. Outer(fds[0][0]) /\ Outer(fds[0][1])
  BY <1>3, <1>4 DEF OuterBut
<1>12. LeaderHolds'
  <2>1. \A f \in 0..2 : fds'[0][f] # Closed
    BY <1>3, <1>4, <1>5, <1>8
  <2>2. OuterBut({})'
    BY <1>3, <1>4, <1>8 DEF OuterBut
  <2>3. OuterBut({0, 1, local.infd})'
    BY <2>2 DEF OuterBut
  <2>4. Outer(fds'[0][Lowest]) /\ Outer(fds'[0][SecondLowest])
    BY <1>5, <1>8, <1>11
  <2> QED
    BY <1>6, <1>7, <1>9, <2>1, <2>2, <2>3, <2>4 DEF LeaderHolds
<1>13. OwnFds'
  <2>1. /\ local.backup[1] \in 3..MaxFd /\ local.backup[2] \in 3..MaxFd
        /\ local.backup[1] # local.backup[2]
        /\ Outer(fds[0][local.backup[1]]) /\ Outer(fds[0][local.backup[2]])
        /\ local.redir \in 1..(Len(chain[current].redirs) + 1)
    BY <1>1 DEF Connected, OwnFds
  <2>2. Lowest \notin {local.backup[1], local.backup[2]}
        /\ SecondLowest \notin {local.backup[1], local.backup[2]}
    BY <2>1, <1>5, EndsDiffer
  <2>3. Outer(fds'[0][local.backup[1]]) /\ Outer(fds'[0][local.backup[2]])
    BY <2>1, <2>2, <1>8, FdsAssumption DEF Fds
  <2> QED
    BY <1>5, <1>6, <1>7, <2>1, <2>2, <2>3 DEF OwnFds
<1> QED
  BY <1>7, <1>10, <1>12, <1>13 DEF Connected

\* A command that is not the last gets the pipe before it and one behind it.
LEMMA ConnectToPipeConnects ==
  ASSUME Connected, ConnectToPipe
  PROVE  Connected'
<1> DEFINE read == Min({local.infd, Lowest})
           T == [FromInfd EXCEPT ![read] = ReadEnd(at), ![1] = WriteEnd(at)]
<1>1. leader = "connect" /\ at < Len(cmds) /\ OneLeft /\ Leads(T, "start")
  BY DEF ConnectToPipe
<1>2. local' = [local EXCEPT !.infd = read]
  BY DEF ConnectToPipe
<1>3. DOMAIN fds[0] = Fds /\ 0 \in Fds /\ 1 \in Fds /\ 2 \in Fds
  BY FdsAssumption, CmdsType DEF Connected, Typed, Fds
<1>4. /\ \A f \in 0..2 : fds[0][f] # Closed
      /\ OuterBut({0, 1, local.infd}) /\ Outer(fds[0][local.output])
      /\ IF at > 1 THEN fds[0][local.infd] = ReadEnd(at - 1) ELSE Outer(fds[0][local.infd])
  BY <1>1 DEF Connected, LeaderHolds
<1>5. /\ local.backup[1] \in 3..MaxFd /\ local.backup[2] \in 3..MaxFd
      /\ local.backup[1] # local.backup[2]
      /\ Outer(fds[0][local.backup[1]]) /\ Outer(fds[0][local.backup[2]])
      /\ local.redir \in 1..(Len(chain[current].redirs) + 1)
      /\ local.infd \in 3..MaxFd /\ local.output \in 3..MaxFd
      /\ local.infd \notin {local.backup[1], local.backup[2], local.output}
      /\ local.output \notin {local.backup[1], local.backup[2]}
  BY <1>1 DEF Connected, OwnFds
<1>6. Lowest \in 3..MaxFd /\ fds[0][Lowest] = Closed
  BY <1>1, <1>4, LowestIsFree
<1>7. read \in {local.infd, Lowest}
  <2>1. {local.infd, Lowest} \subseteq Nat /\ {local.infd, Lowest} # {}
    BY <1>5, <1>6
  <2> QED
    BY <2>1, LeastOf
<1> HIDE DEF read
<1>8. /\ read \in 3..MaxFd /\ read \in Fds
      /\ read \notin {local.backup[1], local.backup[2], local.output}
  BY <1>5, <1>4, <1>6, <1>7, FdsAssumption, EndsDiffer DEF Fds
<1>9. /\ local' \in Locals /\ local'.infd = read /\ local'.output = local.output
      /\ local'.backup = local.backup /\ local'.redir = local.redir
  <2>1. local \in Locals
    BY <1>1 DEF Connected, Typed
  <2> QED
    BY <2>1, <1>2, <1>8 DEF Locals
<1>10. DOMAIN T = Fds
  BY <1>3 DEF FromInfd
<1>11. /\ fds'[0] = T /\ Typed' /\ CommandsHold' /\ leader' = "start"
       /\ UNCHANGED << cmds, Cmds, at, chain, current >>
       /\ \A c \in Cmds : st'[c] = "unborn" <=> c >= at'
  BY <1>1, <1>9, <1>10, LeadsAlone
<1>12. \A f \in Fds : fds'[0][f] = IF f = 1 THEN WriteEnd(at)
                                   ELSE IF f = read THEN ReadEnd(at)
                                   ELSE IF f = local.infd THEN Closed
                                   ELSE IF f = 0 THEN fds[0][local.infd] ELSE fds[0][f]
  <2>1. \A f \in Fds : FromInfd[f] = IF f = local.infd THEN Closed
                                     ELSE IF f = 0 THEN fds[0][local.infd] ELSE fds[0][f]
    BY <1>3, <1>5 DEF FromInfd, Fds
  <2>2. DOMAIN FromInfd = Fds
    BY <1>3 DEF FromInfd
  <2> QED
    BY <2>1, <2>2, <1>3, <1>5, <1>8, <1>11, FdsAssumption
<1>13. InOrder'
  BY <1>1, <1>11 DEF Connected, InOrder
<1>14. LeaderHolds'
  <2>1. fds'[0][0] = fds[0][local.infd] /\ fds'[0][1] = WriteEnd(at) /\ fds'[0][2] = fds[0][2]
    BY <1>3, <1>5, <1>8, <1>12, FdsAssumption
  <2>2. fds'[0][read] = ReadEnd(at) /\ fds'[0][local.output] = fds[0][local.output]
    <3>1. read \in Fds /\ read # 1
      BY <1>8
    <3>2. local.output \in Fds /\ local.output \notin {0, 1, read, local.infd}
      BY <1>5, <1>8, FdsAssumption DEF Fds
    <3> QED
      BY <3>1, <3>2, <1>12
  <2>3. \A f \in 0..2 : fds'[0][f] # Closed
    BY <2>1, <1>4, EndsDiffer
  <2>4. ASSUME NEW f \in Fds \ {0, 1, read} PROVE Outer(fds'[0][f]) \/ fds'[0][f] = Closed
    BY <1>4, <1>12 DEF OuterBut
  <2>5. OuterBut({0, 1, local.infd})'
    BY <2>4, <1>9 DEF OuterBut
  <2> QED
    BY <1>1, <1>4, <1>9, <1>11, <2>1, <2>2, <2>3, <2>5 DEF LeaderHolds
<1>15. OwnFds'
  <2>1. ASSUME NEW b \in {local.backup[1], local.backup[2]} PROVE fds'[0][b] = fds[0][b]
    <3>1. b \in Fds /\ b \notin {0, 1, read, local.infd}
      BY <1>5, <1>8, FdsAssumption DEF Fds
    <3> QED
      BY <3>1, <1>12
  <2> QED
    BY <1>5, <1>8, <1>9, <1>11, <2>1 DEF OwnFds
<1> QED
  BY <1>11, <1>13, <1>14, <1>15 DEF Connected

\* The last command gets the pipe before it and the pipeline's output.
LEMMA ConnectLastConnects ==
  ASSUME Connected, ConnectLast
  PROVE  Connected'
<1> DEFINE T == [FromInfd EXCEPT ![1] = fds[0][local.output], ![local.output] = Closed]
<1>1. leader = "connect" /\ at = Len(cmds) /\ Leads(T, "start") /\ local' = local
  BY DEF ConnectLast
<1>2. DOMAIN fds[0] = Fds /\ 0 \in Fds /\ 1 \in Fds /\ 2 \in Fds
  BY FdsAssumption, CmdsType DEF Connected, Typed, Fds
<1>3. /\ \A f \in 0..2 : fds[0][f] # Closed
      /\ OuterBut({0, 1, local.infd}) /\ Outer(fds[0][local.output])
      /\ IF at > 1 THEN fds[0][local.infd] = ReadEnd(at - 1) ELSE Outer(fds[0][local.infd])
  BY <1>1 DEF Connected, LeaderHolds
<1>4. /\ local.backup[1] \in 3..MaxFd /\ local.backup[2] \in 3..MaxFd
      /\ local.backup[1] # local.backup[2]
      /\ Outer(fds[0][local.backup[1]]) /\ Outer(fds[0][local.backup[2]])
      /\ local.redir \in 1..(Len(chain[current].redirs) + 1)
      /\ local.infd \in 3..MaxFd /\ local.output \in 3..MaxFd
      /\ local.infd \notin {local.backup[1], local.backup[2], local.output}
      /\ local.output \notin {local.backup[1], local.backup[2]}
  BY <1>1 DEF Connected, OwnFds
<1>5. DOMAIN T = Fds /\ local' \in Locals
  BY <1>1, <1>2 DEF FromInfd, Connected, Typed
<1>6. /\ fds'[0] = T /\ Typed' /\ CommandsHold' /\ leader' = "start"
      /\ UNCHANGED << cmds, Cmds, at, chain, current >>
      /\ \A c \in Cmds : st'[c] = "unborn" <=> c >= at'
  BY <1>1, <1>5, LeadsAlone
<1>7. \A f \in Fds : fds'[0][f] = IF f = 1 THEN fds[0][local.output]
                                  ELSE IF f \in {local.output, local.infd} THEN Closed
                                  ELSE IF f = 0 THEN fds[0][local.infd] ELSE fds[0][f]
  <2>1. \A f \in Fds : FromInfd[f] = IF f = local.infd THEN Closed
                                     ELSE IF f = 0 THEN fds[0][local.infd] ELSE fds[0][f]
    BY <1>2, <1>4 DEF FromInfd, Fds
  <2>2. DOMAIN FromInfd = Fds
    BY <1>2 DEF FromInfd
  <2> QED
    BY <2>1, <2>2, <1>2, <1>4, <1>6, FdsAssumption
<1>8. InOrder'
  BY <1>1, <1>6 DEF Connected, InOrder
<1>9. LeaderHolds'
  <2>1. /\ fds'[0][0] = fds[0][local.infd] /\ fds'[0][1] = fds[0][local.output]
        /\ fds'[0][2] = fds[0][2]
    BY <1>2, <1>4, <1>7, FdsAssumption
  <2>2. \A f \in 0..2 : fds'[0][f] # Closed
    BY <2>1, <1>3, EndsDiffer
  <2>3. ASSUME NEW f \in Fds \ {0} PROVE Outer(fds'[0][f]) \/ fds'[0][f] = Closed
    BY <1>3, <1>4, <1>7 DEF OuterBut
  <2>4. OuterBut({0})'
    BY <2>3 DEF OuterBut
  <2> QED
    BY <1>1, <1>3, <1>6, <2>1, <2>2, <2>4 DEF LeaderHolds
<1>10. OwnFds'
  <2>1. ASSUME NEW b \in {local.backup[1], local.backup[2]} PROVE fds'[0][b] = fds[0][b]
    <3>1. b \in Fds /\ b \notin {0, 1, local.output, local.infd}
      BY <1>4, FdsAssumption DEF Fds
    <3> QED
      BY <3>1, <1>7
  <2> QED
    BY <1>1, <1>4, <1>6, <2>1 DEF OwnFds
<1> QED
  BY <1>6, <1>8, <1>9, <1>10 DEF Connected

\* The leader goes to the next command, or past the last.
LEMMA NextConnects ==
  ASSUME Connected, leader = "start", NextCommand, UNCHANGED << chain, current, local >>,
         fds'[0] = fds[0]
  PROVE  /\ OwnFds' /\ LeaderHolds' /\ UNCHANGED << cmds, Cmds, Pipes >>
         /\ leader' \in {"connect", "restore"} /\ local' \in Locals
         /\ at \in Cmds /\ at' = at + 1 /\ at' \in 1..(Len(cmds) + 1)
         /\ (leader' = "restore") <=> (at' = Len(cmds) + 1)
<1>1. UNCHANGED << cmds, Cmds, Pipes >>
  BY DEF cmds, Cmds, Pipes
<1>2. /\ Len(cmds) \in Nat /\ Cmds = 1..Len(cmds) /\ at \in 1..Len(cmds)
  BY CmdsType DEF Connected, InOrder, Typed
<1>3. at' = at + 1 /\ leader' = IF at < Len(cmds) THEN "connect" ELSE "restore"
  BY DEF NextCommand
<1>4. /\ local.backup[1] \in 3..MaxFd /\ local.backup[2] \in 3..MaxFd
      /\ local.backup[1] # local.backup[2]
      /\ Outer(fds[0][local.backup[1]]) /\ Outer(fds[0][local.backup[2]])
      /\ local.redir \in 1..(Len(chain[current].redirs) + 1)
      /\ local.infd \in 3..MaxFd /\ local.output \in 3..MaxFd
      /\ local.infd \notin {local.backup[1], local.backup[2], local.output}
      /\ local.output \notin {local.backup[1], local.backup[2]}
  BY DEF Connected, OwnFds
<1>5. OwnFds'
  BY <1>4 DEF OwnFds
<1>6. /\ \A f \in 0..2 : fds[0][f] # Closed
      /\ IF at > 1 THEN fds[0][0] = ReadEnd(at - 1) ELSE Outer(fds[0][0])
      /\ IF at < Len(cmds)
         THEN /\ OuterBut({0, 1, local.infd})
              /\ fds[0][1] = WriteEnd(at) /\ fds[0][local.infd] = ReadEnd(at)
              /\ Outer(fds[0][local.output])
         ELSE OuterBut({0}) /\ Outer(fds[0][1])
  BY DEF Connected, LeaderHolds
<1>7. CASE at < Len(cmds)
  <2>1. OuterBut({0, 1, local.infd})'
    BY <1>6, <1>7 DEF OuterBut
  <2>2. /\ leader' = "connect" /\ at' > 1 /\ at' - 1 = at /\ at' - 2 = at - 1
        /\ (at' > 2 <=> at > 1) /\ (at' = 2 <=> at = 1)
    BY <1>2, <1>3, <1>7
  <2>3. LeaderHolds'
    BY <1>2, <1>6, <1>7, <2>1, <2>2 DEF LeaderHolds
  <2> QED
    BY <1>1, <1>2, <1>3, <1>5, <1>7, <2>3 DEF Connected, Typed
<1>8. CASE at = Len(cmds)
  <2>1. OuterBut({0})'
    BY <1>6, <1>8 DEF OuterBut
  <2>2. LeaderHolds'
    BY <1>1, <1>2, <1>3, <1>6, <1>8, <2>1 DEF LeaderHolds
  <2> QED
    BY <1>1, <1>2, <1>3, <1>5, <1>8, <2>2 DEF Connected, Typed
<1> QED
  BY <1>2, <1>7, <1>8

\* fork: the command starts with what the leader has, which is what it should have.
LEMMA StartConnects ==
  ASSUME Connected, Start
  PROVE  Connected'
<1>1. /\ leader = "start" /\ NextCommand
      /\ st' = [st EXCEPT ![at] = "running"] /\ fds' = [fds EXCEPT ![at] = fds[0]]
      /\ UNCHANGED << chain, current, local, group, overlooked, todo, fill, delivered >>
  BY DEF Start, jobs
<1>2. /\ Len(cmds) \in Nat /\ Cmds = 1..Len(cmds) /\ at \in 1..Len(cmds)
      /\ DOMAIN fds = 0..Len(cmds) /\ \A q \in 0..Len(cmds) : DOMAIN fds[q] = Fds
  BY <1>1, CmdsType DEF Connected, InOrder, Typed
<1>3. fds'[0] = fds[0] /\ fds'[at] = fds[0] /\ \A c \in Cmds \ {at} : fds'[c] = fds[c]
  BY <1>1, <1>2
<1>4. /\ OwnFds' /\ LeaderHolds' /\ UNCHANGED << cmds, Cmds, Pipes >>
      /\ leader' \in {"connect", "restore"} /\ local' \in Locals
      /\ at \in Cmds /\ at' = at + 1 /\ at' \in 1..(Len(cmds) + 1)
      /\ (leader' = "restore") <=> (at' = Len(cmds) + 1)
  BY <1>1, <1>3, NextConnects
<1>5. Typed'
  <2>1. st' \in [Cmds -> {"unborn", "running", "ended", "failed"}]
    BY <1>1 DEF Connected, Typed
  <2>2. DOMAIN fds' = 0..Len(cmds) /\ \A q \in 0..Len(cmds) : DOMAIN fds'[q] = Fds
    BY <1>1, <1>2, <1>3
  <2> QED
    BY <1>1, <1>4, <2>1, <2>2 DEF Connected, Typed
<1>6. st \in [Cmds -> {"unborn", "running", "ended", "failed"}]
  BY DEF Connected, Typed
<1>7. InOrder'
  <2>1. \A c \in Cmds : st'[c] = "unborn" <=> c >= at'
    BY <1>1, <1>2, <1>4, <1>6 DEF Connected, InOrder
  <2> QED
    BY <1>2, <1>4, <2>1 DEF InOrder
<1>8. CommandsHold'
  <2>1. /\ IF at > 1 THEN fds[0][0] = ReadEnd(at - 1) ELSE Outer(fds[0][0])
        /\ IF at < Len(cmds)
           THEN /\ OuterBut({0, 1, local.infd})
                /\ fds[0][1] = WriteEnd(at) /\ fds[0][local.infd] = ReadEnd(at)
           ELSE OuterBut({0}) /\ Outer(fds[0][1])
        /\ local.infd \in Fds
    BY <1>1, FdsAssumption DEF Connected, LeaderHolds, OwnFds, Fds
  <2>2. ASSUME NEW f \in Fds
        PROVE  \/ Outer(fds[0][f]) \/ fds[0][f] = Closed
               \/ fds[0][f] \in {WriteEnd(at), ReadEnd(at - 1), ReadEnd(at)}
    BY <1>2, <2>1 DEF OuterBut
  <2>3. at < Len(cmds) => \E f \in Fds : fds[0][f] = ReadEnd(at)
    BY <2>1
  <2>4. ASSUME NEW c \in Cmds, c # at
        PROVE  fds'[c] = fds[c] /\ st'[c] = st[c]
    BY <1>1, <1>3, <2>4, <1>6
  <2>5. st'[at] = "running" /\ fds'[at] = fds[0]
    BY <1>1, <1>3, <1>4, <1>6
  <2> QED
    BY <1>4, <2>1, <2>2, <2>3, <2>4, <2>5 DEF Connected, CommandsHold
<1> QED
  BY <1>4, <1>5, <1>7, <1>8 DEF Connected

\* A command that is over before the next one is started has nothing open.
LEMMA EndedConnects ==
  ASSUME Connected, NEW end \in {"ended", "failed"}, st' = [st EXCEPT ![at] = end],
         fds' = fds, UNCHANGED << chain, current, todo, local, group, overlooked >>,
         leader = "start", OwnFds', LeaderHolds', UNCHANGED << cmds, Cmds, Pipes >>,
         leader' \in {"connect", "restore"}, local' \in Locals,
         at \in Cmds, at' = at + 1, at' \in 1..(Len(cmds) + 1),
         (leader' = "restore") <=> (at' = Len(cmds) + 1),
         fill' \in [Pipes -> Nat], delivered' \in Nat
  PROVE  Connected'
<1>1. /\ Len(cmds) \in Nat /\ Cmds = 1..Len(cmds)
      /\ st \in [Cmds -> {"unborn", "running", "ended", "failed"}]
  BY CmdsType DEF Connected, Typed
<1>2. Typed'
  BY <1>1 DEF Connected, Typed
<1>3. InOrder'
  <2>1. \A c \in Cmds : st'[c] = "unborn" <=> c >= at'
    BY <1>1 DEF Connected, InOrder
  <2> QED
    BY <1>1, <2>1 DEF InOrder
<1>4. CommandsHold'
  <2>1. st[at] = "unborn" /\ st'[at] = end /\ \A c \in Cmds \ {at} : st'[c] = st[c]
    BY <1>1 DEF Connected, InOrder
  <2> QED
    BY <2>1 DEF Connected, CommandsHold
<1> QED
  BY <1>2, <1>3, <1>4 DEF Connected

\* fork fails: the command is never there.
LEMMA CannotStartConnects ==
  ASSUME Connected, CannotStart
  PROVE  Connected'
<1>1. /\ leader = "start" /\ NextCommand
      /\ st' = [st EXCEPT ![at] = "failed"] /\ fds' = fds
      /\ UNCHANGED << chain, current, local, group, overlooked, todo, fill, delivered >>
  BY DEF CannotStart, jobs
<1>2. /\ OwnFds' /\ LeaderHolds' /\ UNCHANGED << cmds, Cmds, Pipes >>
      /\ leader' \in {"connect", "restore"} /\ local' \in Locals
      /\ at \in Cmds /\ at' = at + 1 /\ at' \in 1..(Len(cmds) + 1)
      /\ (leader' = "restore") <=> (at' = Len(cmds) + 1)
  BY <1>1, NextConnects
<1>3. fill' \in [Pipes -> Nat] /\ delivered' \in Nat
  BY <1>1 DEF Connected, Typed
<1> QED
  BY <1>1, <1>2, <1>3, EndedConnects

\* A block that goes into an end.
LEMMA IntoType ==
  ASSUME Typed, NEW end, Into(end)
  PROVE  fill' \in [Pipes -> Nat] /\ delivered' \in Nat
<1>1. fill \in [Pipes -> Nat] /\ delivered \in Nat
  BY DEF Typed
<1> QED
  BY <1>1 DEF Into

\* A builtin writes with the descriptors a child would have got.
LEMMA RunBuiltinConnects ==
  ASSUME Connected, RunBuiltin
  PROVE  Connected'
<1>1. /\ leader = "start" /\ NextCommand /\ Into(fds[0][1])
      /\ st' = [st EXCEPT ![at] = "ended"] /\ fds' = fds
      /\ UNCHANGED << chain, current, local, group, overlooked, todo >>
  BY DEF RunBuiltin, jobs
<1>2. /\ OwnFds' /\ LeaderHolds' /\ UNCHANGED << cmds, Cmds, Pipes >>
      /\ leader' \in {"connect", "restore"} /\ local' \in Locals
      /\ at \in Cmds /\ at' = at + 1 /\ at' \in 1..(Len(cmds) + 1)
      /\ (leader' = "restore") <=> (at' = Len(cmds) + 1)
  BY <1>1, NextConnects
<1>3. fill' \in [Pipes -> Nat] /\ delivered' \in Nat
  BY <1>1, IntoType DEF Connected
<1> QED
  BY <1>1, <1>2, <1>3, EndedConnects

\* The leader has its own input and output back.
LEMMA RestoreConnects ==
  ASSUME Connected, Restore
  PROVE  Connected'
<1> DEFINE T == [fds[0] EXCEPT ![0] = fds[0][local.backup[1]], ![1] = fds[0][local.backup[2]]]
<1>1. leader = "restore" /\ Leads(T, "wait")
  BY DEF Restore
<1>2. DOMAIN fds[0] = Fds /\ 0 \in Fds /\ 1 \in Fds /\ 2 \in Fds
  BY FdsAssumption, CmdsType DEF Connected, Typed, Fds
<1>3. /\ fds'[0] = T /\ Typed' /\ CommandsHold' /\ leader' = "wait"
      /\ \A c \in Cmds : st'[c] = "unborn" <=> c >= at'
      /\ UNCHANGED << cmds, Cmds, at >>
  BY <1>1, <1>2, LeadsAlone
<1>4. /\ Outer(fds[0][local.backup[1]]) /\ Outer(fds[0][local.backup[2]])
      /\ OuterBut({0}) /\ fds[0][2] # Closed
  BY <1>1 DEF Connected, OwnFds, LeaderHolds
<1>5. \A f \in Fds : fds'[0][f] = IF f = 0 THEN fds[0][local.backup[1]]
                                  ELSE IF f = 1 THEN fds[0][local.backup[2]] ELSE fds[0][f]
  BY <1>2, <1>3
<1>6. InOrder'
  BY <1>1, <1>3 DEF Connected, InOrder
<1>7. LeaderHolds'
  <2>1. \A f \in 0..2 : fds'[0][f] # Closed
    BY <1>2, <1>4, <1>5, EndsDiffer
  <2>2. OuterBut({})'
    BY <1>4, <1>5 DEF OuterBut
  <2> QED
    BY <1>3, <2>1, <2>2 DEF LeaderHolds
<1>8. OwnFds'
  BY <1>3 DEF OwnFds
<1> QED
  BY <1>3, <1>6, <1>7, <1>8 DEF Connected

\* The leader is done with the pipeline when every command it can wait for is.
LEMMA DoneConnects ==
  ASSUME Connected, Done
  PROVE  Connected'
<1>1. /\ leader = "wait" /\ leader' = "done"
      /\ UNCHANGED << chain, current, at, local, group, overlooked, fds, st, todo, fill,
                      delivered >>
  BY DEF Done, jobs
<1>2. UNCHANGED << cmds, Cmds, Pipes >>
  BY <1>1 DEF cmds, Cmds, Pipes
<1>3. Typed'
  BY <1>1, <1>2 DEF Connected, Typed
<1>4. InOrder' /\ OwnFds'
  BY <1>1, <1>2 DEF Connected, InOrder, OwnFds
<1>5. LeaderHolds' /\ CommandsHold'
  BY <1>1, <1>2 DEF Connected, LeaderHolds, CommandsHold, OuterBut
<1> QED
  BY <1>3, <1>4, <1>5 DEF Connected

\* A pipeline at its start, whatever the leader has in descriptors above 2, as long as
\* those are no pipes.
LEMMA UnbornConnects ==
  ASSUME chain' \in Seq(Pipeline), current' \in 1..Len(chain'), NEW T, DOMAIN T = Fds,
         \A f \in Fds : Outer(T[f]) \/ T[f] = Closed, \A f \in 0..2 : T[f] # Closed,
         at' = 1, leader' = "backup", delivered' = 0,
         group' \in {"shell", "job"}, overlooked' = {},
         fds' = [q \in 0..Len(cmds') |-> IF q = 0 THEN T ELSE NoFds],
         st' = [c \in Cmds' |-> "unborn"],
         todo' = [c \in Cmds' |-> CASE cmds'[c] = "source" -> Blocks
                                    [] cmds'[c] = "yes" -> 1 [] OTHER -> 0],
         fill' = [i \in Pipes' |-> 0]
  PROVE  Connected'
<1>1. cmds' \in Seq(Kinds) /\ cmds' # << >>
  <2>1. chain'[current'] \in Pipeline
    OBVIOUS
  <2> QED
    BY <2>1 DEF cmds, Pipeline
<1>2. Len(cmds') \in Nat /\ Len(cmds') >= 1 /\ Cmds' = 1..Len(cmds')
  BY <1>1 DEF Cmds
<1>3. fds'[0] = T /\ \A c \in Cmds' : fds'[c] = NoFds
  BY <1>2
<1>4. DOMAIN fds' = 0..Len(cmds') /\ \A q \in 0..Len(cmds') : DOMAIN fds'[q] = Fds
  BY <1>2 DEF NoFds, Fds
<1>5. todo' \in [Cmds' -> Nat]
  BY CapacityAssumption
<1>6. fill' \in [Pipes' -> Nat] /\ delivered' \in Nat
  OBVIOUS
<1>7. Typed'
  BY <1>2, <1>4, <1>5, <1>6 DEF Typed
<1>8. InOrder'
  BY <1>2 DEF InOrder
<1>9. OwnFds' /\ LeaderHolds'
  BY <1>3 DEF OwnFds, LeaderHolds, OuterBut
<1>10. CommandsHold'
  <2>1. \A c \in Cmds' : st'[c] = "unborn" /\ \A f \in Fds : fds'[c][f] = Closed
    BY <1>3, NoneOpen
  <2> QED
    BY <2>1 DEF CommandsHold
<1> QED
  BY <1>7, <1>8, <1>9, <1>10 DEF Connected

\* The next pipeline starts with commands that have nothing open.
LEMMA NextPipelineConnects ==
  ASSUME Connected, NextPipeline
  PROVE  Connected'
<1>1. /\ leader = "done" /\ current < Len(chain) /\ current' = current + 1
      /\ chain' = chain /\ Unborn(chain[current + 1], fds[0])
      /\ group' \in {"shell", "job"}
  BY DEF NextPipeline, Connected, Typed
<1>2. /\ chain' \in Seq(Pipeline) /\ Len(chain) \in Nat
      /\ current' \in 1..Len(chain')
  BY <1>1 DEF Connected, Typed
<1>3. cmds' = chain[current + 1].cmds /\ Cmds' = DOMAIN cmds' /\ Pipes' = 1..(Len(cmds') - 1)
  BY <1>1 DEF cmds, Cmds, Pipes
<1>4. /\ DOMAIN fds[0] = Fds
      /\ \A f \in Fds : Outer(fds[0][f]) \/ fds[0][f] = Closed
      /\ \A f \in 0..2 : fds[0][f] # Closed
  BY <1>1, CmdsType DEF Connected, Typed, LeaderHolds, OuterBut
<1> QED
  BY <1>1, <1>2, <1>3, <1>4, UnbornConnects DEF Unborn
-----------------------------------------------------------------------------
(* The commands keep it: they only ever close what they have. *)

LEMMA CommandKeeps ==
  ASSUME Connected, NEW c \in Cmds, NEW ended \in BOOLEAN, st[c] = "running",
         st' = IF ended THEN [st EXCEPT ![c] = "ended"] ELSE st,
         DOMAIN fds' = DOMAIN fds,
         \A q \in DOMAIN fds : fds'[q] = IF q = c /\ ended THEN NoFds ELSE fds[q],
         UNCHANGED << chain, current, at, leader, local, group, overlooked >>,
         todo' \in [Cmds -> Nat], fill' \in [Pipes -> Nat], delivered' \in Nat
  PROVE  Connected'
<1>1. /\ Len(cmds) \in Nat /\ Cmds = 1..Len(cmds)
      /\ DOMAIN fds = 0..Len(cmds) /\ \A q \in 0..Len(cmds) : DOMAIN fds[q] = Fds
      /\ st \in [Cmds -> {"unborn", "running", "ended", "failed"}]
  BY CmdsType DEF Connected, Typed
<1>2. UNCHANGED << cmds, Cmds, Pipes >>
  BY DEF cmds, Cmds, Pipes
<1>3. /\ fds'[0] = fds[0] /\ \A d \in Cmds \ {c} : fds'[d] = fds[d] /\ st'[d] = st[d]
      /\ fds'[c] = IF ended THEN NoFds ELSE fds[c]
      /\ st'[c] = IF ended THEN "ended" ELSE "running"
  <2>1. \A d \in Cmds : st'[d] = IF d = c /\ ended THEN "ended" ELSE st[d]
    BY <1>1
  <2>2. 0 \in DOMAIN fds /\ 0 # c /\ Cmds \subseteq DOMAIN fds
    BY <1>1
  <2> QED
    BY <2>1, <2>2
<1>4. Typed'
  <2>1. st' \in [Cmds -> {"unborn", "running", "ended", "failed"}]
    BY <1>1
  <2>2. DOMAIN fds' = 0..Len(cmds) /\ \A q \in 0..Len(cmds) : DOMAIN fds'[q] = Fds
    BY <1>1, <1>3 DEF NoFds, Fds
  <2> QED
    BY <1>2, <2>1, <2>2 DEF Connected, Typed
<1>5. InOrder'
  BY <1>2, <1>3 DEF Connected, InOrder
<1>6. OwnFds' /\ LeaderHolds'
  BY <1>2, <1>3 DEF Connected, OwnFds, LeaderHolds, OuterBut
<1>7. CommandsHold'
  <2>1. ended => st'[c] = "ended" /\ \A f \in Fds : fds'[c][f] = Closed
    BY <1>3, NoneOpen
  <2>2. ~ended => st'[c] = st[c] /\ fds'[c] = fds[c]
    BY <1>3
  <2> QED
    BY <1>2, <1>3, <2>1, <2>2 DEF Connected, CommandsHold
<1> QED
  BY <1>4, <1>5, <1>6, <1>7 DEF Connected

\* A command that reads, writes or ends opens nothing.
LEMMA CommandConnects ==
  ASSUME Connected, NEW c \in Cmds, Command(c)
  PROVE  Connected'
<1>1. todo \in [Cmds -> Nat] /\ fill \in [Pipes -> Nat] /\ delivered \in Nat
  BY DEF Connected, Typed
<1>2. CASE Writes(c)
  <2>1. todo' \in [Cmds -> Nat]
    BY <1>1, <1>2 DEF Writes
  <2>2. fill' \in [Pipes -> Nat] /\ delivered' \in Nat
    BY <1>2, IntoType DEF Writes, Connected
  <2> DEFINE ended == cmds[c] = "head"
  <2>3. st' = IF ended THEN [st EXCEPT ![c] = "ended"] ELSE st
    <3>1. st' = [st EXCEPT ![c] = IF ended THEN "ended" ELSE @]
      BY <1>2 DEF Writes
    <3> QED
      BY <3>1 DEF Connected, Typed
  <2>4. /\ DOMAIN fds' = DOMAIN fds
        /\ \A q \in DOMAIN fds : fds'[q] = IF q = c /\ ended THEN NoFds ELSE fds[q]
    BY <1>2 DEF Writes
  <2> QED
    BY <1>2, <2>1, <2>2, <2>3, <2>4, CommandKeeps DEF Writes, jobs
<1>3. CASE Reads(c)
  <2>1. todo' \in [Cmds -> Nat] /\ fill' \in [Pipes -> Nat] /\ delivered' \in Nat
    BY <1>1, <1>3 DEF Reads
  <2> QED
    BY <1>3, <2>1, CommandKeeps DEF Reads, jobs
<1>4. CASE Ends(c)
  BY <1>1, <1>4, CommandKeeps DEF Ends, jobs
<1> QED
  BY <1>2, <1>3, <1>4 DEF Command

\* setpgid opens and closes nothing.
LEMMA AddJobConnects ==
  ASSUME Connected, AddJob
  PROVE  Connected'
<1>1. /\ group' = "job" /\ overlooked' \subseteq Cmds
      /\ UNCHANGED << chain, current, at, leader, local, fds, st, todo, fill, delivered >>
  BY DEF AddJob
<1>2. UNCHANGED << cmds, Cmds, Pipes >>
  BY <1>1 DEF cmds, Cmds, Pipes
<1>3. Typed'
  BY <1>1, <1>2 DEF Connected, Typed
<1>4. InOrder' /\ OwnFds'
  BY <1>1, <1>2 DEF Connected, InOrder, OwnFds
<1>5. LeaderHolds' /\ CommandsHold'
  BY <1>1, <1>2 DEF Connected, LeaderHolds, CommandsHold, OuterBut
<1> QED
  BY <1>3, <1>4, <1>5 DEF Connected
-----------------------------------------------------------------------------
\* Initially the leader has the terminal open, and nothing else.
LEMMA ConnectedInit ==
  Init => Connected
<1> SUFFICES ASSUME Init PROVE Connected
  OBVIOUS
<1> DEFINE T == [f \in 0..MaxFd |-> IF f < 3 THEN Tty ELSE Closed]
<1>1. chain \in Seq(Pipeline) /\ chain # << >> /\ current = 1
  BY ChainsAssumption DEF Init
<1>2. current \in 1..Len(chain)
  BY <1>1
<1>3. chain[current] \in Pipeline
  BY <1>1, <1>2
<1>4. cmds \in Seq(Kinds) /\ cmds # << >>
  BY <1>3 DEF cmds, Pipeline
<1>5. Len(cmds) \in Nat /\ Len(cmds) >= 1 /\ Cmds = 1..Len(cmds)
  BY <1>4 DEF Cmds
<1>6. fds = [q \in 0..Len(cmds) |-> IF q = 0 THEN T ELSE NoFds]
  BY <1>5 DEF Init, NoFds
<1>7. DOMAIN fds = 0..Len(cmds) /\ fds[0] = T /\ \A c \in Cmds : fds[c] = NoFds
  BY <1>5, <1>6
<1>8. /\ \A f \in 0..2 : T[f] # Closed
      /\ \A f \in Fds : Outer(T[f]) \/ T[f] = Closed
  BY EndsDiffer, FdsAssumption DEF Fds
<1>9. Typed
  <2>1. todo \in [Cmds -> Nat] /\ fill \in [Pipes -> Nat] /\ delivered \in Nat
    BY CapacityAssumption DEF Init
  <2>2. \A q \in 0..Len(cmds) : DOMAIN fds[q] = Fds
    BY <1>6 DEF NoFds, Fds
  <2> QED
    BY <1>1, <1>2, <1>5, <1>7, <2>1, <2>2 DEF Init, Typed
<1>10. InOrder
  BY <1>5 DEF Init, InOrder
<1>11. OwnFds /\ LeaderHolds
  BY <1>7, <1>8 DEF Init, OwnFds, LeaderHolds, OuterBut
<1>12. CommandsHold
  <2>1. \A c \in Cmds : st[c] = "unborn" /\ \A f \in Fds : fds[c][f] = Closed
    BY <1>7, NoneOpen DEF Init
  <2> QED
    BY <2>1 DEF CommandsHold
<1> QED
  BY <1>9, <1>10, <1>11, <1>12 DEF Connected

\* The topology is inductive: one case for each step of execute_pipeline.
LEMMA ConnectedStep ==
  Connected /\ [Next]_vars => Connected'
<1> SUFFICES ASSUME Connected, [Next]_vars PROVE Connected'
  OBVIOUS
<1>1. CASE Leader
  BY <1>1, BackupConnects, RedirectConnects, CannotRedirectConnects, RedirectedConnects,
     ConnectToPipeConnects, ConnectLastConnects, StartConnects, CannotStartConnects,
     RunBuiltinConnects, RestoreConnects, DoneConnects, NextPipelineConnects DEF Leader
<1>2. CASE \E c \in Cmds : Command(c)
  BY <1>2, CommandConnects
<1>3. CASE UNCHANGED vars
  <2>1. UNCHANGED << cmds, Cmds, Pipes >>
    BY <1>3 DEF vars, cmds, Cmds, Pipes
  <2>2. Typed'
    BY <1>3, <2>1 DEF vars, jobs, Connected, Typed
  <2>3. InOrder' /\ OwnFds'
    BY <1>3, <2>1 DEF vars, Connected, InOrder, OwnFds
  <2>4. LeaderHolds' /\ CommandsHold'
    BY <1>3, <2>1 DEF vars, Connected, LeaderHolds, CommandsHold, OuterBut
  <2> QED
    BY <2>2, <2>3, <2>4 DEF Connected
<1> QED
  BY <1>1, <1>2, <1>3, AddJobConnects DEF Next

\* The topology of a pipeline is what execute_pipeline means it to be, at every step.
THEOREM AlwaysConnected == Spec => []Connected
<1> QED
  BY ConnectedInit, ConnectedStep, PTL DEF Spec

\* The topology gives every pipe its one writer.
LEMMA ConnectedOneWriter ==
  Connected => OneWriter
<1> SUFFICES ASSUME Connected, NEW i \in Pipes
             PROVE  /\ Holders(WriteEnd(i)) \subseteq
                         IF << leader, at >> \in {<< "start", i >>, << "connect", i + 1 >>}
                         THEN {0, i} ELSE {i}
                    /\ Started => 0 \notin Holders(ReadEnd(i))
  BY DEF OneWriter
<1>1. /\ Len(cmds) \in Nat /\ Cmds = 1..Len(cmds) /\ DOMAIN fds = 0..Len(cmds)
      /\ at \in 1..(Len(cmds) + 1) /\ i \in 1..(Len(cmds) - 1)
  BY CmdsType DEF Connected, Typed, Pipes
<1>2. ASSUME NEW c \in Cmds, c \in Holders(WriteEnd(i)) PROVE c = i
  <2>1. PICK f \in Fds : fds[c][f] = WriteEnd(i)
    BY <1>2 DEF Holders, Fds
  <2> QED
    BY <2>1, EndsDiffer DEF Connected, CommandsHold
<1>3. ASSUME NEW f \in Fds, fds[0][f] = WriteEnd(i)
      PROVE  << leader, at >> \in {<< "start", i >>, << "connect", i + 1 >>}
  <2>1. leader \in {"connect", "start"}
    <3>1. ~Outer(fds[0][f]) /\ fds[0][f] # Closed /\ fds[0][f] # ReadEnd(Len(cmds) - 1)
      BY <1>3, EndsDiffer
    <3>2. leader \notin {"backup", "redirect", "wait", "done", "quit"}
      BY <3>1 DEF Connected, LeaderHolds, OuterBut
    <3>3. leader # "restore"
      BY <3>1 DEF Connected, LeaderHolds, OuterBut
    <3> QED
      BY <3>2, <3>3 DEF Connected, Typed
  <2>2. CASE leader = "connect"
    BY <1>1, <1>3, <2>2, EndsDiffer DEF Connected, LeaderHolds, OuterBut
  <2>3. CASE leader = "start"
    BY <1>1, <1>3, <2>3, EndsDiffer DEF Connected, LeaderHolds, OuterBut
  <2> QED
    BY <2>1, <2>2, <2>3
<1>4. Started => 0 \notin Holders(ReadEnd(i))
  BY EndsDiffer DEF Started, Holders, Connected, LeaderHolds, OuterBut, Fds
<1>5. 0 \in Holders(WriteEnd(i)) =>
        << leader, at >> \in {<< "start", i >>, << "connect", i + 1 >>}
  BY <1>3 DEF Holders, Fds
<1>6. Holders(WriteEnd(i)) \subseteq {0, i}
  BY <1>1, <1>2 DEF Holders
<1> QED
  BY <1>4, <1>5, <1>6

\* No process but the command before a pipe has its write end open once the next command
\* is started (the dup2 and close calls of execute_pipeline), however long the pipeline,
\* and whatever was redirected.
THEOREM PipesHaveOneWriter == Spec => []OneWriter
<1> QED
  BY AlwaysConnected, ConnectedOneWriter, PTL
-----------------------------------------------------------------------------
(* The data: what a command wrote is behind it, and nothing is lost. *)

\* The types a step of a command or of a builtin is argued with.
LEMMA FlowTypes ==
  ASSUME Connected
  PROVE  /\ Len(cmds) \in Nat /\ Len(cmds) >= 1 /\ Cmds = 1..Len(cmds)
         /\ Pipes = 1..(Len(cmds) - 1) /\ at \in 1..(Len(cmds) + 1)
         /\ st \in [Cmds -> {"unborn", "running", "ended", "failed"}]
         /\ todo \in [Cmds -> Nat] /\ fill \in [Pipes -> Nat] /\ delivered \in Nat
BY CmdsType DEF Connected, Typed, Pipes

\* Steps that touch neither commands nor data.
LEMMA FlowsAlong ==
  ASSUME Flows, UNCHANGED << cmds, Cmds, Pipes, st, todo, fill, delivered >>,
         leader' # "done" \/ (leader = "done" /\ overlooked' = overlooked)
  PROVE  Flows'
BY DEF Flows, Balanced, AllFilters, NoneFailed, LastIsWaitedFor

\* A command that is started has written nothing yet.
LEMMA StartFlows ==
  ASSUME Connected, Flows, Start
  PROVE  Flows'
<1> SUFFICES ASSUME AllFilters', NoneFailed'
             PROVE  /\ \E out \in [Cmds' -> Nat] : Balanced(out)'
                    /\ (\A c \in Cmds :
                          st[c] = "ended" => todo[c] = 0
                                             /\ (c > 1 => fill[c - 1] = 0 /\ st[c - 1] = "ended"))'
                    /\ LastIsWaitedFor'
  BY DEF Flows
<1>1. /\ leader = "start" /\ cmds[at] # "builtin" /\ leader' \in {"connect", "restore"}
      /\ st' = [st EXCEPT ![at] = "running"]
      /\ UNCHANGED << cmds, Cmds, Pipes, todo, fill, delivered >>
  BY DEF Start, NextCommand, cmds, Cmds, Pipes
<1>2. at \in Cmds /\ st[at] = "unborn"
  BY <1>1, FlowTypes DEF Connected, InOrder
<1>3. AllFilters /\ NoneFailed
  BY <1>1, <1>2, FlowTypes DEF AllFilters, NoneFailed
<1>4. PICK out \in [Cmds -> Nat] : Balanced(out)
  BY <1>3 DEF Flows
<1>5. Balanced(out)'
  BY <1>1, <1>2, <1>4, FlowTypes DEF Balanced
<1>6. \A c \in Cmds : st'[c] = IF c = at THEN "running" ELSE st[c]
  BY <1>1, FlowTypes
<1>7. ASSUME NEW c \in Cmds, st'[c] = "ended"
      PROVE  todo[c] = 0 /\ (c > 1 => fill[c - 1] = 0 /\ st'[c - 1] = "ended")
  <2>1. st[c] = "ended" /\ (c > 1 => c - 1 \in Cmds)
    BY <1>6, <1>7, FlowTypes
  <2> QED
    BY <1>2, <1>3, <1>6, <2>1 DEF Flows
<1>8. LastIsWaitedFor'
  BY <1>1 DEF LastIsWaitedFor
<1> QED
  BY <1>1, <1>4, <1>5, <1>7, <1>8

\* A builtin is the first command here, and writes its block.
LEMMA RunBuiltinFlows ==
  ASSUME Connected, Flows, RunBuiltin
  PROVE  Flows'
<1> SUFFICES ASSUME AllFilters', NoneFailed'
             PROVE  /\ \E out \in [Cmds' -> Nat] : Balanced(out)'
                    /\ (\A c \in Cmds :
                          st[c] = "ended" => todo[c] = 0
                                             /\ (c > 1 => fill[c - 1] = 0 /\ st[c - 1] = "ended"))'
                    /\ LastIsWaitedFor'
  BY DEF Flows
<1>1. /\ leader = "start" /\ cmds[at] = "builtin" /\ leader' \in {"connect", "restore"}
      /\ st' = [st EXCEPT ![at] = "ended"] /\ Into(fds[0][1])
      /\ UNCHANGED << cmds, Cmds, Pipes, todo >>
  BY DEF RunBuiltin, NextCommand, cmds, Cmds, Pipes
<1>2. /\ at = 1 /\ 1 \in Cmds /\ cmds[1] = "builtin"
      /\ \A c \in Cmds : st[c] = "unborn"
  BY <1>1, FlowTypes DEF Connected, InOrder, AllFilters
<1>3. AllFilters /\ NoneFailed
  BY <1>1, <1>2, FlowTypes DEF AllFilters, NoneFailed
<1>4. PICK out \in [Cmds -> Nat] : Balanced(out)
  BY <1>3 DEF Flows
<1>5. out[1] = 0 /\ todo[1] = 0
  BY <1>2, <1>4 DEF Balanced
<1> DEFINE o == [out EXCEPT ![1] = 1]
<1>6. o \in [Cmds -> Nat] /\ \A c \in Cmds : o[c] = IF c = 1 THEN 1 ELSE out[c]
  OBVIOUS
<1> HIDE DEF o
<1>7. \A c \in Cmds : st'[c] = IF c = 1 THEN "ended" ELSE "unborn"
  BY <1>1, <1>2, FlowTypes
<1>8. IF Len(cmds) > 1 THEN fds[0][1] = WriteEnd(1) ELSE Outer(fds[0][1])
  BY <1>1, <1>2, FlowTypes DEF Connected, LeaderHolds
<1>9. Balanced(o)'
  <2>1. CASE Len(cmds) > 1
    <3>1. fds[0][1] = WriteEnd(1) /\ 1 \in Pipes
      BY <1>8, <2>1, FlowTypes
    <3>2. fill' = [fill EXCEPT ![1] = @ + 1] /\ delivered' = delivered
      BY <1>1, <3>1, EndsDiffer DEF Into, Outer
    <3>3. \A c \in Pipes : fill'[c] = IF c = 1 THEN fill[1] + 1 ELSE fill[c]
      BY <3>2, FlowTypes
    <3>4. \A c \in Pipes : o[c] = fill'[c] + todo[c + 1] + o[c + 1]
      <4> SUFFICES ASSUME NEW c \in Pipes PROVE o[c] = fill'[c] + todo[c + 1] + o[c + 1]
        OBVIOUS
      <4>1. c \in Cmds /\ c + 1 \in Cmds /\ c + 1 # 1
        BY FlowTypes
      <4>2. /\ out[c] = fill[c] + todo[c + 1] + out[c + 1]
            /\ out[c + 1] \in Nat /\ fill[c] \in Nat /\ todo[c + 1] \in Nat
        BY <4>1, <1>4, FlowTypes DEF Balanced
      <4> QED
        BY <4>1, <4>2, <3>3, <1>5, <1>6
    <3>5. o[Len(cmds)] = delivered'
      <4>1. Len(cmds) \in Cmds /\ Len(cmds) # 1
        BY <2>1, FlowTypes
      <4> QED
        BY <4>1, <3>2, <1>4, <1>6 DEF Balanced
    <3> QED
      BY <3>4, <3>5, <1>1, <1>2, <1>5, <1>6, <1>7 DEF Balanced
  <2>2. CASE Len(cmds) = 1
    <3>1. Outer(fds[0][1]) /\ Pipes = {}
      BY <1>8, <2>2, FlowTypes
    <3>2. delivered' = delivered + 1
      BY <1>1, <3>1 DEF Into
    <3>3. o[Len(cmds)] = delivered'
      BY <2>2, <3>2, <1>4, <1>5, <1>6, <1>2 DEF Balanced
    <3> QED
      BY <3>1, <3>3, <1>1, <1>2, <1>5, <1>6, <1>7 DEF Balanced
  <2>3. Len(cmds) > 1 \/ Len(cmds) = 1
    <3> DEFINE n == Len(cmds)
    <3>1. n \in Nat /\ n >= 1
      BY FlowTypes
    <3> HIDE DEF n
    <3>2. n > 1 \/ n = 1
      BY <3>1
    <3> QED
      BY <3>2 DEF n
  <2> QED
    BY <2>1, <2>2, <2>3
<1>10. ASSUME NEW c \in Cmds, st'[c] = "ended" PROVE todo'[c] = 0 /\ ~(c > 1)
  BY <1>1, <1>5, <1>7, <1>10
<1>11. LastIsWaitedFor'
  BY <1>1 DEF LastIsWaitedFor
<1> QED
  BY <1>1, <1>6, <1>9, <1>10, <1>11

\* A command that writes moves a block from what it has to what it wrote.
LEMMA WritesFlows ==
  ASSUME Connected, Flows, NEW c \in Cmds, Writes(c)
  PROVE  Flows'
<1> SUFFICES ASSUME AllFilters', NoneFailed'
             PROVE  /\ \E out \in [Cmds' -> Nat] : Balanced(out)'
                    /\ (\A d \in Cmds :
                          st[d] = "ended" => todo[d] = 0
                                             /\ (d > 1 => fill[d - 1] = 0 /\ st[d - 1] = "ended"))'
                    /\ LastIsWaitedFor'
  BY DEF Flows
<1>1. /\ st[c] = "running" /\ todo[c] > 0 /\ Into(fds[c][1])
      /\ todo' = [todo EXCEPT ![c] = IF cmds[c] = "yes" THEN @ ELSE @ - 1]
      /\ st' = [st EXCEPT ![c] = IF cmds[c] = "head" THEN "ended" ELSE @]
      /\ UNCHANGED << cmds, Cmds, Pipes, leader, overlooked >>
  BY DEF Writes, jobs, cmds, Cmds, Pipes
<1>2. AllFilters
  BY <1>1 DEF AllFilters
<1>3. cmds[c] # "head" /\ cmds[c] # "yes"
  BY <1>2 DEF AllFilters
<1>4. st' = st
  BY <1>1, <1>3, FlowTypes
<1>5. NoneFailed
  BY <1>1, <1>4 DEF NoneFailed
<1>6. PICK out \in [Cmds -> Nat] : Balanced(out)
  BY <1>2, <1>5 DEF Flows
<1>7. \A d \in Cmds : todo'[d] = IF d = c THEN todo[c] - 1 ELSE todo[d]
  BY <1>1, <1>3, FlowTypes
<1> DEFINE o == [out EXCEPT ![c] = @ + 1]
<1>8. o \in [Cmds -> Nat] /\ \A d \in Cmds : o[d] = IF d = c THEN out[c] + 1 ELSE out[d]
  BY <1>6
<1> HIDE DEF o
<1>9. IF c < Len(cmds) THEN fds[c][1] = WriteEnd(c) ELSE Outer(fds[c][1])
  BY <1>1 DEF Connected, CommandsHold
<1>10. /\ \A d \in Pipes : fill'[d] = IF d = c THEN fill[c] + 1 ELSE fill[d]
       /\ delivered' = IF c < Len(cmds) THEN delivered ELSE delivered + 1
  <2>1. CASE c < Len(cmds)
    <3>1. fill' = [fill EXCEPT ![c] = @ + 1] /\ delivered' = delivered
      BY <1>1, <1>9, <2>1, EndsDiffer DEF Into, Outer
    <3> QED
      BY <2>1, <3>1, FlowTypes
  <2>2. CASE ~(c < Len(cmds))
    <3>1. fill' = fill /\ delivered' = delivered + 1
      BY <1>1, <1>9, <2>2, EndsDiffer DEF Into, Outer
    <3> QED
      BY <2>2, <3>1, FlowTypes
  <2> QED
    BY <2>1, <2>2
<1>11. Balanced(o)'
  <2>1. \A d \in Pipes : o[d] = fill'[d] + todo'[d + 1] + o[d + 1]
    <3> SUFFICES ASSUME NEW d \in Pipes PROVE o[d] = fill'[d] + todo'[d + 1] + o[d + 1]
      OBVIOUS
    <3>1. d \in Cmds /\ d + 1 \in Cmds /\ d \in Nat /\ c \in Nat
      BY FlowTypes
    <3>2. /\ out[d] = fill[d] + todo[d + 1] + out[d + 1]
          /\ out[d] \in Nat /\ out[d + 1] \in Nat /\ fill[d] \in Nat
          /\ todo[d + 1] \in Nat
      BY <1>6, <3>1, FlowTypes DEF Balanced
    <3>3. CASE d = c
      BY <3>1, <3>2, <3>3, <1>7, <1>8, <1>10
    <3>4. CASE d + 1 = c
      <4>1. d # c
        BY <3>1, <3>4
      <4>2. o[d] = out[d] /\ fill'[d] = fill[d] /\ o[d + 1] = out[d + 1] + 1
            /\ todo'[d + 1] = todo[d + 1] - 1
        BY <4>1, <3>1, <3>4, <1>7, <1>8, <1>10
      <4> QED
        BY <4>2, <3>2
    <3>5. CASE d # c /\ d + 1 # c
      BY <3>1, <3>2, <3>5, <1>7, <1>8, <1>10
    <3> QED
      BY <3>3, <3>4, <3>5
  <2>2. o[Len(cmds)] = delivered'
    <3> DEFINE n == Len(cmds)
    <3>1. n \in Cmds /\ out[n] = delivered /\ (c < n <=> c # n)
      BY <1>6, FlowTypes DEF Balanced
    <3> HIDE DEF n
    <3>2. o[n] = IF c < n THEN out[n] ELSE out[n] + 1
      BY <1>8, <3>1
    <3> QED
      BY <1>10, <3>1, <3>2 DEF n
  <2>3. cmds[1] = "source" => o[1] + todo'[1] = Blocks
    <3>1. 1 \in Cmds /\ todo[1] \in Nat /\ out[1] \in Nat
      <4>1. 1 \in Cmds /\ todo \in [Cmds -> Nat]
        BY FlowTypes
      <4> QED
        BY <4>1
    <3>2. cmds[1] = "source" => out[1] + todo[1] = Blocks
      BY <1>6 DEF Balanced
    <3> QED
      BY <3>1, <3>2, <1>7, <1>8
  <2>4. cmds[1] = "builtin" => c # 1
    <3>1. cmds[1] = "builtin" => todo[1] = 0
      BY <1>6 DEF Balanced
    <3> QED
      BY <3>1, <1>1
  <2>5. 1 \in Cmds
    BY FlowTypes
  <2> QED
    BY <1>1, <1>4, <1>6, <1>7, <1>8, <2>1, <2>2, <2>3, <2>4, <2>5 DEF Balanced
<1>12. ASSUME NEW d \in Cmds, st'[d] = "ended"
       PROVE  todo'[d] = 0 /\ (d > 1 => fill'[d - 1] = 0 /\ st'[d - 1] = "ended")
  <2>1. d # c /\ st[d] = "ended" /\ (d > 1 => d - 1 \in Pipes)
    BY <1>1, <1>4, <1>12, FlowTypes
  <2>2. todo[d] = 0 /\ (d > 1 => fill[d - 1] = 0 /\ st[d - 1] = "ended")
    BY <1>2, <1>5, <2>1 DEF Flows
  <2> QED
    BY <1>1, <1>4, <1>7, <1>10, <2>1, <2>2
<1>13. LastIsWaitedFor'
  BY <1>1, <1>2, <1>4, <1>5, FlowTypes DEF Flows, LastIsWaitedFor
<1> QED
  BY <1>1, <1>8, <1>11, <1>12, <1>13

\* A filter that reads takes a block from the pipe before it.
LEMMA ReadsFlows ==
  ASSUME Connected, Flows, NEW c \in Cmds, Reads(c)
  PROVE  Flows'
<1> SUFFICES ASSUME AllFilters', NoneFailed'
             PROVE  /\ \E out \in [Cmds' -> Nat] : Balanced(out)'
                    /\ (\A d \in Cmds :
                          st[d] = "ended" => todo[d] = 0
                                             /\ (d > 1 => fill[d - 1] = 0 /\ st[d - 1] = "ended"))'
                    /\ LastIsWaitedFor'
  BY DEF Flows
<1>1. /\ st[c] = "running" /\ todo[c] = 0 /\ cmds[c] \in {"filter", "head"}
      /\ todo' = [todo EXCEPT ![c] = 1]
      /\ UNCHANGED << cmds, Cmds, Pipes, leader, overlooked, st, delivered >>
  BY DEF Reads, jobs, cmds, Cmds, Pipes
<1>2. AllFilters /\ NoneFailed
  BY <1>1 DEF AllFilters, NoneFailed
<1>3. c > 1 /\ c - 1 \in Pipes /\ c \in Nat
  <2>1. c # 1
    BY <1>1, <1>2 DEF AllFilters
  <2> QED
    BY <2>1, FlowTypes
<1>4. fds[c][0] = ReadEnd(c - 1)
  BY <1>1, <1>3 DEF Connected, CommandsHold
<1>5. fill[c - 1] > 0 /\ fill' = [fill EXCEPT ![c - 1] = @ - 1]
  BY <1>4, EndsDiffer DEF Reads
<1>6. PICK out \in [Cmds -> Nat] : Balanced(out)
  BY <1>2 DEF Flows
<1>7. /\ \A d \in Cmds : todo'[d] = IF d = c THEN 1 ELSE todo[d]
      /\ \A d \in Pipes : fill'[d] = IF d = c - 1 THEN fill[d] - 1 ELSE fill[d]
  BY <1>1, <1>5, FlowTypes
<1>8. Balanced(out)'
  <2>1. \A d \in Pipes : out[d] = fill'[d] + todo'[d + 1] + out[d + 1]
    <3> SUFFICES ASSUME NEW d \in Pipes PROVE out[d] = fill'[d] + todo'[d + 1] + out[d + 1]
      OBVIOUS
    <3>1. d + 1 \in Cmds /\ d \in Nat
      BY FlowTypes
    <3>2. /\ out[d] = fill[d] + todo[d + 1] + out[d + 1]
          /\ fill[d] \in Nat /\ out[d + 1] \in Nat
      BY <1>6, <3>1, FlowTypes DEF Balanced
    <3>3. CASE d = c - 1
      <4>1. d + 1 = c
        BY <1>3, <3>3
      <4> QED
        BY <1>1, <1>7, <3>1, <3>2, <3>3, <4>1
    <3>4. CASE d # c - 1
      <4>1. d + 1 # c
        BY <1>3, <3>1, <3>4
      <4> QED
        BY <1>7, <3>1, <3>2, <3>4, <4>1
    <3> QED
      BY <3>3, <3>4
  <2>2. 1 \in Cmds /\ c # 1
    BY <1>3, FlowTypes
  <2> QED
    BY <1>1, <1>6, <1>7, <2>1, <2>2 DEF Balanced
<1>9. ASSUME NEW d \in Cmds, st'[d] = "ended"
      PROVE  todo'[d] = 0 /\ (d > 1 => fill'[d - 1] = 0 /\ st'[d - 1] = "ended")
  <2>1. d # c /\ st[d] = "ended" /\ (d > 1 => d - 1 \in Pipes /\ d - 1 # c - 1)
    BY <1>1, <1>3, <1>9, FlowTypes
  <2>2. todo[d] = 0 /\ (d > 1 => fill[d - 1] = 0 /\ st[d - 1] = "ended")
    BY <1>2, <2>1 DEF Flows
  <2> QED
    BY <1>1, <1>7, <2>1, <2>2
<1>10. LastIsWaitedFor'
  BY <1>1, <1>2 DEF Flows, LastIsWaitedFor
<1> QED
  BY <1>1, <1>8, <1>9, <1>10

\* A command ends when it has written everything and nothing more can come: SIGPIPE takes
\* none, since it has the read end of its own output open; and the end of the input is
\* there only when the command before it is over.
LEMMA EndsFlows ==
  ASSUME Connected, Flows, NEW c \in Cmds, Ends(c)
  PROVE  Flows'
<1> SUFFICES ASSUME AllFilters', NoneFailed'
             PROVE  /\ \E out \in [Cmds' -> Nat] : Balanced(out)'
                    /\ (\A d \in Cmds :
                          st[d] = "ended" => todo[d] = 0
                                             /\ (d > 1 => fill[d - 1] = 0 /\ st[d - 1] = "ended"))'
                    /\ LastIsWaitedFor'
  BY DEF Flows
<1>1. /\ st[c] = "running" /\ Finished(c) /\ st' = [st EXCEPT ![c] = "ended"]
      /\ UNCHANGED << cmds, Cmds, Pipes, leader, overlooked, todo, fill, delivered >>
  BY DEF Ends, jobs, cmds, Cmds, Pipes
<1>2. \A d \in Cmds : st'[d] = IF d = c THEN "ended" ELSE st[d]
  BY <1>1, FlowTypes
<1>3. AllFilters /\ NoneFailed
  BY <1>1, <1>2 DEF AllFilters, NoneFailed
<1>4. PICK out \in [Cmds -> Nat] : Balanced(out)
  BY <1>3 DEF Flows
<1>5. DOMAIN fds = 0..Len(cmds)
  BY DEF Connected, Typed
<1>6. ~NobodyReads(c)
  <2> SUFFICES ASSUME NEW i \in Pipes, fds[c][1] = WriteEnd(i), Holders(ReadEnd(i)) = {}
               PROVE  FALSE
    BY DEF NobodyReads
  <2>1. c < Len(cmds) /\ i = c
    BY <1>1, EndsDiffer, FlowTypes DEF Connected, CommandsHold
  <2>2. \E f \in Fds : fds[c][f] = ReadEnd(c)
    BY <1>1, <2>1 DEF Connected, CommandsHold
  <2>3. c \in Holders(ReadEnd(c))
    BY <1>5, <2>2, FlowTypes DEF Holders, Fds
  <2> QED
    BY <2>1, <2>3
<1>7. todo[c] = 0 /\ (cmds[c] = "source" \/ InputOver(c))
  <2>1. todo[c] \in Nat
    BY FlowTypes
  <2> QED
    BY <1>1, <1>6, <2>1 DEF Finished
<1>8. ASSUME c > 1 PROVE fill[c - 1] = 0 /\ st[c - 1] = "ended"
  <2>1. c - 1 \in Pipes /\ c - 1 \in Cmds /\ c - 1 < Len(cmds)
    BY <1>8, FlowTypes
  <2>2. cmds[c] = "filter" /\ fds[c][0] = ReadEnd(c - 1)
    BY <1>1, <1>3, <1>8 DEF AllFilters, Connected, CommandsHold
  <2>3. fill[c - 1] = 0 /\ Holders(WriteEnd(c - 1)) = {}
    BY <1>7, <2>2, EndsDiffer DEF InputOver, Outer
  <2>4. st[c - 1] # "running"
    <3> SUFFICES ASSUME st[c - 1] = "running" PROVE FALSE
      OBVIOUS
    <3>1. fds[c - 1][1] = WriteEnd(c - 1) /\ 1 \in 0..MaxFd
      BY <2>1, FdsAssumption DEF Connected, CommandsHold
    <3>2. c - 1 \in Holders(WriteEnd(c - 1))
      BY <1>5, <2>1, <3>1, FlowTypes DEF Holders
    <3> QED
      BY <2>3, <3>2
  <2>5. st[c - 1] # "unborn"
    <3>1. ~(c >= at) /\ c \in Nat /\ at \in Nat
      BY <1>1, FlowTypes DEF Connected, InOrder
    <3>2. ~(c - 1 >= at)
      BY <3>1
    <3> QED
      BY <2>1, <3>2 DEF Connected, InOrder
  <2> QED
    BY <1>3, <2>1, <2>3, <2>4, <2>5, FlowTypes DEF NoneFailed
<1>9. Balanced(out)'
  <2>1. 1 \in Cmds
    BY FlowTypes
  <2> QED
    BY <1>1, <1>2, <1>4, <2>1 DEF Balanced
<1>10. ASSUME NEW d \in Cmds, st'[d] = "ended"
       PROVE  todo[d] = 0 /\ (d > 1 => fill[d - 1] = 0 /\ st'[d - 1] = "ended")
  <2>1. d > 1 => d - 1 \in Cmds
    BY FlowTypes
  <2>2. todo[d] = 0 /\ (d > 1 => fill[d - 1] = 0 /\ st[d - 1] = "ended")
    BY <1>2, <1>3, <1>7, <1>8, <1>10 DEF Flows
  <2> QED
    BY <1>2, <2>1, <2>2
<1>11. LastIsWaitedFor'
  BY <1>1, <1>2, <1>3, FlowTypes DEF Flows, LastIsWaitedFor
<1> QED
  BY <1>1, <1>4, <1>9, <1>10, <1>11

\* A pipeline before its first step.
Fresh ==
  /\ Len(cmds) \in Nat /\ Len(cmds) >= 1 /\ Cmds = 1..Len(cmds)
  /\ Pipes = 1..(Len(cmds) - 1)
  /\ leader = "backup" /\ delivered = 0 /\ st = [c \in Cmds |-> "unborn"]
  /\ todo = [c \in Cmds |-> CASE cmds[c] = "source" -> Blocks
                             [] cmds[c] = "yes" -> 1 [] OTHER -> 0]
  /\ fill = [i \in Pipes |-> 0]

\* It has written nothing.
LEMMA UnbornFlows ==
  Fresh => Flows
<1> SUFFICES ASSUME Fresh, AllFilters
             PROVE  /\ \E out \in [Cmds -> Nat] : Balanced(out)
                    /\ \A c \in Cmds : st[c] # "ended"
                    /\ leader # "done"
  BY DEF Flows, LastIsWaitedFor
<1> DEFINE out == [c \in Cmds |-> 0]
<1>1. /\ Len(cmds) \in Nat /\ Len(cmds) >= 1 /\ Cmds = 1..Len(cmds)
      /\ Pipes = 1..(Len(cmds) - 1) /\ leader = "backup" /\ delivered = 0
      /\ \A c \in Cmds : st[c] = "unborn"
      /\ \A i \in Pipes : fill[i] = 0
  BY DEF Fresh
<1>2. \A c \in Cmds : todo[c] = IF cmds[c] = "source" THEN Blocks ELSE 0
  BY DEF Fresh, AllFilters
<1>3. 1 \in Cmds /\ Len(cmds) \in Cmds
  BY <1>1
<1>4. \A c \in Pipes : out[c] = fill[c] + todo[c + 1] + out[c + 1]
  <2> SUFFICES ASSUME NEW c \in Pipes PROVE out[c] = fill[c] + todo[c + 1] + out[c + 1]
    OBVIOUS
  <2>1. c \in Cmds /\ c + 1 \in Cmds /\ c + 1 # 1
    BY <1>1
  <2>2. todo[c + 1] = 0
    BY <1>2, <2>1 DEF AllFilters
  <2> QED
    BY <1>1, <2>1, <2>2
<1>5. Balanced(out)
  <2>1. Blocks \in Nat /\ out[1] = 0 /\ out[Len(cmds)] = 0
    BY <1>3, CapacityAssumption
  <2> HIDE DEF out
  <2> QED
    BY <1>1, <1>2, <1>3, <1>4, <2>1 DEF Balanced
<1>6. out \in [Cmds -> Nat]
  OBVIOUS
<1> QED
  BY <1>1, <1>5, <1>6

\* Before a pipeline starts nothing has been written.
LEMMA FlowsInit ==
  Init => Flows
<1> SUFFICES ASSUME Init PROVE Flows
  OBVIOUS
<1>1. Len(cmds) \in Nat /\ Len(cmds) >= 1 /\ Cmds = 1..Len(cmds) /\ Pipes = 1..(Len(cmds) - 1)
  BY ConnectedInit, FlowTypes
<1>2. Fresh
  BY <1>1 DEF Init, Fresh
<1> QED
  BY <1>2, UnbornFlows

\* The leader counts a pipeline as done when all its commands that are not overlooked
\* have ended.
LEMMA DoneFlows ==
  ASSUME Connected, Flows, Done
  PROVE  Flows'
<1>1. /\ UNCHANGED << cmds, Cmds, Pipes, st, todo, fill, delivered >>
      /\ overlooked' = overlooked
      /\ \A c \in Cmds \ overlooked : st[c] \in {"ended", "failed"}
  BY DEF Done, cmds, Cmds, Pipes, jobs
<1>2. Len(cmds) \in Cmds
  BY FlowTypes
<1>3. NoneFailed => LastIsWaitedFor'
  BY <1>1, <1>2 DEF NoneFailed, LastIsWaitedFor
<1> QED
  BY <1>1, <1>3 DEF Flows, Balanced, AllFilters, NoneFailed

\* When setpgid comes behind the end of the pipeline the last command is overlooked, or it
\* has ended.
LEMMA AddJobFlows ==
  ASSUME Connected, Flows, AddJob
  PROVE  Flows'
<1>1. /\ UNCHANGED << cmds, Cmds, Pipes, leader, at, st, todo, fill, delivered >>
      /\ overlooked' = {c \in Cmds : st[c] = "running"}
  BY DEF AddJob, cmds, Cmds, Pipes
<1>2. Len(cmds) \in Cmds /\ st[Len(cmds)] \in {"unborn", "running", "ended", "failed"}
  BY FlowTypes
<1>3. leader = "done" => st[Len(cmds)] # "unborn"
  BY <1>2, FlowTypes DEF Connected, InOrder
<1>4. NoneFailed => LastIsWaitedFor'
  BY <1>1, <1>2, <1>3 DEF NoneFailed, LastIsWaitedFor
<1> QED
  BY <1>1, <1>4 DEF Flows, Balanced, AllFilters, NoneFailed

\* The next pipeline starts with empty pipes.
LEMMA NextPipelineFlows ==
  ASSUME Connected', NextPipeline
  PROVE  Flows'
<1>1. cmds' = chain[current + 1].cmds /\ Cmds' = DOMAIN cmds' /\ Pipes' = 1..(Len(cmds') - 1)
  BY DEF NextPipeline, cmds, Cmds, Pipes
<1>2. /\ Len(cmds') \in Nat /\ Len(cmds') >= 1 /\ Cmds' = 1..Len(cmds')
  <2>1. chain'[current'] \in Pipeline
    BY DEF Connected, Typed
  <2>2. cmds' \in Seq(Kinds) /\ cmds' # << >>
    BY <2>1 DEF Pipeline, cmds
  <2> QED
    BY <1>1, <2>2
<1>3. Fresh'
  BY <1>1, <1>2 DEF NextPipeline, Unborn, Fresh
<1> QED
  BY <1>3, UnbornFlows, PTL

\* The balance is kept by every step.
LEMMA FlowsStep ==
  Connected /\ Connected' /\ Flows /\ [Next]_vars => Flows'
<1> SUFFICES ASSUME Connected, Connected', Flows, [Next]_vars PROVE Flows'
  OBVIOUS
<1>1. CASE Backup \/ RedirectFd \/ RedirectPath \/ CannotRedirect \/ Redirected
             \/ ConnectToPipe \/ ConnectLast \/ Restore
  <2>1. UNCHANGED << chain, current, st, todo, fill, delivered >> /\ leader' # "done"
    BY <1>1 DEF Backup, RedirectFd, RedirectPath, CannotRedirect, Redirected,
                ConnectToPipe, ConnectLast, Restore, Leads
  <2>2. UNCHANGED << cmds, Cmds, Pipes >>
    BY <2>1 DEF cmds, Cmds, Pipes
  <2> QED
    BY <2>1, <2>2, FlowsAlong
<1>2. CASE CannotStart
  <2>1. at \in Cmds /\ st'[at] = "failed" /\ Cmds' = Cmds
    BY <1>2, FlowTypes DEF CannotStart, Connected, InOrder, Cmds, cmds
  <2> QED
    BY <2>1 DEF Flows, NoneFailed
<1>3. CASE UNCHANGED vars
  <2>1. UNCHANGED << cmds, Cmds, Pipes, st, todo, fill, delivered, leader, overlooked >>
    BY <1>3 DEF vars, jobs, cmds, Cmds, Pipes
  <2> QED
    BY <2>1, FlowsAlong
<1>4. CASE \E c \in Cmds : Command(c)
  BY <1>4, WritesFlows, ReadsFlows, EndsFlows DEF Command
<1> QED
  BY <1>1, <1>2, <1>3, <1>4, StartFlows, RunBuiltinFlows, DoneFlows, NextPipelineFlows,
     AddJobFlows DEF Next, Leader

\* When the last command has ended all have, and every one has passed on all that it got.
LEMMA FlowsDeliver ==
  ASSUME Connected, Flows
  PROVE  AllDelivered
<1> SUFFICES ASSUME AllFilters, NoneFailed, st[Len(cmds)] = "ended"
             PROVE  Delivered
  BY DEF AllDelivered, Flows, LastIsWaitedFor
<1>1. PICK out \in [Cmds -> Nat] : Balanced(out)
  BY DEF Flows
<1>0. \A c \in Cmds : st[c] = "ended"
  <2> DEFINE T == {n \in Nat : Len(cmds) - n \in Cmds => st[Len(cmds) - n] = "ended"}
  <2>1. 0 \in T
    BY FlowTypes
  <2>2. ASSUME NEW n \in Nat, n \in T PROVE n + 1 \in T
    <3> SUFFICES ASSUME Len(cmds) - (n + 1) \in Cmds
                 PROVE  st[Len(cmds) - (n + 1)] = "ended"
      OBVIOUS
    <3>1. PICK c \in Cmds : c = Len(cmds) - n /\ c > 1 /\ c - 1 = Len(cmds) - (n + 1)
      BY FlowTypes
    <3>2. st[c] = "ended"
      BY <2>2, <3>1
    <3> QED
      BY <3>1, <3>2 DEF Flows
  <2> HIDE DEF T
  <2>3. Nat \subseteq T
    BY <2>1, <2>2, Induction
  <2>4. ASSUME NEW c \in Cmds PROVE st[c] = "ended"
    <3>1. PICK n \in Nat : Len(cmds) - n = c
      <4>1. Len(cmds) - c \in Nat /\ Len(cmds) - (Len(cmds) - c) = c
        BY FlowTypes
      <4> QED
        BY <4>1
    <3>2. n \in T
      BY <2>3
    <3> USE DEF T
    <3> QED
      BY <3>1, <3>2
  <2> QED
    BY <2>4
<1>2. \A c \in Cmds : st[c] = "ended" /\ todo[c] = 0 /\ (c > 1 => fill[c - 1] = 0)
  BY <1>0 DEF Flows
<1>3. ASSUME NEW c \in Pipes PROVE out[c] = out[c + 1]
  <2>1. c \in Cmds /\ c + 1 \in Cmds /\ c + 1 > 1
    BY FlowTypes
  <2>2. fill[c] = 0 /\ todo[c + 1] = 0
    <3>1. PICK d \in Cmds : d = c + 1
      BY <2>1
    <3>2. d > 1 /\ d - 1 = c
      BY <2>1, <3>1, FlowTypes
    <3>3. todo[d] = 0 /\ fill[d - 1] = 0
      BY <1>2, <3>2
    <3> QED
      BY <3>1, <3>2, <3>3
  <2>3. out[c] = fill[c] + todo[c + 1] + out[c + 1] /\ out[c + 1] \in Nat
    BY <1>1, <2>1, FlowTypes DEF Balanced
  <2> QED
    BY <2>2, <2>3
<1>4. out[Len(cmds)] = out[1]
  <2> DEFINE T == {n \in Nat : n + 1 \in Cmds => out[n + 1] = out[1]}
  <2>1. 0 \in T
    OBVIOUS
  <2>2. ASSUME NEW n \in Nat, n \in T PROVE n + 1 \in T
    <3>1. n + 1 + 1 \in Cmds => n + 1 \in Pipes /\ n + 1 \in Cmds
      BY FlowTypes
    <3> QED
      BY <1>3, <2>2, <3>1
  <2> HIDE DEF T
  <2>3. Nat \subseteq T
    BY <2>1, <2>2, Induction
  <2>4. Len(cmds) - 1 \in T /\ Len(cmds) - 1 + 1 = Len(cmds) /\ Len(cmds) \in Cmds
    BY <2>3, FlowTypes
  <2> USE DEF T
  <2> QED
    BY <2>4
<1>5. 1 \in Cmds
  BY FlowTypes
<1>6. CASE cmds[1] = "source"
  <2>1. out[1] + todo[1] = Blocks /\ todo[1] = 0 /\ out[1] \in Nat
    BY <1>1, <1>2, <1>5, <1>6 DEF Balanced
  <2> QED
    BY <1>1, <1>4, <1>6, <2>1 DEF Balanced, Delivered
<1>7. CASE cmds[1] = "builtin"
  BY <1>1, <1>2, <1>4, <1>5, <1>7 DEF Balanced, Delivered
<1> QED
  BY <1>5, <1>6, <1>7 DEF AllFilters

\* All that the first command of a pipeline of filters writes has come out at its end when
\* the last command has ended, and when the leader goes on without having overlooked the
\* last command: however long the pipeline, whatever the pipes hold, whichever process
\* runs when, and whenever setpgid moves the leader away from its commands.
THEOREM EverythingIsDelivered == Spec => []AllDelivered
<1> QED
  BY AlwaysConnected, FlowsInit, FlowsStep, FlowsDeliver, PTL DEF Spec
-----------------------------------------------------------------------------
(* The names: what the redirections say, unfolded one at a time.  The two functions are *)
(* recursive; that there is one that satisfies the equation is shown by induction.      *)

LEMMA AfterIsFunction ==
  ASSUME NEW ch, NEW ends, NEW q
  PROVE  \E f : /\ \A n \in Nat : After(ch, ends, q, n) = f[n]
                /\ f[0] = ends
                /\ \A n \in Nat :
                     f[n + 1] = Apply(f[n], ch[q].redirs[n + 1], File(q, n + 1))
<1> DEFINE Step(e, k) == Apply(e, ch[q].redirs[k], File(q, k))
           Good(g, n) == g = [k \in 0..n |-> IF k = 0 THEN ends ELSE Step(g[k - 1], k)]
           after == CHOOSE after : after = [k \in Nat |-> IF k = 0 THEN ends
                                                          ELSE Step(after[k - 1], k)]
<1>1. \A n \in Nat : After(ch, ends, q, n) = after[n]
  BY DEF After
<1> HIDE DEF Step, after
<1>2. \A n \in Nat : \E g : Good(g, n)
  <2> DEFINE T == {n \in Nat : \E g : Good(g, n)}
  <2>1. 0 \in T
    <3>1. Good([k \in 0..0 |-> ends], 0)
      OBVIOUS
    <3> QED
      BY <3>1
  <2>2. ASSUME NEW n \in Nat, n \in T PROVE n + 1 \in T
    <3>1. PICK g : Good(g, n)
      BY <2>2
    <3> DEFINE h == [k \in 0..(n + 1) |-> IF k = n + 1 THEN Step(g[n], n + 1) ELSE g[k]]
    <3>2. ASSUME NEW k \in 0..(n + 1)
          PROVE  h[k] = IF k = 0 THEN ends ELSE Step(h[k - 1], k)
      <4>1. CASE k = n + 1
        BY <4>1
      <4>2. CASE k # n + 1
        <5>1. k \in 0..n /\ h[k] = g[k]
          BY <4>2
        <5>2. k # 0 => h[k - 1] = g[k - 1]
          BY <5>1
        <5> QED
          BY <3>1, <5>1, <5>2
      <4> QED
        BY <4>1, <4>2
    <3>3. Good(h, n + 1)
      BY <3>2
    <3> HIDE DEF h, Good
    <3> QED
      BY <3>3
  <2> HIDE DEF T
  <2>3. Nat \subseteq T
    BY <2>1, <2>2, Induction
  <2> QED
    BY <2>3 DEF T
<1>3. ASSUME NEW n \in Nat, NEW m \in Nat, NEW g, NEW h, Good(g, n), Good(h, m)
      PROVE  \A k \in Nat : k <= n /\ k <= m => g[k] = h[k]
  <2> DEFINE T == {k \in Nat : k <= n /\ k <= m => g[k] = h[k]}
  <2>1. 0 \in T
    BY <1>3
  <2>2. ASSUME NEW k \in Nat, k \in T PROVE k + 1 \in T
    <3> SUFFICES ASSUME k + 1 <= n, k + 1 <= m PROVE g[k + 1] = h[k + 1]
      OBVIOUS
    <3>1. k + 1 \in 0..n /\ k + 1 \in 0..m /\ k + 1 # 0 /\ k + 1 - 1 = k /\ g[k] = h[k]
      BY <2>2
    <3>2. g[k + 1] = Step(g[k], k + 1) /\ h[k + 1] = Step(h[k], k + 1)
      BY <1>3, <3>1
    <3> QED
      BY <3>1, <3>2
  <2> HIDE DEF T
  <2>3. Nat \subseteq T
    BY <2>1, <2>2, Induction
  <2> QED
    BY <2>3 DEF T
<1> DEFINE G(n) == CHOOSE g : Good(g, n)
           f == [k \in Nat |-> G(k)[k]]
<1>4. \A n \in Nat : Good(G(n), n)
  BY <1>2
<1>5. f = [k \in Nat |-> IF k = 0 THEN ends ELSE Step(f[k - 1], k)]
  <2> SUFFICES ASSUME NEW k \in Nat
               PROVE  G(k)[k] = IF k = 0 THEN ends ELSE Step(f[k - 1], k)
    OBVIOUS
  <2> HIDE DEF G
  <2>1. G(k)[k] = IF k = 0 THEN ends ELSE Step(G(k)[k - 1], k)
    BY <1>4
  <2>2. CASE k # 0
    <3>1. k - 1 \in Nat /\ k - 1 <= k
      BY <2>2
    <3> HIDE DEF Good
    <3>2. G(k)[k - 1] = G(k - 1)[k - 1]
      BY <1>3, <1>4, <3>1
    <3> QED
      BY <2>1, <2>2, <3>1, <3>2
  <2> QED
    BY <2>1, <2>2
<1> HIDE DEF f
<1>6. after = [k \in Nat |-> IF k = 0 THEN ends ELSE Step(after[k - 1], k)]
  BY <1>5 DEF after
<1>7. after[0] = ends /\ \A n \in Nat : after[n + 1] = Step(after[n], n + 1)
  BY <1>6
<1>8. \A n \in Nat : after[n + 1] = Apply(after[n], ch[q].redirs[n + 1], File(q, n + 1))
  BY <1>7 DEF Step
<1> QED
  BY <1>1, <1>7, <1>8

\* No redirection changes nothing.
LEMMA AfterNone ==
  ASSUME NEW ch, NEW ends, NEW q
  PROVE  After(ch, ends, q, 0) = ends
BY AfterIsFunction

\* The next redirection is applied to what the ones before it left.
LEMMA AfterNext ==
  ASSUME NEW ch, NEW ends, NEW q, NEW n \in Nat
  PROVE  After(ch, ends, q, n + 1) =
           Apply(After(ch, ends, q, n), ch[q].redirs[n + 1], File(q, n + 1))
<1>1. PICK f : /\ \A m \in Nat : After(ch, ends, q, m) = f[m]
               /\ \A m \in Nat :
                    f[m + 1] = Apply(f[m], ch[q].redirs[m + 1], File(q, m + 1))
  BY AfterIsFunction
<1>2. n + 1 \in Nat
  OBVIOUS
<1> QED
  BY <1>1, <1>2

\* The recursion of Wanted, pipeline by pipeline: shown by Induction, as After is.
LEMMA WantedUnfolds ==
  ASSUME NEW ch
  PROVE  /\ Wanted(ch, 0) = [f \in 0..2 |-> Tty]
         /\ \A n \in Nat :
              Wanted(ch, n + 1) =
                After(ch, InFront(Wanted(ch, n)), n + 1, Len(ch[n + 1].redirs))
<1> DEFINE base == [f \in 0..2 |-> Tty]
           Step(e, k) == After(ch, InFront(e), k, Len(ch[k].redirs))
           Good(g, n) == g = [k \in 0..n |-> IF k = 0 THEN base ELSE Step(g[k - 1], k)]
           wanted == CHOOSE wanted : wanted = [p \in Nat |-> IF p = 0 THEN base
                                                           ELSE Step(wanted[p - 1], p)]
<1>1. \A n \in Nat : Wanted(ch, n) = wanted[n]
  BY DEF Wanted
<1> HIDE DEF base, Step, wanted
<1>2. \A n \in Nat : \E g : Good(g, n)
  <2> DEFINE T == {n \in Nat : \E g : Good(g, n)}
  <2>1. 0 \in T
    <3>1. Good([k \in 0..0 |-> base], 0)
      OBVIOUS
    <3> QED
      BY <3>1
  <2>2. ASSUME NEW n \in Nat, n \in T PROVE n + 1 \in T
    <3>1. PICK g : Good(g, n)
      BY <2>2
    <3> DEFINE h == [k \in 0..(n + 1) |-> IF k = n + 1 THEN Step(g[n], n + 1) ELSE g[k]]
    <3>2. ASSUME NEW k \in 0..(n + 1)
          PROVE  h[k] = IF k = 0 THEN base ELSE Step(h[k - 1], k)
      <4>1. CASE k = n + 1
        BY <4>1
      <4>2. CASE k # n + 1
        <5>1. k \in 0..n /\ h[k] = g[k]
          BY <4>2
        <5>2. k # 0 => h[k - 1] = g[k - 1]
          BY <5>1
        <5> QED
          BY <3>1, <5>1, <5>2
      <4> QED
        BY <4>1, <4>2
    <3>3. Good(h, n + 1)
      BY <3>2
    <3> HIDE DEF h, Good
    <3> QED
      BY <3>3
  <2> HIDE DEF T
  <2>3. Nat \subseteq T
    BY <2>1, <2>2, Induction
  <2> QED
    BY <2>3 DEF T
<1>3. ASSUME NEW n \in Nat, NEW m \in Nat, NEW g, NEW h, Good(g, n), Good(h, m)
      PROVE  \A k \in Nat : k <= n /\ k <= m => g[k] = h[k]
  <2> DEFINE T == {k \in Nat : k <= n /\ k <= m => g[k] = h[k]}
  <2>1. 0 \in T
    BY <1>3
  <2>2. ASSUME NEW k \in Nat, k \in T PROVE k + 1 \in T
    <3> SUFFICES ASSUME k + 1 <= n, k + 1 <= m PROVE g[k + 1] = h[k + 1]
      OBVIOUS
    <3>1. k + 1 \in 0..n /\ k + 1 \in 0..m /\ k + 1 # 0 /\ k + 1 - 1 = k /\ g[k] = h[k]
      BY <2>2
    <3>2. g[k + 1] = Step(g[k], k + 1) /\ h[k + 1] = Step(h[k], k + 1)
      BY <1>3, <3>1
    <3> QED
      BY <3>1, <3>2
  <2> HIDE DEF T
  <2>3. Nat \subseteq T
    BY <2>1, <2>2, Induction
  <2> QED
    BY <2>3 DEF T
<1> DEFINE G(n) == CHOOSE g : Good(g, n)
           f == [k \in Nat |-> G(k)[k]]
<1>4. \A n \in Nat : Good(G(n), n)
  BY <1>2
<1>5. f = [k \in Nat |-> IF k = 0 THEN base ELSE Step(f[k - 1], k)]
  <2> HIDE DEF G, Good
  <2> SUFFICES ASSUME NEW k \in Nat
               PROVE  G(k)[k] = IF k = 0 THEN base ELSE Step(f[k - 1], k)
    OBVIOUS
  <2> USE DEF Good
  <2>1. G(k)[k] = IF k = 0 THEN base ELSE Step(G(k)[k - 1], k)
    BY <1>4
  <2>2. CASE k # 0
    <3>1. k - 1 \in Nat /\ k - 1 <= k
      BY <2>2
    <3> HIDE DEF Good
    <3>2. G(k)[k - 1] = G(k - 1)[k - 1]
      BY <1>3, <1>4, <3>1
    <3> QED
      BY <2>1, <2>2, <3>1, <3>2
  <2> QED
    BY <2>1, <2>2
<1> HIDE DEF f
<1>6. wanted = [k \in Nat |-> IF k = 0 THEN base ELSE Step(wanted[k - 1], k)]
  BY <1>5 DEF wanted
<1>7. wanted[0] = base /\ \A n \in Nat : wanted[n + 1] = Step(wanted[n], n + 1)
  BY <1>6
<1> QED
  <2>1. Wanted(ch, 0) = base
    BY <1>1, <1>7
  <2>2. ASSUME NEW n \in Nat PROVE Wanted(ch, n + 1) = Step(Wanted(ch, n), n + 1)
    BY <1>1, <1>7
  <2> QED
    BY <2>1, <2>2 DEF Step, base

\* A redirection changes which ends the descriptors are open on, not which there are.
LEMMA AfterDomain ==
  ASSUME NEW ch, NEW ends, NEW q, NEW n \in Nat
  PROVE  DOMAIN After(ch, ends, q, n) = DOMAIN ends
<1> DEFINE T == {k \in Nat : DOMAIN After(ch, ends, q, k) = DOMAIN ends}
<1>1. 0 \in T
  BY AfterNone
<1>2. ASSUME NEW k \in Nat, k \in T PROVE k + 1 \in T
  <2> DEFINE a == After(ch, ends, q, k)
             r == ch[q].redirs[k + 1]
  <2>1. After(ch, ends, q, k + 1) = Apply(a, r, File(q, k + 1))
    BY AfterNext
  <2> HIDE DEF a, r
  <2>2. DOMAIN After(ch, ends, q, k + 1) = DOMAIN a
    BY <2>1 DEF Apply
  <2>3. DOMAIN a = DOMAIN ends
    BY <1>2 DEF a
  <2> QED
    BY <2>2, <2>3
<1> HIDE DEF T
<1>3. Nat \subseteq T
  BY <1>1, <1>2, Induction
<1> QED
  BY <1>3 DEF T
-----------------------------------------------------------------------------
(* The leader's 0, 1 and 2, step by step. *)

\* What a step of the leader on its own descriptors changes.
LEMMA LeadsTable ==
  ASSUME Connected, NEW T, NEW next, Leads(T, next)
  PROVE  /\ fds'[0] = T /\ leader' = next /\ DOMAIN fds[0] = Fds
         /\ 0 \in Fds /\ 1 \in Fds /\ 2 \in Fds
         /\ UNCHANGED << chain, current, at, cmds, Plain >>
BY FdsAssumption, CmdsType DEF Leads, Connected, Typed, Fds, cmds, Plain

\* The leader starts on the terminal, as Wanted does.
LEMMA InitNamed ==
  Init => Named
<1> SUFFICES ASSUME Init PROVE Named
  OBVIOUS
<1>1. fds[0] = [f \in 0..MaxFd |-> IF f < 3 THEN Tty ELSE Closed]
  BY ConnectedInit, CmdsType DEF Init, Connected
<1>2. fds[0][0] = Tty /\ fds[0][1] = Tty /\ fds[0][2] = Tty
  BY <1>1, FdsAssumption
<1>3. Wanted(chain, 0)[2] = Tty
  BY WantedUnfolds
<1> QED
  BY <1>2, <1>3 DEF Init, Named

\* The backups are open on what the terminal was.
LEMMA BackupNamed ==
  ASSUME Connected, Named, Backup
  PROVE  Named'
<1> SUFFICES ASSUME Plain' PROVE Named'
  BY Zenon DEF Named
<1> DEFINE T == [fds[0] EXCEPT ![Lowest] = fds[0][0], ![SecondLowest] = fds[0][1]]
<1>1. leader = "backup" /\ TwoLeft /\ Leads(T, "redirect")
  BY DEF Backup
<1>2. local' = [backup |-> << Lowest, SecondLowest >>, redir |-> 1,
                infd |-> Lowest, output |-> SecondLowest]
  BY DEF Backup
<1>3. /\ fds'[0] = T /\ leader' = "redirect" /\ DOMAIN fds[0] = Fds
      /\ 0 \in Fds /\ 1 \in Fds /\ 2 \in Fds
      /\ UNCHANGED << chain, current, Plain >>
  BY <1>1, LeadsTable
<1>4. /\ Lowest \in 3..MaxFd /\ SecondLowest \in 3..MaxFd /\ Lowest # SecondLowest
      /\ Lowest \in Fds /\ SecondLowest \in Fds
  BY <1>1, SecondIsFree, FdsAssumption DEF Connected, LeaderHolds, Fds
<1>5. /\ fds'[0][0] = fds[0][0] /\ fds'[0][1] = fds[0][1] /\ fds'[0][2] = fds[0][2]
      /\ fds'[0][Lowest] = fds[0][0] /\ fds'[0][SecondLowest] = fds[0][1]
  BY <1>3, <1>4
<1>6. fds[0][0] = Tty /\ fds[0][1] = Tty /\ fds[0][2] = Wanted(chain, current - 1)[2]
  BY <1>1, <1>3 DEF Named
<1>7. ASSUME NEW f \in 0..2
      PROVE  fds'[0][f] = After(chain, InFront(Wanted(chain, current - 1)), current, 0)[f]
  <2>1. f \in {0, 1, 2}
    OBVIOUS
  <2> QED
    BY <1>5, <1>6, <2>1, AfterNone DEF InFront
<1> QED
  BY <1>2, <1>3, <1>5, <1>6, <1>7 DEF Named

\* The redirections of Plain pipelines name the three standard descriptors.
LEMMA RedirBound ==
  ASSUME Plain, current \in 1..current, NEW k \in DOMAIN chain[current].redirs,
         chain[current].redirs[k].from \in Nat
  PROVE  chain[current].redirs[k].from \in 0..2 /\ chain[current].redirs[k].to < 3
BY DEF Plain

\* One turn of the redirection loop is one Apply: neither dup2 nor close touches a backup.
LEMMA RedirectNamed ==
  ASSUME Connected, Named, RedirectFd \/ RedirectPath
  PROVE  Named'
<1> SUFFICES ASSUME Plain' PROVE Named'
  BY Zenon DEF Named
<1> DEFINE k == local.redir
           r == redir
           a == After(chain, InFront(Wanted(chain, current - 1)), current, k - 1)
           b == After(chain, InFront(Wanted(chain, current - 1)), current, k)
<1>1. Redirecting /\ leader = "redirect" /\ local' = [local EXCEPT !.redir = @ + 1]
  BY DEF RedirectFd, RedirectPath, Redirecting
<1>2. /\ local \in Locals /\ k \in 1..Len(chain[current].redirs) /\ current \in Nat
      /\ k \in DOMAIN chain[current].redirs /\ k \in Nat /\ k - 1 \in Nat
      /\ local.backup[1] \in 3..MaxFd /\ local.backup[2] \in 3..MaxFd
  <2>1. Typed /\ local \in Locals /\ current \in Nat
    BY <1>1 DEF Connected, Typed
  <2>2. /\ k \in 1..(Len(chain[current].redirs) + 1) /\ k <= Len(chain[current].redirs)
        /\ local.backup[1] \in 3..MaxFd /\ local.backup[2] \in 3..MaxFd
    BY <1>1 DEF Connected, OwnFds, Redirecting
  <2> DEFINE n == Len(chain[current].redirs)
  <2>3. n \in Nat /\ DOMAIN chain[current].redirs = 1..n
    BY <2>1, CmdsType
  <2> HIDE DEF n
  <2>4. k \in 1..(n + 1) /\ k <= n
    BY <2>2 DEF n
  <2>5. k \in 1..n /\ k \in Nat /\ k - 1 \in Nat
    BY <2>3, <2>4
  <2> QED
    BY <2>1, <2>2, <2>3, <2>5 DEF n
<1>3. local'.redir = k + 1 /\ local'.backup = local.backup
  BY <1>1, <1>2 DEF Locals
<1>4. r.from \in Nat /\ r.to \in Nat \cup {-1}
  BY <1>1, RedirType
<1> DEFINE ToFd == IF r.to > MaxFd \/ fds[0][r.to] = Closed THEN fds[0]
                   ELSE [fds[0] EXCEPT ![r.from] = fds[0][r.to]]
           ToPath == [fds[0] EXCEPT ![Lowest] = File(current, k), ![r.from] = File(current, k)]
<1>5. PICK T : /\ Leads(T, "redirect")
               /\ (r.to >= 0 /\ T = ToFd) \/ (r.to < 0 /\ OneLeft /\ T = ToPath)
  <2>1. CASE RedirectFd
    <3>1. r.to >= 0 /\ Leads(ToFd, "redirect")
      BY ONLY <2>1 DEF RedirectFd
    <3> HIDE DEF ToFd
    <3> QED
      BY <3>1
  <2>2. CASE RedirectPath
    <3>1. r.to < 0 /\ OneLeft /\ Leads(ToPath, "redirect")
      BY ONLY <2>2 DEF RedirectPath
    <3> HIDE DEF ToPath
    <3> QED
      BY <3>1
  <2> QED
    BY <2>1, <2>2
<1> HIDE DEF ToFd, ToPath
<1>6. /\ fds'[0] = T /\ leader' = "redirect" /\ DOMAIN fds[0] = Fds
      /\ 0 \in Fds /\ 1 \in Fds /\ 2 \in Fds
      /\ UNCHANGED << chain, current, Plain >>
  BY <1>5, LeadsTable
<1>7. r.from \in 0..2 /\ r.to < 3
  <2>1. current \in 1..current
    BY <1>2, CmdsType DEF Connected, Typed
  <2> QED
    BY <1>2, <1>4, <1>6, <2>1, RedirBound DEF redir
<1>8. /\ \A f \in 0..2 : fds[0][f] = a[f]
      /\ fds[0][local.backup[1]] = Tty /\ fds[0][local.backup[2]] = Tty
  BY <1>1, <1>6 DEF Named
<1>9. DOMAIN a = 0..2
  BY <1>2, AfterDomain DEF InFront
<1>10. b = Apply(a, r, File(current, k))
  <2> DEFINE n == k - 1
  <2>1. n \in Nat /\ n + 1 = k
    BY <1>2
  <2> HIDE DEF n
  <2>2. After(chain, InFront(Wanted(chain, current - 1)), current, n + 1) =
          Apply(After(chain, InFront(Wanted(chain, current - 1)), current, n),
                chain[current].redirs[n + 1], File(current, n + 1))
    BY <2>1, AfterNext
  <2> QED
    BY <2>1, <2>2 DEF n, redir
<1> HIDE DEF a, b, r
<1>11. \A f \in 0..2 : fds[0][f] # Closed
  BY <1>1 DEF Connected, LeaderHolds
<1>12. \A f \in Fds : fds'[0][f] = IF f = r.from
                                   THEN IF r.to < 0 THEN File(current, k) ELSE fds[0][r.to]
                                   ELSE IF r.to < 0 /\ f = Lowest THEN File(current, k)
                                   ELSE fds[0][f]
  <2>1. CASE r.to >= 0
    <3>1. r.to \in 0..2 /\ fds[0][r.to] # Closed
      BY <1>4, <1>7, <1>11, <2>1
    <3>2. T = [fds[0] EXCEPT ![r.from] = fds[0][r.to]]
      BY <1>5, <2>1, <3>1, FdsAssumption DEF ToFd
    <3> QED
      BY <1>6, <2>1, <3>1, <3>2
  <2>2. CASE r.to < 0
    <3>1. T = ToPath /\ ~(r.to >= 0)
      BY <1>4, <1>5, <2>2
    <3> QED
      BY <1>6, <2>2, <3>1 DEF ToPath
  <2> QED
    BY <1>4, <2>1, <2>2
<1>13. r.to < 0 => Lowest \in 3..MaxFd /\ Lowest # local.backup[1] /\ Lowest # local.backup[2]
  <2> SUFFICES ASSUME r.to < 0
               PROVE  Lowest \in 3..MaxFd /\ Lowest # local.backup[1] /\ Lowest # local.backup[2]
    OBVIOUS
  <2>1. OneLeft
    BY <1>4, <1>5
  <2> QED
    BY <1>8, <1>11, <2>1, LowestIsFree, EndsDiffer
<1>14. ASSUME NEW f \in 0..2 PROVE fds'[0][f] = b[f]
  <2>1. f \in Fds /\ (r.to < 0 => f # Lowest)
    BY <1>13, FdsAssumption DEF Fds
  <2>2. r.to >= 0 => fds[0][r.to] = a[r.to]
    <3>1. r.to >= 0 => r.to \in 0..2
      BY <1>4, <1>7
    <3> QED
      BY <1>8, <3>1
  <2> QED
    <3>1. b[f] = IF f = r.from THEN IF r.to < 0 THEN File(current, k) ELSE a[r.to] ELSE a[f]
      BY <1>9, <1>10 DEF Apply
    <3>2. fds'[0][f] = IF f = r.from THEN IF r.to < 0 THEN File(current, k) ELSE fds[0][r.to]
                       ELSE fds[0][f]
      BY <1>12, <2>1
    <3>3. r.to < 0 \/ r.to >= 0
      BY <1>4
    <3>4. fds[0][f] = a[f]
      BY <1>8
    <3> QED
      BY <2>2, <3>1, <3>2, <3>3, <3>4
<1>15. ASSUME NEW f \in {local.backup[1], local.backup[2]} PROVE fds'[0][f] = Tty
  <2>1. f \in Fds /\ f # r.from
    <3>1. f \in 3..MaxFd /\ r.from \in 0..2
      BY <1>2, <1>7
    <3> QED
      BY <3>1, FdsAssumption DEF Fds
  <2>2. r.to < 0 => f # Lowest
    BY <1>13
  <2> QED
    BY <1>8, <1>12, <2>1, <2>2
<1>16. local'.redir - 1 = k
  BY <1>2, <1>3
<1>17. \A f \in 0..2 : fds'[0][f] = After(chain', InFront(Wanted(chain', current' - 1)),
                                          current', local'.redir - 1)[f]
  BY <1>6, <1>14, <1>16 DEF b
<1> QED
  BY <1>3, <1>6, <1>15, <1>17 DEF Named

\* Behind the loop, infd and output hold what all redirections make of 0 and 1.
LEMMA RedirectedNamed ==
  ASSUME Connected, Named, Redirected
  PROVE  Named'
<1> SUFFICES ASSUME Plain' PROVE Named'
  BY Zenon DEF Named
<1> DEFINE T == [fds[0] EXCEPT ![Lowest] = fds[0][0], ![SecondLowest] = fds[0][1]]
<1>1. /\ leader = "redirect" /\ local.redir > Len(chain[current].redirs) /\ TwoLeft
      /\ Leads(T, "connect") /\ local' = [local EXCEPT !.infd = Lowest, !.output = SecondLowest]
  BY DEF Redirected
<1>2. /\ fds'[0] = T /\ leader' = "connect" /\ DOMAIN fds[0] = Fds
      /\ 0 \in Fds /\ 1 \in Fds /\ 2 \in Fds
      /\ UNCHANGED << chain, current, Plain >>
  BY <1>1, LeadsTable
<1>3. /\ Lowest \in 3..MaxFd /\ SecondLowest \in 3..MaxFd /\ Lowest # SecondLowest
      /\ Lowest \in Fds /\ SecondLowest \in Fds
      /\ fds[0][Lowest] = Closed /\ fds[0][SecondLowest] = Closed
  BY <1>1, SecondIsFree, FdsAssumption DEF Connected, LeaderHolds, Fds
<1>4. Typed /\ local \in Locals
  BY <1>1 DEF Connected, Typed
<1>5. local'.backup = local.backup /\ local'.infd = Lowest /\ local'.output = SecondLowest
  BY <1>1, <1>4 DEF Locals
<1>6. local.redir - 1 = Len(chain[current].redirs)
  <2> DEFINE n == Len(chain[current].redirs)
  <2>1. local.redir \in 1..(n + 1) /\ local.redir > n
    BY <1>1 DEF Connected, OwnFds
  <2>2. n \in Nat
    BY <1>4, CmdsType
  <2> HIDE DEF n
  <2>3. local.redir - 1 = n
    BY <2>1, <2>2
  <2> QED
    BY <2>3 DEF n
<1>7. \A f \in 0..2 : fds[0][f] = Wanted(chain, current)[f]
  <2> DEFINE p == current - 1
  <2>1. p \in Nat /\ p + 1 = current
    BY <1>4 DEF Typed
  <2> HIDE DEF p
  <2>2. Wanted(chain, p + 1) =
          After(chain, InFront(Wanted(chain, p)), p + 1, Len(chain[p + 1].redirs))
    BY <2>1, WantedUnfolds
  <2>3. Wanted(chain, current) =
          After(chain, InFront(Wanted(chain, current - 1)), current, Len(chain[current].redirs))
    BY <2>1, <2>2 DEF p
  <2> QED
    BY <1>1, <1>2, <1>6, <2>3 DEF Named
<1>8. /\ fds[0][local.backup[1]] = Tty /\ fds[0][local.backup[2]] = Tty
      /\ local.backup[1] \in Fds /\ local.backup[2] \in Fds
  BY <1>1, <1>2, FdsAssumption DEF Named, Connected, OwnFds, Fds
<1>9. Lowest \notin {local.backup[1], local.backup[2]}
      /\ SecondLowest \notin {local.backup[1], local.backup[2]}
  BY <1>3, <1>8, EndsDiffer
<1>10. /\ fds'[0][2] = fds[0][2] /\ fds'[0][Lowest] = fds[0][0]
       /\ fds'[0][SecondLowest] = fds[0][1]
  BY <1>2, <1>3
<1>11. fds'[0][local.backup[1]] = Tty /\ fds'[0][local.backup[2]] = Tty
  BY <1>2, <1>3, <1>8, <1>9
<1> QED
  BY <1>2, <1>5, <1>7, <1>10, <1>11 DEF Named

\* Connecting a command leaves output, 2 and the backups alone.
LEMMA ConnectNamed ==
  ASSUME Connected, Named, ConnectToPipe \/ ConnectLast
  PROVE  Named'
<1> SUFFICES ASSUME Plain' PROVE Named'
  BY Zenon DEF Named
<1> DEFINE b == local.backup
           wanted == Wanted(chain, current)
<1>1. leader = "connect" /\ local \in Locals
  BY DEF ConnectToPipe, ConnectLast, Connected, Typed
<1>2. /\ b[1] \in 3..MaxFd /\ b[2] \in 3..MaxFd /\ b[1] # b[2]
      /\ local.infd \in 3..MaxFd /\ local.output \in 3..MaxFd
      /\ local.infd \notin {b[1], b[2], local.output} /\ local.output \notin {b[1], b[2]}
      /\ Outer(fds[0][b[1]]) /\ Outer(fds[0][b[2]])
  BY <1>1 DEF Connected, OwnFds
<1>3. PICK T : Leads(T, "start")
  BY DEF ConnectToPipe, ConnectLast
<1>4. /\ DOMAIN fds[0] = Fds /\ 0 \in Fds /\ 1 \in Fds /\ 2 \in Fds
      /\ UNCHANGED << chain, current, at, cmds, Plain >> /\ leader' = "start"
  BY <1>3, LeadsTable
<1>5. /\ fds[0][b[1]] = Tty /\ fds[0][b[2]] = Tty /\ fds[0][2] = wanted[2]
      /\ at = 1 => fds[0][local.infd] = wanted[0]
      /\ fds[0][local.output] = wanted[1]
  BY <1>1, <1>4 DEF Named
<1>6. Outer(fds[0][local.output]) /\ \A f \in 0..2 : fds[0][f] # Closed
  BY <1>1 DEF Connected, LeaderHolds
<1>7. /\ DOMAIN FromInfd = Fds /\ FromInfd[0] = fds[0][local.infd]
      /\ \A f \in Fds \ {0, local.infd} : FromInfd[f] = fds[0][f]
  BY <1>2, <1>4 DEF FromInfd
<1>8. /\ b[1] \in Fds /\ b[2] \in Fds /\ local.output \in Fds
      /\ 2 \in Fds \ {0, local.infd} /\ b[1] \in Fds \ {0, 1, local.infd}
      /\ b[2] \in Fds \ {0, 1, local.infd} /\ local.output \in Fds \ {0, 1, local.infd}
  BY <1>2, FdsAssumption DEF Fds
<1>9. CASE ConnectToPipe
  <2> DEFINE read == Min({local.infd, Lowest})
  <2>1. /\ at < Len(cmds) /\ OneLeft /\ local' = [local EXCEPT !.infd = read]
        /\ Leads([FromInfd EXCEPT ![read] = ReadEnd(at), ![1] = WriteEnd(at)], "start")
    BY <1>9 DEF ConnectToPipe
  <2>2. fds'[0] = [FromInfd EXCEPT ![read] = ReadEnd(at), ![1] = WriteEnd(at)]
    BY <2>1, LeadsTable
  <2>3. Lowest \in 3..MaxFd /\ fds[0][Lowest] = Closed
    BY <1>6, <2>1, LowestIsFree
  <2>4. read \in {local.infd, Lowest}
    <3>1. {local.infd, Lowest} \subseteq Nat /\ {local.infd, Lowest} # {}
      BY <1>2, <2>3
    <3> QED
      BY <3>1, LeastOf
  <2>5. local'.backup = b /\ local'.output = local.output
    BY <1>1, <2>1 DEF Locals
  <2> HIDE DEF read
  <2>6. read \notin {0, 1, 2, b[1], b[2], local.output}
    BY <1>2, <1>6, <2>3, <2>4, EndsDiffer
  <2>7. \A f \in Fds \ {1, read} : fds'[0][f] = FromInfd[f]
    BY <1>7, <2>2
  <2>8. /\ fds'[0][0] = fds[0][local.infd] /\ fds'[0][2] = fds[0][2]
        /\ fds'[0][b[1]] = fds[0][b[1]] /\ fds'[0][b[2]] = fds[0][b[2]]
        /\ fds'[0][local.output] = fds[0][local.output]
    BY <1>4, <1>7, <1>8, <2>6, <2>7
  <2> QED
    BY <1>4, <1>5, <2>1, <2>5, <2>8 DEF Named
<1>10. CASE ConnectLast
  <2>1. /\ at = Len(cmds) /\ local' = local
        /\ Leads([FromInfd EXCEPT ![1] = fds[0][local.output], ![local.output] = Closed], "start")
    BY <1>10 DEF ConnectLast
  <2>2. fds'[0] = [FromInfd EXCEPT ![1] = fds[0][local.output], ![local.output] = Closed]
    BY <2>1, LeadsTable
  <2>3. \A f \in Fds \ {1, local.output} : fds'[0][f] = FromInfd[f]
    BY <1>7, <2>2
  <2>4. 0 # local.output /\ 2 # local.output /\ 1 # local.output
    BY <1>2
  <2>5. fds'[0][1] = fds[0][local.output]
    BY <1>4, <1>7, <2>2, <2>4
  <2>6. /\ fds'[0][0] = fds[0][local.infd] /\ fds'[0][2] = fds[0][2]
        /\ fds'[0][b[1]] = fds[0][b[1]] /\ fds'[0][b[2]] = fds[0][b[2]]
    BY <1>2, <1>4, <1>7, <1>8, <2>3, <2>4
  <2>7. ~(at < Len(cmds))
    BY <2>1, CmdsType DEF Connected
  <2> QED
    BY <1>4, <1>5, <2>1, <2>5, <2>6, <2>7 DEF Named
<1> QED
  BY <1>9, <1>10

\* Once a command is started the leader goes on with what it has.
LEMMA NextNamed ==
  ASSUME Connected, Named, Start \/ CannotStart \/ RunBuiltin
  PROVE  Named'
<1> SUFFICES ASSUME Plain' PROVE Named'
  BY Zenon DEF Named
<1>1. leader = "start" /\ NextCommand /\ UNCHANGED << chain, current, local >>
  BY DEF Start, CannotStart, RunBuiltin
<1>2. at \in Cmds /\ Len(cmds) \in Nat /\ Cmds = 1..Len(cmds) /\ DOMAIN fds = 0..Len(cmds)
  <2>1. at \in 1..(Len(cmds) + 1) /\ at <= Len(cmds) /\ DOMAIN fds = 0..Len(cmds)
    BY <1>1 DEF Connected, InOrder, Typed
  <2> QED
    BY <2>1, CmdsType DEF Connected
<1>3. fds'[0] = fds[0]
  BY <1>2 DEF Start, CannotStart, RunBuiltin
<1>4. Plain /\ UNCHANGED cmds
  BY <1>1 DEF Plain, cmds
<1>5. /\ fds[0][local.backup[1]] = Tty /\ fds[0][local.backup[2]] = Tty
      /\ fds[0][2] = Wanted(chain, current)[2]
      /\ at < Len(cmds) => fds[0][local.output] = Wanted(chain, current)[1]
  BY <1>1, <1>4 DEF Named
<1>6. /\ leader' = IF at < Len(cmds) THEN "connect" ELSE "restore"
      /\ at' # 1
  BY <1>1, <1>2 DEF NextCommand
<1> QED
  BY <1>1, <1>3, <1>4, <1>5, <1>6 DEF Named

\* restore_fd brings back 0 and 1, from the backups, and not 2.
LEMMA RestoreNamed ==
  ASSUME Connected, Named, Restore
  PROVE  Named'
<1> SUFFICES ASSUME Plain' PROVE Named'
  BY Zenon DEF Named
<1> DEFINE T == [fds[0] EXCEPT ![0] = fds[0][local.backup[1]], ![1] = fds[0][local.backup[2]]]
<1>1. leader = "restore" /\ Leads(T, "wait")
  BY DEF Restore
<1>2. /\ fds'[0] = T /\ leader' = "wait" /\ DOMAIN fds[0] = Fds
      /\ 0 \in Fds /\ 1 \in Fds /\ 2 \in Fds
      /\ UNCHANGED << chain, current, Plain >>
  BY <1>1, LeadsTable
<1>3. /\ fds[0][local.backup[1]] = Tty /\ fds[0][local.backup[2]] = Tty
      /\ fds[0][2] = Wanted(chain, current)[2]
  BY <1>1, <1>2 DEF Named
<1>4. fds'[0][0] = Tty /\ fds'[0][1] = Tty /\ fds'[0][2] = fds[0][2]
  BY <1>2, <1>3
<1> QED
  BY <1>2, <1>3, <1>4 DEF Named

\* The next pipeline starts from what this one left in 2.
LEMMA NextPipelineNamed ==
  ASSUME Connected, Named, NextPipeline
  PROVE  Named'
<1> SUFFICES ASSUME Plain' PROVE Named'
  BY Zenon DEF Named
<1>1. /\ leader = "done" /\ chain' = chain /\ current' = current + 1
      /\ current < Len(chain) /\ Unborn(chain[current + 1], fds[0])
  BY DEF NextPipeline
<1>2. current \in Nat /\ current' - 1 = current /\ Len(chain) \in Nat
  BY <1>1 DEF Connected, Typed
<1>3. Plain
  <2>1. 1..current \subseteq 1..current'
    BY <1>1, <1>2
  <2> QED
    BY <1>1, <2>1 DEF Plain
<1>4. fds[0][0] = Tty /\ fds[0][1] = Tty /\ fds[0][2] = Wanted(chain, current)[2]
  BY <1>1, <1>3 DEF Named
<1>5. leader' = "backup" /\ fds'[0] = fds[0]
  <2>1. chain[current + 1] \in Pipeline
    BY <1>1, <1>2 DEF Connected, Typed
  <2>2. Len(chain[current + 1].cmds) \in Nat
    BY <2>1 DEF Pipeline
  <2> QED
    BY <1>1, <2>2 DEF Unborn
<1> QED
  BY <1>1, <1>2, <1>4, <1>5 DEF Named

\* The names are kept by every step.
LEMMA NamedStep ==
  Connected /\ Named /\ [Next]_vars => Named'
<1> SUFFICES ASSUME Connected, Named, [Next]_vars PROVE Named'
  OBVIOUS
<1>1. CASE CannotRedirect
  BY <1>1 DEF CannotRedirect, Leads, Named
<1>2. CASE Done \/ AddJob \/ UNCHANGED vars \/ \E c \in Cmds : Command(c)
  <2>1. /\ UNCHANGED << chain, current, at, local >>
        /\ leader' = leader \/ (leader = "wait" /\ leader' = "done")
    BY <1>2 DEF Done, AddJob, vars, Command, Writes, Reads, Ends
  <2>2. fds'[0] = fds[0]
    <3>1. /\ DOMAIN fds = 0..Len(cmds) /\ Len(cmds) \in Nat /\ 0 \notin Cmds
      BY CmdsType DEF Connected, Typed
    <3> QED
      BY <1>2, <3>1 DEF Done, AddJob, vars, Command, Writes, Reads, Ends
  <2>3. UNCHANGED << cmds, Plain >>
    BY <2>1 DEF cmds, Plain
  <2> QED
    BY <2>1, <2>2, <2>3 DEF Named
<1> QED
  BY <1>1, <1>2, BackupNamed, RedirectNamed, RedirectedNamed, ConnectNamed, NextNamed,
     RestoreNamed, NextPipelineNamed DEF Next, Leader

\* What the names say when a command is started.
LEMMA NamedEnds ==
  ASSUME Connected, Named
  PROVE  CommandsGetTheirEnds
<1> SUFFICES ASSUME leader = "start", Plain
             PROVE  /\ fds[0][0] = IF at = 1 THEN Wanted(chain, current)[0] ELSE ReadEnd(at - 1)
                    /\ fds[0][1] = IF at = Len(cmds) THEN Wanted(chain, current)[1]
                                   ELSE WriteEnd(at)
                    /\ fds[0][2] = Wanted(chain, current)[2]
  BY DEF CommandsGetTheirEnds
<1>1. at \in 1..Len(cmds) /\ Len(cmds) \in Nat
  BY CmdsType DEF Connected, Typed, InOrder
<1> QED
  BY <1>1 DEF Named, Connected, LeaderHolds

\* The leader has for 0, 1 and 2 what every command is to get, when it starts it, for any
\* redirections of these three, in every pipeline of a chain: the numbers that dup, open
\* and pipe return never collide with those it remembers.
THEOREM CommandsAlwaysGetTheirEnds == Spec => []CommandsGetTheirEnds
<1> QED
  BY AlwaysConnected, InitNamed, NamedStep, NamedEnds, PTL DEF Spec
=============================================================================
