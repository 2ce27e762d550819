-------------------------- MODULE JobControlProofs --------------------------
(* Proofs about JobControl, for all constants. *)
EXTENDS JobControl, SequenceTheorems, TLAPS
-----------------------------------------------------------------------------
(* What the operators of JobTable return, for every jobs. *)

\* The entries of a list of jobs are jobs, at the positions 1..Len.
LEMMA JobAt ==
  ASSUME NEW jobs \in Seq(Job), NEW k \in 1..Len(jobs)
  PROVE  /\ jobs[k] \in Job
         /\ jobs[k].pid \in Pids /\ jobs[k].num \in Nat /\ jobs[k].stat \in Stats
  <1>1. jobs[k] \in Job
    BY ElementOfSeq
  <1> QED
    BY <1>1 DEF Job

\* A function on 1..n with jobs as values is a list of jobs of length n.
LEMMA ListOfJobs ==
  ASSUME NEW n \in Nat, NEW f, f \in [1..n -> Job]
  PROVE  f \in Seq(Job) /\ Len(f) = n
  <1>1. f \in Seq(Job)
    BY SeqDef
  <1>2. DOMAIN f = 1..n
    OBVIOUS
  <1>3. Len(f) \in Nat /\ DOMAIN f = 1..Len(f)
    BY <1>1, LenProperties
  <1> QED
    BY <1>1, <1>2, <1>3

\* The number add_job gives out is a natural number above those in the list.
LEMMA NextNumType ==
  ASSUME NEW jobs \in Seq(Job)
  PROVE  NextNum(jobs) \in Nat
  <1>1. CASE jobs = << >>
    BY <1>1 DEF NextNum
  <1>2. CASE jobs # << >>
    <2>1. Len(jobs) \in 1..Len(jobs)
      BY <1>2, LenProperties, EmptySeq
    <2> QED
      BY <1>2, <2>1, JobAt DEF NextNum
  <1> QED
    BY <1>1, <1>2

\* add_job appends one running job and keeps the others.
LEMMA AddJobList ==
  ASSUME NEW jobs \in Seq(Job), NEW p \in Pids
  PROVE  /\ add_job(jobs, p) \in Seq(Job)
         /\ Len(add_job(jobs, p)) = Len(jobs) + 1
         /\ \A k \in 1..Len(jobs) : add_job(jobs, p)[k] = jobs[k]
         /\ add_job(jobs, p)[Len(jobs) + 1] = new_job(jobs, p)
  <1>1. new_job(jobs, p) \in Job
    BY NextNumType DEF new_job, Job, Stats
  <1> QED
    BY <1>1, AppendProperties, LenProperties DEF add_job

\* remove_job drops the cell at i and keeps the others in their order.
LEMMA RemoveJobList ==
  ASSUME NEW jobs \in Seq(Job), NEW i \in 1..Len(jobs)
  PROVE  /\ remove_job(jobs, i) \in Seq(Job)
         /\ Len(remove_job(jobs, i)) = Len(jobs) - 1
         /\ \A k \in 1..(Len(jobs) - 1) :
              remove_job(jobs, i)[k] = IF k < i THEN jobs[k] ELSE jobs[k + 1]
  <1>1. Len(jobs) - 1 \in Nat
    BY LenProperties
  <1>2. \A k \in 1..(Len(jobs) - 1) : k \in 1..Len(jobs) /\ k + 1 \in 1..Len(jobs)
    BY <1>1
  <1>3. remove_job(jobs, i) \in [1..(Len(jobs) - 1) -> Job]
    BY <1>2, JobAt DEF remove_job
  <1> QED
    BY <1>1, <1>3, ListOfJobs DEF remove_job

\* SetStat changes no pid and no number.
LEMMA SetStatList ==
  ASSUME NEW jobs \in Seq(Job), NEW p \in Pids, NEW st \in Stats
  PROVE  /\ SetStat(jobs, p, st) \in Seq(Job)
         /\ Len(SetStat(jobs, p, st)) = Len(jobs)
         /\ \A k \in 1..Len(jobs) :
              /\ SetStat(jobs, p, st)[k].pid = jobs[k].pid
              /\ SetStat(jobs, p, st)[k].num = jobs[k].num
              /\ SetStat(jobs, p, st)[k].stat =
                   IF jobs[k].pid = p THEN st ELSE jobs[k].stat
  <1>1. Len(jobs) \in Nat
    BY LenProperties
  <1>2. ASSUME NEW k \in 1..Len(jobs)
        PROVE  [jobs[k] EXCEPT !.stat = st] \in Job
    BY JobAt DEF Job
  <1>3. SetStat(jobs, p, st) \in [1..Len(jobs) -> Job]
    BY <1>2, JobAt DEF SetStat
  <1>4. ASSUME NEW k \in 1..Len(jobs)
        PROVE  /\ SetStat(jobs, p, st)[k].pid = jobs[k].pid
               /\ SetStat(jobs, p, st)[k].num = jobs[k].num
               /\ SetStat(jobs, p, st)[k].stat =
                    IF jobs[k].pid = p THEN st ELSE jobs[k].stat
    <2>1. jobs[k] \in Job
      BY JobAt
    <2> QED
      BY <2>1 DEF SetStat, Job
  <1> QED
    BY <1>1, <1>3, <1>4, ListOfJobs
-----------------------------------------------------------------------------
(* The order of the numbers, and the processes listed. *)

\* In a list with increasing numbers, every number is below the next one given out.
LEMMA NextNumAbove ==
  ASSUME NEW jobs \in Seq(Job), Increasing(jobs), NEW k \in 1..Len(jobs)
  PROVE  jobs[k].num < NextNum(jobs)
  <1>1. Len(jobs) \in Nat /\ Len(jobs) \in 1..Len(jobs)
    BY LenProperties
  <1>2. jobs # << >>
    BY EmptySeq
  <1>3. jobs[k].num \in Nat /\ jobs[Len(jobs)].num \in Nat
    BY <1>1, JobAt
  <1>4. k = Len(jobs) \/ jobs[k].num < jobs[Len(jobs)].num
    BY <1>1 DEF Increasing
  <1> QED
    BY <1>2, <1>3, <1>4 DEF NextNum

\* The number of an added job is above all others: the order is kept.
LEMMA AddJobIncreasing ==
  ASSUME NEW jobs \in Seq(Job), NEW p \in Pids, Increasing(jobs)
  PROVE  Increasing(add_job(jobs, p))
  <1>1. Len(jobs) \in Nat
    BY LenProperties
  <1>2. new_job(jobs, p).num = NextNum(jobs)
    BY DEF new_job
  <1>3. SUFFICES ASSUME NEW i \in 1..(Len(jobs) + 1), NEW j \in 1..(Len(jobs) + 1), i < j
                 PROVE  add_job(jobs, p)[i].num < add_job(jobs, p)[j].num
    BY AddJobList DEF Increasing
  <1>4. i \in 1..Len(jobs) /\ (j \in 1..Len(jobs) \/ j = Len(jobs) + 1)
    BY <1>1, <1>3
  <1>5. CASE j \in 1..Len(jobs)
    BY <1>3, <1>4, <1>5, AddJobList DEF Increasing
  <1>6. CASE j = Len(jobs) + 1
    BY <1>2, <1>4, <1>6, AddJobList, NextNumAbove
  <1> QED
    BY <1>4, <1>5, <1>6

\* Removing a job keeps the order of the numbers of the others.
LEMMA RemoveJobIncreasing ==
  ASSUME NEW jobs \in Seq(Job), NEW i \in 1..Len(jobs), Increasing(jobs)
  PROVE  Increasing(remove_job(jobs, i))
  <1>1. Len(jobs) \in Nat
    BY LenProperties
  <1> DEFINE new == remove_job(jobs, i)
  <1>0. Len(new) = Len(jobs) - 1
    BY RemoveJobList
  <1> HIDE DEF new
  <1>2. SUFFICES ASSUME NEW j \in 1..(Len(jobs) - 1), NEW k \in 1..(Len(jobs) - 1), j < k
                 PROVE  new[j].num < new[k].num
    BY <1>0 DEF Increasing, new
  <1> DEFINE Place(n) == IF n < i THEN n ELSE n + 1
  <1>3. Place(j) \in 1..Len(jobs) /\ Place(k) \in 1..Len(jobs) /\ Place(j) < Place(k)
    BY <1>1, <1>2
  <1>4. new[j] = jobs[Place(j)] /\ new[k] = jobs[Place(k)]
    BY RemoveJobList DEF new
  <1> HIDE DEF Place
  <1> QED
    BY <1>3, <1>4 DEF Increasing

\* Assigning a stat changes no number.
LEMMA SetStatIncreasing ==
  ASSUME NEW jobs \in Seq(Job), NEW p \in Pids, NEW st \in Stats, Increasing(jobs)
  PROVE  Increasing(SetStat(jobs, p, st))
  BY SetStatList DEF Increasing

\* A job that is not listed yet may be added; removals and SetStat keep pids apart.
LEMMA AddJobPids ==
  ASSUME NEW jobs \in Seq(Job), NEW p \in Pids
  PROVE  /\ PidsOf(add_job(jobs, p)) = PidsOf(jobs) \cup {p}
         /\ DistinctPids(jobs) /\ p \notin PidsOf(jobs) =>
              DistinctPids(add_job(jobs, p))
  <1> DEFINE new == add_job(jobs, p)
  <1>1. Len(jobs) \in Nat
    BY LenProperties
  <1>2. new_job(jobs, p).pid = p
    BY DEF new_job
  <1>3. \A k \in 1..Len(jobs) : new[k].pid = jobs[k].pid
    BY AddJobList
  <1>4. new[Len(jobs) + 1].pid = p /\ Len(new) = Len(jobs) + 1
    BY <1>2, AddJobList
  <1> HIDE DEF new
  <1>5. 1..(Len(jobs) + 1) = 1..Len(jobs) \cup {Len(jobs) + 1}
    BY <1>1
  <1>6. PidsOf(new) = PidsOf(jobs) \cup {p}
    BY <1>3, <1>4, <1>5 DEF PidsOf
  <1>7. DistinctPids(jobs) /\ p \notin PidsOf(jobs) => DistinctPids(new)
    BY <1>3, <1>4, <1>5 DEF PidsOf, DistinctPids
  <1> QED
    BY <1>6, <1>7 DEF new

\* remove_job takes exactly the process at position i out of the list.
LEMMA RemoveJobPids ==
  ASSUME NEW jobs \in Seq(Job), NEW i \in 1..Len(jobs), DistinctPids(jobs)
  PROVE  /\ PidsOf(remove_job(jobs, i)) = PidsOf(jobs) \ {jobs[i].pid}
         /\ DistinctPids(remove_job(jobs, i))
  <1> DEFINE new == remove_job(jobs, i)
             Place(n) == IF n < i THEN n ELSE n + 1
  <1>1. Len(jobs) \in Nat /\ Len(new) = Len(jobs) - 1
    BY LenProperties, RemoveJobList
  <1>2. \A k \in 1..Len(new) : Place(k) \in 1..Len(jobs) /\ Place(k) # i
    BY <1>1
  <1>3. \A k \in 1..Len(new) : new[k] = jobs[Place(k)]
    BY <1>1, RemoveJobList
  <1>4. \A m \in 1..Len(jobs) : m # i => \E k \in 1..Len(new) : m = Place(k)
    <2> TAKE m \in 1..Len(jobs)
    <2> HAVE m # i
    <2>1. CASE m < i
      <3>1. m \in 1..Len(new) /\ m = Place(m)
        BY <1>1, <2>1
      <3> QED
        BY <3>1
    <2>2. CASE m > i
      <3>1. m - 1 \in 1..Len(new) /\ m = Place(m - 1)
        BY <1>1, <2>2
      <3> QED
        BY <3>1
    <2> QED
      BY <2>1, <2>2
  <1>5. \A j, k \in 1..Len(new) : Place(j) = Place(k) => j = k
    BY <1>1
  <1> HIDE DEF new, Place
  <1>6. PidsOf(new) = PidsOf(jobs) \ {jobs[i].pid}
    <2>1. ASSUME NEW q \in PidsOf(new)
          PROVE  q \in PidsOf(jobs) /\ q # jobs[i].pid
      <3>1. PICK k \in 1..Len(new) : q = new[k].pid
        BY DEF PidsOf
      <3> QED
        BY <3>1, <1>2, <1>3 DEF PidsOf, DistinctPids
    <2>2. ASSUME NEW q \in PidsOf(jobs), q # jobs[i].pid
          PROVE  q \in PidsOf(new)
      <3>1. PICK m \in 1..Len(jobs) : q = jobs[m].pid
        BY DEF PidsOf
      <3>2. PICK k \in 1..Len(new) : m = Place(k)
        BY <1>4, <2>2, <3>1
      <3> QED
        BY <1>3, <3>1, <3>2 DEF PidsOf
    <2> QED
      BY <2>1, <2>2
  <1>7. DistinctPids(new)
    BY <1>2, <1>3, <1>5 DEF DistinctPids
  <1> QED
    BY <1>6, <1>7 DEF new

\* Assigning a stat lists the same processes.
LEMMA SetStatPids ==
  ASSUME NEW jobs \in Seq(Job), NEW p \in Pids, NEW st \in Stats
  PROVE  /\ PidsOf(SetStat(jobs, p, st)) = PidsOf(jobs)
         /\ DistinctPids(jobs) => DistinctPids(SetStat(jobs, p, st))
  BY SetStatList DEF PidsOf, DistinctPids

\* StatOf is the status of the one job that has the pid.
LEMMA StatOfJob ==
  ASSUME NEW jobs, DistinctPids(jobs), NEW k \in 1..Len(jobs)
  PROVE  StatOf(jobs, jobs[k].pid) = {jobs[k].stat}
  BY DEF StatOf, DistinctPids
-----------------------------------------------------------------------------
(* The invariant. *)

\* The initial states.
LEMMA InitInv == Init => IInv
  <1> SUFFICES ASSUME Init PROVE IInv
    OBVIOUS
  <1> USE MainAssumption, NoPidAssumption
  <1>1. TypeOK
    <2>1. << >> \in Seq(Job)
      BY EmptySeq
    <2> QED
      BY <2>1 DEF Init, TypeOK, States, Pcs, Working, NoJob
  <1>2. \A s \in Pids : list[s] = << >> /\ Len(list[s]) = 0 /\ PidsOf(list[s]) = {}
    BY EmptySeq DEF Init, PidsOf
  <1>3. \A s \in Pids : pc[s] \in {"reap", "none"} /\ (pc[s] = "reap" <=> s = Main)
    BY DEF Init
  <1>4. ProcessesOK /\ AddingOK /\ HandlerOK
    BY <1>2, <1>3 DEF Init, ProcessesOK, AddingOK, HandlerOK, Alive, Working,
                      Adding, FgSteps, BgSteps
  <1>5. ListsOK /\ NumbersIncrease /\ WalkedIsLive /\ StopsOK
    BY <1>2 DEF ListsOK, DistinctPids, NumbersIncrease, Increasing, WalkedIsLive, StopsOK
  <1>6. NoOrphan
    BY DEF Init, NoOrphan, ChildOf
  <1>7. PromptTableIsLive /\ GroupsOK /\ MainOK
    BY <1>2, <1>3 DEF Init, PromptTableIsLive, GroupsOK, MainOK
  <1>8. TerminalOwner
    BY <1>3 DEF Init, TerminalOwner
  <1> QED
    BY <1>1, <1>4, <1>5, <1>6, <1>7, <1>8 DEF IInv
-----------------------------------------------------------------------------
(* Typing. *)

\* The deaths of some processes keep the process states and the code positions typed.
LEMMA DeadType ==
  ASSUME TypeOK, NEW D
  PROVE  Dead(D) \in [Pids -> States] /\ PcOfDead(D) \in [Pids -> Pcs]
  BY DEF TypeOK, Dead, PcOfDead, States, Pcs

\* Whatever tcsetpgrp does, the foreground group has a name.
LEMMA ForegroundType ==
  ASSUME TypeOK, NEW g \in Pids
  PROVE  Foreground(g) \in Pids
  BY DEF TypeOK, Foreground

\* The pids in a list are pids.
LEMMA PidsType ==
  ASSUME NEW l \in Seq(Job)
  PROVE  PidsOf(l) \subseteq Pids
  BY JobAt DEF PidsOf

\* Between fork or Pick and its end, a handler works on a process.
LEMMA JobType ==
  ASSUME IInv, NEW s \in Pids, pc[s] \in Adding \cup FgSteps \cup BgSteps
  PROVE  job[s] \in Pids
  <1>1. CASE pc[s] \in Adding
    BY <1>1 DEF IInv, AddingOK
  <1>2. CASE pc[s] \in FgSteps \cup BgSteps
    BY <1>2, PidsType DEF IInv, HandlerOK, TypeOK
  <1> QED
    BY <1>1, <1>2

\* Every step keeps the variables typed.
LEMMA TypeStep ==
  ASSUME IInv, [Next]_vars
  PROVE  TypeOK'
  <1> USE MainAssumption, NoPidAssumption DEF TypeOK, kernel, table, GoTo, At
  <1>0. TypeOK
    BY DEF IInv
  <1>1. ASSUME NEW s \in Pids, ReapNothing(s) PROVE TypeOK'
    <2>1. pc' \in [Pids -> Pcs]
      BY <1>0, <1>1 DEF ReapNothing, NextCell, Pcs
    <2>2. cursor' \in [Pids -> Nat]
      BY <1>0, <1>1 DEF ReapNothing
    <2> QED
      BY <1>0, <1>1, <2>1, <2>2 DEF ReapNothing
  <1>2. ASSUME NEW s \in Pids, ReapDead(s) \/ ReapMissing(s) PROVE TypeOK'
    <2>1. remove_job(list[s], cursor[s]) \in Seq(Job)
      BY <1>0, <1>2, RemoveJobList DEF ReapDead, ReapMissing, AtCell
    <2>2. Dangles(list[s], stale[s], cursor[s]) \in BOOLEAN
      BY DEF Dangles
    <2>6. RemoveCell(s)
      BY <1>2 DEF ReapDead, ReapMissing
    <2>3. list' \in [Pids -> Seq(Job)] /\ stale' \in [Pids -> BOOLEAN]
      <3>1. list' \in [Pids -> Seq(Job)]
        BY <1>0, <2>1, <2>6 DEF RemoveCell
      <3>2. stale' \in [Pids -> BOOLEAN]
        BY <1>0, <2>2, <2>6 DEF RemoveCell
      <3> QED
        BY <3>1, <3>2
    <2>4. pc' \in [Pids -> Pcs]
      BY <1>0, <1>2 DEF ReapDead, ReapMissing, NextCell, Pcs
    <2>5. state' \in [Pids -> States]
      BY <1>0, <1>2 DEF ReapDead, ReapMissing, States
    <2> QED
      BY <1>0, <1>2, <2>3, <2>4, <2>5 DEF ReapDead, ReapMissing
  <1>3. ASSUME NEW s \in Pids, ReapEnd(s) PROVE TypeOK'
    BY <1>0, <1>3 DEF ReapEnd, Pcs, Working
  <1>4. ASSUME NEW s \in Pids, AddJob(s) PROVE TypeOK'
    <2>1. job[s] \in Pids
      BY <1>4, JobType DEF AddJob
    <2>2. add_job(list[s], job[s]) \in Seq(Job) /\ NextNum(list[s]) \in Nat
      BY <1>0, <2>1, AddJobList, NextNumType
    <2>3. pc' \in [Pids -> Pcs]
      BY <1>0, <1>4 DEF AddJob, Pcs, Working, FgSteps, BgSteps
    <2>4. pgid' \in [Pids -> Pids \cup {NoPid}] /\ list' \in [Pids -> Seq(Job)]
      BY <1>0, <1>4, <2>1, <2>2 DEF AddJob
    <2>5. stale' \in [Pids -> BOOLEAN] /\ lastUpd' \in [Pids -> Int]
      BY <1>0, <1>4, <2>2 DEF AddJob
    <2> QED
      BY <1>0, <1>4, <2>3, <2>4, <2>5 DEF AddJob
  <1>5. ASSUME NEW s \in Pids, FgSet(s) PROVE TypeOK'
    <2>1. Foreground(job[s]) \in Pids
      BY <1>0, <1>5, JobType, ForegroundType DEF FgSet, FgSteps
    <2> QED
      BY <1>0, <1>5, <2>1 DEF FgSet, Pcs, Working, FgSteps
  <1>6. ASSUME NEW s \in Pids, FgCont(s) \/ BgCont(s) PROVE TypeOK'
    <2>1. SetStat(list[s], job[s], "RUNNING") \in Seq(Job)
      BY <1>0, <1>6, JobType, SetStatList DEF FgCont, BgCont, FgSteps, BgSteps, Stats
    <2>2. Continued(job[s]) \in [Pids -> States]
      BY <1>0 DEF Continued, States
    <2>3. pc' \in [Pids -> Pcs]
      BY <1>0, <1>6 DEF FgCont, BgCont, Pcs, Working, FgSteps, BgSteps
    <2>4. /\ list' \in [Pids -> Seq(Job)]
          /\ state' \in [Pids -> States]
          /\ ttyMode' \in {"raw", "canon"}
      <3>1. CASE Resume(s)
        BY <1>0, <2>1, <2>2, <3>1 DEF Resume
      <3>2. CASE UNCHANGED << ttyMode, state, list >>
        BY <1>0, <3>2
      <3> QED
        BY <1>6, <3>1, <3>2 DEF FgCont, BgCont
    <2> QED
      BY <1>0, <1>6, <2>3, <2>4 DEF FgCont, BgCont
  <1>7. ASSUME NEW s \in Pids, WaitDead(s) \/ WaitStopped(s) \/ WaitFails(s)
        PROVE TypeOK'
    <2>1. \A st \in {"DONE", "STOPPED"} : SetStat(list[s], job[s], st) \in Seq(Job)
      BY <1>0, <1>7, JobType, SetStatList
         DEF WaitDead, WaitStopped, WaitFails, FgSteps, Stats
    <2>2. \A k \in 1..Len(list[s]) : list[s][k].num \in Int
      BY <1>0, JobAt
    <2>3. list' \in [Pids -> Seq(Job)] /\ lastUpd' \in [Pids -> Int]
      <3>1. CASE MarkDone(s)
        BY <1>0, <2>1, <3>1 DEF MarkDone
      <3>2. CASE MarkStopped(s)
        BY <1>0, <2>1, <2>2, <3>2 DEF MarkStopped
      <3> QED
        BY <1>7, <3>1, <3>2 DEF WaitDead, WaitStopped, WaitFails
    <2>4. pc' \in [Pids -> Pcs]
      BY <1>0, <1>7 DEF WaitDead, WaitStopped, WaitFails, Pcs, Working, FgSteps
    <2>5. state' \in [Pids -> States]
      <3>1. UNCHANGED state \/ \E st \in States : state' = [state EXCEPT ![job[s]] = st]
        BY <1>7 DEF WaitDead, WaitStopped, WaitFails, States
      <3> HIDE DEF TypeOK
      <3>2. state \in [Pids -> States]
        BY <1>0 DEF TypeOK
      <3> QED
        BY <3>1, <3>2
    <2> QED
      BY <1>0, <1>7, <2>3, <2>4, <2>5 DEF WaitDead, WaitStopped, WaitFails
  <1>8. ASSUME NEW s \in Pids, FgEnd(s) \/ BgEnd(s) PROVE TypeOK'
    <2>1. Foreground(Main) \in Pids
      BY <1>0, ForegroundType
    <2>2. pc' \in [Pids -> Pcs] /\ job' \in [Pids -> Pids \cup {NoPid}]
      BY <1>0, <1>8 DEF FgEnd, BgEnd, Pcs, Working
    <2> QED
      BY <1>0, <1>8, <2>1, <2>2 DEF FgEnd, BgEnd
  <1>9. ASSUME NEW s \in Pids, ReadLine(s) \/ EndOfLine(s) \/ WalkOffTail(s)
        PROVE TypeOK'
    <2>1. pc' \in [Pids -> Pcs] /\ cursor' \in [Pids -> Nat]
      <3>1. CASE ReadLine(s) \/ WalkOffTail(s)
        BY <1>0, <3>1 DEF ReadLine, WalkOffTail, Pcs, Working
      <3>2. CASE EndOfLine(s)
        BY <1>0, <3>2 DEF EndOfLine, Pcs, Working
      <3> QED
        BY <1>9, <3>1, <3>2
    <2> QED
      BY <1>0, <1>9, <2>1 DEF ReadLine, EndOfLine, WalkOffTail
  <1>10. ASSUME NEW s \in Pids, ReadInBackground(s) PROVE TypeOK'
    BY <1>0, <1>10 DEF ReadInBackground, States
  <1>11. ASSUME NEW s \in Pids, RunForeground(s) \/ RunBackground(s) PROVE TypeOK'
    <2>1. PICK p \in Pids : Fork(s, p) /\ job' = [job EXCEPT ![s] = p]
      BY <1>11 DEF RunForeground, RunBackground
    <2>2. /\ state' \in [Pids -> States]
          /\ parent' \in [Pids -> Pids \cup {NoPid}]
          /\ pgid' \in [Pids -> Pids \cup {NoPid}]
          /\ job' \in [Pids -> Pids \cup {NoPid}]
      BY <1>0, <2>1 DEF Fork, States
    <2>3. pc' \in [Pids -> Pcs]
      <3>1. CASE RunForeground(s)
        <4>1. \E q \in Pids : pc' = [pc EXCEPT ![s] = "addfg", ![q] = "cmd"]
          BY <3>1 DEF RunForeground
        <4> QED
          BY <1>0, <4>1 DEF Pcs, Working, Adding
      <3>2. CASE RunBackground(s)
        <4>1. \E q \in Pids : pc' = [pc EXCEPT ![s] = "addbg", ![q] = "line"]
          BY <3>2 DEF RunBackground
        <4> QED
          BY <1>0, <4>1 DEF Pcs, Working, Adding
      <3> QED
        BY <1>11, <3>1, <3>2
    <2>4. /\ list' \in [Pids -> Seq(Job)]
          /\ stale' \in [Pids -> BOOLEAN]
          /\ lastUpd' \in [Pids -> Int]
      <3>1. CASE RunForeground(s)
        BY <1>0, <3>1 DEF RunForeground
      <3>2. ASSUME NEW q \in Pids,
                   list' = [list EXCEPT ![q] = list[s]],
                   stale' = [stale EXCEPT ![q] = stale[s]],
                   lastUpd' = [lastUpd EXCEPT ![q] = lastUpd[s]]
            PROVE  /\ list' \in [Pids -> Seq(Job)]
                   /\ stale' \in [Pids -> BOOLEAN]
                   /\ lastUpd' \in [Pids -> Int]
        <4>1. list' \in [Pids -> Seq(Job)] /\ lastUpd' \in [Pids -> Int]
          BY <1>0, <3>2
        <4>2. stale' \in [Pids -> BOOLEAN]
          BY <1>0, <3>2
        <4> QED
          BY <4>1, <4>2
      <3>3. CASE RunBackground(s)
        BY <3>2, <3>3 DEF RunBackground
      <3> QED
        BY <1>11, <3>1, <3>3
    <2> QED
      BY <1>0, <1>11, <2>2, <2>3, <2>4 DEF RunForeground, RunBackground
  <1>12. ASSUME NEW s \in Pids, Fg(s) \/ FgLast(s) \/ Bg(s) \/ BgLast(s) PROVE TypeOK'
    <2>1. PICK k, l : k \in 1..Len(list[s]) /\ l \in {"fgset", "bgcont"} /\ Pick(s, k, l)
      <3>1. Len(list[s]) \in Nat /\ (list[s] # << >> => Len(list[s]) \in 1..Len(list[s]))
        BY <1>0, LenProperties, EmptySeq
      <3> QED
        BY <1>12, <3>1 DEF Fg, FgLast, Bg, BgLast, ByNumber, LastUpdated, Positions
    <2>2. list[s][k].pid \in Pids
      BY <1>0, <2>1, JobAt
    <2> QED
      BY <1>0, <2>1, <2>2 DEF Pick, Pcs, Working, FgSteps, BgSteps
  <1>13. ASSUME NEW s \in Pids, Exit(s) PROVE TypeOK'
    BY <1>0, <1>13, DeadType DEF Exit
  <1>14. ASSUME World PROVE TypeOK'
    <2>1. ASSUME Interrupt PROVE TypeOK'
      BY <1>0, <2>1, DeadType DEF Interrupt
    <2>2. ASSUME NEW p \in Pids, Dies(p) PROVE TypeOK'
      BY <1>0, <2>2, DeadType DEF Dies
    <2>3. ASSUME NEW p \in Pids, Stops(p) \/ Continues(p) PROVE TypeOK'
      BY <1>0, <2>3 DEF Stops, Continues, States
    <2>4. ASSUME NEW p \in Pids, LeaderRunsBuiltin(p) PROVE TypeOK'
      <3>1. \A g \in Pids : Foreground(g) \in Pids /\ Continued(g) \in [Pids -> States]
        BY <1>0, ForegroundType DEF Continued, States
      <3>2. UNCHANGED << parent, pgid, pc, list, stale, lastUpd, job, cursor >>
        BY <2>4 DEF LeaderRunsBuiltin
      <3>3. /\ fgPgrp' \in Pids /\ ttyMode' \in {"raw", "canon"}
            /\ state' \in [Pids -> States]
        <4>1. PICK g \in Pids :
                \/ fgPgrp' = Foreground(g) /\ UNCHANGED << state, ttyMode >>
                \/ fgPgrp' = Foreground(Main) /\ ttyMode' = "raw" /\ UNCHANGED state
                \/ ttyMode' = "canon" /\ state' = Continued(g) /\ UNCHANGED fgPgrp
          BY <2>4 DEF LeaderRunsBuiltin
        <4>2. /\ fgPgrp \in Pids /\ ttyMode \in {"raw", "canon"}
              /\ state \in [Pids -> States]
          BY <1>0
        <4>3. Foreground(g) \in Pids /\ Foreground(Main) \in Pids
          BY <3>1
        <4>4. Continued(g) \in [Pids -> States]
          BY <3>1
        <4> HIDE DEF TypeOK
        <4> QED
          BY <4>1, <4>2, <4>3, <4>4
      <3> QED
        BY <1>0, <3>2, <3>3
    <2> QED
      BY <1>14, <2>1, <2>2, <2>3, <2>4 DEF World
  <1>15. CASE UNCHANGED vars
    BY <1>0, <1>15 DEF vars
  <1> QED
    BY <1>1, <1>2, <1>3, <1>4, <1>5, <1>6, <1>7, <1>8, <1>9, <1>10, <1>11, <1>12,
       <1>13, <1>14, <1>15
       DEF Next, Handle, Command, WaitJobs, SetForeground, SetBackground, SessionOver
-----------------------------------------------------------------------------
(* The invariant shell by shell. *)

FreeOK ==
  /\ \A p \in Pids : state[p] = "free" =>
       pc[p] = "none" /\ parent[p] = NoPid /\ \A q \in Pids : parent[q] # p
  /\ pgid[Main] = Main /\ parent[Main] = NoPid

ShellInv(t) ==
  /\ pc[t] \in Working => Alive(t)
  /\ \A p \in PidsOf(list[t]) : state[p] # "free"
  /\ DistinctPids(list[t]) /\ Increasing(list[t])
  /\ pc[t] \in Adding =>
       /\ job[t] \in Pids /\ job[t] \notin PidsOf(list[t])
       /\ parent[job[t]] = t
       /\ state[job[t]] \notin {"free", "reaped", "stopSeen"}
  /\ pc[t] \in FgSteps \cup BgSteps => job[t] \in PidsOf(list[t])
  /\ pc[t] \in Working =>
       \A p \in Pids : ChildOf(t, p) =>
         p \in PidsOf(list[t]) \/ (pc[t] \in Adding /\ job[t] = p)
  /\ pc[t] = "reap" =>
       \A k \in 1..Len(list[t]) : k < cursor[t] => ChildOf(t, list[t][k].pid)
  /\ pc[t] = "read" => \A p \in PidsOf(list[t]) : ChildOf(t, p)
  /\ pc[t] \in Working =>
       \A k \in 1..Len(list[t]) :
         parent[list[t][k].pid] = t /\ state[list[t][k].pid] = "stopSeen" =>
           list[t][k].stat = "STOPPED"
  /\ pc[t] = "fgwait" =>
       \A k \in 1..Len(list[t]) : list[t][k].pid = job[t] => list[t][k].stat # "STOPPED"
  /\ pc[t] \in Working => \A p \in PidsOf(list[t]) : ChildOf(t, p) => pgid[p] = p
  /\ t = Main /\ pc[t] \in Working => \A p \in PidsOf(list[t]) : parent[p] = t

\* The invariant is one of the processes, one of each shell, and the terminal's.
LEMMA ByShell ==
  IInv <=> TypeOK /\ FreeOK /\ (\A t \in Pids : ShellInv(t)) /\ TerminalOwner
  <1> USE DEF IInv, ProcessesOK, AddingOK, HandlerOK, ListsOK, NumbersIncrease, NoOrphan,
              WalkedIsLive, PromptTableIsLive, StopsOK, GroupsOK, MainOK, FreeOK
  <1>1. ASSUME IInv
        PROVE  TypeOK /\ FreeOK /\ (\A t \in Pids : ShellInv(t)) /\ TerminalOwner
    BY <1>1 DEF ShellInv
  <1>2. ASSUME TypeOK, FreeOK, \A t \in Pids : ShellInv(t), TerminalOwner
        PROVE  IInv
    <2>1. ProcessesOK /\ AddingOK /\ HandlerOK /\ ListsOK /\ NumbersIncrease
      BY <1>2 DEF ShellInv
    <2>2. NoOrphan /\ WalkedIsLive /\ PromptTableIsLive
      BY <1>2 DEF ShellInv
    <2>3. StopsOK
      BY <1>2 DEF ShellInv
    <2>4. GroupsOK /\ MainOK
      BY <1>2, MainAssumption DEF ShellInv
    <2> QED
      BY <1>2, <2>1, <2>2, <2>3, <2>4
  <1> QED
    BY <1>1, <1>2

\* A step leaves the invariant of shell t alone when it does not touch t, nor what
\* t knows of its children.
LEMMA ShellFrame ==
  ASSUME NEW t \in Pids, ShellInv(t), FreeOK, t # NoPid,
         list[t] \in Seq(Job),
         list'[t] = list[t],
         \A p \in Pids : state'[p] = "free" => state[p] = "free",
         \/ pc'[t] \notin Working
         \/ /\ pc'[t] = pc[t] /\ job'[t] = job[t] /\ cursor'[t] = cursor[t]
            /\ Alive(t) => Alive(t)'
            /\ \A p \in Pids :
                 /\ parent'[p] = t => parent[p] = t
                 /\ parent[p] = t =>
                      /\ parent'[p] = t /\ pgid'[p] = pgid[p]
                      /\ state'[p] = "reaped" <=> state[p] = "reaped"
                      /\ state'[p] = "stopSeen" => state[p] = "stopSeen"
  PROVE  ShellInv(t)'
  <1>1. PidsOf(list[t]) \subseteq Pids
    BY PidsType
  <1>2. \A k \in 1..Len(list[t]) : list[t][k].pid \in PidsOf(list[t])
    BY DEF PidsOf
  <1>3. PidsOf(list[t])' = PidsOf(list[t])
    BY DEF PidsOf
  <1>4. CASE pc'[t] \notin Working
    BY <1>1, <1>3, <1>4
       DEF ShellInv, Working, Adding, FgSteps, BgSteps, Increasing, DistinctPids
  <1>5. CASE pc'[t] \in Working
    BY <1>1, <1>2, <1>3, <1>5 DEF ShellInv, ChildOf, Increasing, DistinctPids, FreeOK
  <1> QED
    BY <1>4, <1>5
-----------------------------------------------------------------------------
(* Steps that only move shell s on: no process and no list changes. *)

\* A step that only moves shell s on keeps the invariant, if s may stand there.
LEMMA LocalStep ==
  ASSUME IInv, NEW s \in Pids,
         UNCHANGED << state, parent, pgid, list >>,
         pc[s] \in Working \ Adding,
         pc'[s] \in (Working \ Adding) \cup {"undefined"},
         \A t \in Pids \ {s} : pc'[t] = pc[t] /\ job'[t] = job[t] /\ cursor'[t] = cursor[t],
         pc'[s] \in FgSteps \cup BgSteps => job'[s] \in PidsOf(list[s]),
         pc'[s] = "reap" =>
           \A k \in 1..Len(list[s]) : k < cursor'[s] => ChildOf(s, list[s][k].pid),
         pc'[s] = "read" => \A p \in PidsOf(list[s]) : ChildOf(s, p),
         pc'[s] = "fgwait" =>
           \A k \in 1..Len(list[s]) : list[s][k].pid = job'[s] => list[s][k].stat # "STOPPED"
  PROVE  FreeOK' /\ \A t \in Pids : ShellInv(t)'
  <1>1. TypeOK /\ FreeOK /\ \A t \in Pids : ShellInv(t)
    BY ByShell
  <1>2. FreeOK'
    BY <1>1 DEF FreeOK, Working, Adding, FgSteps, BgSteps
  <1>3. ASSUME NEW t \in Pids \ {s}
        PROVE  ShellInv(t)'
    BY <1>1, <1>3, ShellFrame, NoPidAssumption DEF TypeOK, Alive
  <1>4. ShellInv(s)'
    <2>1. ShellInv(s)
      BY <1>1
    <2>2. PidsOf(list[s])' = PidsOf(list[s]) /\ list'[s] = list[s]
      BY DEF PidsOf
    <2>3. CASE pc'[s] = "undefined"
      BY <1>1, <2>1, <2>3, ShellFrame, NoPidAssumption
         DEF TypeOK, Working, Adding, FgSteps, BgSteps
    <2>4. CASE pc'[s] \in Working \ Adding
      BY <2>1, <2>2, <2>4 DEF ShellInv, Alive, ChildOf, Increasing, DistinctPids
    <2> QED
      BY <2>3, <2>4
  <1> QED
    BY <1>2, <1>3, <1>4

\* Where a step puts shell s, and that it leaves the others where they are.
LEMMA GoToPc ==
  ASSUME TypeOK, NEW s \in Pids, NEW l \in Pcs, GoTo(s, l)
  PROVE  pc'[s] = l /\ \A t \in Pids \ {s} : pc'[t] = pc[t]
  BY DEF TypeOK, GoTo

\* The iteration of wait_jobs that removes nothing.
LEMMA ReapNothingInv ==
  ASSUME IInv, NEW s \in Pids, ReapNothing(s)
  PROVE  FreeOK' /\ \A t \in Pids : ShellInv(t)'
  <1>1. TypeOK /\ ShellInv(s)
    BY ByShell
  <1>2. PICK p \in Pids : AtCell(s, p) /\ ChildOf(s, p)
    BY DEF ReapNothing
  <1>3. /\ UNCHANGED << state, parent, pgid, list, job >>
        /\ cursor' = [cursor EXCEPT ![s] = cursor[s] + 1]
        /\ NextCell(s)
    BY DEF ReapNothing, kernel, table
  <1>4. pc[s] = "reap" /\ list[s][cursor[s]].pid = p
    BY <1>2 DEF AtCell, At
  <1>5. /\ pc'[s] \in {"reap", "undefined"}
        /\ \A t \in Pids \ {s} : pc'[t] = pc[t]
    BY <1>1, <1>3, <1>4, GoToPc DEF NextCell, Pcs
  <1>6. /\ cursor'[s] = cursor[s] + 1 /\ cursor[s] \in Nat
        /\ \A t \in Pids \ {s} : cursor'[t] = cursor[t]
    BY <1>1, <1>3 DEF TypeOK
  <1>7. \A k \in 1..Len(list[s]) : k < cursor'[s] => ChildOf(s, list[s][k].pid)
    <2> TAKE k \in 1..Len(list[s])
    <2> HAVE k < cursor'[s]
    <2>1. k < cursor[s] \/ k = cursor[s]
      BY <1>6
    <2> QED
      BY <1>1, <1>2, <1>4, <2>1 DEF ShellInv
  <1> QED
    BY <1>3, <1>4, <1>5, <1>6, <1>7, LocalStep DEF Working, Adding, FgSteps, BgSteps

\* The end of the walk: every listed job has been passed.
LEMMA ReapEndInv ==
  ASSUME IInv, NEW s \in Pids, ReapEnd(s)
  PROVE  FreeOK' /\ \A t \in Pids : ShellInv(t)'
  <1>1. TypeOK /\ ShellInv(s)
    BY ByShell
  <1>2. /\ UNCHANGED << state, parent, pgid, list, job >>
        /\ cursor' = [cursor EXCEPT ![s] = 1]
        /\ pc[s] = "reap" /\ cursor[s] > Len(list[s])
        /\ GoTo(s, "read")
    BY DEF ReapEnd, At, kernel, table
  <1>3. pc'[s] = "read" /\ \A t \in Pids \ {s} : pc'[t] = pc[t]
    BY <1>1, <1>2, GoToPc DEF Pcs, Working
  <1>4. \A t \in Pids \ {s} : cursor'[t] = cursor[t]
    BY <1>1, <1>2 DEF TypeOK
  <1>5. cursor[s] \in Nat /\ Len(list[s]) \in Nat
    BY <1>1, LenProperties DEF TypeOK
  <1>6. \A p \in PidsOf(list[s]) : ChildOf(s, p)
    BY <1>1, <1>2, <1>5 DEF ShellInv, PidsOf
  <1> QED
    BY <1>2, <1>3, <1>4, <1>6, LocalStep DEF Working, Adding, FgSteps, BgSteps

\* The command loop between two commands.
LEMMA LineInv ==
  ASSUME IInv, NEW s \in Pids, ReadLine(s) \/ EndOfLine(s) \/ WalkOffTail(s)
  PROVE  FreeOK' /\ \A t \in Pids : ShellInv(t)'
  <1>1. TypeOK /\ ShellInv(s)
    BY ByShell
  <1>2. /\ UNCHANGED << state, parent, pgid, list, job >>
        /\ pc[s] \in {"read", "line"}
    BY DEF ReadLine, EndOfLine, WalkOffTail, At, kernel, table
  <1>3. PICK l \in {"line", "reap", "undefined"} : GoTo(s, l)
    BY DEF ReadLine, EndOfLine, WalkOffTail
  <1>4. pc'[s] = l /\ \A t \in Pids \ {s} : pc'[t] = pc[t]
    BY <1>1, <1>3, GoToPc DEF Pcs, Working
  <1>5. /\ \A t \in Pids \ {s} : cursor'[t] = cursor[t]
        /\ pc'[s] = "reap" => cursor'[s] = 1
    <2>1. ASSUME UNCHANGED cursor, l # "reap"
          PROVE  /\ \A t \in Pids \ {s} : cursor'[t] = cursor[t]
                 /\ pc'[s] = "reap" => cursor'[s] = 1
      BY <1>4, <2>1
    <2>2. ASSUME cursor' = [cursor EXCEPT ![s] = 1]
          PROVE  /\ \A t \in Pids \ {s} : cursor'[t] = cursor[t]
                 /\ pc'[s] = "reap" => cursor'[s] = 1
      BY <1>1, <2>2 DEF TypeOK
    <2>3. (UNCHANGED cursor /\ pc'[s] # "reap") \/ cursor' = [cursor EXCEPT ![s] = 1]
      BY <1>1, GoToPc DEF ReadLine, EndOfLine, WalkOffTail, Pcs, Working
    <2> QED
      BY <1>4, <2>1, <2>2, <2>3
  <1>6. pc'[s] = "reap" =>
          \A k \in 1..Len(list[s]) : k < cursor'[s] => ChildOf(s, list[s][k].pid)
    BY <1>5
  <1> QED
    BY <1>2, <1>4, <1>5, <1>6, LocalStep DEF Working, Adding, FgSteps, BgSteps

\* fg and bg choose a listed job.
LEMMA PickInv ==
  ASSUME IInv, NEW s \in Pids, Fg(s) \/ FgLast(s) \/ Bg(s) \/ BgLast(s)
  PROVE  FreeOK' /\ \A t \in Pids : ShellInv(t)'
  <1>1. TypeOK /\ ShellInv(s)
    BY ByShell
  <1>2. Len(list[s]) \in Nat /\ (list[s] # << >> => Len(list[s]) \in 1..Len(list[s]))
    BY <1>1, LenProperties, EmptySeq DEF TypeOK
  <1>3. PICK k \in 1..Len(list[s]), l \in {"fgset", "bgcont"} : Pick(s, k, l)
    BY <1>2 DEF Fg, FgLast, Bg, BgLast, ByNumber, LastUpdated, Positions
  <1>4. pc[s] = "line"
    BY DEF Fg, FgLast, Bg, BgLast, ByNumber, LastUpdated, At
  <1>5. UNCHANGED << state, parent, pgid, list, cursor >>
    BY <1>3 DEF Pick, kernel, table
  <1>6. pc'[s] = l /\ \A t \in Pids \ {s} : pc'[t] = pc[t]
    BY <1>1, <1>3, GoToPc DEF Pick, Pcs, Working, FgSteps, BgSteps
  <1>7. job'[s] = list[s][k].pid /\ \A t \in Pids \ {s} : job'[t] = job[t]
    BY <1>1, <1>3 DEF Pick, TypeOK
  <1>8. job'[s] \in PidsOf(list[s])
    BY <1>7 DEF PidsOf
  <1> QED
    BY <1>4, <1>5, <1>6, <1>7, <1>8, LocalStep DEF Working, Adding, FgSteps, BgSteps

\* The terminal is given to the job, and a STOPPED job goes by way of SIGCONT.
LEMMA FgSetInv ==
  ASSUME IInv, NEW s \in Pids, FgSet(s)
  PROVE  FreeOK' /\ \A t \in Pids : ShellInv(t)'
  <1>1. TypeOK /\ ShellInv(s)
    BY ByShell
  <1>2. UNCHANGED << state, parent, pgid, list, job, cursor >> /\ pc[s] = "fgset"
    BY DEF FgSet, At, table
  <1>3. /\ pc'[s] = IF StatOf(list[s], job[s]) = {"STOPPED"} THEN "fgcont" ELSE "fgwait"
        /\ \A t \in Pids \ {s} : pc'[t] = pc[t]
    BY <1>1, GoToPc DEF FgSet, Pcs, Working, FgSteps
  <1>4. job[s] \in PidsOf(list[s])
    BY <1>1, <1>2 DEF ShellInv, FgSteps
  <1>5. \A k \in 1..Len(list[s]) :
          list[s][k].pid = job[s] => StatOf(list[s], job[s]) = {list[s][k].stat}
    BY <1>1, StatOfJob DEF ShellInv
  <1> QED
    BY <1>2, <1>3, <1>4, <1>5, LocalStep DEF Working, Adding, FgSteps, BgSteps

\* The terminal is taken back.
LEMMA EndInv ==
  ASSUME IInv, NEW s \in Pids, FgEnd(s) \/ BgEnd(s)
  PROVE  FreeOK' /\ \A t \in Pids : ShellInv(t)'
  <1>1. TypeOK
    BY ByShell
  <1>2. /\ UNCHANGED << state, parent, pgid, list, cursor >>
        /\ pc[s] \in {"fgend", "bgend"}
        /\ job' = [job EXCEPT ![s] = NoPid]
        /\ GoTo(s, "line")
    BY DEF FgEnd, BgEnd, At, table
  <1>3. pc'[s] = "line" /\ \A t \in Pids \ {s} : pc'[t] = pc[t]
    BY <1>1, <1>2, GoToPc DEF Pcs, Working
  <1>4. \A t \in Pids \ {s} : job'[t] = job[t]
    BY <1>1, <1>2 DEF TypeOK
  <1> QED
    BY <1>2, <1>3, <1>4, LocalStep DEF Working, Adding, FgSteps, BgSteps
-----------------------------------------------------------------------------
(* Deaths, stops and continuations: only process states change. *)

\* Process states may change as long as no shell that goes on loses a child.
LEMMA WorldStep ==
  ASSUME IInv, UNCHANGED << parent, pgid, list, job, cursor >>,
         \A p \in Pids :
           /\ state'[p] = "free" => state[p] = "free"
           /\ pc[p] = "none" => pc'[p] = "none"
           /\ state'[p] = "stopSeen" => state[p] = "stopSeen"
           /\ state[p] = "reaped" => state'[p] = "reaped",
         \A t \in Pids : pc'[t] \in Working =>
           /\ pc'[t] = pc[t]
           /\ Alive(t) => Alive(t)'
           /\ \A p \in Pids :
                parent[p] = t /\ Alive(t) /\ state'[p] = "reaped" => state[p] = "reaped"
  PROVE  FreeOK' /\ \A t \in Pids : ShellInv(t)'
  <1>1. TypeOK /\ FreeOK /\ \A t \in Pids : ShellInv(t)
    BY ByShell
  <1>2. FreeOK'
    BY <1>1 DEF FreeOK
  <1>3. ASSUME NEW t \in Pids
        PROVE  ShellInv(t)'
    <2>1. t # NoPid /\ list[t] \in Seq(Job) /\ ShellInv(t)
      BY <1>1, NoPidAssumption DEF TypeOK
    <2>2. CASE pc'[t] \notin Working
      BY <1>1, <2>1, <2>2, ShellFrame
    <2>3. CASE pc'[t] \in Working
      <3>1. Alive(t)
        BY <2>1, <2>3 DEF ShellInv
      <3> QED
        BY <1>1, <2>1, <2>3, <3>1, ShellFrame
    <2> QED
      BY <2>2, <2>3
  <1> QED
    BY <1>2, <1>3

\* When the processes of D die, a shell that goes on running keeps its children.
LEMMA DeadInv ==
  ASSUME IInv, NEW D, UNCHANGED << parent, pgid, list, job, cursor >>,
         \A p \in D : p \in Pids => Alive(p),
         state' = Dead(D), pc' = PcOfDead(D)
  PROVE  FreeOK' /\ \A t \in Pids : ShellInv(t)'
  <1>1. TypeOK /\ FreeOK /\ \A t \in Pids : ShellInv(t)
    BY ByShell
  <1>2. \A p \in Pids :
          /\ p \in D => state'[p] = IF parent[p] \in D \/ (parent[p] \in Pids /\ ~Alive(parent[p]))
                                    THEN "reaped" ELSE "zombie"
          /\ p \notin D => state'[p] = IF state[p] = "zombie" /\ parent[p] \in D
                                       THEN "reaped" ELSE state[p]
    BY DEF Dead
  <1>3. \A t \in Pids : pc'[t] = IF t \in D /\ IsShell(t) THEN "gone" ELSE pc[t]
    BY DEF PcOfDead
  <1>4. \A p \in Pids :
          /\ state'[p] = "free" => state[p] = "free"
          /\ pc[p] = "none" => pc'[p] = "none"
          /\ state'[p] = "stopSeen" => state[p] = "stopSeen"
          /\ state[p] = "reaped" => state'[p] = "reaped"
    BY <1>2, <1>3 DEF Alive, IsShell
  <1>5. ASSUME NEW t \in Pids, pc'[t] \in Working
        PROVE  /\ pc'[t] = pc[t] /\ t \notin D
               /\ Alive(t) => Alive(t)'
               /\ \A p \in Pids :
                    parent[p] = t /\ Alive(t) /\ state'[p] = "reaped" => state[p] = "reaped"
    <2>1. pc'[t] = pc[t] /\ t \notin D
      BY <1>3, <1>5 DEF Working, IsShell, Adding, FgSteps, BgSteps
    <2>2. Alive(t) => Alive(t)'
      BY <1>2, <2>1 DEF Alive
    <2>3. ASSUME NEW p \in Pids, parent[p] = t, Alive(t), state'[p] = "reaped"
          PROVE  state[p] = "reaped"
      BY <1>2, <2>1, <2>3
    <2> QED
      BY <2>1, <2>2, <2>3
  <1> QED
    BY <1>4, <1>5, WorldStep

\* Signals and exits kill processes that live: the invariant survives them.
LEMMA DeathsInv ==
  ASSUME IInv, Interrupt \/ (\E p \in Pids : Dies(p)) \/ (\E s \in Pids : Exit(s))
  PROVE  FreeOK' /\ \A t \in Pids : ShellInv(t)'
  <1>1. CASE Interrupt
    <2> DEFINE D == {p \in Pids : state[p] = "running" /\ pgid[p] = fgPgrp}
    <2>1. \A p \in D : Alive(p)
      BY DEF Alive
    <2>2. state' = Dead(D) /\ pc' = PcOfDead(D) /\ UNCHANGED << parent, pgid, list, job, cursor >>
      BY <1>1 DEF Interrupt, table
    <2> HIDE DEF D
    <2> QED
      BY <2>1, <2>2, DeadInv
  <1>2. ASSUME NEW p \in Pids, Dies(p) PROVE FreeOK' /\ \A t \in Pids : ShellInv(t)'
    <2>1. \A q \in {p} : Alive(q)
      BY <1>2 DEF Dies
    <2>2. /\ state' = Dead({p}) /\ pc' = PcOfDead({p})
          /\ UNCHANGED << parent, pgid, list, job, cursor >>
      BY <1>2 DEF Dies, table
    <2> QED
      BY <2>1, <2>2, DeadInv
  <1>3. ASSUME NEW s \in Pids, Exit(s) PROVE FreeOK' /\ \A t \in Pids : ShellInv(t)'
    <2>1. \A q \in {s} : Alive(q)
      BY <1>3 DEF Exit, At, Alive
    <2>2. /\ state' = Dead({s}) /\ pc' = PcOfDead({s})
          /\ UNCHANGED << parent, pgid, list, job, cursor >>
      BY <1>3 DEF Exit, table
    <2> QED
      BY <2>1, <2>2, DeadInv
  <1> QED
    BY <1>1, <1>2, <1>3

\* Stops and continuations from outside keep the invariant: wait has told nobody.
LEMMA SignalsInv ==
  ASSUME IInv, NEW p \in Pids, ReadInBackground(p) \/ Stops(p) \/ Continues(p)
  PROVE  FreeOK' /\ \A t \in Pids : ShellInv(t)'
  <1>1. TypeOK
    BY ByShell
  <1>2. /\ UNCHANGED << parent, pgid, pc, list, job, cursor >>
        /\ \E st \in {"stopped", "running"} : state' = [state EXCEPT ![p] = st]
        /\ Alive(p)
    BY DEF ReadInBackground, Stops, Continues, At, table, Alive
  <1>3. /\ state'[p] \in {"stopped", "running"}
        /\ \A q \in Pids \ {p} : state'[q] = state[q]
    BY <1>1, <1>2 DEF TypeOK
  <1>4. \A q \in Pids :
          /\ state'[q] = "free" => state[q] = "free"
          /\ state'[q] = "stopSeen" => state[q] = "stopSeen"
          /\ state[q] = "reaped" <=> state'[q] = "reaped"
          /\ Alive(q) => Alive(q)'
    BY <1>2, <1>3 DEF Alive
  <1> QED
    BY <1>2, <1>4, WorldStep

\* A leader's builtins continue processes, and touch no list and no handler.
LEMMA LeaderInv ==
  ASSUME IInv, NEW p \in Pids, LeaderRunsBuiltin(p)
  PROVE  FreeOK' /\ \A t \in Pids : ShellInv(t)'
  <1>1. /\ UNCHANGED << parent, pgid, pc, list, job, cursor >>
        /\ UNCHANGED state \/ \E g \in Pids : state' = Continued(g)
    BY DEF LeaderRunsBuiltin, table
  <1>2. \A q \in Pids :
          /\ state'[q] = "free" => state[q] = "free"
          /\ state'[q] = "stopSeen" => state[q] = "stopSeen"
          /\ state[q] = "reaped" <=> state'[q] = "reaped"
          /\ Alive(q) => Alive(q)'
    <2>1. CASE UNCHANGED state
      BY <2>1 DEF Alive
    <2>2. ASSUME NEW g \in Pids, state' = Continued(g)
          PROVE  \A q \in Pids :
                   /\ state'[q] = "free" => state[q] = "free"
                   /\ state'[q] = "stopSeen" => state[q] = "stopSeen"
                   /\ state[q] = "reaped" <=> state'[q] = "reaped"
                   /\ Alive(q) => Alive(q)'
      BY <2>2 DEF Continued, Alive
    <2> QED
      BY <1>1, <2>1, <2>2
  <1> QED
    BY <1>1, <1>2, WorldStep
-----------------------------------------------------------------------------
(* The iterations of wait_jobs that remove the job under the cursor. *)

\* wait_jobs removes only what the shell cannot wait for any more.
LEMMA RemoveInv ==
  ASSUME IInv, NEW s \in Pids, ReapDead(s) \/ ReapMissing(s)
  PROVE  FreeOK' /\ \A t \in Pids : ShellInv(t)'
  <1>1. TypeOK /\ FreeOK /\ \A t \in Pids : ShellInv(t)
    BY ByShell
  <1> DEFINE i == cursor[s]
             p == list[s][i].pid
  <1>2. /\ pc[s] = "reap" /\ state[s] = "running" /\ i \in 1..Len(list[s])
        /\ RemoveCell(s) /\ NextCell(s)
        /\ UNCHANGED << parent, pgid, job, cursor >>
    BY DEF ReapDead, ReapMissing, AtCell, At, kernel
  <1>3. p \in Pids /\ list[s] \in Seq(Job)
    BY <1>1, <1>2, JobAt DEF TypeOK
  <1>4. \/ parent[p] = s /\ state[p] = "zombie" /\ state' = [state EXCEPT ![p] = "reaped"]
        \/ ~ChildOf(s, p) /\ state' = state
    BY DEF ReapDead, ReapMissing, AtCell, ChildOf, kernel
  <1> HIDE DEF p
  <1>5. /\ \A q \in Pids \ {p} : state'[q] = state[q]
        /\ state'[p] = state[p] \/ (parent[p] = s /\ state[p] = "zombie" /\ state'[p] = "reaped")
        /\ ~(parent'[p] = s /\ state'[p] # "reaped")
    <2>1. CASE parent[p] = s /\ state[p] = "zombie" /\ state' = [state EXCEPT ![p] = "reaped"]
      BY <1>1, <1>3, <2>1 DEF TypeOK
    <2>2. CASE ~ChildOf(s, p) /\ state' = state
      BY <1>2, <2>2 DEF ChildOf
    <2> QED
      BY <1>4, <2>1, <2>2
  <1>6. list'[s] = remove_job(list[s], i) /\ \A t \in Pids \ {s} : list'[t] = list[t]
    BY <1>1, <1>2 DEF RemoveCell, TypeOK
  <1>7. pc'[s] \in {"reap", "undefined"} /\ \A t \in Pids \ {s} : pc'[t] = pc[t]
    BY <1>1, <1>2, GoToPc DEF NextCell, Pcs
  <1>8. FreeOK'
    BY <1>1, <1>2, <1>5, <1>7 DEF FreeOK
  <1>9. ASSUME NEW t \in Pids \ {s}
        PROVE  ShellInv(t)'
    <2>1. t # NoPid /\ list[t] \in Seq(Job) /\ ShellInv(t) /\ list'[t] = list[t]
      BY <1>1, <1>6, NoPidAssumption DEF TypeOK
    <2>2. Alive(t) => Alive(t)'
      BY <1>5 DEF Alive
    <2> QED
      BY <1>1, <1>2, <1>5, <1>7, <2>1, <2>2, ShellFrame
  <1>10. ShellInv(s)'
    <2> DEFINE new == remove_job(list[s], i)
    <2>1. ShellInv(s)
      BY <1>1
    <2>2. /\ PidsOf(new) = PidsOf(list[s]) \ {p}
          /\ DistinctPids(new) /\ Increasing(new)
      BY <1>2, <1>3, <2>1, RemoveJobPids, RemoveJobIncreasing DEF ShellInv, p
    <2>3. /\ Len(new) = Len(list[s]) - 1 /\ Len(list[s]) \in Nat
          /\ \A k \in 1..Len(new) :
               new[k] = IF k < i THEN list[s][k] ELSE list[s][k + 1]
      BY <1>2, <1>3, RemoveJobList, LenProperties
    <2>4. PidsOf(list[s]) \subseteq Pids
      BY <1>3, PidsType
    <2> HIDE DEF new
    <2>5. \A k \in 1..Len(new) : \E j \in 1..Len(list[s]) :
            new[k] = list[s][j] /\ list[s][j].pid \in PidsOf(list[s]) \ {p}
      <3> TAKE k \in 1..Len(new)
      <3>1. PICK j \in 1..Len(list[s]) : new[k] = list[s][j]
        BY <1>2, <2>3
      <3>2. new[k].pid \in PidsOf(new)
        BY DEF PidsOf
      <3> QED
        BY <2>2, <3>1, <3>2
    <2>6. CASE pc'[s] = "undefined"
      BY <1>5, <1>6, <2>1, <2>2, <2>4, <2>6
         DEF ShellInv, Working, Adding, FgSteps, BgSteps, new
    <2>7. CASE pc'[s] = "reap"
      <3>1. Alive(s)'
        BY <1>2, <1>5 DEF Alive
      <3>2. list'[s] = new
        BY <1>6 DEF new
      <3>3. \A q \in PidsOf(new) : state'[q] = state[q] /\ q \in PidsOf(list[s])
        BY <1>5, <2>2, <2>4
      <3>4. \A q \in Pids : parent'[q] = s /\ state'[q] # "reaped" => q \in PidsOf(new)
        <4> TAKE q \in Pids
        <4> HAVE parent'[q] = s /\ state'[q] # "reaped"
        <4>1. q # p /\ ChildOf(s, q)
          BY <1>2, <1>5 DEF ChildOf
        <4>2. q \in PidsOf(list[s])
          BY <1>2, <2>1, <4>1 DEF ShellInv, Working, Adding
        <4> QED
          BY <2>2, <4>1, <4>2
      <3>5. \A k \in 1..Len(new) : k < cursor'[s] =>
              parent'[new[k].pid] = s /\ state'[new[k].pid] # "reaped"
        <4> TAKE k \in 1..Len(new)
        <4> HAVE k < cursor'[s]
        <4>1. k \in 1..Len(list[s]) /\ new[k] = list[s][k]
          BY <1>2, <2>3
        <4>2. ChildOf(s, new[k].pid)
          BY <1>2, <2>1, <4>1 DEF ShellInv
        <4>3. new[k].pid \in PidsOf(new)
          BY DEF PidsOf
        <4> QED
          BY <1>2, <3>3, <4>2, <4>3 DEF ChildOf
      <3>6. \A k \in 1..Len(new) :
              parent'[new[k].pid] = s /\ state'[new[k].pid] = "stopSeen" =>
                new[k].stat = "STOPPED"
        <4> TAKE k \in 1..Len(new)
        <4>1. PICK j \in 1..Len(list[s]) :
                new[k] = list[s][j] /\ list[s][j].pid \in PidsOf(list[s]) \ {p}
          BY <2>5
        <4> QED
          BY <1>2, <1>5, <2>1, <2>4, <4>1 DEF ShellInv, Working
      <3>7. \A q \in PidsOf(new) :
              /\ parent'[q] = s /\ state'[q] # "reaped" => pgid'[q] = q
              /\ s = Main => parent'[q] = s
        BY <1>2, <2>1, <3>3 DEF ShellInv, ChildOf, Working
      <3>8. \A q \in PidsOf(new) : state'[q] # "free"
        BY <2>1, <3>3 DEF ShellInv
      <3> QED
        BY <2>2, <2>7, <3>1, <3>2, <3>4, <3>5, <3>6, <3>7, <3>8
           DEF ShellInv, ChildOf, Adding, FgSteps, BgSteps
    <2> QED
      BY <1>7, <2>6, <2>7
  <1> QED
    BY <1>8, <1>9, <1>10
-----------------------------------------------------------------------------
(* fg and bg assign the status of their job, and its process may change state. *)

\* Recording a status is sound when it is the one waitpid reported.
LEMMA SetStatInv ==
  ASSUME IInv, NEW s \in Pids, NEW st \in Stats,
         UNCHANGED << parent, pgid, job, cursor >>,
         pc[s] \in FgSteps \cup BgSteps, pc'[s] \in FgSteps \cup BgSteps,
         \A t \in Pids \ {s} : pc'[t] = pc[t],
         list' = [list EXCEPT ![s] = SetStat(list[s], job[s], st)],
         \A q \in Pids :
           /\ state'[q] = "free" => state[q] = "free"
           /\ Alive(q) => Alive(q)'
           /\ state[q] = "reaped" => state'[q] = "reaped"
           /\ parent[q] # s \/ q # job[s] =>
                /\ state'[q] = "reaped" => state[q] = "reaped"
                /\ state'[q] = "stopSeen" => state[q] = "stopSeen",
         parent[job[s]] = s /\ state'[job[s]] = "stopSeen" => st = "STOPPED",
         pc'[s] = "fgwait" => st # "STOPPED"
  PROVE  FreeOK' /\ \A t \in Pids : ShellInv(t)'
  <1>1. TypeOK /\ FreeOK /\ \A t \in Pids : ShellInv(t)
    BY ByShell
  <1>2. list[s] \in Seq(Job) /\ job[s] \in Pids /\ job[s] \in PidsOf(list[s])
    BY <1>1, JobType DEF TypeOK, ShellInv
  <1> DEFINE new == SetStat(list[s], job[s], st)
  <1>3. list'[s] = new /\ \A t \in Pids \ {s} : list'[t] = list[t]
    BY <1>1 DEF TypeOK
  <1>4. FreeOK'
    BY <1>1 DEF FreeOK, FgSteps, BgSteps
  <1>5. ASSUME NEW t \in Pids \ {s}
        PROVE  ShellInv(t)'
    <2>1. t # NoPid /\ list[t] \in Seq(Job) /\ ShellInv(t) /\ list'[t] = list[t]
      BY <1>1, <1>3, NoPidAssumption DEF TypeOK
    <2> QED
      BY <1>1, <2>1, ShellFrame
  <1>6. ShellInv(s)'
    <2>1. ShellInv(s)
      BY <1>1
    <2>2. /\ PidsOf(new) = PidsOf(list[s])
          /\ DistinctPids(new) /\ Increasing(new)
      BY <1>2, <2>1, SetStatPids, SetStatIncreasing DEF ShellInv
    <2>3. /\ Len(new) = Len(list[s])
          /\ \A k \in 1..Len(new) :
               /\ new[k].pid = list[s][k].pid
               /\ new[k].stat = IF list[s][k].pid = job[s] THEN st ELSE list[s][k].stat
      BY <1>2, SetStatList
    <2>4. PidsOf(list[s]) \subseteq Pids
      BY <1>2, PidsType
    <2> HIDE DEF new
    <2>5. Alive(s)'
      BY <2>1 DEF ShellInv, Working
    <2>6. \A q \in Pids : parent'[q] = s /\ state'[q] # "reaped" => q \in PidsOf(new)
      BY <2>1, <2>2 DEF ShellInv, ChildOf, Working, Adding, FgSteps, BgSteps
    <2>7. \A k \in 1..Len(new) :
            /\ parent'[new[k].pid] = s /\ state'[new[k].pid] = "stopSeen" =>
                 new[k].stat = "STOPPED"
            /\ pc'[s] = "fgwait" /\ new[k].pid = job'[s] => new[k].stat # "STOPPED"
      <3> TAKE k \in 1..Len(new)
      <3>1. new[k].pid \in Pids
        BY <2>2, <2>4 DEF PidsOf
      <3>2. CASE new[k].pid = job[s]
        BY <2>3, <3>2
      <3>3. CASE new[k].pid # job[s]
        BY <2>1, <2>3, <3>1, <3>3 DEF ShellInv, Working
      <3> QED
        BY <3>2, <3>3
    <2>8. \A q \in PidsOf(new) :
            /\ parent'[q] = s /\ state'[q] # "reaped" => pgid'[q] = q
            /\ s = Main => parent'[q] = s
            /\ state'[q] # "free"
      BY <2>1, <2>2, <2>4 DEF ShellInv, ChildOf, Working
    <2> QED
      BY <1>2, <1>3, <2>2, <2>5, <2>6, <2>7, <2>8
         DEF ShellInv, ChildOf, Working, Adding, FgSteps, BgSteps
  <1> QED
    BY <1>4, <1>5, <1>6

\* A STOPPED job is continued: its group is its own, so that SIGCONT reaches it.
LEMMA ResumeInv ==
  ASSUME IInv, NEW s \in Pids, FgCont(s) \/ BgCont(s)
  PROVE  FreeOK' /\ \A t \in Pids : ShellInv(t)'
  <1>1. TypeOK /\ ShellInv(s)
    BY ByShell
  <1>2. UNCHANGED << parent, pgid, job, cursor >> /\ pc[s] \in {"fgcont", "bgcont"}
    BY DEF FgCont, BgCont, At
  <1>3. /\ pc'[s] \in {"fgwait", "bgend"}
        /\ pc[s] = "bgcont" => pc'[s] = "bgend"
        /\ \A t \in Pids \ {s} : pc'[t] = pc[t]
    BY <1>1, GoToPc DEF FgCont, BgCont, At, Pcs, Working, FgSteps, BgSteps
  <1>4. job[s] \in Pids /\ job[s] \in PidsOf(list[s])
    BY <1>1, <1>2, JobType DEF ShellInv, FgSteps, BgSteps
  <1>5. CASE Resume(s)
    <2>1. \A q \in Pids :
            state'[q] = IF pgid[q] = job[s] /\ state[q] \in {"stopped", "stopSeen"}
                        THEN "running" ELSE state[q]
      BY <1>5 DEF Resume, Continued
    <2>2. \A q \in Pids :
            /\ state'[q] = "free" => state[q] = "free"
            /\ Alive(q) => Alive(q)'
            /\ state[q] = "reaped" <=> state'[q] = "reaped"
            /\ state'[q] = "stopSeen" => state[q] = "stopSeen"
      BY <2>1 DEF Alive
    <2>3. parent[job[s]] = s => state'[job[s]] # "stopSeen"
      <3>1. ASSUME parent[job[s]] = s, state[job[s]] = "stopSeen"
            PROVE  pgid[job[s]] = job[s]
        BY <1>1, <1>2, <1>4, <3>1 DEF ShellInv, ChildOf, Working, FgSteps, BgSteps
      <3> QED
        BY <1>4, <2>1, <3>1
    <2> QED
      BY <1>2, <1>3, <1>5, <2>2, <2>3, SetStatInv
         DEF Resume, FgSteps, BgSteps, Stats
  <1>6. CASE UNCHANGED << state, list >> /\ pc[s] = "bgcont"
    BY <1>2, <1>3, <1>4, <1>6, LocalStep DEF Working, Adding, FgSteps, BgSteps
  <1> QED
    BY <1>5, <1>6 DEF FgCont, BgCont, At

\* waitpid in set_foreground_by_num: what it reports is what the list records.
LEMMA WaitInv ==
  ASSUME IInv, NEW s \in Pids, WaitDead(s) \/ WaitStopped(s) \/ WaitFails(s)
  PROVE  FreeOK' /\ \A t \in Pids : ShellInv(t)'
  <1>1. TypeOK
    BY ByShell
  <1>2. UNCHANGED << parent, pgid, job, cursor >> /\ pc[s] = "fgwait"
    BY DEF WaitDead, WaitStopped, WaitFails, At, kernel
  <1>3. pc'[s] = "fgend" /\ \A t \in Pids \ {s} : pc'[t] = pc[t]
    BY <1>1, GoToPc DEF WaitDead, WaitStopped, WaitFails, Pcs, Working, FgSteps
  <1>4. job[s] \in Pids
    BY <1>2, JobType DEF FgSteps
  <1>5. CASE WaitDead(s)
    <2>1. /\ parent[job[s]] = s /\ state[job[s]] = "zombie"
          /\ state'[job[s]] = "reaped"
          /\ \A q \in Pids \ {job[s]} : state'[q] = state[q]
      BY <1>1, <1>4, <1>5 DEF WaitDead, ChildOf, TypeOK
    <2>2. list' = [list EXCEPT ![s] = SetStat(list[s], job[s], "DONE")]
      BY <1>5 DEF WaitDead, MarkDone
    <2> QED
      BY <1>2, <1>3, <2>1, <2>2, SetStatInv DEF Alive, FgSteps, Stats
  <1>6. CASE WaitStopped(s)
    <2>1. /\ parent[job[s]] = s /\ state[job[s]] = "stopped"
          /\ state'[job[s]] = "stopSeen"
          /\ \A q \in Pids \ {job[s]} : state'[q] = state[q]
      BY <1>1, <1>4, <1>6 DEF WaitStopped, ChildOf, TypeOK
    <2>2. list' = [list EXCEPT ![s] = SetStat(list[s], job[s], "STOPPED")]
      BY <1>6 DEF WaitStopped, MarkStopped
    <2> QED
      BY <1>2, <1>3, <2>1, <2>2, SetStatInv DEF Alive, FgSteps, Stats
  <1>7. CASE WaitFails(s)
    <2>1. state' = state /\ ~ChildOf(s, job[s])
      BY <1>7 DEF WaitFails, kernel
    <2>2. \E st \in {"DONE", "STOPPED"} :
            list' = [list EXCEPT ![s] = SetStat(list[s], job[s], st)]
      BY <1>7 DEF WaitFails, MarkDone, MarkStopped
    <2> QED
      BY <1>2, <1>3, <2>1, <2>2, SetStatInv DEF ChildOf, Alive, FgSteps, Stats
  <1> QED
    BY <1>5, <1>6, <1>7
-----------------------------------------------------------------------------
(* fork and add_job. *)

\* A forked child is nobody's but its parent's, and a copy starts without children.
LEMMA ForkInv ==
  ASSUME IInv, NEW s \in Pids, RunForeground(s) \/ RunBackground(s)
  PROVE  FreeOK' /\ \A t \in Pids : ShellInv(t)'
  <1>1. TypeOK /\ FreeOK /\ \A t \in Pids : ShellInv(t)
    BY ByShell
  <1>2. PICK p \in Pids :
          /\ Fork(s, p)
          /\ job' = [job EXCEPT ![s] = p]
          /\ \/ /\ pc' = [pc EXCEPT ![s] = "addfg", ![p] = "cmd"]
                /\ list' = list
             \/ /\ pc' = [pc EXCEPT ![s] = "addbg", ![p] = "line"]
                /\ list' = [list EXCEPT ![p] = list[s]]
    BY DEF RunForeground, RunBackground, table
  <1>3. /\ pc[s] = "line" /\ state[s] = "running" /\ state[Main] = "running"
        /\ UNCHANGED cursor
    BY DEF RunForeground, RunBackground, At, SessionOn
  <1>4. /\ state[p] = "free" /\ p # s /\ p # Main
        /\ parent[p] = NoPid /\ \A q \in Pids : parent[q] # p
    BY <1>1, <1>2, <1>3 DEF Fork, FreeOK
  <1>5. /\ state'[p] = "running" /\ parent'[p] = s
        /\ \A q \in Pids \ {p} : /\ state'[q] = state[q]
                                 /\ parent'[q] = parent[q]
                                 /\ pgid'[q] = pgid[q]
    BY <1>1, <1>2 DEF Fork, TypeOK
  <1>6. job'[s] = p /\ \A t \in Pids \ {s} : job'[t] = job[t]
    BY <1>1, <1>2 DEF TypeOK
  <1>7. /\ pc'[s] \in Adding
        /\ pc'[p] \in {"cmd", "line"}
        /\ \A t \in Pids \ {s, p} : pc'[t] = pc[t] /\ list'[t] = list[t]
        /\ list'[s] = list[s]
        /\ pc'[p] = "cmd" => list'[p] = list[p]
        /\ pc'[p] = "line" => list'[p] = list[s]
    <2>1. CASE pc' = [pc EXCEPT ![s] = "addfg", ![p] = "cmd"] /\ list' = list
      BY <1>1, <1>4, <2>1 DEF TypeOK, Adding
    <2>2. CASE /\ pc' = [pc EXCEPT ![s] = "addbg", ![p] = "line"]
               /\ list' = [list EXCEPT ![p] = list[s]]
      BY <1>1, <1>4, <2>2 DEF TypeOK, Adding
    <2> QED
      BY <1>2, <2>1, <2>2
  <1>8. FreeOK'
    BY <1>1, <1>3, <1>4, <1>5, <1>7, MainAssumption DEF FreeOK
  <1>9. \A q \in Pids : state'[q] = "free" => state[q] = "free"
    BY <1>5
  <1>10. ASSUME NEW t \in Pids \ {s, p}
         PROVE  ShellInv(t)'
    <2>1. t # NoPid /\ list[t] \in Seq(Job) /\ ShellInv(t) /\ list'[t] = list[t]
      BY <1>1, <1>7, NoPidAssumption DEF TypeOK
    <2>2. Alive(t) => Alive(t)'
      BY <1>5 DEF Alive
    <2>3. \A q \in Pids :
            /\ parent'[q] = t => parent[q] = t
            /\ parent[q] = t =>
                 parent'[q] = t /\ pgid'[q] = pgid[q] /\ state'[q] = state[q]
      BY <1>4, <1>5, <2>1
    <2> QED
      BY <1>1, <1>3, <1>6, <1>7, <1>9, <2>1, <2>2, <2>3, ShellFrame
  <1>11. ASSUME NEW l \in Seq(Job)
         PROVE  PidsOf(l) \subseteq Pids /\ (\A k \in 1..Len(l) : l[k].pid \in PidsOf(l))
    BY PidsType DEF PidsOf
  <1>12. list[s] \in Seq(Job) /\ \A q \in PidsOf(list[s]) : q \in Pids \ {p}
    <2>1. list[s] \in Seq(Job) /\ \A q \in PidsOf(list[s]) : state[q] # "free"
      BY <1>1 DEF TypeOK, ShellInv
    <2> QED
      BY <1>4, <1>11, <2>1
  <1>13. ShellInv(s)'
    <2>1. ShellInv(s)
      BY <1>1
    <2>2. \A q \in Pids : parent'[q] = s /\ state'[q] # "reaped" =>
            q \in PidsOf(list[s]) \/ q = p
      BY <1>3, <1>5, <2>1 DEF ShellInv, ChildOf, Working, Adding
    <2>3. \A q \in PidsOf(list[s]) :
            /\ parent'[q] = s /\ state'[q] # "reaped" => pgid'[q] = q
            /\ s = Main => parent'[q] = s
            /\ state'[q] # "free"
      BY <1>3, <1>5, <1>12, <2>1 DEF ShellInv, ChildOf, Working
    <2>4. \A k \in 1..Len(list[s]) :
            parent'[list[s][k].pid] = s /\ state'[list[s][k].pid] = "stopSeen" =>
              list[s][k].stat = "STOPPED"
      BY <1>3, <1>5, <1>11, <1>12, <2>1 DEF ShellInv, Working
    <2>5. Alive(s)'
      BY <1>3, <1>4, <1>5 DEF Alive
    <2>6. list'[s] = list[s] /\ PidsOf(list[s])' = PidsOf(list[s])
      BY <1>7 DEF PidsOf
    <2>7. p \notin PidsOf(list[s])
      BY <1>12
    <2> QED
      BY <1>5, <1>6, <1>7, <2>1, <2>2, <2>3, <2>4, <2>5, <2>6, <2>7
         DEF ShellInv, ChildOf, Increasing, DistinctPids, Working, Adding, FgSteps, BgSteps
  <1>14. ShellInv(p)'
    <2>1. CASE pc'[p] = "cmd"
      <3>1. p # NoPid /\ list[p] \in Seq(Job) /\ ShellInv(p) /\ list'[p] = list[p]
        BY <1>1, <1>7, <2>1, NoPidAssumption DEF TypeOK
      <3>2. pc'[p] \notin Working
        BY <2>1 DEF Working, Adding, FgSteps, BgSteps
      <3> QED
        BY <1>1, <1>9, <3>1, <3>2, ShellFrame
    <2>2. CASE pc'[p] = "line"
      <3>1. list'[p] = list[s] /\ PidsOf(list[p])' = PidsOf(list[s])
        BY <1>7, <2>2 DEF PidsOf
      <3>2. \A q \in Pids : parent'[q] # p
        BY <1>4, <1>5
      <3>3. /\ \A q \in PidsOf(list[s]) : state'[q] # "free"
            /\ DistinctPids(list[s]) /\ Increasing(list[s])
        BY <1>1, <1>5, <1>12 DEF ShellInv
      <3>4. Alive(p)'
        BY <1>5 DEF Alive
      <3> QED
        BY <1>4, <1>11, <1>12, <2>2, <3>1, <3>2, <3>3, <3>4
           DEF ShellInv, ChildOf, Increasing, DistinctPids, Working, Adding, FgSteps, BgSteps
    <2> QED
      BY <1>7, <2>1, <2>2
  <1> QED
    BY <1>8, <1>10, <1>13, <1>14

\* The new job is listed, with a fresh number and a group of its own.
LEMMA AddJobInv ==
  ASSUME IInv, NEW s \in Pids, AddJob(s)
  PROVE  FreeOK' /\ \A t \in Pids : ShellInv(t)'
  <1>1. TypeOK /\ FreeOK /\ \A t \in Pids : ShellInv(t)
    BY ByShell
  <1> DEFINE p == job[s]
             new == add_job(list[s], p)
  <1>2. pc[s] \in Adding /\ UNCHANGED << state, parent, job, cursor >> /\ list[s] \in Seq(Job)
    BY <1>1 DEF AddJob, TypeOK
  <1>3. /\ p \in Pids /\ p \notin PidsOf(list[s]) /\ parent[p] = s
        /\ state[p] \notin {"free", "reaped", "stopSeen"}
    BY <1>1, <1>2 DEF ShellInv
  <1>4. /\ pgid'[p] = p
        /\ \A q \in Pids \ {p} : pgid'[q] = pgid[q]
    <2>1. InKernel(p)
      BY <1>1, <1>3 DEF InKernel, Alive, TypeOK, States
    <2>2. pgid' = [pgid EXCEPT ![p] = IF InKernel(p) THEN p ELSE pgid[p]]
      BY DEF AddJob
    <2> QED
      BY <1>1, <1>3, <2>1, <2>2 DEF TypeOK
  <1>5. list'[s] = new /\ \A t \in Pids \ {s} : list'[t] = list[t]
    BY <1>1 DEF AddJob, TypeOK
  <1>6. pc'[s] \in {"fgset", "bgcont"} /\ \A t \in Pids \ {s} : pc'[t] = pc[t]
    BY <1>1, GoToPc DEF AddJob, Pcs, Working, FgSteps, BgSteps
  <1>7. FreeOK'
    <2>1. p # Main
      BY <1>1, <1>3, NoPidAssumption DEF FreeOK
    <2>2. pc[s] # "none"
      BY <1>2 DEF Adding
    <2> QED
      BY <1>1, <1>2, <1>4, <1>6, <2>1, <2>2, MainAssumption DEF FreeOK
  <1>8. ASSUME NEW t \in Pids \ {s}
        PROVE  ShellInv(t)'
    <2>1. t # NoPid /\ list[t] \in Seq(Job) /\ ShellInv(t) /\ list'[t] = list[t]
      BY <1>1, <1>5, NoPidAssumption DEF TypeOK
    <2>2. Alive(t) => Alive(t)'
      BY <1>2 DEF Alive
    <2>3. \A q \in Pids : parent[q] = t => pgid'[q] = pgid[q]
      BY <1>3, <1>4
    <2> QED
      BY <1>1, <1>2, <1>6, <2>1, <2>2, <2>3, ShellFrame
  <1>9. ShellInv(s)'
    <2>1. ShellInv(s)
      BY <1>1
    <2>2. PidsOf(new) = PidsOf(list[s]) \cup {p} /\ DistinctPids(new) /\ Increasing(new)
      BY <1>2, <1>3, <2>1, AddJobPids, AddJobIncreasing DEF ShellInv
    <2>3. /\ Len(new) = Len(list[s]) + 1 /\ Len(list[s]) \in Nat
          /\ \A k \in 1..Len(list[s]) : new[k] = list[s][k]
          /\ new[Len(list[s]) + 1].pid = p
      <3>1. new_job(list[s], p).pid = p
        BY DEF new_job
      <3> QED
        BY <1>2, <1>3, <3>1, AddJobList, LenProperties
    <2>4. PidsOf(list[s]) \subseteq Pids
      BY <1>2, PidsType
    <2> HIDE DEF new
    <2>5. Alive(s)'
      BY <1>2, <2>1 DEF ShellInv, Alive, Working
    <2>6. \A q \in Pids : parent'[q] = s /\ state'[q] # "reaped" => q \in PidsOf(new)
      BY <1>2, <2>1, <2>2 DEF ShellInv, ChildOf, Working
    <2>7. \A k \in 1..Len(new) :
            parent'[new[k].pid] = s /\ state'[new[k].pid] = "stopSeen" =>
              new[k].stat = "STOPPED"
      <3> TAKE k \in 1..Len(new)
      <3>1. CASE k \in 1..Len(list[s])
        BY <1>2, <2>1, <2>3, <3>1 DEF ShellInv, Working
      <3>2. CASE k = Len(list[s]) + 1
        BY <1>2, <1>3, <2>3, <3>2
      <3> QED
        BY <2>3, <3>1, <3>2
    <2>8. \A q \in PidsOf(new) :
            /\ parent'[q] = s /\ state'[q] # "reaped" => pgid'[q] = q
            /\ s = Main => parent'[q] = s
            /\ state'[q] # "free"
      <3> TAKE q \in PidsOf(new)
      <3>1. CASE q = p
        BY <1>2, <1>3, <1>4, <3>1
      <3>2. CASE q \in PidsOf(list[s]) /\ q # p
        BY <1>2, <1>4, <2>1, <2>4, <3>2 DEF ShellInv, ChildOf, Working
      <3> QED
        BY <2>2, <3>1, <3>2
    <2>9. job'[s] \in PidsOf(new)
      BY <1>2, <2>2
    <2> QED
      BY <1>5, <1>6, <2>2, <2>5, <2>6, <2>7, <2>8, <2>9
         DEF ShellInv, ChildOf, Working, Adding, FgSteps, BgSteps
  <1> QED
    BY <1>7, <1>8, <1>9
-----------------------------------------------------------------------------
(* The terminal. *)

\* A step turns no shell into anything else, and a session that is on was on.
LEMMA ShellsStay ==
  ASSUME IInv, [Next]_vars
  PROVE  /\ \A t \in Pids : IsShell(t) => IsShell(t)'
         /\ SessionOn' => SessionOn
  <1>1. TypeOK /\ FreeOK
    BY ByShell
  <1>2. \A t \in Pids : IsShell(t) => IsShell(t)'
    <2>1. ASSUME NEW s \in Pids, NEW l, GoTo(s, l), l \notin {"none", "cmd"}
          PROVE  \A t \in Pids : IsShell(t) => IsShell(t)'
      BY <1>1, <2>1 DEF GoTo, TypeOK, IsShell
    <2>2. ASSUME NEW D, pc' = PcOfDead(D)
          PROVE  \A t \in Pids : IsShell(t) => IsShell(t)'
      BY <2>2 DEF PcOfDead, IsShell
    <2>3. ASSUME UNCHANGED pc
          PROVE  \A t \in Pids : IsShell(t) => IsShell(t)'
      BY <2>3 DEF IsShell
    <2>4. ASSUME NEW s \in Pids, RunForeground(s) \/ RunBackground(s)
          PROVE  \A t \in Pids : IsShell(t) => IsShell(t)'
      <3>1. PICK p \in Pids, l \in Adding, m \in {"cmd", "line"} :
              state[p] = "free" /\ pc' = [pc EXCEPT ![s] = l, ![p] = m]
        BY <2>4 DEF RunForeground, RunBackground, Fork, Adding
      <3> QED
        BY <1>1, <3>1 DEF FreeOK, TypeOK, IsShell, Adding
    <2>5. ASSUME NEW s \in Pids, Handle(s)
          PROVE  \A t \in Pids : IsShell(t) => IsShell(t)'
      <3>1. UNCHANGED pc \/ \E l \in Pcs \ {"none", "cmd"} : GoTo(s, l)
        BY <2>5
           DEF Handle, WaitJobs, ReapNothing, ReapDead, ReapMissing, NextCell, ReapEnd,
               AddJob, SetForeground, FgSet, FgCont, WaitDead, WaitStopped, WaitFails,
               FgEnd, SetBackground, BgCont, BgEnd, Pcs, Working, FgSteps, BgSteps
      <3> QED
        BY <2>1, <2>3, <3>1
    <2>6. ASSUME NEW s \in Pids, Command(s)
          PROVE  \A t \in Pids : IsShell(t) => IsShell(t)'
      <3>1. \/ UNCHANGED pc
            \/ \E l \in Pcs \ {"none", "cmd"} : GoTo(s, l)
            \/ \E D : pc' = PcOfDead(D)
            \/ RunForeground(s) \/ RunBackground(s)
        BY <2>6
           DEF Command, ReadLine, ReadInBackground, EndOfLine, Fg, FgLast, Bg, BgLast,
               ByNumber, LastUpdated, Pick, WalkOffTail, Exit, Pcs, Working, FgSteps,
               BgSteps
      <3> QED
        BY <2>1, <2>2, <2>3, <2>4, <3>1
    <2>7. ASSUME World
          PROVE  \A t \in Pids : IsShell(t) => IsShell(t)'
      BY <2>2, <2>3, <2>7 DEF World, Interrupt, Dies, Stops, Continues, LeaderRunsBuiltin
    <2> QED
      BY <2>3, <2>5, <2>6, <2>7 DEF Next, SessionOver, vars
  <1>3. SessionOn' => SessionOn
    <2>1. CASE SessionOn
      BY <2>1
    <2>2. CASE ~SessionOn
      <3>1. ~\E s \in Pids : Handle(s)
        BY <2>2
           DEF Handle, WaitJobs, ReapNothing, ReapDead, ReapMissing, ReapEnd, AtCell,
               AddJob, SetForeground, FgSet, FgCont, WaitDead, WaitStopped, WaitFails,
               FgEnd, SetBackground, BgCont, BgEnd, At
      <3>2. ~\E s \in Pids : Command(s)
        BY <2>2
           DEF Command, ReadLine, ReadInBackground, EndOfLine, RunForeground,
               RunBackground, Fg, FgLast, Bg, BgLast, ByNumber, LastUpdated, WalkOffTail,
               Exit, At
      <3>3. ~World
        BY <2>2 DEF World, Interrupt, Dies, Stops, Continues, LeaderRunsBuiltin
      <3>4. UNCHANGED vars
        BY <3>1, <3>2, <3>3 DEF Next, SessionOver
      <3> QED
        BY <3>4 DEF SessionOn, vars, kernel
    <2> QED
      BY <2>1, <2>2
  <1> QED
    BY <1>2, <1>3

\* Without copies, every step of a shell is a step of the first one, and it hands
\* the terminal to its job and takes it back.
LEMMA TerminalStep ==
  ASSUME IInv, [Next]_vars
  PROVE  TerminalOwner'
  <1> SUFFICES ASSUME SessionOn', Copies' = {}, ~LeaderBuiltins
               PROVE  /\ pc'[Main] \in {"fgcont", "fgwait"} =>
                           (InKernel(job[Main])' => fgPgrp' = job'[Main])
                      /\ pc'[Main] \notin {"fgcont", "fgwait", "fgend"} => fgPgrp' = Main
    BY DEF TerminalOwner
  <1> USE MainAssumption
  <1> DEFINE Owner == /\ pc'[Main] \in {"fgcont", "fgwait"} =>
                           (InKernel(job[Main])' => fgPgrp' = job'[Main])
                      /\ pc'[Main] \notin {"fgcont", "fgwait", "fgend"} => fgPgrp' = Main
  <1>1. TypeOK /\ FreeOK /\ ShellInv(Main)
    BY ByShell
  <1>2. SessionOn /\ \A s \in Pids : IsShell(s) => s = Main
    BY ShellsStay DEF Copies
  <1>3. /\ pc[Main] \in {"fgcont", "fgwait"} =>
             (InKernel(job[Main]) => fgPgrp = job[Main])
        /\ pc[Main] \notin {"fgcont", "fgwait", "fgend"} => fgPgrp = Main
    BY <1>2 DEF IInv, TerminalOwner, Copies
  <1>4. \A s \in Pids : pc[s] \in Working => s = Main
    BY <1>2 DEF IsShell, Working, Adding, FgSteps, BgSteps
  <1>5. ASSUME UNCHANGED fgPgrp,
               pc[Main] \notin {"fgcont", "fgwait", "fgend"},
               pc'[Main] \notin {"fgcont", "fgwait"}
        PROVE  Owner
    BY <1>3, <1>5
  <1>6. ASSUME NEW s \in Pids, WaitJobs(s) \/ AddJob(s) PROVE Owner
    <2>1. s = Main /\ UNCHANGED fgPgrp /\ pc[Main] \in {"reap", "addfg", "addbg"}
      BY <1>4, <1>6
         DEF WaitJobs, ReapNothing, ReapDead, ReapMissing, ReapEnd, AtCell, At, AddJob,
             Working, Adding, kernel
    <2>2. pc'[Main] \notin {"fgcont", "fgwait"}
      BY <1>1, <1>6, <2>1
         DEF WaitJobs, ReapNothing, ReapDead, ReapMissing, ReapEnd, NextCell, AddJob,
             GoTo, TypeOK
    <2> QED
      BY <1>5, <2>1, <2>2
  <1>7. ASSUME NEW s \in Pids,
               \/ ReadLine(s) \/ ReadInBackground(s) \/ EndOfLine(s) \/ WalkOffTail(s)
               \/ RunForeground(s) \/ RunBackground(s)
               \/ Fg(s) \/ FgLast(s) \/ Bg(s) \/ BgLast(s)
        PROVE  Owner
    <2>1. s = Main /\ UNCHANGED fgPgrp /\ pc[Main] \in {"read", "line"}
      BY <1>4, <1>7
         DEF ReadLine, ReadInBackground, EndOfLine, WalkOffTail, RunForeground,
             RunBackground, Fg, FgLast, Bg, BgLast, ByNumber, LastUpdated, Pick, At,
             Working, kernel
    <2>2. \/ UNCHANGED pc
          \/ \E l \in {"line", "reap", "undefined", "fgset", "bgcont"} : GoTo(s, l)
          \/ \E p \in Pids, l \in Adding, m \in {"cmd", "line"} :
               state[p] = "free" /\ pc' = [pc EXCEPT ![s] = l, ![p] = m]
      BY <1>7
         DEF ReadLine, ReadInBackground, EndOfLine, WalkOffTail, RunForeground,
             RunBackground, Fork, Fg, FgLast, Bg, BgLast, ByNumber, LastUpdated, Pick,
             Adding
    <2>3. pc'[Main] \notin {"fgcont", "fgwait"}
      BY <1>1, <2>1, <2>2 DEF GoTo, TypeOK, Adding, FreeOK
    <2> QED
      BY <1>5, <2>1, <2>3
  <1>8. ASSUME NEW s \in Pids, FgSet(s) PROVE Owner
    <2>1. /\ s = Main /\ pc[Main] = "fgset"
          /\ fgPgrp' = Foreground(job[Main])
          /\ UNCHANGED << state, job >>
      BY <1>4, <1>8 DEF FgSet, At, Working, FgSteps
    <2>2. pc'[Main] \in {"fgcont", "fgwait"}
      BY <1>1, <1>8, <2>1 DEF FgSet, GoTo, TypeOK
    <2>3. job[Main] \in Pids /\ job[Main] \in PidsOf(list[Main])
      BY <1>1, <2>1, JobType DEF ShellInv, FgSteps
    <2>4. ASSUME InKernel(job[Main]) PROVE pgid[job[Main]] = job[Main]
      BY <1>1, <2>1, <2>3, <2>4
         DEF ShellInv, ChildOf, InKernel, Alive, Working, FgSteps
    <2>5. InKernel(job[Main])' = InKernel(job[Main])
      BY <2>1 DEF InKernel, Alive
    <2> QED
      BY <2>1, <2>2, <2>3, <2>4, <2>5 DEF Foreground
  <1>9. ASSUME NEW s \in Pids, FgCont(s) PROVE Owner
    <2>1. /\ s = Main /\ pc[Main] = "fgcont"
          /\ UNCHANGED << fgPgrp, job >>
          /\ state' = Continued(job[Main])
      BY <1>4, <1>9 DEF FgCont, Resume, At, Working, FgSteps
    <2>2. job[Main] \in Pids
      BY <2>1, JobType DEF FgSteps
    <2>3. InKernel(job[Main])' => InKernel(job[Main])
      BY <2>1, <2>2 DEF InKernel, Alive, Continued
    <2>4. pc'[Main] = "fgwait"
      BY <1>1, <1>9, <2>1 DEF FgCont, GoTo, TypeOK
    <2> QED
      BY <1>3, <2>1, <2>3, <2>4
  <1>10. ASSUME NEW s \in Pids, WaitDead(s) \/ WaitStopped(s) \/ WaitFails(s) PROVE Owner
    <2>1. s = Main
      BY <1>4, <1>10 DEF WaitDead, WaitStopped, WaitFails, At, Working, FgSteps
    <2>2. pc'[Main] = "fgend"
      BY <1>1, <1>10, <2>1 DEF WaitDead, WaitStopped, WaitFails, GoTo, TypeOK
    <2> QED
      BY <2>2
  <1>11. ASSUME NEW s \in Pids, FgEnd(s) \/ BgEnd(s) PROVE Owner
    <2>1. s = Main /\ fgPgrp' = Foreground(Main)
      BY <1>4, <1>11 DEF FgEnd, BgEnd, At, Working, FgSteps, BgSteps
    <2>2. pc'[Main] = "line"
      BY <1>1, <1>11, <2>1 DEF FgEnd, BgEnd, GoTo, TypeOK
    <2>3. Foreground(Main) = Main
      BY <1>1, <1>2 DEF Foreground, FreeOK, InKernel, Alive, SessionOn
    <2> QED
      BY <2>1, <2>2, <2>3
  <1>12. ASSUME NEW s \in Pids, BgCont(s) PROVE Owner
    <2>1. s = Main /\ UNCHANGED fgPgrp /\ pc[Main] = "bgcont"
      BY <1>4, <1>12 DEF BgCont, At, Working, BgSteps
    <2>2. pc'[Main] = "bgend"
      BY <1>1, <1>12, <2>1 DEF BgCont, GoTo, TypeOK
    <2> QED
      BY <1>5, <2>1, <2>2
  <1>13. ASSUME UNCHANGED << fgPgrp, job >>, pc'[Main] = pc[Main],
                \A q \in Pids : InKernel(q)' => InKernel(q)
         PROVE  Owner
    <2>1. pc[Main] \in {"fgcont", "fgwait"} => job[Main] \in Pids
      BY JobType DEF FgSteps
    <2>2. job'[Main] = job[Main] /\ fgPgrp' = fgPgrp
      BY <1>13
    <2>3. InKernel(job[Main])' /\ job[Main] \in Pids => InKernel(job[Main])
      BY <1>13, <2>2 DEF InKernel, Alive
    <2> QED
      BY <1>3, <1>13, <2>1, <2>2, <2>3
  <1>14. ASSUME NEW D, \A q \in D : q \in Pids => Alive(q),
                state' = Dead(D), pc' = PcOfDead(D), UNCHANGED << fgPgrp, job >>
         PROVE  Owner
    <2>1. Main \notin D
      BY <1>14 DEF SessionOn, Dead
    <2>2. pc'[Main] = pc[Main]
      BY <1>14, <2>1 DEF PcOfDead
    <2>3. \A q \in Pids : InKernel(q)' => InKernel(q)
      BY <1>14 DEF Dead, InKernel, Alive
    <2> QED
      BY <1>13, <1>14, <2>2, <2>3
  <1>15. ASSUME NEW s \in Pids, Exit(s) PROVE Owner
    BY <1>14, <1>15 DEF Exit, At, Alive, table
  <1>16. ASSUME World PROVE Owner
    <2>1. CASE Interrupt
      BY <1>14, <2>1 DEF Interrupt, Alive, table
    <2>2. ASSUME NEW p \in Pids, Dies(p) PROVE Owner
      BY <1>14, <2>2 DEF Dies, table
    <2>3. ASSUME NEW p \in Pids, Stops(p) \/ Continues(p) PROVE Owner
      <3>1. UNCHANGED << fgPgrp, pc, job >> /\ Alive(p)
        BY <2>3 DEF Stops, Continues, table, Alive
      <3>2. \A q \in Pids \ {p} : state'[q] = state[q]
        BY <1>1, <2>3 DEF Stops, Continues, TypeOK
      <3> QED
        BY <1>13, <3>1, <3>2 DEF InKernel, Alive
    <2> QED
      BY <1>16, <2>1, <2>2, <2>3 DEF World, LeaderRunsBuiltin
  <1>17. ASSUME UNCHANGED vars PROVE Owner
    BY <1>13, <1>17 DEF vars, kernel, InKernel, Alive
  <1> HIDE DEF Owner
  <1>18. ASSUME NEW s \in Pids, Handle(s) PROVE Owner
    BY <1>6, <1>8, <1>9, <1>10, <1>11, <1>12, <1>18
       DEF Handle, SetForeground, SetBackground
  <1>19. ASSUME NEW s \in Pids, Command(s) PROVE Owner
    BY <1>7, <1>15, <1>19 DEF Command
  <1>20. Owner
    BY <1>16, <1>17, <1>18, <1>19 DEF Next, SessionOver
  <1> QED
    BY <1>20 DEF Owner
-----------------------------------------------------------------------------
(* The invariant is inductive. *)

\* Every step of the session keeps the invariant.
LEMMA StepInv ==
  ASSUME IInv, [Next]_vars
  PROVE  IInv'
  <1> DEFINE Kept == FreeOK' /\ \A t \in Pids : ShellInv(t)'
  <1>1. ASSUME NEW s \in Pids, Handle(s) PROVE Kept
    <2>1. CASE WaitJobs(s)
      BY <2>1, ReapNothingInv, RemoveInv, ReapEndInv DEF WaitJobs
    <2>2. CASE AddJob(s)
      BY <2>2, AddJobInv
    <2>3. CASE SetForeground(s)
      BY <2>3, FgSetInv, ResumeInv, WaitInv, EndInv DEF SetForeground
    <2>4. CASE SetBackground(s)
      BY <2>4, ResumeInv, EndInv DEF SetBackground
    <2> QED
      BY <1>1, <2>1, <2>2, <2>3, <2>4 DEF Handle
  <1>2. ASSUME NEW s \in Pids, Command(s) PROVE Kept
    <2>1. CASE ReadLine(s) \/ EndOfLine(s) \/ WalkOffTail(s)
      BY <2>1, LineInv
    <2>2. CASE RunForeground(s) \/ RunBackground(s)
      BY <2>2, ForkInv
    <2>3. CASE Fg(s) \/ FgLast(s) \/ Bg(s) \/ BgLast(s)
      BY <2>3, PickInv
    <2>4. CASE ReadInBackground(s)
      BY <2>4, SignalsInv
    <2>5. CASE Exit(s)
      BY <2>5, DeathsInv
    <2> QED
      BY <1>2, <2>1, <2>2, <2>3, <2>4, <2>5 DEF Command
  <1>3. ASSUME World PROVE Kept
    BY <1>3, DeathsInv, SignalsInv, LeaderInv DEF World
  <1>4. ASSUME UNCHANGED vars PROVE Kept
    <2>1. FreeOK /\ \A t \in Pids : ShellInv(t)
      BY ByShell
    <2>2. UNCHANGED << state, parent, pgid, pc, list, job, cursor >>
      BY <1>4 DEF vars, kernel, table
    <2> QED
      BY <2>1, <2>2 DEF FreeOK, ShellInv, Alive, ChildOf, PidsOf, DistinctPids, Increasing
  <1>5. Kept
    BY <1>1, <1>2, <1>3, <1>4 DEF Next, SessionOver
  <1>6. TypeOK' /\ TerminalOwner'
    BY TypeStep, TerminalStep
  <1>7. (IInv <=> TypeOK /\ FreeOK /\ (\A t \in Pids : ShellInv(t)) /\ TerminalOwner)'
    BY ByShell, PTL
  <1> QED
    BY <1>5, <1>6, <1>7

\* In every state of every session the invariant holds.
THEOREM Inductive == Spec => []IInv
  <1>1. Init => IInv
    BY InitInv
  <1>2. IInv /\ [Next]_vars => IInv'
    BY StepInv
  <1> QED
    BY <1>1, <1>2, PTL DEF Spec
-----------------------------------------------------------------------------
(* What it gives. *)

\* Every variable keeps its type: the lists hold jobs, the terminal always has a
\* foreground group.
THEOREM TypeCorrect == Spec => []TypeOK
  <1>1. IInv => TypeOK
    BY DEF IInv
  <1> QED
    BY <1>1, Inductive, PTL

\* A number typed after fg or bg names at most one job, in the shell and in all its
\* copies, although new_job reuses the numbers of removed jobs.
THEOREM NumbersAreUnique == Spec => []NumbersIncrease
  <1>1. IInv => NumbersIncrease
    BY DEF IInv
  <1> QED
    BY <1>1, Inductive, PTL

\* wait_jobs and fg never lose a child that has not been collected.
THEOREM NoChildIsLost == Spec => []NoOrphan
  <1>1. IInv => NoOrphan
    BY DEF IInv
  <1> QED
    BY <1>1, Inductive, PTL

\* At the prompt every listed job is an uncollected child of the shell.
THEOREM PromptIsLive == Spec => []PromptTableIsLive
  <1>1. IInv => PromptTableIsLive
    BY DEF IInv
  <1> QED
    BY <1>1, Inductive, PTL

\* set_foreground_by_num never blocks on a job whose stop was reported before.
THEOREM NoHang == Spec => []NoHangOnStopped
  <1>1. IInv => NoHangOnStopped
    <2> SUFFICES ASSUME IInv, NEW s \in Pids, pc[s] = "fgwait", ChildOf(s, job[s]),
                        state[job[s]] = "stopSeen"
                 PROVE  FALSE
      BY DEF NoHangOnStopped
    <2>1. job[s] \in PidsOf(list[s])
      BY DEF IInv, HandlerOK, FgSteps
    <2>2. PICK k \in 1..Len(list[s]) : list[s][k].pid = job[s]
      BY <2>1 DEF PidsOf
    <2>3. list[s][k].stat = "STOPPED" /\ list[s][k].stat # "STOPPED"
      BY <2>2 DEF IInv, StopsOK, ChildOf, Working, FgSteps
    <2> QED
      BY <2>3
  <1> QED
    BY <1>1, Inductive, PTL

\* While only the first shell runs zhsh's code, the terminal is its own, or that of
\* the job it waits for.
THEOREM TerminalIsOwned == Spec => []TerminalOwner
  <1>1. IInv => TerminalOwner
    BY DEF IInv
  <1> QED
    BY <1>1, Inductive, PTL
=============================================================================
