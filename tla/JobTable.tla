------------------------------ MODULE JobTable ------------------------------
(***************************************************************************)
(* The jobs list of one shell process as a value: the cells reachable from *)
(* jobs->head up to jobs->tail, in list order (src/src/jobs.c).  A job is  *)
(* a record of its pid, its number and its status; job->cmd and job->ret   *)
(* only feed write_status and are left out.                                *)
(*                                                                         *)
(* remove_job moves jobs->tail to the parent of a removed tail but leaves  *)
(* parent->next pointing at the freed cell.  Whether the tail's next field *)
(* is such a stale pointer is part of the list's state: see Dangles.       *)
(***************************************************************************)
EXTENDS Integers, Sequences

CONSTANT Pids      \* process identifiers

Stats == {"RUNNING", "DONE", "STOPPED", "TERMINATED"}

Job == [pid : Pids, num : Nat, stat : Stats]

\* last_updt_job before any job exists: (size_t) -1, the number of no job.
NoJob == -1

\* (Fault) The new job gets the number of the tail.
NextNumOfTail(list) == IF list = << >> THEN 0 ELSE list[Len(list)].num

\* new_job: one more than the tail's number, 0 in an empty list.
NextNum(list) == IF list = << >> THEN 0 ELSE list[Len(list)].num + 1

new_job(list, p) == [pid |-> p, num |-> NextNum(list), stat |-> "RUNNING"]

add_job(list, p) == Append(list, new_job(list, p))

\* The list after remove_job unlinks the cell at position i.
remove_job(list, i) ==
  [k \in 1..(Len(list) - 1) |-> IF k < i THEN list[k] ELSE list[k + 1]]

\* Is tail->next stale after remove_job unlinked position i?  A sole cell takes
\* head and tail with it; a tail that is not the head leaves its parent's next.
Dangles(list, stale, i) ==
  Len(list) # 1 /\ (stale \/ i = Len(list))

\* The stat field of the job of process p assigned.
SetStat(list, p, st) ==
  [k \in 1..Len(list) |->
     IF list[k].pid = p THEN [list[k] EXCEPT !.stat = st] ELSE list[k]]

PidsOf(list) == {list[k].pid : k \in 1..Len(list)}

\* get_job: the positions whose number is num (at most one: NumbersIncrease).
Positions(list, num) == {k \in 1..Len(list) : list[k].num = num}

StatOf(list, p) == {list[k].stat : k \in {j \in 1..Len(list) : list[j].pid = p}}

\* Along the list the numbers strictly increase, so that a number names one job.
Increasing(list) ==
  \A i, j \in 1..Len(list) : i < j => list[i].num < list[j].num

\* No process is listed twice.
DistinctPids(list) ==
  \A i, j \in 1..Len(list) : list[i].pid = list[j].pid => i = j
=============================================================================
