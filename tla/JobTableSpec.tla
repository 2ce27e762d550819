---------------------------- MODULE JobTableSpec ----------------------------
(***************************************************************************)
(* What the jobs list promises its users: a sequence of numbered jobs,     *)
(* extended at its end, searched by number, and walked by wait_jobs, which *)
(* drops some of the jobs it visits.  It is defined as long as no walk     *)
(* reads past a tail whose next field is stale.                            *)
(***************************************************************************)
EXTENDS JobTable

CONSTANTS NoPid,      \* no job
          MaxNum      \* bound on the numbers given out

VARIABLES
  list,       \* the jobs
  stale,      \* the tail's next field is not NULL
  last,       \* last_updt_job
  got,        \* the job the last search returned
  walk,       \* wait_jobs: the position to visit, 0 outside of it
  broken      \* a freed cell was read

vars == << list, stale, last, got, walk, broken >>

Init ==
  /\ list = << >>
  /\ stale = FALSE
  /\ last = NoJob
  /\ got = NoPid
  /\ walk = 0
  /\ broken = FALSE

Ready == ~broken /\ walk = 0

Add(p) ==
  /\ Ready
  /\ p \notin PidsOf(list)
  /\ NextNum(list) <= MaxNum
  /\ list' = add_job(list, p)
  /\ stale' = FALSE
  /\ last' = NextNum(list)
  /\ UNCHANGED << got, walk, broken >>

\* Searching for a number that is not listed reads the tail's next field.
Search(num) ==
  IF Positions(list, num) # {}
  THEN /\ \E k \in Positions(list, num) : got' = list[k].pid
       /\ UNCHANGED broken
  ELSE /\ got' = NoPid
       /\ broken' \in {FALSE, stale}

Find(num) ==
  /\ Ready
  /\ Search(num)
  /\ UNCHANGED << list, stale, last, walk >>

FindLast ==
  /\ Ready
  /\ \/ Search(last) /\ (got' # NoPid \/ broken' \/ list = << >>)
     \/ /\ Positions(list, last) = {} /\ list # << >>
        /\ got' = list[Len(list)].pid
        /\ UNCHANGED broken
  /\ UNCHANGED << list, stale, last, walk >>

\* fg records what became of the job it found.
Mark(st) ==
  /\ Ready
  /\ got \in PidsOf(list)
  /\ list' = SetStat(list, got, st)
  /\ \/ st # "STOPPED" /\ UNCHANGED last
     \/ st = "STOPPED" /\ \E k \in 1..Len(list) :
                            list[k].pid = got /\ last' = list[k].num
  /\ UNCHANGED << stale, got, walk, broken >>

StartWalk ==
  /\ Ready
  /\ list # << >>
  /\ got' = NoPid
  /\ walk' = 1
  /\ UNCHANGED << list, stale, last, broken >>

\* The walk goes on at position k unless that lies behind the tail.
GoOn(k, size) ==
  \/ walk' = (IF k <= size THEN k ELSE 0) /\ UNCHANGED broken
  \/ walk = Len(list) /\ stale /\ broken' = TRUE /\ walk' = 0

Keep ==
  /\ ~broken /\ walk # 0
  /\ GoOn(walk + 1, Len(list))
  /\ UNCHANGED << list, stale, last, got >>

Remove ==
  /\ ~broken /\ walk # 0
  /\ list' = remove_job(list, walk)
  /\ stale' = Dangles(list, stale, walk)
  /\ GoOn(walk, Len(list) - 1)
  /\ UNCHANGED << last, got >>

Next ==
  \/ \E p \in Pids : Add(p)
  \/ \E num \in 0..MaxNum : Find(num)
  \/ FindLast
  \/ \E st \in {"STOPPED", "DONE"} : Mark(st)
  \/ StartWalk \/ Keep \/ Remove

Spec == Init /\ [][Next]_vars
=============================================================================
