------------------------------ MODULE JobList ------------------------------
(***************************************************************************)
(* The singly linked list of src/src/jobs.c cell by cell: malloc and free, *)
(* head, tail, size, and the next fields, the stale ones included.         *)
(***************************************************************************)
EXTENDS JobTable, FiniteSetsExt

CONSTANTS NoPid,      \* no job
          MaxNum,     \* bound on the numbers given out
          Cells,      \* addresses of cells
          NULL

ASSUME CellsAssumption == IsFiniteSet(Cells) /\ NULL \notin Cells
ASSUME NoPidAssumption == NoPid \notin Pids

VARIABLES
  heap,       \* what each cell holds; of a freed cell, nothing definite
  live,       \* the allocated cells
  head, tail, size,
  last,       \* last_updt_job
  got,        \* the pointer the last get_job returned
  job,        \* the pointer wait_jobs stands on, NULL outside of it
  broken      \* a freed cell was read

vars == << heap, live, head, tail, size, last, got, job, broken >>

Junk == [pid |-> NoPid, num |-> 0, stat |-> "RUNNING", next |-> NULL]

Init ==
  /\ heap = [c \in Cells |-> Junk]
  /\ live = {}
  /\ head = NULL /\ tail = NULL /\ size = 0
  /\ last = NoJob
  /\ got = NULL /\ job = NULL
  /\ broken = FALSE

Ready == ~broken /\ job = NULL

\* Where a walk goes on behind c.  The next field of a freed cell is not looked at.
Behind(c) == IF c \in live THEN heap[c].next ELSE NULL

\* Where a walk from head stands after k steps: in the end on NULL.
Walk ==
  LET at[k \in Nat] == IF k = 0 THEN head ELSE Behind(at[k - 1])
  IN  at

\* A walk that meets no cell twice is over after as many steps.
Steps == 0..Cardinality(Cells)

Holding(num) == {k \in Steps : Walk[k] \in live /\ heap[Walk[k]].num = num}

\* (Fault) Numbers are counted instead of taken from the tail.
AddNumberedBySize(c, p) ==
  LET cell == [pid |-> p, num |-> size, stat |-> "RUNNING", next |-> NULL]
  IN  /\ size <= MaxNum
      /\ heap' = IF head = NULL THEN [heap EXCEPT ![c] = cell]
                 ELSE [heap EXCEPT ![c] = cell, ![tail].next = c]
      /\ head' = IF head = NULL THEN c ELSE head
      /\ tail' = c
      /\ last' = size

\* new_job and the linking in add_job.
add_job_at(c, p) ==
  LET num == IF tail = NULL THEN 0 ELSE heap[tail].num + 1
      cell == [pid |-> p, num |-> num, stat |-> "RUNNING", next |-> NULL]
  IN  /\ num <= MaxNum
      /\ heap' = IF head = NULL THEN [heap EXCEPT ![c] = cell]
                 ELSE [heap EXCEPT ![c] = cell, ![tail].next = c]
      /\ head' = IF head = NULL THEN c ELSE head
      /\ tail' = c
      /\ last' = num

Add(p) ==
  /\ Ready
  /\ \A c \in live : heap[c].pid # p
  /\ \E c \in Cells \ live :
       /\ live' = live \cup {c}
       /\ add_job_at(c, p)
  /\ size' = size + 1
  /\ UNCHANGED << got, job, broken >>

\* get_job.  The walk ends at the first hit; without one it goes past the tail.
Search(num) ==
  IF Holding(num) # {}
  THEN /\ got' = Walk[Min(Holding(num))]
       /\ UNCHANGED broken
  ELSE /\ got' = NULL
       /\ broken' \in {FALSE, \E k \in Steps : Walk[k] \notin live \cup {NULL}}

Find(num) ==
  /\ Ready
  /\ Search(num)
  /\ UNCHANGED << heap, live, head, tail, size, last, job >>

\* get_job(last_updt_job), or jobs->tail when it returns NULL.
FindLast ==
  /\ Ready
  /\ IF Holding(last) = {} /\ tail # NULL
     THEN \/ got' = tail /\ UNCHANGED broken
          \/ Search(last) /\ broken'
     ELSE Search(last)
  /\ UNCHANGED << heap, live, head, tail, size, last, job >>

Mark(st) ==
  /\ Ready
  /\ got # NULL
  /\ heap' = [heap EXCEPT ![got].stat = st]
  /\ last' = IF st = "STOPPED" THEN heap[got].num ELSE last
  /\ UNCHANGED << live, head, tail, size, got, job, broken >>

StartWalk ==
  /\ Ready
  /\ head # NULL
  /\ got' = NULL
  /\ job' = head
  /\ UNCHANGED << heap, live, head, tail, size, last, broken >>

\* job = next, which was read while job was still allocated.
GoOn ==
  LET next == heap[job].next IN
    \/ /\ next = NULL \/ next \in live
       /\ job' = next
       /\ UNCHANGED broken
    \/ /\ next # NULL /\ next \notin live
       /\ job' = NULL
       /\ broken' \in {TRUE, FALSE}

Keep ==
  /\ ~broken /\ job # NULL
  /\ GoOn
  /\ UNCHANGED << heap, live, head, tail, size, last, got >>

\* parent and child in remove_job: the cell before c on the way from head.
ParentOf(c) == {Walk[k] : k \in {j \in Steps : Walk[j + 1] = c}}

\* (Fault) Removing the head never resets tail.
UnlinkKeepsTail(c) ==
  /\ heap' = [k \in Cells |->
                IF k = c THEN Junk
                ELSE IF k \in ParentOf(c) /\ c # tail THEN [heap[k] EXCEPT !.next = heap[c].next]
                ELSE heap[k]]
  /\ head' = IF c = head THEN heap[c].next ELSE head
  /\ IF c = tail /\ c # head THEN tail' \in ParentOf(c) ELSE UNCHANGED tail

\* The four cases of remove_job, and free().
Unlink(c) ==
  LET freed == [heap EXCEPT ![c] = Junk] IN
  \/ /\ c = head /\ c # tail
     /\ head' = heap[c].next
     /\ heap' = freed
     /\ UNCHANGED tail
  \/ /\ c = head /\ c = tail
     /\ head' = NULL /\ tail' = NULL
     /\ heap' = freed
  \/ /\ c # head /\ c = tail
     /\ tail' \in ParentOf(c)
     /\ heap' = freed
     /\ UNCHANGED head
  \/ /\ c # head /\ c # tail
     /\ \E parent \in ParentOf(c) :
          heap' = [freed EXCEPT ![parent].next = heap[c].next]
     /\ UNCHANGED << head, tail >>

Remove ==
  /\ ~broken /\ job # NULL
  /\ Unlink(job)
  /\ live' = live \ {job}
  /\ size' = size - 1
  /\ GoOn
  /\ UNCHANGED << last, got >>

\* Nothing is promised once a freed cell has been read.
Broken == broken /\ UNCHANGED vars

Next ==
  \/ \E p \in Pids : Add(p)
  \/ \E num \in 0..MaxNum : Find(num)
  \/ FindLast
  \/ \E st \in {"STOPPED", "DONE"} : Mark(st)
  \/ StartWalk \/ Keep \/ Remove \/ Broken

Spec == Init /\ [][Next]_vars
-----------------------------------------------------------------------------
\* The allocated cells that a walk meets.
Linked ==
  [k \in 1..Cardinality({j \in Steps : Walk[j] \in live}) |-> Walk[k - 1]]

\* Every allocated cell is reachable from head, exactly once; the walk ends at the
\* tail, and size counts it: no removal leaks a cell or cuts the list (remove_job).
\* The only field that is NULL, or ever points at a freed cell, is the tail's next.
WellLinked ==
  /\ Len(Linked) = Cardinality(live)
  /\ {Linked[k] : k \in 1..Len(Linked)} = live
  /\ size = Len(Linked)
  /\ (head = NULL) = (tail = NULL)
  /\ live # {} => Linked[Len(Linked)] = tail
  /\ \A c \in live : heap[c].next \notin live <=> c = tail

\* The list as its users see it, and what they hold of it.
Jobs ==
  [k \in 1..Len(Linked) |->
     [pid |-> heap[Linked[k]].pid, num |-> heap[Linked[k]].num, stat |-> heap[Linked[k]].stat]]

Stale == tail # NULL /\ heap[tail].next # NULL

Found == IF got = NULL THEN NoPid ELSE heap[got].pid

Position == IF job = NULL THEN 0 ELSE CHOOSE k \in 1..Len(Linked) : Linked[k] = job

Table ==
  INSTANCE JobTableSpec WITH list <- Jobs, stale <- Stale, got <- Found, walk <- Position

\* The linked list behaves as the sequence of jobs that its users see.
ImplementsTable == Table!Spec
=============================================================================
