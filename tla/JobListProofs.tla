--------------------------- MODULE JobListProofs ----------------------------
(***************************************************************************)
(* Proofs about JobList, for a heap of any size and any number of jobs:    *)
(* the cells stay linked through every add_job and remove_job, and behave  *)
(* as the sequence of jobs that JobTableSpec promises.                     *)
(***************************************************************************)
EXTENDS JobList, NatInduction, SequenceTheorems

Cell == [pid : Pids \cup {NoPid}, num : Nat, stat : Stats, next : Cells \cup {NULL}]

Typed ==
  /\ heap \in [Cells -> Cell]
  /\ live \subseteq Cells
  /\ last \in Nat \cup {NoJob}
  /\ got \in live \cup {NULL} /\ job \in live \cup {NULL}
  /\ job # NULL => got = NULL
  /\ broken \in BOOLEAN

\* Each allocated cell is a job of a process of its own.
OwnPids ==
  /\ \A c \in live : heap[c].pid \in Pids
  /\ \A c, d \in live : heap[c].pid = heap[d].pid => c = d

\* The allocated cells, linked in the order of s.
Row(n, s) ==
  /\ n \in Nat /\ s \in [1..n -> live]
  /\ \A c \in live : \E k \in 1..n : s[k] = c
  /\ \A j, k \in 1..n : s[j] = s[k] => j = k
  /\ n = 0 => head = NULL /\ tail = NULL
  /\ n # 0 => head = s[1] /\ tail = s[n] /\ heap[s[n]].next \notin live
  /\ \A k \in 1..(n - 1) : heap[s[k]].next = s[k + 1]
  /\ size = n

IInv == Typed /\ OwnPids /\ \E n, s : Row(n, s)
-----------------------------------------------------------------------------
(* What a walk meets. *)

\* A walk from head meets the row, what the next field of its last cell points at,
\* and then nothing.
LEMMA WalkOfRow ==
  ASSUME Typed, NEW n, NEW s, Row(n, s)
  PROVE  \A k \in Nat : Walk[k] = IF k < n THEN s[k + 1]
                                  ELSE IF k = n /\ n # 0 THEN heap[s[n]].next
                                  ELSE NULL
<1> DEFINE f == [k \in Nat |-> IF k < n THEN s[k + 1]
                               ELSE IF k = n /\ n # 0 THEN heap[s[n]].next
                               ELSE NULL]
           Eq(g) == g = [k \in Nat |-> IF k = 0 THEN head ELSE Behind(g[k - 1])]
<1>1. \A k \in Nat : k # 0 => f[k] = Behind(f[k - 1])
  <2> SUFFICES ASSUME NEW k \in Nat, k # 0 PROVE f[k] = Behind(f[k - 1])
    OBVIOUS
  <2>1. k - 1 \in Nat /\ n \in Nat
    BY DEF Row
  <2>2. CASE k < n
    <3>1. f[k - 1] = s[k] /\ f[k] = s[k + 1] /\ k \in 1..(n - 1) /\ k \in 1..n
      BY <2>1, <2>2
    <3> QED
      BY <3>1 DEF Row, Behind
  <2>3. CASE k = n
    <3>1. f[k - 1] = s[n] /\ f[k] = heap[s[n]].next /\ n \in 1..n
      BY <2>1, <2>3
    <3> QED
      BY <3>1 DEF Row, Behind
  <2>4. CASE k > n
    <3>1. f[k] = NULL /\ f[k - 1] \notin live
      BY <2>1, <2>4, CellsAssumption DEF Row, Typed
    <3> QED
      BY <3>1 DEF Behind
  <2> QED
    BY <2>1, <2>2, <2>3, <2>4
<1>2. f[0] = head
  BY DEF Row
<1>3. Eq(f)
  BY <1>1, <1>2
<1>4. Eq(Walk)
  <2>1. Walk = CHOOSE g : Eq(g)
    BY DEF Walk
  <2> HIDE DEF f, Eq
  <2> QED
    BY <1>3, <2>1
<1> DEFINE T == {k \in Nat : Walk[k] = f[k]}
<1>5. 0 \in T
  BY <1>2, <1>4
<1>6. ASSUME NEW k \in Nat, k \in T PROVE k + 1 \in T
  <2>1. k + 1 \in Nat /\ k + 1 # 0 /\ (k + 1) - 1 = k
    OBVIOUS
  <2>2. Walk[k + 1] = Behind(Walk[k])
    BY <1>4, <2>1
  <2>3. f[k + 1] = Behind(f[k])
    BY <1>1, <2>1
  <2> QED
    BY <2>1, <2>2, <2>3, <1>6
<1>7. Nat \subseteq T
  <2> HIDE DEF T
  <2> QED
    BY <1>5, <1>6, Induction
<1> QED
  BY <1>7

\* The row counts the allocated cells, and there is room for it.
LEMMA RowFits ==
  ASSUME Typed, NEW n, NEW s, Row(n, s)
  PROVE  Cardinality(live) = n /\ n <= Cardinality(Cells) /\ Cardinality(Cells) \in Nat
<1>1. n \in Nat /\ IsFiniteSet(1..n) /\ Cardinality(1..n) = n
  BY FS_Interval DEF Row
<1>2. s \in Bijection(1..n, live)
  BY DEF Row, Bijection, Injection, Surjection, IsInjective
<1>3. ExistsBijection(1..n, live)
  BY <1>2 DEF ExistsBijection
<1>4. Cardinality(live) = n
  BY <1>1, <1>3, FS_Bijection
<1>5. live \in SUBSET Cells
  BY DEF Typed
<1> QED
  BY <1>4, <1>5, CellsAssumption, FS_Subset, FS_CardinalityType

\* Linked is the row.
LEMMA LinkedIsRow ==
  ASSUME Typed, NEW n, NEW s, Row(n, s)
  PROVE  Linked = s /\ Len(Linked) = n
<1>1. n \in Nat /\ n <= Cardinality(Cells) /\ Cardinality(Cells) \in Nat
  BY RowFits DEF Row
<1>2. \A k \in Nat : Walk[k] = IF k < n THEN s[k + 1]
                               ELSE IF k = n /\ n # 0 THEN heap[s[n]].next
                               ELSE NULL
  BY WalkOfRow
<1>3. ASSUME NEW k \in Nat PROVE Walk[k] \in live <=> k < n
  <2>1. k < n => k + 1 \in 1..n
    BY <1>1
  <2> QED
    BY <1>1, <1>2, <2>1, CellsAssumption DEF Row, Typed
<1>4. {j \in Steps : Walk[j] \in live} = 0..(n - 1)
  BY <1>1, <1>3 DEF Steps
<1>5. Cardinality(0..(n - 1)) = n
  <2>1. n - 1 \in Int /\ 0 \in Int
    BY <1>1
  <2> QED
    BY <1>1, <2>1, FS_Interval
<1>6. Linked = [k \in 1..n |-> Walk[k - 1]]
  BY <1>4, <1>5 DEF Linked
<1>7. ASSUME NEW k \in 1..n PROVE Walk[k - 1] = s[k]
  BY <1>1, <1>2
<1>8. Linked = s
  BY <1>6, <1>7 DEF Row
<1>9. s \in Seq(live) /\ Len(s) = n
  <2>1. s \in [1..n -> live]
    BY DEF Row
  <2>2. s \in Seq(live)
    BY <1>1, <2>1, SeqDef
  <2> QED
    BY <1>1, <2>1, <2>2, LenProperties
<1> QED
  BY <1>8, <1>9

\* get_job: the walk finds the jobs of the row with the number, and comes to a freed
\* cell only behind the tail.
LEMMA WalkFinds ==
  ASSUME Typed, NEW n, NEW s, Row(n, s), NEW num
  PROVE  /\ Holding(num) = {k \in 0..(n - 1) : heap[s[k + 1]].num = num}
         /\ Holding(num) # {} =>
              \E k \in 1..n : Walk[Min(Holding(num))] = s[k] /\ heap[s[k]].num = num
         /\ (\E k \in Steps : Walk[k] \notin live \cup {NULL}) <=> Stale
<1>1. n \in Nat /\ n <= Cardinality(Cells) /\ Cardinality(Cells) \in Nat
  BY RowFits DEF Row
<1>2. \A k \in Nat : Walk[k] = IF k < n THEN s[k + 1]
                               ELSE IF k = n /\ n # 0 THEN heap[s[n]].next
                               ELSE NULL
  BY WalkOfRow
<1>3. ASSUME NEW k \in Nat PROVE Walk[k] \in live <=> k < n
  <2>1. k < n => k + 1 \in 1..n
    BY <1>1
  <2> QED
    BY <1>1, <1>2, <2>1, CellsAssumption DEF Row, Typed
<1>4. Holding(num) = {k \in 0..(n - 1) : heap[s[k + 1]].num = num}
  BY <1>1, <1>2, <1>3 DEF Holding, Steps
<1>5. ASSUME Holding(num) # {}
      PROVE  \E k \in 1..n : Walk[Min(Holding(num))] = s[k] /\ heap[s[k]].num = num
  <2> DEFINE m == Min(Holding(num))
  <2>1. m \in Holding(num)
    BY <1>4, <1>5, LeastOf
  <2>2. m \in Nat /\ m < n /\ m + 1 \in 1..n /\ heap[s[m + 1]].num = num
    BY <1>1, <1>4, <2>1
  <2>3. Walk[m] = s[m + 1]
    BY <1>2, <2>2
  <2> QED
    BY <2>2, <2>3
<1>6. (\E k \in Steps : Walk[k] \notin live \cup {NULL}) <=> Stale
  <2>1. ASSUME NEW k \in Steps, Walk[k] \notin live \cup {NULL} PROVE Stale
    <3>1. k = n /\ n # 0 /\ Walk[k] = heap[s[n]].next
      BY <1>1, <1>2, <1>3, <2>1 DEF Steps
    <3> QED
      BY <2>1, <3>1, CellsAssumption DEF Row, Stale, Typed
  <2>2. ASSUME Stale PROVE n \in Steps /\ Walk[n] \notin live \cup {NULL}
    <3>1. n # 0 /\ tail = s[n]
      BY <2>2 DEF Stale, Row
    <3> QED
      BY <1>1, <1>2, <2>2, <3>1 DEF Row, Stale, Steps
  <2> QED
    BY <2>1, <2>2
<1> QED
  BY <1>4, <1>5, <1>6

\* remove_job: the cell that parent stands on when child stands on s[i].
LEMMA ParentInRow ==
  ASSUME Typed, NEW n, NEW s, Row(n, s), NEW i \in 2..n
  PROVE  ParentOf(s[i]) = {s[i - 1]}
<1>1. n \in Nat /\ n <= Cardinality(Cells) /\ Cardinality(Cells) \in Nat
  BY RowFits DEF Row
<1>2. \A k \in Nat : Walk[k] = IF k < n THEN s[k + 1]
                               ELSE IF k = n /\ n # 0 THEN heap[s[n]].next
                               ELSE NULL
  BY WalkOfRow
<1>3. i - 2 \in Steps /\ i - 2 < n /\ (i - 2) + 1 = i - 1 /\ i - 1 < n /\ (i - 1) + 1 = i
  BY <1>1 DEF Steps
<1>4. Walk[i - 2] = s[i - 1] /\ Walk[i - 1] = s[i]
  BY <1>2, <1>3 DEF Steps
<1>5. ASSUME NEW j \in Steps, Walk[j + 1] = s[i] PROVE j = i - 2
  <2>1. s[i] \in live /\ NULL \notin live
    BY CellsAssumption DEF Row, Typed
  <2>2. j + 1 < n /\ Walk[j + 1] = s[j + 2] /\ j + 2 \in 1..n
    BY <1>1, <1>2, <1>5, <2>1 DEF Row, Steps
  <2>3. i \in 1..n /\ s[j + 2] = s[i]
    BY <1>1, <1>5, <2>2
  <2>4. j + 2 = i
    BY <2>2, <2>3 DEF Row
  <2> QED
    BY <2>4 DEF Steps
<1>6. {j \in Steps : Walk[j + 1] = s[i]} = {i - 2}
  BY <1>3, <1>4, <1>5
<1> QED
  BY <1>4, <1>6 DEF ParentOf

\* What WellLinked says of a row.
LEMMA RowIsWellLinked == Typed /\ (\E n, s : Row(n, s)) => WellLinked
<1> SUFFICES ASSUME Typed, NEW n, NEW s, Row(n, s) PROVE WellLinked
  OBVIOUS
<1>1. Linked = s /\ Len(Linked) = n /\ Cardinality(live) = n
  BY LinkedIsRow, RowFits
<1>2. {s[k] : k \in 1..n} = live
  BY DEF Row
<1>3. (head = NULL) = (tail = NULL)
  BY CellsAssumption DEF Row, Typed
<1>4. live # {} => s[n] = tail
  BY DEF Row
<1>5. ASSUME NEW c \in live PROVE heap[c].next \notin live <=> c = tail
  <2>1. PICK k \in 1..n : s[k] = c
    BY DEF Row
  <2>2. CASE k = n
    BY <2>1, <2>2 DEF Row
  <2>3. CASE k # n
    <3>1. k \in 1..(n - 1) /\ k + 1 \in 1..n /\ n \in 1..n
      BY <2>3 DEF Row
    <3> QED
      BY <2>1, <2>3, <3>1 DEF Row
  <2> QED
    BY <2>2, <2>3
<1>6. size = n
  BY DEF Row
<1> QED
  BY <1>1, <1>2, <1>3, <1>4, <1>5, <1>6 DEF WellLinked
-----------------------------------------------------------------------------
(* How the row changes. *)

\* An unchanged heap holds the same row.
LEMMA RowStays ==
  ASSUME NEW n, NEW s, Row(n, s), UNCHANGED << live, head, tail, size >>,
         \A c \in live : heap'[c].next = heap[c].next
  PROVE  Row(n, s)'
BY DEF Row

\* add_job appends the new cell.
LEMMA AddRow ==
  ASSUME Typed, NEW n, NEW s, Row(n, s), NEW c \in Cells \ live, NEW p \in Pids,
         live' = live \cup {c}, add_job_at(c, p), size' = size + 1
  PROVE  /\ Row(n + 1, [k \in 1..(n + 1) |-> IF k <= n THEN s[k] ELSE c])'
         /\ heap'[c] = [pid |-> p, num |-> IF n = 0 THEN 0 ELSE heap[s[n]].num + 1,
                        stat |-> "RUNNING", next |-> NULL]
         /\ \A d \in live : /\ heap'[d] \in Cell /\ heap'[d].pid = heap[d].pid
                            /\ heap'[d].num = heap[d].num /\ heap'[d].stat = heap[d].stat
         /\ heap' \in [Cells -> Cell]
<1> DEFINE t == [k \in 1..(n + 1) |-> IF k <= n THEN s[k] ELSE c]
           num == IF tail = NULL THEN 0 ELSE heap[tail].num + 1
           cell == [pid |-> p, num |-> num, stat |-> "RUNNING", next |-> NULL]
<1>1. n \in Nat /\ (n = 0 <=> head = NULL) /\ (n = 0 <=> tail = NULL)
  BY CellsAssumption DEF Row, Typed
<1>2. n # 0 => tail = s[n] /\ tail \in live /\ n \in 1..n
  BY <1>1 DEF Row
<1>3. num \in Nat /\ num = IF n = 0 THEN 0 ELSE heap[s[n]].num + 1
  BY <1>1, <1>2 DEF Typed, Cell
<1>4. cell \in Cell
  BY <1>3 DEF Cell, Stats
<1>5. /\ heap' = IF n = 0 THEN [heap EXCEPT ![c] = cell]
                 ELSE [heap EXCEPT ![c] = cell, ![tail].next = c]
      /\ head' = IF n = 0 THEN c ELSE head
      /\ tail' = c
  BY <1>1 DEF add_job_at
<1>6. heap'[c] = cell
  <2> HIDE DEF cell
  <2>1. c \in Cells /\ (n # 0 => tail # c)
    BY <1>2
  <2> QED
    BY <1>5, <2>1 DEF Typed
<1>7. ASSUME NEW d \in live
      PROVE  /\ heap'[d] \in Cell /\ heap'[d].pid = heap[d].pid
             /\ heap'[d].num = heap[d].num /\ heap'[d].stat = heap[d].stat
             /\ heap'[d].next = IF n # 0 /\ d = s[n] THEN c ELSE heap[d].next
  <2>1. d \in Cells /\ d # c /\ heap[d] \in Cell
    BY DEF Typed
  <2>2. heap'[d] = IF n # 0 /\ d = s[n] THEN [heap[d] EXCEPT !.next = c] ELSE heap[d]
    BY <1>2, <1>5, <2>1 DEF Typed
  <2> QED
    BY <2>1, <2>2 DEF Cell
<1>8. heap' \in [Cells -> Cell]
  <2>1. CASE n = 0
    BY <1>4, <1>5, <2>1 DEF Typed
  <2>2. CASE n # 0
    <3>1. heap' = [d \in Cells |-> heap'[d]]
      BY <1>5, <2>2 DEF Typed
    <3>2. \A d \in Cells \ live : d # c => heap'[d] = heap[d]
      BY <1>2, <1>5, <2>2 DEF Typed
    <3>3. \A d \in Cells : heap'[d] \in Cell
      BY <1>4, <1>6, <1>7, <3>2 DEF Typed
    <3> QED
      BY <3>1, <3>3
  <2> QED
    BY <2>1, <2>2
<1>9. t \in [1..(n + 1) -> live'] /\ t[n + 1] = c /\ \A k \in 1..n : t[k] = s[k] /\ k \in 1..(n + 1)
  BY <1>1 DEF Row
<1>10. \A d \in live' : \E k \in 1..(n + 1) : t[k] = d
  BY <1>1, <1>9 DEF Row
<1>11. \A j, k \in 1..(n + 1) : t[j] = t[k] => j = k
  BY <1>1 DEF Row
<1>12. head' = t[1]
  BY <1>1, <1>5, <1>9 DEF Row
<1>13. heap'[t[n + 1]].next \notin live'
  BY <1>6, <1>9, CellsAssumption DEF Typed
<1>14. ASSUME NEW k \in 1..n PROVE heap'[t[k]].next = t[k + 1]
  <2> HIDE DEF t
  <2>1. s[k] \in live /\ t[k] = s[k]
    BY <1>9 DEF Row
  <2>2. CASE k = n
    <3>1. heap'[s[k]].next = c
      BY <1>1, <1>7, <2>1, <2>2
    <3>2. t[k + 1] = c
      BY <1>9, <2>2
    <3> QED
      BY <2>1, <3>1, <3>2
  <2>3. CASE k # n
    <3>1. k \in 1..(n - 1) /\ k + 1 \in 1..n /\ n \in 1..n
      BY <1>1, <2>3
    <3>2. s[k] # s[n]
      BY <2>3, <3>1 DEF Row
    <3>3. heap'[s[k]].next = heap[s[k]].next /\ t[k + 1] = s[k + 1]
      BY <1>7, <1>9, <2>1, <3>1, <3>2
    <3> QED
      BY <2>1, <3>1, <3>3 DEF Row
  <2> QED
    BY <2>2, <2>3
<1>15. n + 1 \in Nat /\ (n + 1) - 1 = n /\ n + 1 # 0 /\ size' = n + 1
  BY <1>1 DEF Row
<1> HIDE DEF t
<1>16. Row(n + 1, t)'
  BY <1>5, <1>9, <1>10, <1>11, <1>12, <1>13, <1>14, <1>15 DEF Row
<1> QED
  BY <1>3, <1>6, <1>7, <1>8, <1>16 DEF t

\* The cell of job is somewhere in the row.
LEMMA InRow ==
  ASSUME NEW n, NEW s, Row(n, s), NEW c \in live
  PROVE  \E i \in 1..n : /\ c = s[i]
                         /\ c = head <=> i = 1
                         /\ c = tail <=> i = n
<1>1. PICK i \in 1..n : s[i] = c
  BY DEF Row
<1>2. n \in Nat /\ n # 0 /\ 1 \in 1..n /\ n \in 1..n
  BY DEF Row
<1> QED
  BY <1>1, <1>2 DEF Row

\* What the four cases of remove_job do to the cells: the next field of the cell before
\* the removed one changes, unless that was the tail.
LEMMA Unlinks ==
  ASSUME Typed, NEW n, NEW s, Row(n, s), NEW i \in 1..n, Unlink(s[i])
  PROVE  /\ heap' \in [Cells -> Cell]
         /\ \A d \in live \ {s[i]} :
              /\ heap'[d].pid = heap[d].pid
              /\ heap'[d].num = heap[d].num
              /\ heap'[d].stat = heap[d].stat
              /\ heap'[d].next = IF i # 1 /\ i # n /\ d = s[i - 1] THEN s[i + 1]
                                 ELSE heap[d].next
         /\ head' = IF n = 1 THEN NULL ELSE IF i = 1 THEN s[2] ELSE head
         /\ tail' = IF n = 1 THEN NULL ELSE IF i = n THEN s[n - 1] ELSE tail
<1> DEFINE c == s[i]
           freed == [heap EXCEPT ![c] = Junk]
<1>1. n \in Nat /\ c \in live /\ live \subseteq Cells
  BY DEF Row, Typed
<1>2. (c = head <=> i = 1) /\ (c = tail <=> i = n)
  <2>1. 1 \in 1..n /\ n \in 1..n /\ n # 0
    BY <1>1
  <2> QED
    BY <2>1 DEF Row
<1>3. Junk \in Cell
  BY DEF Junk, Cell, Stats
<1>4. freed \in [Cells -> Cell] /\ \A d \in live \ {c} : freed[d] = heap[d]
  <2> HIDE DEF c
  <2> QED
    BY <1>1, <1>3 DEF Typed
<1>5. i # 1 => ParentOf(c) = {s[i - 1]} /\ i - 1 \in 1..n /\ s[i - 1] \in live \ {c}
  <2> SUFFICES ASSUME i # 1 PROVE ParentOf(c) = {s[i - 1]} /\ i - 1 \in 1..n /\ s[i - 1] \in live \ {c}
    OBVIOUS
  <2>1. i \in 2..n /\ i - 1 \in 1..n /\ i - 1 # i
    BY <1>1
  <2>2. s[i - 1] \in live /\ s[i - 1] # c
    BY <2>1 DEF Row
  <2> QED
    BY <2>1, <2>2, ParentInRow
<1>6. i # n => heap[c].next = s[i + 1] /\ i + 1 \in 1..n /\ s[i + 1] \in live
  BY <1>1 DEF Row
<1> HIDE DEF c, freed
<1>7. CASE i = 1 \/ i = n
  <2>1. heap' = freed
    BY <1>2, <1>7 DEF Unlink, freed, c
  <2>2. head' = IF n = 1 THEN NULL ELSE IF i = 1 THEN s[2] ELSE head
    BY <1>1, <1>2, <1>6, <1>7 DEF Unlink, c
  <2>3. tail' = IF n = 1 THEN NULL ELSE IF i = n THEN s[n - 1] ELSE tail
    BY <1>1, <1>2, <1>5, <1>7 DEF Unlink, c
  <2> QED
    BY <1>4, <1>7, <2>1, <2>2, <2>3 DEF c
<1>8. CASE i # 1 /\ i # n
  <2>1. heap' = [freed EXCEPT ![s[i - 1]].next = heap[c].next]
    BY <1>2, <1>5, <1>8 DEF Unlink, freed, c
  <2>2. UNCHANGED << head, tail >> /\ n # 1
    BY <1>1, <1>2, <1>8 DEF Unlink, c
  <2> DEFINE parent == s[i - 1]
  <2>3. parent \in live \ {c} /\ parent \in Cells /\ heap[c].next \in Cells \cup {NULL}
    BY <1>1, <1>5, <1>8 DEF Typed, Cell
  <2> HIDE DEF parent
  <2>4. heap' \in [Cells -> Cell] /\ heap'[parent] = [heap[parent] EXCEPT !.next = heap[c].next]
        /\ \A d \in Cells : d # parent => heap'[d] = freed[d]
    <3>1. freed[parent] \in Cell /\ freed[parent] = heap[parent]
      BY <1>4, <2>3
    <3>2. [freed[parent] EXCEPT !.next = heap[c].next] \in Cell
      BY <2>3, <3>1 DEF Cell
    <3> QED
      BY <1>4, <2>1, <2>3, <3>1, <3>2 DEF parent
  <2>5. heap[parent] \in Cell
    BY <2>3 DEF Typed
  <2>6. /\ heap'[parent].pid = heap[parent].pid /\ heap'[parent].num = heap[parent].num
        /\ heap'[parent].stat = heap[parent].stat /\ heap'[parent].next = s[i + 1]
    BY <1>6, <1>8, <2>4, <2>5 DEF Cell
  <2> QED
    BY <1>1, <1>4, <1>8, <2>2, <2>4, <2>6 DEF c, parent
<1> QED
  BY <1>7, <1>8

\* The row that is left: remove_job of JobTable.
Without(s, n, i) == [k \in 1..(n - 1) |-> IF k < i THEN s[k] ELSE s[k + 1]]

\* The row that is left is linked, and its tail's next field is stale if the tail was
\* removed, or was stale before.
LEMMA RemoveRow ==
  ASSUME Typed, NEW n, NEW s, Row(n, s), NEW i \in 1..n, Unlink(s[i]),
         live' = live \ {s[i]}, size' = size - 1
  PROVE  Row(n - 1, Without(s, n, i))' /\ (Stale' <=> n # 1 /\ (Stale \/ i = n))
<1> DEFINE t == Without(s, n, i)
<1>1. n \in Nat /\ n # 0 /\ n - 1 \in Nat /\ NULL \notin live /\ live \subseteq Cells
  BY CellsAssumption DEF Row, Typed
<1>2. /\ \A d \in live \ {s[i]} :
           heap'[d].next = IF i # 1 /\ i # n /\ d = s[i - 1] THEN s[i + 1] ELSE heap[d].next
      /\ head' = IF n = 1 THEN NULL ELSE IF i = 1 THEN s[2] ELSE head
      /\ tail' = IF n = 1 THEN NULL ELSE IF i = n THEN s[n - 1] ELSE tail
  BY Unlinks
<1>3. /\ \A k \in 1..n : s[k] \in live /\ (k # i => s[k] \in live')
      /\ \A j, k \in 1..n : s[j] = s[k] => j = k
      /\ \A k \in 1..(n - 1) : heap[s[k]].next = s[k + 1]
      /\ head = s[1] /\ tail = s[n] /\ heap[s[n]].next \notin live
  BY <1>1 DEF Row
<1>4. t = [k \in 1..(n - 1) |-> IF k < i THEN s[k] ELSE s[k + 1]]
  BY DEF Without
<1>5. /\ \A k \in 1..(n - 1) : k < i => t[k] = s[k] /\ k \in 1..n /\ k # i
      /\ \A k \in 1..(n - 1) : k >= i => t[k] = s[k + 1] /\ k + 1 \in 1..n /\ k + 1 # i
  BY <1>1, <1>4
<1> HIDE DEF t
<1>6. t \in [1..(n - 1) -> live']
  BY <1>1, <1>3, <1>4, <1>5
<1>7. ASSUME NEW d \in live' PROVE \E k \in 1..(n - 1) : t[k] = d
  <2>1. PICK j \in 1..n : s[j] = d /\ j # i
    BY <1>7 DEF Row
  <2>2. CASE j < i
    BY <1>1, <1>5, <2>1, <2>2
  <2>3. CASE j > i
    <3>1. j - 1 \in 1..(n - 1) /\ j - 1 >= i /\ (j - 1) + 1 = j
      BY <1>1, <2>3
    <3> QED
      BY <1>5, <2>1, <3>1
  <2> QED
    BY <2>1, <2>2, <2>3
<1>8. ASSUME NEW j \in 1..(n - 1), NEW k \in 1..(n - 1), t[j] = t[k] PROVE j = k
  BY <1>1, <1>3, <1>5, <1>8
<1>9. ASSUME n # 1
      PROVE  head' = t[1] /\ tail' = t[n - 1] /\ heap'[t[n - 1]].next \notin live'
             /\ (Stale' <=> Stale \/ i = n)
  <2>1. 1 \in 1..(n - 1) /\ n - 1 \in 1..(n - 1) /\ n - 1 \in 1..n /\ (n - 1) + 1 = n
    BY <1>1, <1>9
  <2>2. head' = t[1]
    BY <1>2, <1>3, <1>5, <1>9, <2>1
  <2>3. tail' = t[n - 1] /\ t[n - 1] = IF i = n THEN s[n - 1] ELSE s[n]
    BY <1>1, <1>2, <1>3, <1>5, <1>9, <2>1
  <2>4. t[n - 1] \in live \ {s[i]} /\ t[n - 1] \in live' /\ NULL \notin live'
    BY <1>1, <1>6, <2>1
  <2>5. CASE i = n
    <3>1. heap'[t[n - 1]].next = s[n]
      BY <1>2, <1>3, <2>1, <2>3, <2>4, <2>5
    <3>2. s[n] \notin live' /\ s[n] # NULL
      BY <1>1, <1>3, <2>1, <2>5
    <3> QED
      BY <2>2, <2>3, <2>4, <2>5, <3>1, <3>2 DEF Stale
  <2>6. CASE i # n
    <3>1. i # 1 => i - 1 \in 1..n /\ i - 1 # n
      BY <1>1
    <3>2. i # 1 => s[n] # s[i - 1]
      BY <1>1, <1>3, <3>1
    <3>3. heap'[s[n]].next = heap[s[n]].next
      BY <1>2, <2>3, <2>4, <2>6, <3>2
    <3> QED
      BY <1>1, <1>3, <2>2, <2>3, <2>4, <2>6, <3>3 DEF Stale
  <2> QED
    BY <2>5, <2>6
<1>10. ASSUME NEW k \in 1..((n - 1) - 1) PROVE heap'[t[k]].next = t[k + 1]
  <2>1. k \in 1..(n - 1) /\ k + 1 \in 1..(n - 1) /\ k + 1 \in 1..n /\ k \in 1..n /\ k # n
    BY <1>1
  <2>2. t[k] \in live \ {s[i]}
    BY <1>6, <2>1
  <2>3. CASE k + 1 < i
    <3>1. t[k] = s[k] /\ t[k + 1] = s[k + 1] /\ heap[s[k]].next = s[k + 1]
      BY <1>1, <1>3, <1>5, <2>1, <2>3
    <3>2. i # 1 => i - 1 \in 1..n /\ k # i - 1
      BY <1>1, <2>1, <2>3
    <3>3. i # 1 => s[k] # s[i - 1]
      BY <1>3, <2>1, <3>2
    <3> QED
      BY <1>2, <2>2, <3>1, <3>3
  <2>4. CASE k + 1 = i
    <3>1. t[k] = s[k] /\ t[k + 1] = s[i + 1] /\ i # 1 /\ i # n /\ i - 1 = k
      BY <1>1, <1>5, <2>1, <2>4
    <3> QED
      BY <1>2, <2>2, <3>1
  <2>5. CASE k >= i
    <3>1. k + 1 \in 1..(n - 1) /\ k + 1 >= i
      BY <1>1, <2>1, <2>5
    <3>2. t[k] = s[k + 1] /\ t[k + 1] = s[(k + 1) + 1] /\ heap[s[k + 1]].next = s[(k + 1) + 1]
      BY <1>3, <1>5, <2>1, <2>5, <3>1
    <3>3. i # 1 => i - 1 \in 1..n /\ k + 1 # i - 1
      BY <1>1, <2>1, <2>5
    <3>4. i # 1 => s[k + 1] # s[i - 1]
      BY <1>3, <2>1, <3>3
    <3> QED
      BY <1>2, <2>2, <3>2, <3>4
  <2> QED
    BY <1>1, <2>3, <2>4, <2>5
<1>11. n = 1 => head' = NULL /\ tail' = NULL /\ ~Stale'
  BY <1>2 DEF Stale
<1>12. size' = n - 1
  BY DEF Row
<1>13. Row(n - 1, t)'
  BY <1>1, <1>6, <1>7, <1>8, <1>9, <1>10, <1>11, <1>12 DEF Row
<1> QED
  BY <1>9, <1>11, <1>13 DEF t
-----------------------------------------------------------------------------
(* The invariant. *)

\* An empty list has an empty row.
LEMMA InitInv == Init => IInv
<1> SUFFICES ASSUME Init PROVE IInv
  OBVIOUS
<1>1. Typed
  BY DEF Init, Typed, Junk, Cell, Stats
<1>2. OwnPids
  BY DEF Init, OwnPids
<1>3. Row(0, << >>)
  BY DEF Init, Row
<1> QED
  BY <1>1, <1>2, <1>3 DEF IInv

\* get_job returns a cell of the row, or NULL.
LEMMA SearchReturns ==
  ASSUME Typed, NEW n, NEW s, Row(n, s), NEW num, Search(num)
  PROVE  got' \in live \cup {NULL} /\ broken' \in BOOLEAN
<1>1. CASE Holding(num) # {}
  <2>1. PICK k \in 1..n : Walk[Min(Holding(num))] = s[k]
    BY <1>1, WalkFinds
  <2> QED
    BY <1>1, <2>1 DEF Search, Row, Typed
<1>2. CASE Holding(num) = {}
  BY <1>2 DEF Search
<1> QED
  BY <1>1, <1>2

\* fg's searches change neither the list nor what it holds.
LEMMA SearchKeepsInv ==
  ASSUME IInv, FindLast \/ \E num \in 0..MaxNum : Find(num)
  PROVE  IInv'
<1>1. PICK n, s : Row(n, s)
  BY DEF IInv
<1>2. Typed /\ UNCHANGED << heap, live, head, tail, size, last, job >> /\ job = NULL
  BY DEF IInv, FindLast, Find, Ready
<1>3. got' \in live \cup {NULL} /\ broken' \in BOOLEAN
  <2>1. CASE Search(last) \/ \E num \in 0..MaxNum : Search(num)
    BY <1>1, <1>2, <2>1, SearchReturns
  <2>2. CASE tail # NULL /\ got' = tail /\ UNCHANGED broken
    <3>1. tail \in live
      BY <1>1, <2>2 DEF Row
    <3> QED
      BY <1>2, <2>2, <3>1 DEF Typed
  <2> QED
    BY <2>1, <2>2 DEF FindLast, Find
<1>4. Typed'
  BY <1>2, <1>3 DEF Typed
<1>5. OwnPids'
  BY <1>2 DEF IInv, OwnPids
<1>6. Row(n, s)'
  BY <1>1, <1>2, RowStays
<1> QED
  BY <1>4, <1>5, <1>6 DEF IInv

\* A new job takes a cell that is not allocated, and a pid that no job has.
LEMMA AddKeepsInv ==
  ASSUME IInv, NEW p \in Pids, Add(p)
  PROVE  IInv'
<1>1. PICK n, s : Row(n, s)
  BY DEF IInv
<1>2. PICK c \in Cells \ live : live' = live \cup {c} /\ add_job_at(c, p)
  BY DEF Add
<1>3. /\ size' = size + 1 /\ UNCHANGED << got, job, broken >>
      /\ \A d \in live : heap[d].pid # p
  BY DEF Add
<1>4. Typed /\ OwnPids
  BY DEF IInv
<1>5. /\ Row(n + 1, [k \in 1..(n + 1) |-> IF k <= n THEN s[k] ELSE c])'
      /\ heap'[c] = [pid |-> p, num |-> IF n = 0 THEN 0 ELSE heap[s[n]].num + 1,
                     stat |-> "RUNNING", next |-> NULL]
      /\ \A d \in live : heap'[d].pid = heap[d].pid
      /\ heap' \in [Cells -> Cell]
  BY <1>1, <1>2, <1>3, <1>4, AddRow
<1>6. last' \in Nat
  <2>1. last' = IF tail = NULL THEN 0 ELSE heap[tail].num + 1
    BY <1>2 DEF add_job_at
  <2>2. tail = NULL \/ tail \in Cells
    BY <1>1, <1>4 DEF Row, Typed
  <2> QED
    BY <1>4, <2>1, <2>2 DEF Typed, Cell
<1>7. Typed'
  BY <1>2, <1>3, <1>4, <1>5, <1>6 DEF Typed
<1>8. OwnPids'
  <2>1. heap'[c].pid = p
    BY <1>5
  <2> QED
    BY <1>2, <1>3, <1>4, <1>5, <2>1 DEF OwnPids
<1> QED
  BY <1>5, <1>7, <1>8 DEF IInv

\* fg assigns to the stat field of a job only.
LEMMA MarkKeepsInv ==
  ASSUME IInv, NEW st \in {"STOPPED", "DONE"}, Mark(st)
  PROVE  IInv'
<1>1. PICK n, s : Row(n, s)
  BY DEF IInv
<1>2. /\ UNCHANGED << live, head, tail, size, got, job, broken >>
      /\ heap' = [heap EXCEPT ![got].stat = st]
      /\ last' = IF st = "STOPPED" THEN heap[got].num ELSE last
  BY DEF Mark
<1>3. Typed /\ OwnPids /\ got \in live /\ got \in Cells /\ heap[got] \in Cell
  BY DEF IInv, Mark, Typed
<1>4. [heap[got] EXCEPT !.stat = st] \in Cell
  BY <1>3 DEF Cell, Stats
<1>5. heap' \in [Cells -> Cell]
  BY <1>2, <1>3, <1>4 DEF Typed
<1>6. \A d \in Cells : heap'[d].pid = heap[d].pid /\ heap'[d].next = heap[d].next
  BY <1>2, <1>3 DEF Typed, Cell
<1>7. last' \in Nat \cup {NoJob}
  BY <1>2, <1>3 DEF Typed, Cell
<1>8. Typed'
  BY <1>2, <1>3, <1>5, <1>7 DEF Typed
<1>9. OwnPids'
  BY <1>2, <1>3, <1>6 DEF OwnPids, Typed
<1>10. Row(n, s)'
  BY <1>1, <1>2, <1>3, <1>6, RowStays DEF Typed
<1> QED
  BY <1>8, <1>9, <1>10 DEF IInv

\* wait_jobs goes on with the next cell, which remove_job does not free.
LEMMA WalkKeepsInv ==
  ASSUME IInv, StartWalk \/ Keep \/ Remove
  PROVE  IInv'
<1>1. PICK n, s : Row(n, s)
  BY DEF IInv
<1>2. Typed /\ OwnPids
  BY DEF IInv
<1>3. CASE StartWalk
  <2>1. head \in live
    BY <1>1, <1>3 DEF Row, StartWalk
  <2>2. Typed' /\ OwnPids'
    BY <1>2, <1>3, <2>1 DEF Typed, OwnPids, StartWalk
  <2>3. Row(n, s)'
    BY <1>1, <1>3, RowStays DEF StartWalk
  <2> QED
    BY <2>2, <2>3 DEF IInv
<1>4. CASE Keep
  <2>1. job' \in live \cup {NULL} /\ broken' \in BOOLEAN
    BY <1>2, <1>4 DEF Keep, GoOn, Typed
  <2>2. Typed' /\ OwnPids'
    BY <1>2, <1>4, <2>1 DEF Typed, OwnPids, Keep
  <2>3. Row(n, s)'
    BY <1>1, <1>4, RowStays DEF Keep
  <2> QED
    BY <2>2, <2>3 DEF IInv
<1>5. CASE Remove
  <2>1. /\ job \in live /\ Unlink(job) /\ live' = live \ {job} /\ size' = size - 1
        /\ GoOn /\ UNCHANGED << last, got >> /\ got = NULL
    BY <1>2, <1>5 DEF Remove, Typed
  <2>2. PICK i \in 1..n : job = s[i] /\ (job = tail <=> i = n)
    BY <1>1, <2>1, InRow
  <2>3. Row(n - 1, Without(s, n, i))'
    BY <1>1, <1>2, <2>1, <2>2, RemoveRow
  <2>4. heap' \in [Cells -> Cell] /\ \A d \in live' : heap'[d].pid = heap[d].pid
    BY <1>1, <1>2, <2>1, <2>2, Unlinks
  <2>5. heap[job].next # job
    <3>1. n \in Nat
      BY <1>1 DEF Row
    <3>2. CASE i = n
      BY <1>1, <2>1, <2>2, <3>2 DEF Row
    <3>3. CASE i # n
      <4>1. i \in 1..(n - 1) /\ i + 1 \in 1..n /\ i + 1 # i
        BY <3>1, <3>3
      <4> QED
        BY <1>1, <2>2, <4>1 DEF Row
    <3> QED
      BY <3>2, <3>3
  <2>6. job' \in live' \cup {NULL} /\ broken' \in BOOLEAN
    BY <1>2, <2>1, <2>5 DEF GoOn, Typed
  <2>7. Typed'
    BY <1>2, <2>1, <2>4, <2>6 DEF Typed
  <2>8. OwnPids'
    BY <1>2, <2>1, <2>4 DEF OwnPids
  <2> QED
    BY <2>3, <2>7, <2>8 DEF IInv
<1> QED
  BY <1>3, <1>4, <1>5

\* The row is kept by every step.
LEMMA NextInv == IInv /\ [Next]_vars => IInv'
<1> SUFFICES ASSUME IInv, [Next]_vars PROVE IInv'
  OBVIOUS
<1>1. CASE UNCHANGED vars
  <2>1. ASSUME NEW n, NEW s, Row(n, s) PROVE Row(n, s)'
    BY <1>1, <2>1 DEF Row, vars
  <2> QED
    BY <1>1, <2>1 DEF IInv, Typed, OwnPids, vars
<1>2. CASE Broken
  <2>1. UNCHANGED vars
    BY <1>2 DEF Broken
  <2>2. ASSUME NEW n, NEW s, Row(n, s) PROVE Row(n, s)'
    BY <2>1, <2>2 DEF Row, vars
  <2> QED
    BY <2>1, <2>2 DEF IInv, Typed, OwnPids, vars
<1> QED
  BY <1>1, <1>2, SearchKeepsInv, AddKeepsInv, MarkKeepsInv, WalkKeepsInv DEF Next

\* In every state the allocated cells form a row.
LEMMA Inductive == Spec => []IInv
<1>1. IInv /\ [Next]_vars => IInv'
  BY NextInv
<1> QED
  BY <1>1, InitInv, PTL DEF Spec

\* However often jobs are added and removed in the middle of a walk, no cell is leaked,
\* the list is not cut, and only the tail's next field is left stale (remove_job).
THEOREM AlwaysWellLinked == Spec => []WellLinked
<1>1. IInv => WellLinked
  BY RowIsWellLinked DEF IInv
<1> QED
  BY <1>1, Inductive, PTL
-----------------------------------------------------------------------------
(* The linked list implements the sequence of jobs. *)

\* What the users of the list see of a row.
Seen(n, s) ==
  /\ n \in Nat /\ Jobs \in Seq(Job) /\ Len(Jobs) = n /\ DOMAIN Jobs = 1..n
  /\ \A k \in 1..n : /\ s[k] \in live
                     /\ Jobs[k] = [pid |-> heap[s[k]].pid, num |-> heap[s[k]].num,
                                   stat |-> heap[s[k]].stat]
  /\ \A j, k \in 1..n : heap[s[j]].pid = heap[s[k]].pid => j = k
  /\ job = NULL => Position = 0
  /\ \A k \in 1..n : job = s[k] => Position = k

AllSeen == \A n, s : Typed /\ OwnPids /\ Row(n, s) => Seen(n, s)

\* A row is seen as its jobs, in its order.
LEMMA RowIsSeen == AllSeen
<1> SUFFICES ASSUME NEW n, NEW s, Typed, OwnPids, Row(n, s) PROVE Seen(n, s)
  BY DEF AllSeen
<1>1. Linked = s /\ Len(Linked) = n /\ n \in Nat
  BY LinkedIsRow DEF Row
<1>2. Jobs = [k \in 1..n |-> [pid |-> heap[s[k]].pid, num |-> heap[s[k]].num,
                              stat |-> heap[s[k]].stat]]
  BY <1>1 DEF Jobs
<1>3. \A k \in 1..n : s[k] \in live /\ heap[s[k]] \in Cell /\ heap[s[k]].pid \in Pids
  BY DEF Row, Typed, OwnPids
<1>4. Jobs \in [1..n -> Job]
  BY <1>2, <1>3 DEF Cell, Job
<1>5. Jobs \in Seq(Job)
  BY <1>1, <1>4, SeqDef
<1>6. Len(Jobs) = n /\ DOMAIN Jobs = 1..n
  BY <1>1, <1>4, <1>5, LenProperties
<1>7. \A j, k \in 1..n : heap[s[j]].pid = heap[s[k]].pid => j = k
  BY <1>3 DEF OwnPids, Row
<1>8. job = NULL => Position = 0
  BY DEF Position
<1>9. ASSUME NEW k \in 1..n, job = s[k] PROVE Position = k
  <2>1. job # NULL
    BY <1>3, <1>9, CellsAssumption DEF Typed
  <2>2. \A j \in 1..n : s[j] = job => j = k
    BY <1>9 DEF Row
  <2> QED
    BY <1>1, <1>9, <2>1, <2>2 DEF Position
<1> QED
  BY <1>1, <1>2, <1>3, <1>5, <1>6, <1>7, <1>8, <1>9 DEF Seen

\* The same after a step.
LEMMA RowIsSeenNext ==
  ASSUME IInv', NEW n, NEW s, Row(n, s)'
  PROVE  Seen(n, s)'
<1>1. AllSeen'
  BY RowIsSeen, PTL
<1> QED
  BY <1>1 DEF AllSeen, IInv

\* A cell with the same pid, number and status is seen as the same job.
LEMMA SameSeen ==
  ASSUME NEW n, NEW s, Seen(n, s), Seen(n, s)',
         \A k \in 1..n : /\ heap'[s[k]].pid = heap[s[k]].pid
                         /\ heap'[s[k]].num = heap[s[k]].num
                         /\ heap'[s[k]].stat = heap[s[k]].stat
  PROVE  Jobs' = Jobs
<1>1. Jobs = [k \in 1..n |-> Jobs[k]] /\ Jobs' = [k \in 1..n |-> Jobs'[k]]
  BY DEF Seen
<1>2. \A k \in 1..n : Jobs'[k] = Jobs[k]
  BY DEF Seen
<1> QED
  BY <1>1, <1>2

\* The empty list.
LEMMA InitRefines == Init => Table!Init
<1> SUFFICES ASSUME Init PROVE Table!Init
  OBVIOUS
<1>1. Row(0, << >>)
  BY DEF Init, Row
<1>2. IInv
  BY InitInv
<1>3. Jobs \in Seq(Job) /\ Len(Jobs) = 0 /\ Position = 0
  BY <1>1, <1>2, RowIsSeen DEF AllSeen, IInv, Seen, Init
<1>4. Jobs = << >>
  BY <1>3, EmptySeq
<1> QED
  BY <1>3, <1>4 DEF Init, Table!Init, Stale, Found, NoJob, Table!NoJob

\* add_job appends a job numbered behind the last.
LEMMA AddRefines ==
  ASSUME IInv, IInv', NEW p \in Pids, Add(p)
  PROVE  Table!Add(p)
<1>1. PICK n, s : Row(n, s)
  BY DEF IInv
<1>2. PICK c \in Cells \ live : live' = live \cup {c} /\ add_job_at(c, p)
  BY DEF Add
<1>3. /\ size' = size + 1 /\ UNCHANGED << got, job, broken >>
      /\ \A d \in live : heap[d].pid # p
      /\ ~broken /\ job = NULL
  BY DEF Add, Ready
<1> DEFINE t == [k \in 1..(n + 1) |-> IF k <= n THEN s[k] ELSE c]
           num == IF n = 0 THEN 0 ELSE heap[s[n]].num + 1
<1>4. /\ Row(n + 1, t)'
      /\ heap'[c] = [pid |-> p, num |-> num, stat |-> "RUNNING", next |-> NULL]
      /\ \A d \in live : /\ heap'[d].pid = heap[d].pid
                         /\ heap'[d].num = heap[d].num /\ heap'[d].stat = heap[d].stat
  BY <1>1, <1>2, <1>3, AddRow DEF IInv
<1>5. Seen(n, s) /\ Seen(n + 1, t)'
  BY <1>1, <1>4, RowIsSeen, RowIsSeenNext DEF AllSeen, IInv
<1>6. n \in Nat /\ t[n + 1] = c /\ \A k \in 1..n : t[k] = s[k] /\ k \in 1..(n + 1)
  BY <1>1 DEF Row
<1> HIDE DEF t
<1>7. Position = 0 /\ Position' = 0 /\ Found' = Found
  BY <1>3, <1>4, <1>5, CellsAssumption DEF Seen, Found, IInv, Typed
<1>8. Table!PidsOf(Jobs) = {heap[s[k]].pid : k \in 1..n}
  BY <1>5 DEF Seen, Table!PidsOf
<1>9. p \notin Table!PidsOf(Jobs)
  BY <1>3, <1>5, <1>8 DEF Seen
<1>10. Table!NextNum(Jobs) = num
  <2>1. Jobs = << >> <=> n = 0
    BY <1>5, EmptySeq DEF Seen
  <2>2. n # 0 => Jobs[n].num = heap[s[n]].num
    BY <1>5, <1>6 DEF Seen
  <2> QED
    BY <1>5, <2>1, <2>2 DEF Seen, Table!NextNum
<1>11. tail' = c /\ num <= MaxNum /\ last' = num
  <2>1. num = IF tail = NULL THEN 0 ELSE heap[tail].num + 1
    <3>1. n # 0 => s[n] \in live /\ s[n] # NULL
      BY <1>5, <1>6, CellsAssumption DEF Seen, IInv, Typed
    <3> QED
      BY <1>1, <3>1 DEF Row
  <2>2. /\ tail' = c /\ last' = IF tail = NULL THEN 0 ELSE heap[tail].num + 1
        /\ (IF tail = NULL THEN 0 ELSE heap[tail].num + 1) <= MaxNum
    BY <1>2 DEF add_job_at
  <2> QED
    BY <2>1, <2>2
<1>12. Stale' = FALSE
  BY <1>4, <1>11 DEF Stale
<1>13. Jobs' = Append(Jobs, [pid |-> p, num |-> num, stat |-> "RUNNING"])
  <2> DEFINE new == [pid |-> p, num |-> num, stat |-> "RUNNING"]
  <2>1. Jobs'[n + 1] = new
    BY <1>4, <1>5, <1>6 DEF Seen
  <2>2. ASSUME NEW k \in 1..n PROVE Jobs'[k] = Jobs[k]
    <3>1. s[k] \in live /\ t[k] = s[k] /\ k \in 1..(n + 1)
      BY <1>5, <1>6 DEF Seen
    <3>2. Jobs'[k] = [pid |-> heap'[s[k]].pid, num |-> heap'[s[k]].num,
                      stat |-> heap'[s[k]].stat]
      BY <1>5, <3>1 DEF Seen
    <3>3. Jobs[k] = [pid |-> heap[s[k]].pid, num |-> heap[s[k]].num, stat |-> heap[s[k]].stat]
      BY <1>5 DEF Seen
    <3>4. /\ heap'[s[k]].pid = heap[s[k]].pid /\ heap'[s[k]].num = heap[s[k]].num
          /\ heap'[s[k]].stat = heap[s[k]].stat
      BY <1>4, <3>1
    <3> QED
      BY <3>2, <3>3, <3>4
  <2>3. Jobs' \in Seq(Job) /\ Len(Jobs') = n + 1 /\ new \in Job
    <3>1. n + 1 \in 1..(n + 1)
      BY <1>6
    <3> QED
      BY <1>5, <2>1, <3>1, ElementOfSeq DEF Seen
  <2> HIDE DEF new
  <2>4. /\ Append(Jobs, new) \in Seq(Job) /\ Len(Append(Jobs, new)) = n + 1
        /\ Append(Jobs, new)[n + 1] = new /\ \A k \in 1..n : Append(Jobs, new)[k] = Jobs[k]
    BY <1>5, <2>3, AppendProperties DEF Seen
  <2>5. \A k \in 1..(n + 1) : Jobs'[k] = Append(Jobs, new)[k]
    BY <1>6, <2>1, <2>2, <2>4
  <2>6. Jobs' = Append(Jobs, new)
    BY <2>3, <2>4, <2>5, SeqEqual
  <2> QED
    BY <2>6 DEF new
<1> QED
  BY <1>3, <1>7, <1>9, <1>10, <1>11, <1>12, <1>13
  DEF Table!Add, Table!Ready, Table!add_job, Table!new_job

\* get_job returns the first job with the number; without one it may read the field
\* of a freed cell when the tail's next field is stale.
LEMMA SearchRefines ==
  ASSUME IInv, NEW num, Search(num), UNCHANGED << heap, live, head, tail >>
  PROVE  Table!Search(num) /\ (Holding(num) = {} <=> Table!Positions(Jobs, num) = {})
         /\ (got' = NULL => Found' = NoPid) /\ (Holding(num) # {} => Found' # NoPid)
<1>1. PICK n, s : Row(n, s)
  BY DEF IInv
<1>2. Seen(n, s)
  BY <1>1, RowIsSeen DEF AllSeen, IInv
<1>3. /\ Holding(num) = {k \in 0..(n - 1) : heap[s[k + 1]].num = num}
      /\ Holding(num) # {} =>
           \E k \in 1..n : Walk[Min(Holding(num))] = s[k] /\ heap[s[k]].num = num
      /\ (\E k \in Steps : Walk[k] \notin live \cup {NULL}) <=> Stale
  BY <1>1, WalkFinds DEF IInv
<1>4. Table!Positions(Jobs, num) = {k \in 1..n : heap[s[k]].num = num}
  BY <1>2 DEF Seen, Table!Positions
<1>5. Found' = IF got' = NULL THEN NoPid ELSE heap[got'].pid
  BY DEF Found
<1>6. CASE Holding(num) # {}
  <2>1. PICK k \in 1..n : got' = s[k] /\ heap[s[k]].num = num /\ UNCHANGED broken
    BY <1>3, <1>6 DEF Search
  <2>2. k \in Table!Positions(Jobs, num)
    BY <1>4, <2>1
  <2>3. s[k] \in live /\ s[k] # NULL /\ Jobs[k].pid = heap[s[k]].pid /\ heap[s[k]].pid \in Pids
    BY <1>2, CellsAssumption DEF Seen, IInv, Typed, OwnPids
  <2>4. Found' = Jobs[k].pid /\ Found' # NoPid
    BY <1>5, <2>1, <2>3, NoPidAssumption
  <2> QED
    BY <1>5, <1>6, <2>1, <2>2, <2>4 DEF Table!Search
<1>7. CASE Holding(num) = {}
  <2>1. got' = NULL /\ broken' \in {FALSE, Stale}
    BY <1>3, <1>7 DEF Search
  <2>2. Table!Positions(Jobs, num) = {}
    <3>1. ASSUME NEW k \in 1..n, heap[s[k]].num = num PROVE FALSE
      <4>1. k - 1 \in 0..(n - 1) /\ (k - 1) + 1 = k
        BY <1>2 DEF Seen
      <4> QED
        BY <1>3, <1>7, <3>1, <4>1
    <3> QED
      BY <1>4, <3>1
  <2> QED
    BY <1>5, <1>7, <2>1, <2>2 DEF Table!Search
<1> QED
  BY <1>6, <1>7

\* Find and FindLast leave the list as it is seen.
LEMMA FindRefines ==
  ASSUME IInv, IInv', FindLast \/ \E num \in 0..MaxNum : Find(num)
  PROVE  Table!FindLast \/ \E num \in 0..MaxNum : Table!Find(num)
<1>1. PICK n, s : Row(n, s)
  BY DEF IInv
<1>2. /\ UNCHANGED << heap, live, head, tail, size, last, job >>
      /\ ~broken /\ job = NULL
  BY DEF FindLast, Find, Ready
<1>3. Row(n, s)'
  BY <1>1, <1>2, RowStays
<1>4. Seen(n, s) /\ Seen(n, s)'
  BY <1>1, <1>3, RowIsSeen, RowIsSeenNext DEF AllSeen, IInv
<1>5. Jobs' = Jobs
  BY <1>2, <1>4, SameSeen
<1>6. UNCHANGED << Jobs, Stale, last, Position >> /\ Table!Ready
  BY <1>2, <1>4, <1>5 DEF Seen, Stale, Table!Ready
<1>7. ASSUME NEW num \in 0..MaxNum, Find(num) PROVE Table!Find(num)
  <2>1. Table!Search(num)
    BY <1>2, <1>7, SearchRefines DEF Find
  <2> QED
    BY <1>6, <2>1 DEF Table!Find
<1>8. ASSUME FindLast PROVE Table!FindLast
  <2>1. Jobs = << >> <=> tail = NULL
    <3>1. Jobs = << >> <=> n = 0
      BY <1>4, EmptySeq DEF Seen
    <3> QED
      BY <1>1, <3>1, CellsAssumption DEF Row, IInv, Typed
  <2>2. CASE Holding(last) = {} /\ tail # NULL /\ got' = tail /\ UNCHANGED broken
    <3>1. n \in Nat /\ n # 0 /\ n \in 1..n /\ tail = s[n]
      BY <1>1, <2>2 DEF Row
    <3>2. Found' = Jobs[Len(Jobs)].pid
      BY <1>2, <1>4, <2>2, <3>1 DEF Seen, Found
    <3>3. Table!Positions(Jobs, last) = {}
      <4>1. Holding(last) = {k \in 0..(n - 1) : heap[s[k + 1]].num = last}
        BY <1>1, WalkFinds DEF IInv
      <4>2. ASSUME NEW k \in 1..n, heap[s[k]].num = last PROVE FALSE
        <5>1. k - 1 \in 0..(n - 1) /\ (k - 1) + 1 = k
          BY <3>1
        <5> QED
          BY <2>2, <4>1, <4>2, <5>1
      <4> QED
        BY <1>4, <4>2 DEF Seen, Table!Positions
    <3> QED
      BY <1>6, <2>1, <2>2, <3>2, <3>3 DEF Table!FindLast
  <2>3. CASE Search(last) /\ (Holding(last) # {} \/ tail = NULL \/ broken')
    <3>1. Table!Search(last) /\ (Holding(last) # {} => Found' # NoPid)
      BY <1>2, <2>3, SearchRefines
    <3> QED
      BY <1>6, <2>1, <2>3, <3>1 DEF Table!FindLast
  <2> QED
    BY <1>8, <2>2, <2>3 DEF FindLast
<1> QED
  BY <1>7, <1>8

\* fg sets the status of the job it found.
LEMMA MarkRefines ==
  ASSUME IInv, IInv', NEW st \in {"STOPPED", "DONE"}, Mark(st)
  PROVE  Table!Mark(st)
<1>1. PICK n, s : Row(n, s)
  BY DEF IInv
<1>2. /\ UNCHANGED << live, head, tail, size, got, job, broken >>
      /\ heap' = [heap EXCEPT ![got].stat = st]
      /\ last' = IF st = "STOPPED" THEN heap[got].num ELSE last
      /\ ~broken /\ job = NULL /\ got # NULL
  BY DEF Mark, Ready
<1>3. got \in live /\ heap \in [Cells -> Cell] /\ live \subseteq Cells
  BY <1>2 DEF IInv, Typed
<1>4. \A d \in live : /\ heap'[d].pid = heap[d].pid /\ heap'[d].num = heap[d].num
                      /\ heap'[d].next = heap[d].next
                      /\ heap'[d].stat = IF d = got THEN st ELSE heap[d].stat
  BY <1>2, <1>3 DEF Cell
<1>5. Row(n, s)'
  BY <1>1, <1>2, <1>4, RowStays
<1>6. Seen(n, s) /\ Seen(n, s)'
  BY <1>1, <1>5, RowIsSeen, RowIsSeenNext DEF AllSeen, IInv
<1>7. PICK i \in 1..n : got = s[i]
  BY <1>1, <1>3, InRow
<1>8. Found = heap[s[i]].pid /\ Found' = Found
  BY <1>2, <1>3, <1>4, <1>7 DEF Found
<1>9. Jobs[i].pid = Found /\ Jobs[i].num = heap[got].num /\ Found \in Table!PidsOf(Jobs)
  BY <1>6, <1>7, <1>8 DEF Seen, Table!PidsOf
<1>10. Jobs' = Table!SetStat(Jobs, Found, st)
  <2>1. ASSUME NEW k \in 1..n
        PROVE  Jobs'[k] = IF Jobs[k].pid = Found THEN [Jobs[k] EXCEPT !.stat = st] ELSE Jobs[k]
    <3>1. /\ s[k] \in live
          /\ Jobs[k] = [pid |-> heap[s[k]].pid, num |-> heap[s[k]].num, stat |-> heap[s[k]].stat]
          /\ Jobs'[k] = [pid |-> heap'[s[k]].pid, num |-> heap'[s[k]].num,
                         stat |-> heap'[s[k]].stat]
      BY <1>6 DEF Seen
    <3>2. Jobs[k].pid = Found <=> k = i
      BY <1>6, <1>8, <3>1 DEF Seen
    <3>3. s[k] = got <=> k = i
      BY <1>1, <1>7 DEF Row
    <3>4. Jobs'[k] = [pid |-> heap[s[k]].pid, num |-> heap[s[k]].num,
                      stat |-> IF k = i THEN st ELSE heap[s[k]].stat]
      BY <1>4, <3>1, <3>3
    <3> QED
      BY <3>1, <3>2, <3>4
  <2>2. Jobs' = [k \in 1..n |-> Jobs'[k]] /\ Len(Jobs) = n
    BY <1>6 DEF Seen
  <2> QED
    BY <2>1, <2>2 DEF Table!SetStat
<1>11. UNCHANGED << Stale, Position >> /\ Table!Ready
  <2>1. tail # NULL => tail \in live
    BY <1>1 DEF Row
  <2>2. UNCHANGED Stale
    BY <1>2, <1>4, <2>1 DEF Stale
  <2> QED
    BY <1>2, <1>6, <2>2 DEF Seen, Table!Ready
<1>12. st = "STOPPED" => \E k \in 1..Len(Jobs) : Jobs[k].pid = Found /\ last' = Jobs[k].num
  BY <1>2, <1>6, <1>9 DEF Seen
<1>13. st # "STOPPED" => UNCHANGED last
  BY <1>2
<1> QED
  BY <1>2, <1>8, <1>9, <1>10, <1>11, <1>12, <1>13 DEF Table!Mark

\* wait_jobs starts at the first job.
LEMMA StartWalkRefines ==
  ASSUME IInv, IInv', StartWalk
  PROVE  Table!StartWalk
<1>1. PICK n, s : Row(n, s)
  BY DEF IInv
<1>2. /\ UNCHANGED << heap, live, head, tail, size, last, broken >>
      /\ ~broken /\ job = NULL /\ head # NULL /\ got' = NULL /\ job' = head
  BY DEF StartWalk, Ready
<1>3. Row(n, s)'
  BY <1>1, <1>2, RowStays
<1>4. Seen(n, s) /\ Seen(n, s)'
  BY <1>1, <1>3, RowIsSeen, RowIsSeenNext DEF AllSeen, IInv
<1>5. Jobs' = Jobs
  BY <1>2, <1>4, SameSeen
<1>6. n # 0 /\ n \in Nat /\ 1 \in 1..n /\ head = s[1]
  BY <1>1, <1>2 DEF Row
<1>7. Jobs # << >>
  BY <1>4, <1>6, EmptySeq DEF Seen
<1>8. Position' = 1
  BY <1>2, <1>4, <1>6 DEF Seen
<1>9. UNCHANGED Stale /\ Found' = NoPid /\ Position = 0
  BY <1>2, <1>4 DEF Stale, Found, Seen
<1> QED
  BY <1>2, <1>5, <1>7, <1>8, <1>9 DEF Table!StartWalk, Table!Ready

\* What is behind the job the walk stands on: the next one, or what the tail's next
\* field points at.
LEMMA WalkGoesOn ==
  ASSUME Typed, NEW n, NEW s, Row(n, s), NEW i \in 1..n, job = s[i], GoOn
  PROVE  \/ i # n /\ job' = s[i + 1] /\ UNCHANGED broken
         \/ i = n /\ job' = NULL /\ (UNCHANGED broken \/ (Stale /\ broken' \in BOOLEAN))
<1>1. NULL \notin live /\ n \in Nat
  BY CellsAssumption DEF Row, Typed
<1>2. CASE i # n
  <2>1. i \in 1..(n - 1) /\ i + 1 \in 1..n
    BY <1>1, <1>2
  <2>2. heap[job].next = s[i + 1] /\ s[i + 1] \in live
    BY <2>1 DEF Row
  <2> QED
    BY <1>2, <2>2 DEF GoOn
<1>3. CASE i = n
  <2>1. heap[job].next \notin live /\ tail = job /\ tail \in live
    BY <1>1, <1>3 DEF Row
  <2> QED
    BY <1>1, <1>3, <2>1 DEF GoOn, Stale
<1> QED
  BY <1>2, <1>3

\* A job that is still running stays in the list.
LEMMA KeepRefines ==
  ASSUME IInv, IInv', Keep
  PROVE  Table!Keep
<1>1. PICK n, s : Row(n, s)
  BY DEF IInv
<1>2. /\ UNCHANGED << heap, live, head, tail, size, last, got >>
      /\ ~broken /\ job # NULL /\ GoOn /\ Typed
  BY DEF Keep, IInv
<1>3. Row(n, s)'
  BY <1>1, <1>2, RowStays
<1>4. Seen(n, s) /\ Seen(n, s)'
  BY <1>1, <1>3, RowIsSeen, RowIsSeenNext DEF AllSeen, IInv
<1>5. Jobs' = Jobs /\ UNCHANGED << Stale, last, Found >>
  BY <1>2, <1>4, SameSeen DEF Stale, Found
<1>6. PICK i \in 1..n : job = s[i]
  <2>1. job \in live
    BY <1>2 DEF Typed
  <2> QED
    BY <1>1, <2>1, InRow
<1>7. \/ i # n /\ job' = s[i + 1] /\ UNCHANGED broken
      \/ i = n /\ job' = NULL /\ (UNCHANGED broken \/ (Stale /\ broken' \in BOOLEAN))
  BY <1>1, <1>2, <1>6, WalkGoesOn
<1>8. Position = i /\ Len(Jobs) = n /\ n \in Nat
  BY <1>4, <1>6 DEF Seen
<1>9. Table!GoOn(Position + 1, Len(Jobs))
  <2>1. CASE i # n
    <3>1. i + 1 \in 1..n /\ i + 1 <= n
      BY <1>8, <2>1
    <3>2. Position' = i + 1
      BY <1>4, <1>7, <2>1, <3>1 DEF Seen
    <3> QED
      BY <1>7, <1>8, <2>1, <3>1, <3>2 DEF Table!GoOn
  <2>2. CASE i = n
    <3>1. Position' = 0 /\ ~(i + 1 <= n)
      BY <1>4, <1>7, <1>8, <2>2 DEF Seen
    <3>2. UNCHANGED broken \/ (Stale /\ broken' = TRUE)
      BY <1>2, <1>7, <2>2 DEF Typed
    <3> QED
      BY <1>8, <2>2, <3>1, <3>2 DEF Table!GoOn
  <2> QED
    BY <2>1, <2>2
<1> QED
  BY <1>2, <1>5, <1>8, <1>9 DEF Table!Keep

\* remove_job takes the job the walk stands on out of the list, and the walk goes on at
\* the same position.
LEMMA RemoveRefines ==
  ASSUME IInv, IInv', Remove
  PROVE  Table!Remove
<1>1. PICK n, s : Row(n, s)
  BY DEF IInv
<1>2. /\ UNCHANGED << last, got >> /\ live' = live \ {job} /\ size' = size - 1
      /\ ~broken /\ job \in live /\ Unlink(job) /\ GoOn /\ Typed /\ got = NULL
  BY DEF Remove, IInv, Typed
<1>3. PICK i \in 1..n : job = s[i]
  BY <1>1, <1>2, InRow
<1> DEFINE t == Without(s, n, i)
<1>4. Row(n - 1, t)' /\ (Stale' <=> n # 1 /\ (Stale \/ i = n))
  BY <1>1, <1>2, <1>3, RemoveRow
<1>5. \A d \in live' : /\ heap'[d].pid = heap[d].pid /\ heap'[d].num = heap[d].num
                       /\ heap'[d].stat = heap[d].stat
  BY <1>1, <1>2, <1>3, Unlinks
<1>6. Seen(n, s) /\ Seen(n - 1, t)'
  BY <1>1, <1>4, RowIsSeen, RowIsSeenNext DEF AllSeen, IInv
<1>7. t = [k \in 1..(n - 1) |-> IF k < i THEN s[k] ELSE s[k + 1]]
  BY DEF Without
<1> HIDE DEF t
<1>8. n \in Nat /\ n - 1 \in Nat /\ Len(Jobs) = n /\ Position = i
  BY <1>3, <1>6 DEF Seen
<1>9. Jobs' = Table!remove_job(Jobs, i)
  <2>1. ASSUME NEW k \in 1..(n - 1) PROVE Jobs'[k] = IF k < i THEN Jobs[k] ELSE Jobs[k + 1]
    <3> DEFINE m == IF k < i THEN k ELSE k + 1
    <3>1. m \in 1..n /\ t[k] = s[m]
      BY <1>7, <1>8
    <3> HIDE DEF m
    <3>2. /\ t[k] \in live'
          /\ Jobs'[k] = [pid |-> heap'[t[k]].pid, num |-> heap'[t[k]].num,
                         stat |-> heap'[t[k]].stat]
      BY <1>6 DEF Seen
    <3>3. Jobs[m] = [pid |-> heap[s[m]].pid, num |-> heap[s[m]].num, stat |-> heap[s[m]].stat]
      BY <1>6, <3>1 DEF Seen
    <3>4. Jobs'[k] = Jobs[m]
      BY <1>5, <3>1, <3>2, <3>3
    <3> QED
      BY <3>4 DEF m
  <2>2. Jobs' = [k \in 1..(n - 1) |-> Jobs'[k]]
    BY <1>6 DEF Seen
  <2> QED
    BY <1>8, <2>1, <2>2 DEF Table!remove_job
<1>10. Stale' = Table!Dangles(Jobs, Stale, i)
  BY <1>4, <1>8 DEF Stale, Table!Dangles
<1>11. Found' = Found
  BY <1>2 DEF Found
<1>12. \/ i # n /\ job' = s[i + 1] /\ UNCHANGED broken
       \/ i = n /\ job' = NULL /\ (UNCHANGED broken \/ (Stale /\ broken' \in BOOLEAN))
  BY <1>1, <1>2, <1>3, WalkGoesOn
<1>13. Table!GoOn(Position, Len(Jobs) - 1)
  <2>1. CASE i # n
    <3>1. i \in 1..(n - 1) /\ i <= n - 1 /\ t[i] = s[i + 1]
      BY <1>7, <1>8, <2>1
    <3>2. Position' = i
      BY <1>6, <1>12, <2>1, <3>1 DEF Seen
    <3> QED
      BY <1>8, <1>12, <2>1, <3>1, <3>2 DEF Table!GoOn
  <2>2. CASE i = n
    <3>1. Position' = 0 /\ ~(i <= n - 1)
      BY <1>6, <1>8, <1>12, <2>2 DEF Seen
    <3>2. UNCHANGED broken \/ (Stale /\ broken' = TRUE)
      BY <1>2, <1>12, <2>2 DEF Typed
    <3> QED
      BY <1>8, <2>2, <3>1, <3>2 DEF Table!GoOn
  <2> QED
    BY <2>1, <2>2
<1>14. Position # 0
  BY <1>8
<1> QED
  BY <1>2, <1>8, <1>9, <1>10, <1>11, <1>13, <1>14 DEF Table!Remove

\* Nothing is seen of a step that changes nothing.
LEMMA StutterRefines ==
  ASSUME IInv, IInv', UNCHANGED vars
  PROVE  UNCHANGED Table!vars
<1>1. PICK n, s : Row(n, s)
  BY DEF IInv
<1>2. UNCHANGED << heap, live, head, tail, size, last, got, job, broken >>
  BY DEF vars
<1>3. Row(n, s)'
  BY <1>1, <1>2, RowStays
<1>4. Seen(n, s) /\ Seen(n, s)'
  BY <1>1, <1>3, RowIsSeen, RowIsSeenNext DEF AllSeen, IInv
<1>5. Jobs' = Jobs
  BY <1>2, <1>4, SameSeen
<1>6. Position' = Position
  <2>1. CASE job = NULL
    BY <1>2, <1>4, <2>1 DEF Seen
  <2>2. CASE job # NULL
    <3>1. PICK i \in 1..n : job = s[i]
      <4>1. job \in live
        BY <2>2 DEF IInv, Typed
      <4> QED
        BY <1>1, <4>1, InRow
    <3> QED
      BY <1>2, <1>4, <3>1 DEF Seen
  <2> QED
    BY <2>1, <2>2
<1> QED
  BY <1>2, <1>5, <1>6 DEF Table!vars, Stale, Found

\* Every step of the cells is one that JobTableSpec allows, or is not seen.
LEMMA StepRefines ==
  ASSUME IInv, IInv', [Next]_vars
  PROVE  [Table!Next]_(Table!vars)
<1>1. CASE UNCHANGED vars \/ Broken
  BY <1>1, StutterRefines DEF Broken
<1>2. CASE StartWalk \/ Keep \/ Remove
  BY <1>2, StartWalkRefines, KeepRefines, RemoveRefines DEF Table!Next
<1>3. CASE FindLast \/ \E num \in 0..MaxNum : Find(num)
  BY <1>3, FindRefines DEF Table!Next
<1>4. CASE \E p \in Pids : Add(p)
  BY <1>4, AddRefines DEF Table!Next
<1>5. CASE \E st \in {"STOPPED", "DONE"} : Mark(st)
  BY <1>5, MarkRefines DEF Table!Next
<1> QED
  BY <1>1, <1>2, <1>3, <1>4, <1>5 DEF Next

\* malloc and free, head, tail and the next fields behave as the sequence of numbered
\* jobs that the rest of the shell sees, a walk that removes jobs included.
THEOREM ListIsTable == Spec => ImplementsTable
<1>1. IInv /\ IInv' /\ [Next]_vars => [Table!Next]_(Table!vars)
  BY StepRefines
<1> QED
  BY <1>1, InitRefines, Inductive, PTL DEF Spec, ImplementsTable, Table!Spec
=============================================================================
