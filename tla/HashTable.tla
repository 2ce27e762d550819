------------------------------ MODULE HashTable ------------------------------
(***************************************************************************)
(* The hash table under the environment (src/src/hashtable.c), which       *)
(* env_init fills and get_env and set_env use: it starts without a table,  *)
(* and doubles its buckets when the load exceeds the threshold, up to      *)
(* MaximumCapacity buckets.                                                *)
(*                                                                         *)
(* A bucket is the set of its nodes: their order in the chain, and the     *)
(* hash a node caches, are left out.  hash_function is any function.      *)
(* The masks (n - 1) & hash are hash % n, n being a power of two.          *)
(*                                                                         *)
(* Not modelled: delete_hnode, which nothing calls but unset_env, which    *)
(* nothing calls.                                                          *)
(***************************************************************************)
EXTENDS Integers, FiniteSets

CONSTANTS Keys, Values,
          NULL,               \* no value
          HashValues,         \* what hash_function may return
          InitialCapacity,    \* INITIAL_CAPACITY: 16 in the code
          MaximumCapacity,    \* MAXIMUM_CAPACITY: 2^30 in the code
          Unlimited           \* the threshold (size_t) -1

ASSUME NullAssumption == NULL \notin Values
ASSUME HashAssumption == HashValues \subseteq Nat

\* n = 2^k for some k: each divisor of n but 1 is even.
PowerOfTwo(n) == \A d \in 2..n : n % d = 0 => d % 2 = 0

\* Doubling the one gives the other: 1 << 4 and 1 << 30.
ASSUME CapacityAssumption ==
  /\ InitialCapacity \in Nat /\ InitialCapacity >= 2
  /\ MaximumCapacity \in Nat
  /\ \E q \in 1..MaximumCapacity :
       PowerOfTwo(q) /\ MaximumCapacity = InitialCapacity * q
ASSUME UnlimitedAssumption == Unlimited \notin Nat

VARIABLES
  hash,         \* hash_function
  table,        \* the buckets, indexed from 0; none before the first put
  capacity, threshold, size,
  answer        \* what the last get returned

vars == << hash, table, capacity, threshold, size, answer >>

Node == [key : Keys, value : Values]

Init ==
  /\ hash \in [Keys -> HashValues]
  /\ table = [i \in {} |-> {}]
  /\ capacity = 0 /\ threshold = 0 /\ size = 0
  /\ answer = NULL

\* (Fault) The buckets are kept as they are, and new empty ones added.
RehashInPlace(tab, n, new) ==
  [i \in 0..(new - 1) |-> IF i < n THEN tab[i] ELSE {}]

\* (Fault) The new table is allocated, but not installed.
RehashNotInstalled(tab, n, new) == tab

\* The nodes of n buckets dealt out to new buckets (resize, transfer).
Rehash(tab, n, new) ==
  [i \in 0..(new - 1) |->
     UNION {{e \in tab[j] : hash[e.key] % new = i} : j \in 0..(n - 1)}]

LoadOf(n) == (n * 3) \div 4

\* newthr, when a table of n buckets with threshold thr gets new buckets.
NextThreshold(n, new, thr) ==
  IF n = 0 THEN LoadOf(new)
  ELSE IF new < MaximumCapacity /\ n >= InitialCapacity /\ thr > 0 THEN 2 * thr
  ELSE IF new < MaximumCapacity THEN LoadOf(new)
  ELSE Unlimited

Bucket(tab, n, k) == tab[hash[k] % n]

Exceeds(n, thr) == thr # Unlimited /\ n > thr

\* resize, with tab the table as it stands.
ResizeFrom(tab) ==
  IF capacity >= MaximumCapacity
  THEN /\ table' = tab
       /\ threshold' = Unlimited
       /\ UNCHANGED capacity
  ELSE /\ capacity' = 2 * capacity
       /\ table' = Rehash(tab, capacity, 2 * capacity)
       /\ threshold' = NextThreshold(capacity, 2 * capacity, threshold)

\* put for a name the table does not hold.
Insert(k, v) ==
  LET index == hash[k] % capacity
      tab == [table EXCEPT ![index] = @ \cup {[key |-> k, value |-> v]}]
  IN  /\ size' = size + 1
      /\ IF Exceeds(size + 1, threshold)
         THEN ResizeFrom(tab)
         ELSE table' = tab /\ UNCHANGED << capacity, threshold >>

Holds(k) == capacity # 0 /\ \E e \in Bucket(table, capacity, k) : e.key = k

\* The first put: resize makes the table first.
PutFirst(k, v) ==
  /\ capacity = 0
  /\ capacity' = InitialCapacity
  /\ threshold' = LoadOf(InitialCapacity)
  /\ size' = 1
  /\ table' = [i \in 0..(InitialCapacity - 1) |->
                 IF i = hash[k] % InitialCapacity THEN {[key |-> k, value |-> v]} ELSE {}]
  /\ UNCHANGED << hash, answer >>

PutNew(k, v) ==
  /\ capacity # 0
  /\ ~Holds(k)
  /\ Insert(k, v)
  /\ UNCHANGED << hash, answer >>

\* (Fault) The name is not compared: a second node is linked behind the first.
PutAgain(k, v) ==
  /\ Holds(k)
  /\ Insert(k, v)
  /\ UNCHANGED << hash, answer >>

\* (Fault) A replaced value counts as a new node.
PutCounted(k, v) ==
  /\ Holds(k)
  /\ table' = [table EXCEPT ![hash[k] % capacity] =
                 {IF e.key = k THEN [e EXCEPT !.value = v] ELSE e : e \in @}]
  /\ size' = size + 1
  /\ UNCHANGED << hash, capacity, threshold, answer >>

\* put for a name the table holds: its node gets the value.
PutOld(k, v) ==
  /\ Holds(k)
  /\ table' = [table EXCEPT ![hash[k] % capacity] =
                 {IF e.key = k THEN [e EXCEPT !.value = v] ELSE e : e \in @}]
  /\ UNCHANGED << hash, capacity, threshold, size, answer >>

\* get reads the table without a check: the environment must not be empty.
Get(k) ==
  /\ capacity # 0
  /\ IF Holds(k)
     THEN \E e \in Bucket(table, capacity, k) : e.key = k /\ answer' = e.value
     ELSE answer' = NULL
  /\ UNCHANGED << hash, table, capacity, threshold, size >>

Next ==
  \E k \in Keys :
    \/ Get(k)
    \/ \E v \in Values : PutFirst(k, v) \/ PutNew(k, v) \/ PutOld(k, v)

Spec == Init /\ [][Next]_vars
-----------------------------------------------------------------------------
Nodes == UNION {table[i] : i \in 0..(capacity - 1)}

TypeOK ==
  /\ hash \in [Keys -> HashValues]
  /\ capacity \in Nat
  /\ table \in [0..(capacity - 1) -> SUBSET Node]
  /\ threshold \in Nat \cup {Unlimited}
  /\ size \in Nat
  /\ answer \in Values \cup {NULL}

\* Every name has at most one node in the whole table, and it is in the bucket in
\* which put and get look for it, however often resize has moved it since.
WellHashed ==
  /\ \A i \in 0..(capacity - 1) : \A e \in table[i] : hash[e.key] % capacity = i
  /\ \A d, e \in Nodes : d.key = e.key => d = e

\* size counts the nodes, the load stays within the threshold, and the threshold
\* within three quarters of the buckets, until the table cannot grow any more.
LoadBounded ==
  /\ size = Cardinality(Nodes)
  /\ capacity <= MaximumCapacity
  /\ threshold = Unlimited => capacity = MaximumCapacity
  /\ ~Exceeds(size, threshold)
  /\ threshold # Unlimited => 4 * threshold <= 3 * capacity

\* What the table holds, as a map.
Contents ==
  [k \in Keys |->
     IF Holds(k) THEN (CHOOSE e \in Bucket(table, capacity, k) : e.key = k).value
     ELSE NULL]

Map == INSTANCE EnvMap WITH map <- Contents

\* get returns what was put last under the name, whatever its hash, across every
\* collision and every resize.
ImplementsMap == Map!Spec
=============================================================================
