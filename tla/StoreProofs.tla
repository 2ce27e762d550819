---------------------------- MODULE StoreProofs ----------------------------
(***************************************************************************)
(* What the shells store.                                                  *)
(*                                                                         *)
(* The hash table of the environment is well hashed, and implements the    *)
(* map, for any names, any hash function and any capacities                *)
(* (src/src/hashtable.c).  The argument is about the set Nodes: every step *)
(* but put leaves it as it is, resize included, put adds or replaces one   *)
(* node, and the buckets are given by Nodes and the hashes alone.          *)
(*                                                                         *)
(* The history file keeps the lines that the first shell found in it, for  *)
(* any file, any lines, any block and any number of shells                 *)
(* (src/src/ux/history.c).  The argument is about where a shell stands in  *)
(* the text it found: a shell that has ended n lines stands behind the     *)
(* newline of rank n, and its list begins with the lines of the text.      *)
(* What a shell alone with the file loads is a function of it.             *)
(***************************************************************************)
EXTENDS HashTable, HistoryFile, NatInduction

\* A hash picks one of the n buckets: (n - 1) & hash in put, get and transfer.
LEMMA Modulo ==
  ASSUME NEW h \in Nat, NEW n \in Nat, n > 0
  PROVE  h % n \in 0..(n - 1)
OBVIOUS

\* The bucket of a name exists (the index computed by put and get).
LEMMA Index ==
  ASSUME TypeOK, NEW k \in Keys, NEW n \in Nat, n > 0
  PROVE  hash[k] % n \in 0..(n - 1)
<1>1. hash[k] \in Nat
  BY HashAssumption DEF TypeOK
<1> QED
  BY <1>1, Modulo

\* resize deals the nodes out to the buckets that their hashes name, and neither
\* loses nor makes one (transfer).
LEMMA RehashDeals ==
  ASSUME TypeOK,
         NEW n \in Nat, n > 0, NEW new \in Nat, new > 0,
         NEW tab \in [0..(n - 1) -> SUBSET Node]
  PROVE  /\ Rehash(tab, n, new) \in [0..(new - 1) -> SUBSET Node]
         /\ \A i \in 0..(new - 1) : \A e \in Rehash(tab, n, new)[i] :
              hash[e.key] % new = i /\ \E j \in 0..(n - 1) : e \in tab[j]
         /\ \A j \in 0..(n - 1) : \A e \in tab[j] :
              e \in Rehash(tab, n, new)[hash[e.key] % new]
<1>1. \A e \in Node : hash[e.key] % new \in 0..(new - 1)
  BY Index DEF Node
<1> DEFINE Dealt(i) == UNION {{e \in tab[j] : hash[e.key] % new = i} : j \in 0..(n - 1)}
<1>2. Rehash(tab, n, new) = [i \in 0..(new - 1) |-> Dealt(i)]
  BY DEF Rehash
<1>3. \A i : Dealt(i) \subseteq Node
  OBVIOUS
<1>4. \A i, e : e \in Dealt(i) <=>
        hash[e.key] % new = i /\ \E j \in 0..(n - 1) : e \in tab[j]
  OBVIOUS
<1> HIDE DEF Dealt
<1>5. \A j \in 0..(n - 1) : tab[j] \subseteq Node
  OBVIOUS
<1>6. \A j \in 0..(n - 1) : \A e \in tab[j] :
        e \in Rehash(tab, n, new)[hash[e.key] % new]
  BY <1>1, <1>2, <1>4, <1>5
<1> QED
  BY <1>2, <1>3, <1>4, <1>6

\* What a table of n buckets must be like: WellHashed, of a value.
Fine(tab, n) ==
  /\ tab \in [0..(n - 1) -> SUBSET Node]
  /\ \A i \in 0..(n - 1) : \A e \in tab[i] : hash[e.key] % n = i
  /\ \A i, j \in 0..(n - 1) : \A d \in tab[i], e \in tab[j] : d.key = e.key => d = e

\* The nodes in n buckets.
Held(tab, n) == UNION {tab[i] : i \in 0..(n - 1)}

\* Such a table says the same of its nodes bucket by bucket and as one set.
LEMMA FineIsWellHashed ==
  ASSUME table \in [0..(capacity - 1) -> SUBSET Node]
  PROVE  Fine(table, capacity) <=> WellHashed
BY DEF Fine, WellHashed, Nodes

\* resize of such a table makes such a table with the same nodes.
LEMMA RehashIsFine ==
  ASSUME TypeOK,
         NEW n \in Nat, n > 0, NEW new \in Nat, new > 0,
         NEW tab \in [0..(n - 1) -> SUBSET Node], Fine(tab, n),
         NEW T, T = Rehash(tab, n, new)
  PROVE  /\ Fine(T, new)
         /\ Held(T, new) = Held(tab, n)
<1>1. /\ T \in [0..(new - 1) -> SUBSET Node]
      /\ \A i \in 0..(new - 1) : \A e \in T[i] :
           hash[e.key] % new = i /\ \E j \in 0..(n - 1) : e \in tab[j]
      /\ \A j \in 0..(n - 1) : \A e \in tab[j] : e \in T[hash[e.key] % new]
  BY RehashDeals
<1>2. \A j \in 0..(n - 1) : \A e \in tab[j] : hash[e.key] % new \in 0..(new - 1)
  <2>1. \A e \in Node : hash[e.key] % new \in 0..(new - 1)
    BY Index DEF Node
  <2> QED
    BY <2>1 DEF Fine
<1>3. Fine(T, new)
  BY <1>1 DEF Fine
<1>4. Held(T, new) = Held(tab, n)
  BY <1>1, <1>2 DEF Held
<1> QED
  BY <1>3, <1>4
-----------------------------------------------------------------------------
\* Such a table with the node of a new name in the bucket of its hash (put).
LEMMA AddedIsFine ==
  ASSUME TypeOK, Fine(table, capacity), capacity > 0,
         NEW k \in Keys, NEW v \in Values, ~Holds(k),
         NEW tab \in [0..(capacity - 1) -> SUBSET Node],
         tab = [table EXCEPT ![hash[k] % capacity] = @ \cup {[key |-> k, value |-> v]}]
  PROVE  /\ Fine(tab, capacity)
         /\ Held(tab, capacity) = Nodes \cup {[key |-> k, value |-> v]}
<1> DEFINE index == hash[k] % capacity
           node == [key |-> k, value |-> v]
<1>1. index \in 0..(capacity - 1)
  BY Index DEF TypeOK
<1>2. node \in Node /\ node.key = k
  BY DEF Node
<1>3. \A i \in 0..(capacity - 1) : tab[i] = table[i] \cup (IF i = index THEN {node} ELSE {})
  BY <1>1 DEF Fine
<1>4. \A i \in 0..(capacity - 1) : \A e \in table[i] : e.key # k
  BY DEF Holds, Bucket, Fine
<1> HIDE DEF node, index
<1>5. tab \in [0..(capacity - 1) -> SUBSET Node]
  BY <1>1, <1>2 DEF Fine, node, index
<1>6. \A i \in 0..(capacity - 1) : \A e \in tab[i] : hash[e.key] % capacity = i
  BY <1>2, <1>3 DEF Fine, index
<1>7. \A i, j \in 0..(capacity - 1) : \A d \in tab[i], e \in tab[j] :
        d.key = e.key => d = e
  BY <1>2, <1>3, <1>4 DEF Fine
<1>8. Fine(tab, capacity)
  BY <1>5, <1>6, <1>7 DEF Fine
<1>9. Held(tab, capacity) = Nodes \cup {node}
  BY <1>1, <1>3 DEF Nodes, Held
<1> QED
  BY <1>8, <1>9 DEF node

\* The first put.
LEMMA PutFirstStep ==
  ASSUME TypeOK, NEW k \in Keys, NEW v \in Values, PutFirst(k, v)
  PROVE  TypeOK' /\ Fine(table, capacity)' /\ Nodes' = {[key |-> k, value |-> v]}
<1> USE DEF PutFirst
<1> DEFINE node == [key |-> k, value |-> v]
           index == hash[k] % InitialCapacity
<1>1. InitialCapacity \in Nat /\ InitialCapacity > 0
  BY CapacityAssumption
<1>2. index \in 0..(InitialCapacity - 1)
  BY <1>1, Index
<1>3. node \in Node /\ node.key = k
  BY DEF Node
<1>4. \A i \in 0..(InitialCapacity - 1) : table'[i] = IF i = index THEN {node} ELSE {}
  OBVIOUS
<1>5. table' \in [0..(InitialCapacity - 1) -> SUBSET Node]
  BY <1>3
<1>6. LoadOf(InitialCapacity) \in Nat
  BY <1>1 DEF LoadOf
<1>7. TypeOK'
  BY <1>1, <1>5, <1>6 DEF TypeOK
<1>8. Fine(table, capacity)'
  BY <1>3, <1>4, <1>5 DEF Fine
<1>9. Nodes' = {node}
  BY <1>2, <1>4 DEF Nodes
<1> QED
  BY <1>7, <1>8, <1>9

\* put for a new name, whether or not the table is resized after it.
LEMMA PutNewStep ==
  ASSUME TypeOK, Fine(table, capacity),
         NEW k \in Keys, NEW v \in Values, PutNew(k, v)
  PROVE  /\ TypeOK' /\ Fine(table, capacity)'
         /\ Nodes' = Nodes \cup {[key |-> k, value |-> v]}
<1>1. PICK node : node = [key |-> k, value |-> v]
  OBVIOUS
<1>2. PICK tab : tab = [table EXCEPT ![hash[k] % capacity] = @ \cup {node}]
  OBVIOUS
<1>3. capacity \in Nat /\ capacity > 0 /\ ~Holds(k)
  BY DEF TypeOK, PutNew
<1>4. tab \in [0..(capacity - 1) -> SUBSET Node]
  BY <1>1, <1>2, <1>3, Index DEF Fine, Node
<1>5. Fine(tab, capacity) /\ Held(tab, capacity) = Nodes \cup {node}
  BY <1>1, <1>2, <1>3, <1>4, AddedIsFine
<1>6. /\ size' = size + 1
      /\ IF Exceeds(size + 1, threshold)
         THEN ResizeFrom(tab)
         ELSE table' = tab /\ UNCHANGED << capacity, threshold >>
  BY <1>1, <1>2 DEF PutNew, Insert
<1>7. size' \in Nat /\ hash' = hash /\ answer' = answer
  BY <1>6 DEF TypeOK, PutNew
<1>8. CASE table' = tab /\ capacity' = capacity /\ threshold' \in Nat \cup {Unlimited}
  <2>1. TypeOK'
    BY <1>4, <1>7, <1>8 DEF TypeOK
  <2>2. Fine(table, capacity)'
    BY <1>5, <1>7, <1>8 DEF Fine
  <2>3. Nodes' = Nodes \cup {node}
    BY <1>5, <1>8 DEF Nodes, Held
  <2> QED
    BY <1>1, <2>1, <2>2, <2>3
<1>9. CASE /\ Exceeds(size + 1, threshold)
           /\ capacity' = 2 * capacity
           /\ table' = Rehash(tab, capacity, 2 * capacity)
           /\ threshold' = NextThreshold(capacity, 2 * capacity, threshold)
  <2>1. PICK new : new = 2 * capacity
    OBVIOUS
  <2>2. new \in Nat /\ new > 0
    BY <1>3, <2>1
  <2>3. PICK T : T = Rehash(tab, capacity, new)
    OBVIOUS
  <2>4. Fine(T, new) /\ Held(T, new) = Nodes \cup {node}
    BY <1>3, <1>4, <1>5, <2>2, <2>3, RehashIsFine
  <2>5. threshold' \in Nat \cup {Unlimited}
    <3>1. LoadOf(2 * capacity) \in Nat
      BY <1>3 DEF LoadOf
    <3>2. threshold \in Nat
      BY <1>9 DEF TypeOK, Exceeds
    <3> QED
      BY <1>3, <1>9, <3>1, <3>2 DEF NextThreshold
  <2>6. table' = T /\ capacity' = new
    BY <1>9, <2>1, <2>3
  <2>7. TypeOK'
    BY <1>7, <2>2, <2>4, <2>5, <2>6 DEF TypeOK, Fine
  <2>8. Fine(table, capacity)'
    BY <1>7, <2>4, <2>6 DEF Fine
  <2>9. Nodes' = Nodes \cup {node}
    BY <2>4, <2>6 DEF Nodes, Held
  <2> QED
    BY <1>1, <2>7, <2>8, <2>9
<1> QED
  BY <1>6, <1>8, <1>9 DEF ResizeFrom, TypeOK

\* put for a name that the table holds.
LEMMA PutOldStep ==
  ASSUME TypeOK, Fine(table, capacity),
         NEW k \in Keys, NEW v \in Values, PutOld(k, v)
  PROVE  /\ TypeOK' /\ Fine(table, capacity)'
         /\ Nodes' = {e \in Nodes : e.key # k} \cup {[key |-> k, value |-> v]}
<1> USE DEF PutOld
<1> DEFINE node == [key |-> k, value |-> v]
           index == hash[k] % capacity
           With(e) == IF e.key = k THEN [e EXCEPT !.value = v] ELSE e
<1>1. capacity \in Nat /\ capacity > 0
  BY DEF TypeOK, Holds
<1>2. index \in 0..(capacity - 1)
  BY <1>1, Index
<1>3. node \in Node /\ node.key = k
  BY DEF Node
<1>4. \A e \in Node : e.key = k => With(e) = node
  BY DEF Node
<1>5. \A e \in Node : e.key # k => With(e) = e
  OBVIOUS
<1>6. PICK old \in table[index] : old.key = k
  BY DEF Holds, Bucket
<1>7. \A i \in 0..(capacity - 1) : table[i] \subseteq Node
  BY DEF Fine
<1>8. \A i \in 0..(capacity - 1) : \A e \in table[i] : e.key = k => i = index
  BY <1>7 DEF Fine, Node
<1>9. table' = [table EXCEPT ![index] = {With(e) : e \in @}]
  OBVIOUS
<1> HIDE DEF With, node, index
<1>10. table'[index] = {e \in table[index] : e.key # k} \cup {node}
  <2>1. table'[index] = {With(e) : e \in table[index]}
    BY <1>2, <1>9 DEF Fine
  <2> QED
    BY <2>1, <1>2, <1>4, <1>5, <1>6, <1>7
<1>11. \A i \in 0..(capacity - 1) : i # index => table'[i] = table[i]
  BY <1>9 DEF Fine
<1>12. \A i \in 0..(capacity - 1) :
         table'[i] = {e \in table[i] : e.key # k} \cup (IF i = index THEN {node} ELSE {})
  BY <1>8, <1>10, <1>11
<1>13. table' \in [0..(capacity - 1) -> SUBSET Node]
  <2>1. DOMAIN table' = 0..(capacity - 1) /\ table' = [i \in 0..(capacity - 1) |-> table'[i]]
    BY <1>9 DEF Fine
  <2>2. \A i \in 0..(capacity - 1) : table'[i] \subseteq Node
    BY <1>3, <1>7, <1>12
  <2> QED
    BY <2>1, <2>2
<1>14. TypeOK'
  BY <1>13 DEF TypeOK
<1>15. \A i \in 0..(capacity - 1) : \A e \in table'[i] : hash[e.key] % capacity = i
  BY <1>3, <1>12 DEF Fine, index
<1>16. \A i, j \in 0..(capacity - 1) : \A d \in table'[i], e \in table'[j] :
         d.key = e.key => d = e
  BY <1>3, <1>12 DEF Fine
<1>17. Fine(table, capacity)'
  BY <1>13, <1>15, <1>16 DEF Fine
<1>18. Nodes' = {e \in Nodes : e.key # k} \cup {node}
  BY <1>2, <1>12 DEF Nodes
<1> QED
  BY <1>14, <1>17, <1>18 DEF node
-----------------------------------------------------------------------------
\* What put and get rely on, and keep.
Inv == TypeOK /\ Fine(table, capacity)

\* The table without buckets that create_hashtable returns.
LEMMA InitIsFine == Init => Inv
BY DEF Init, Inv, TypeOK, Fine

\* Every step of put and get keeps the invariant.
LEMMA StepIsFine == Inv /\ [Next]_vars => Inv'
<1> SUFFICES ASSUME TypeOK, Fine(table, capacity), [Next]_vars
             PROVE  TypeOK' /\ Fine(table, capacity)'
  BY DEF Inv
<1>1. ASSUME NEW k \in Keys, Get(k)
      PROVE  TypeOK' /\ Fine(table, capacity)'
  <2>1. answer' \in Values \cup {NULL}
    <3>1. CASE ~Holds(k)
      BY <1>1, <3>1 DEF Get
    <3>2. CASE Holds(k)
      <4>1. PICK e \in Bucket(table, capacity, k) : answer' = e.value
        BY <1>1, <3>2 DEF Get
      <4>2. hash[k] % capacity \in 0..(capacity - 1)
        BY <1>1, Index DEF Get, TypeOK
      <4>3. e \in Node
        BY <4>1, <4>2 DEF Bucket, Fine
      <4> QED
        BY <4>1, <4>3 DEF Node
    <3> QED
      BY <3>1, <3>2
  <2> QED
    BY <1>1, <2>1 DEF Get, TypeOK, Fine
<1>2. ASSUME NEW k \in Keys, NEW v \in Values,
             PutFirst(k, v) \/ PutNew(k, v) \/ PutOld(k, v)
      PROVE  TypeOK' /\ Fine(table, capacity)'
  BY <1>2, PutFirstStep, PutNewStep, PutOldStep
<1>3. ASSUME UNCHANGED vars
      PROVE  TypeOK' /\ Fine(table, capacity)'
  BY <1>3 DEF vars, TypeOK, Fine
<1> QED
  BY <1>1, <1>2, <1>3 DEF Next

\* put and get always find the table well formed.
LEMMA Invariant == Spec => []Inv
BY InitIsFine, StepIsFine, PTL DEF Spec

\* Every variable of the hash table keeps its type.
THEOREM TypeCorrect == Spec => []TypeOK
<1>1. Inv => TypeOK
  BY DEF Inv
<1> QED
  BY <1>1, Invariant, PTL

\* No put and no resize ever leaves a node in a bucket where get does not look, or
\* two nodes for a name.
THEOREM AlwaysWellHashed == Spec => []WellHashed
<1>1. Inv => WellHashed
  BY FineIsWellHashed DEF Inv, Fine
<1> QED
  BY <1>1, Invariant, PTL
-----------------------------------------------------------------------------
(* The hash table implements the map. *)

\* What the map says of a name is what its node says.
ContentsAgree ==
  \A k \in Keys :
    /\ \A e \in Nodes : e.key = k => Contents[k] = e.value
    /\ (\A e \in Nodes : e.key # k) => Contents[k] = NULL

\* Contents, which looks a name up in one bucket, is given by the nodes alone.
LEMMA ContentsOfNodes == Inv => ContentsAgree
<1> SUFFICES ASSUME TypeOK, Fine(table, capacity), NEW k \in Keys
             PROVE  /\ \A e \in Nodes : e.key = k => Contents[k] = e.value
                    /\ (\A e \in Nodes : e.key # k) => Contents[k] = NULL
  BY DEF Inv, ContentsAgree
<1>1. ASSUME NEW e \in Nodes, e.key = k
      PROVE  Contents[k] = e.value
  <2>1. PICK i \in 0..(capacity - 1) : e \in table[i]
    BY DEF Nodes
  <2>2. Bucket(table, capacity, k) = table[i] /\ capacity # 0
    BY <1>1, <2>1 DEF Bucket, Fine, TypeOK
  <2>3. (CHOOSE c \in Bucket(table, capacity, k) : c.key = k) = e
    BY <1>1, <2>1, <2>2 DEF Fine
  <2>4. Holds(k)
    BY <1>1, <2>1, <2>2 DEF Holds
  <2> QED
    BY <2>3, <2>4 DEF Contents
<1>2. ASSUME \A e \in Nodes : e.key # k
      PROVE  Contents[k] = NULL
  <2>1. ~Holds(k)
    <3> SUFFICES ASSUME capacity # 0
                 PROVE  \A e \in Bucket(table, capacity, k) : e.key # k
      BY DEF Holds
    <3>1. hash[k] % capacity \in 0..(capacity - 1)
      BY Index DEF TypeOK
    <3> QED
      BY <1>2, <3>1 DEF Bucket, Nodes
  <2> QED
    BY <2>1 DEF Contents
<1> QED
  BY <1>1, <1>2

\* put changes what the map says of its name, and of no other.
LEMMA PutChangesOne ==
  ASSUME TypeOK, Nodes \subseteq Node, ContentsAgree, ContentsAgree',
         NEW k \in Keys, NEW v \in Values,
         Nodes' = {e \in Nodes : e.key # k} \cup {[key |-> k, value |-> v]}
  PROVE  Contents' = [Contents EXCEPT ![k] = v]
<1>1. PICK node : node = [key |-> k, value |-> v]
  OBVIOUS
<1>2. node \in Nodes' /\ node.key = k /\ node.value = v
  BY <1>1
<1>3. Contents'[k] = v
  BY <1>2 DEF ContentsAgree
<1>4. ASSUME NEW l \in Keys, l # k
      PROVE  Contents'[l] = Contents[l]
  <2>1. CASE \E e \in Nodes : e.key = l
    <3>1. PICK e \in Nodes : e.key = l
      BY <2>1
    <3>2. e \in Nodes'
      BY <1>4, <3>1
    <3> QED
      BY <3>1, <3>2 DEF ContentsAgree
  <2>2. CASE \A e \in Nodes : e.key # l
    <3>1. \A e \in Nodes' : e.key # l
      BY <1>1, <1>2, <1>4, <2>2
    <3> QED
      BY <2>2, <3>1 DEF ContentsAgree
  <2> QED
    BY <2>1, <2>2
<1>5. Contents = [l \in Keys |-> Contents[l]] /\ Contents' = [l \in Keys |-> Contents'[l]]
  BY DEF Contents
<1> QED
  BY <1>3, <1>4, <1>5

\* get and put do to the map what EnvMap says.
LEMMA StepImplements ==
  Inv /\ Inv' /\ ContentsAgree /\ ContentsAgree' /\ [Next]_vars => [Map!Next]_Map!vars
<1> SUFFICES ASSUME Inv, Inv', ContentsAgree, ContentsAgree', [Next]_vars
             PROVE  Map!Next \/ (Contents' = Contents /\ answer' = answer)
  BY DEF Map!vars
<1>1. TypeOK /\ Fine(table, capacity)
  BY DEF Inv
<1>2. Nodes \subseteq Node
  BY <1>1 DEF Nodes, Fine
<1>3. ASSUME NEW k \in Keys, Get(k)
      PROVE  Map!Get(k)
  <2>1. Contents' = Contents
    BY <1>3 DEF Get, Contents, Holds, Bucket
  <2>2. answer' = Contents[k]
    <3>1. CASE Holds(k)
      <4>1. PICK e \in Bucket(table, capacity, k) : e.key = k /\ answer' = e.value
        BY <1>3, <3>1 DEF Get
      <4>2. hash[k] % capacity \in 0..(capacity - 1)
        BY <1>1, <1>3, Index DEF Get, TypeOK
      <4>3. e \in Nodes
        BY <4>1, <4>2 DEF Bucket, Nodes
      <4> QED
        BY <4>1, <4>3 DEF ContentsAgree
    <3>2. CASE ~Holds(k)
      BY <1>3, <3>2 DEF Get, Contents
    <3> QED
      BY <3>1, <3>2
  <2> QED
    BY <2>1, <2>2 DEF Map!Get
<1>4. ASSUME NEW k \in Keys, NEW v \in Values,
             PutFirst(k, v) \/ PutNew(k, v) \/ PutOld(k, v)
      PROVE  Map!Put(k, v)
  <2>1. Nodes' = {e \in Nodes : e.key # k} \cup {[key |-> k, value |-> v]}
    <3>1. CASE PutFirst(k, v)
      <4>1. Nodes = {}
        BY <3>1 DEF PutFirst, Nodes
      <4> QED
        BY <1>1, <3>1, <4>1, PutFirstStep
    <3>2. CASE PutNew(k, v)
      <4>1. \A e \in Nodes : e.key # k
        BY <3>2 DEF PutNew, Nodes, Holds, Bucket, Fine, Inv
      <4> QED
        BY <1>1, <3>2, <4>1, PutNewStep
    <3>3. CASE PutOld(k, v)
      BY <1>1, <3>3, PutOldStep
    <3> QED
      BY <1>4, <3>1, <3>2, <3>3
  <2>2. Contents' = [Contents EXCEPT ![k] = v]
    BY <1>1, <1>2, <2>1, PutChangesOne
  <2>3. answer' = answer
    BY <1>4 DEF PutFirst, PutNew, PutOld
  <2> QED
    BY <2>2, <2>3 DEF Map!Put
<1>5. ASSUME UNCHANGED vars
      PROVE  Contents' = Contents /\ answer' = answer
  BY <1>5 DEF vars, Contents, Holds, Bucket
<1> QED
  BY <1>3, <1>4, <1>5 DEF Next, Map!Next

\* get always returns what was put last under its name (get_env after set_env), for
\* any hash function, and however often the table has been resized.
THEOREM TableIsMap == Spec => ImplementsMap
<1>1. Init => Map!Init
  BY DEF Init, Map!Init, Contents, Holds
<1> QED
  BY <1>1, Invariant, ContentsOfNodes, StepImplements, PTL DEF ImplementsMap, Map!Spec, Spec
-----------------------------------------------------------------------------
(* The load. *)

\* As many doublings as it takes lead from n buckets to MaximumCapacity.
Doubles(n) == \E q \in Nat \ {0} : PowerOfTwo(q) /\ MaximumCapacity = n * q

\* What put and resize keep of the load, besides LoadBounded.
Loaded ==
  /\ IsFiniteSet(Nodes)
  /\ LoadBounded
  /\ IF capacity = 0 THEN Nodes = {} /\ threshold = 0
     ELSE capacity >= InitialCapacity /\ Doubles(capacity) /\ threshold # 0

\* Half of a power of two other than 1 is one.
LEMMA HalfOfPower ==
  ASSUME NEW q \in Nat, q > 1, PowerOfTwo(q)
  PROVE  \E h \in Nat \ {0} : q = 2 * h /\ PowerOfTwo(h)
<1>1. q % 2 = 0
  <2>1. q \in 2..q /\ q % q = 0
    OBVIOUS
  <2> QED
    BY <2>1 DEF PowerOfTwo
<1>2. PICK h \in Nat : q = 2 * h
  BY <1>1
<1>3. ASSUME NEW d \in 2..h, h % d = 0
      PROVE  d % 2 = 0
  <2>1. PICK m \in Nat : h = d * m
    <3>1. h = (d * (h \div d)) + (h % d) /\ h \div d \in Nat
      OBVIOUS
    <3> QED
      BY <1>3, <3>1
  <2>2. q = d * (2 * m)
    BY <1>2, <2>1
  <2>3. q % d = 0
    BY <2>2
  <2> QED
    BY <1>2, <2>3 DEF PowerOfTwo
<1> QED
  BY <1>2, <1>3 DEF PowerOfTwo

\* A table that is not as large as it can be can be doubled.
LEMMA DoublesAgain ==
  ASSUME NEW n \in Nat, Doubles(n), n < MaximumCapacity
  PROVE  2 * n <= MaximumCapacity /\ Doubles(2 * n)
<1>1. PICK q \in Nat \ {0} : PowerOfTwo(q) /\ MaximumCapacity = n * q
  BY DEF Doubles
<1>2. q > 1
  BY <1>1
<1>3. PICK h \in Nat \ {0} : q = 2 * h /\ PowerOfTwo(h)
  BY <1>1, <1>2, HalfOfPower
<1>4. MaximumCapacity = (2 * n) * h
  BY <1>1, <1>3
<1>5. (2 * n) * h >= 2 * n
  OBVIOUS
<1> QED
  BY <1>3, <1>4, <1>5 DEF Doubles

\* Three quarters of the buckets.
LEMMA LoadOfIs ==
  ASSUME NEW n \in Nat, n >= 2
  PROVE  LoadOf(n) \in Nat /\ LoadOf(n) >= 1 /\ 4 * LoadOf(n) <= 3 * n
BY DEF LoadOf

\* The first put allocates the buckets, with a load of one node.
LEMMA PutFirstLoads ==
  ASSUME TypeOK, NEW k \in Keys, NEW v \in Values, PutFirst(k, v)
  PROVE  Loaded'
<1>1. Nodes' = {[key |-> k, value |-> v]}
  BY PutFirstStep
<1>2. IsFiniteSet(Nodes') /\ Cardinality(Nodes') = 1
  BY <1>1, FS_Singleton
<1>3. capacity' = InitialCapacity /\ size' = 1 /\ threshold' = LoadOf(InitialCapacity)
  BY DEF PutFirst
<1>4. threshold' \in Nat /\ threshold' >= 1 /\ 4 * threshold' <= 3 * InitialCapacity
  BY <1>3, LoadOfIs, CapacityAssumption
<1>5. InitialCapacity <= MaximumCapacity /\ Doubles(InitialCapacity)
  <2>1. PICK q \in 1..MaximumCapacity :
          PowerOfTwo(q) /\ MaximumCapacity = InitialCapacity * q
    BY CapacityAssumption
  <2>2. InitialCapacity * q >= InitialCapacity
    BY CapacityAssumption
  <2> QED
    BY <2>1, <2>2, CapacityAssumption DEF Doubles
<1>6. LoadBounded'
  BY <1>2, <1>3, <1>4, <1>5, UnlimitedAssumption DEF LoadBounded, Exceeds
<1> QED
  BY <1>2, <1>3, <1>4, <1>5, <1>6, CapacityAssumption DEF Loaded

\* A put of a new name grows the table when the new node is over the threshold.
LEMMA PutNewLoads ==
  ASSUME Inv, Loaded, NEW k \in Keys, NEW v \in Values, PutNew(k, v)
  PROVE  Loaded'
<1> DEFINE node == [key |-> k, value |-> v]
<1>1. Nodes' = Nodes \cup {node}
  BY PutNewStep DEF Inv
<1>2. node \notin Nodes
  BY DEF PutNew, Nodes, Holds, Bucket, Fine, Inv
<1>3. IsFiniteSet(Nodes') /\ Cardinality(Nodes') = Cardinality(Nodes) + 1
  BY <1>1, <1>2, FS_AddElement DEF Loaded
<1>4. /\ size' = size + 1 /\ size = Cardinality(Nodes)
      /\ capacity \in Nat /\ size \in Nat /\ capacity # 0
      /\ threshold = Unlimited \/ threshold \in Nat
  BY DEF PutNew, Insert, Loaded, LoadBounded, Inv, TypeOK
<1>5. /\ capacity >= InitialCapacity /\ Doubles(capacity) /\ threshold # 0
      /\ capacity <= MaximumCapacity /\ ~Exceeds(size, threshold)
      /\ threshold = Unlimited => capacity = MaximumCapacity
      /\ threshold # Unlimited => 4 * threshold <= 3 * capacity
  BY <1>4 DEF Loaded, LoadBounded
<1> USE CapacityAssumption, UnlimitedAssumption
<1> HIDE DEF node
<1>6. CASE ~Exceeds(size + 1, threshold)
  BY <1>3, <1>4, <1>5, <1>6 DEF PutNew, Insert, Loaded, LoadBounded
<1>7. CASE Exceeds(size + 1, threshold) /\ capacity >= MaximumCapacity
  <2>1. threshold' = Unlimited /\ capacity' = capacity
    BY <1>7 DEF PutNew, Insert, ResizeFrom
  <2> QED
    BY <2>1, <1>3, <1>4, <1>5, <1>7 DEF Loaded, LoadBounded, Exceeds
<1>8. CASE Exceeds(size + 1, threshold) /\ capacity < MaximumCapacity
  <2>1. /\ capacity' = 2 * capacity
        /\ threshold' = NextThreshold(capacity, 2 * capacity, threshold)
    BY <1>4, <1>8 DEF PutNew, Insert, ResizeFrom
  <2>2. 2 * capacity <= MaximumCapacity /\ Doubles(2 * capacity)
    BY <1>4, <1>5, <1>8, DoublesAgain
  <2>3. threshold \in Nat /\ threshold = size
    BY <1>4, <1>5, <1>8 DEF Exceeds
  <2>4. threshold' = IF 2 * capacity < MaximumCapacity THEN 2 * threshold ELSE Unlimited
    BY <2>1, <2>3, <1>4, <1>5 DEF NextThreshold
  <2>5. LoadBounded'
    BY <2>1, <2>2, <2>3, <2>4, <1>3, <1>4, <1>5 DEF LoadBounded, Exceeds
  <2>6. threshold' # 0
    BY <2>3, <2>4, <1>5
  <2> QED
    BY <2>1, <2>2, <2>5, <2>6, <1>3, <1>4, <1>5 DEF Loaded
<1> QED
  BY <1>4, <1>6, <1>7, <1>8

\* A value that is replaced leaves as many nodes.
LEMMA PutOldLoads ==
  ASSUME Inv, Loaded, NEW k \in Keys, NEW v \in Values, PutOld(k, v)
  PROVE  Loaded'
<1> DEFINE node == [key |-> k, value |-> v]
           rest == {e \in Nodes : e.key # k}
<1>1. Nodes' = rest \cup {node}
  BY PutOldStep DEF Inv
<1>2. PICK old \in Nodes : old.key = k
  <2>1. PICK e \in Bucket(table, capacity, k) : e.key = k
    BY DEF PutOld, Holds
  <2>2. hash[k] % capacity \in 0..(capacity - 1)
    BY Index DEF PutOld, Holds, Inv, TypeOK
  <2> QED
    BY <2>1, <2>2 DEF Bucket, Nodes
<1>3. rest = Nodes \ {old}
  BY <1>2, FineIsWellHashed DEF Inv, Fine, WellHashed
<1>4. node \notin rest /\ IsFiniteSet(Nodes)
  BY DEF Loaded
<1> HIDE DEF rest, node
<1>5. IsFiniteSet(rest) /\ Cardinality(rest) = Cardinality(Nodes) - 1
  BY <1>2, <1>3, <1>4, FS_RemoveElement
<1>6. /\ IsFiniteSet(Nodes')
      /\ Cardinality(Nodes') = Cardinality(Nodes)
  BY <1>1, <1>4, <1>5, FS_AddElement, FS_CardinalityType
<1>7. UNCHANGED << capacity, threshold, size >> /\ capacity # 0
  BY DEF PutOld, Holds
<1> QED
  BY <1>6, <1>7 DEF Loaded, LoadBounded, Exceeds

\* size counts the nodes, and the load stays within the threshold, and the threshold
\* within three quarters of the buckets, until the table cannot grow (put and resize).
THEOREM AlwaysLoadBounded == Spec => []LoadBounded
<1>1. Init => Loaded
  <2> SUFFICES ASSUME Init PROVE Loaded
    OBVIOUS
  <2>1. Nodes = {}
    BY DEF Init, Nodes
  <2> QED
    BY <2>1, FS_EmptySet, CapacityAssumption, UnlimitedAssumption
    DEF Init, Loaded, LoadBounded, Exceeds
<1>2. Inv /\ Loaded /\ [Next]_vars => Loaded'
  <2> SUFFICES ASSUME Inv, Loaded, [Next]_vars PROVE Loaded'
    OBVIOUS
  <2>1. ASSUME NEW k \in Keys, Get(k) PROVE Loaded'
    BY <2>1 DEF Get, Loaded, LoadBounded, Nodes, Exceeds, Doubles
  <2>2. ASSUME NEW k \in Keys, NEW v \in Values,
               PutFirst(k, v) \/ PutNew(k, v) \/ PutOld(k, v)
        PROVE  Loaded'
    BY <2>2, PutFirstLoads, PutNewLoads, PutOldLoads DEF Inv
  <2>3. CASE UNCHANGED vars
    BY <2>3 DEF vars, Loaded, LoadBounded, Nodes, Exceeds, Doubles
  <2> QED
    BY <2>1, <2>2, <2>3 DEF Next
<1>3. Loaded => LoadBounded
  BY DEF Loaded
<1> QED
  BY <1>1, <1>2, <1>3, Invariant, PTL DEF Spec
-----------------------------------------------------------------------------
\* What the file and the lines are: sequences of characters.
Text == Seq(Characters)

\* The newlines of a text.
LEMMA NewlinesOf ==
  ASSUME NEW text \in Text
  PROVE  /\ Len(text) \in Nat /\ DOMAIN text = 1..Len(text)
         /\ Newlines(text) \subseteq Nat /\ IsFiniteSet(Newlines(text))
         /\ \A k \in Newlines(text) : k \in 1..Len(text) /\ text[k] = "\n"
         /\ Cardinality(Newlines(text)) \in Nat
<1>1. Len(text) \in Nat /\ DOMAIN text = 1..Len(text)
  BY LenProperties DEF Text
<1>2. Newlines(text) \in SUBSET (1..Len(text)) /\ IsFiniteSet(1..Len(text))
  BY <1>1, FS_Interval DEF Newlines
<1>3. IsFiniteSet(Newlines(text)) /\ Cardinality(Newlines(text)) \in Nat
  BY <1>2, FS_Subset, FS_CardinalityType
<1>4. \A k \in Newlines(text) : k \in 1..Len(text) /\ text[k] = "\n"
  BY <1>1 DEF Newlines
<1> QED
  BY <1>1, <1>3, <1>4

\* The place of the last of them (the loop over j of read_history_file).
LEMMA LastOf ==
  ASSUME NEW text \in Text
  PROVE  /\ LastNewline(text) \in Newlines(text) \cup {0}
         /\ LastNewline(text) \in Nat /\ LastNewline(text) <= Len(text)
         /\ \A k \in Newlines(text) : k <= LastNewline(text)
<1> DEFINE T == Newlines(text) \cup {0}
<1>1. T \subseteq Nat /\ T # {} /\ Len(text) \in Nat /\ \A x \in T : x <= Len(text)
  BY NewlinesOf
<1>2. LastNewline(text) = Max(T)
  BY DEF LastNewline
<1> HIDE DEF T
<1>3. Max(T) \in T /\ \A y \in T : Max(T) >= y
  BY <1>1, GreatestOf
<1>4. LastNewline(text) \in Nat /\ \A y \in T : y \in Nat /\ y <= LastNewline(text)
  BY <1>1, <1>2, <1>3
<1> QED
  BY <1>1, <1>2, <1>3, <1>4 DEF T

\* o is where line n + 1 of the text begins: behind the newline of line n.
Begins(text, o, n) == o \in Newlines(text) \cup {0} /\ Rank(Newlines(text), o) = n

\* Line n of a text runs from its begin to the newline of that rank.
LEMMA LineIs ==
  ASSUME NEW text \in Text, NEW n \in 1..Cardinality(Newlines(text)),
         NEW o, Begins(text, o, n - 1)
  PROVE  \E e \in Newlines(text) :
           /\ Begins(text, e, n) /\ o \in Nat /\ o < e
           /\ LinesOf(text)[n] = SubSeq(text, o + 1, e - 1)
<1> DEFINE T == Newlines(text)
<1>1. T \subseteq Nat /\ IsFiniteSet(T) /\ Cardinality(T) \in Nat /\ Len(text) \in Nat
  BY NewlinesOf
<1>2. o \in Nat
  BY <1>1 DEF Begins
<1> DEFINE e == CHOOSE k \in T : Cardinality({j \in T : j <= k}) = n
<1>3. e \in T /\ Rank(T, e) = n
  <2>1. \E k \in T : Cardinality({j \in T : j <= k}) = n
    BY <1>1, RankedOnce DEF Rank
  <2> QED
    BY <2>1 DEF Rank
<1>4. LinesOf(text)[n] = SubSeq(text, LastNewline(SubSeq(text, 1, e - 1)) + 1, e - 1)
  BY DEF LinesOf
<1> HIDE DEF e
<1>5. e \in 1..Len(text) /\ e \in Nat /\ e - 1 \in Nat
  BY <1>3, NewlinesOf
<1>6. Rank(T, o) = n - 1
  BY DEF Begins
<1>7. o < e
  <2>1. ASSUME e <= o PROVE FALSE
    <3>1. Rank(T, e) <= Rank(T, o)
      BY <1>1, <1>2, <1>5, <2>1, RankGrows
    <3> QED
      BY <1>3, <1>6, <3>1
  <2> QED
    BY <1>2, <1>5, <2>1
<1>8. \A j \in T : ~(o < j /\ j < e)
  <2> SUFFICES ASSUME NEW j \in T, o < j, j < e PROVE FALSE
    OBVIOUS
  <2>1. j \in Nat
    BY <1>1
  <2>2. Rank(T, o) < Rank(T, j)
    BY <1>1, <1>2, <2>1, RankGrows
  <2>3. Rank(T, j) < Rank(T, e)
    BY <1>1, <1>3, <1>5, <2>1, RankGrows
  <2>4. Rank(T, j) \in Nat
    BY <1>1, <2>1, RankType
  <2> QED
    BY <1>3, <1>6, <2>2, <2>3, <2>4
<1>9. LastNewline(SubSeq(text, 1, e - 1)) = o
  <2> DEFINE front == SubSeq(text, 0 + 1, e - 1)
  <2>1. front \in Text /\ Len(front) = e - 1 /\ \A k \in 1..(e - 1) : front[k] = text[k]
    <3>1. 0 <= e - 1 /\ e - 1 <= Len(text)
      BY <1>1, <1>5
    <3>2. /\ front \in Seq(Characters) /\ Len(front) = e - 1 - 0
          /\ \A k \in 1..(e - 1 - 0) : front[k] = text[0 + k]
      BY <1>5, <3>1, Sliced DEF Text
    <3> HIDE DEF front
    <3> QED
      BY <1>5, <3>2 DEF Text
  <2>2. SubSeq(text, 1, e - 1) = front
    OBVIOUS
  <2> HIDE DEF front
  <2>3. \A k : k \in Newlines(front) <=> k \in T /\ k < e
    <3>1. DOMAIN front = 1..(e - 1) /\ DOMAIN text = 1..Len(text)
      BY <2>1, NewlinesOf
    <3> QED
      BY <1>5, <2>1, <3>1 DEF Newlines
  <2>4. /\ LastNewline(front) \in Newlines(front) \cup {0} /\ LastNewline(front) \in Nat
        /\ \A k \in Newlines(front) : k <= LastNewline(front)
    BY <2>1, LastOf
  <2>5. o \in Newlines(front) \cup {0}
    BY <1>7, <2>3 DEF Begins
  <2>6. LastNewline(front) <= o
    BY <1>1, <1>2, <1>8, <2>3, <2>4
  <2>7. o <= LastNewline(front)
    BY <1>2, <2>4, <2>5
  <2>8. LastNewline(front) = o
    BY <1>2, <2>4, <2>6, <2>7
  <2> QED
    BY <2>2, <2>8, Zenon
<1> QED
  BY <1>2, <1>3, <1>4, <1>7, <1>9 DEF Begins

\* A part of a text, and its newlines.
LEMMA ChunkIs ==
  ASSUME NEW text \in Text, NEW o \in Nat, NEW b \in Nat, o <= b, b <= Len(text)
  PROVE  LET part == SubSeq(text, o + 1, b) IN
           /\ part \in Text /\ Len(part) = b - o
           /\ \A x \in 1..(b - o) : part[x] = text[o + x]
           /\ \A x \in Nat : x \in Newlines(part) <=> x \in 1..(b - o) /\ o + x \in Newlines(text)
<1> DEFINE part == SubSeq(text, o + 1, b)
<1>1. part \in Text /\ Len(part) = b - o /\ \A x \in 1..(b - o) : part[x] = text[o + x]
  BY Sliced DEF Text
<1> HIDE DEF part
<1>2. DOMAIN part = 1..(b - o) /\ DOMAIN text = 1..Len(text) /\ Len(text) \in Nat
  BY <1>1, NewlinesOf
<1>3. \A x \in 1..(b - o) : o + x \in 1..Len(text)
  BY <1>2
<1>4. \A x \in Nat : x \in Newlines(part) <=> x \in 1..(b - o) /\ o + x \in Newlines(text)
  BY <1>1, <1>2, <1>3 DEF Newlines
<1> QED
  BY <1>1, <1>4 DEF part

\* Among the c places behind o, U is T counted from o.
Behind(T, U, o, c) == \A x \in 1..c : x \in U <=> o + x \in T

\* The rank there is the difference of two ranks in T.
RanksBehind(T, U, o, c) == \A x \in 0..c : Rank(U, x) = Rank(T, o + x) - Rank(T, o)

\* The rank in a part is the difference of the ranks in the whole.
LEMMA Shifted ==
  ASSUME NEW T, T \subseteq Nat, IsFiniteSet(T), NEW U, U \subseteq Nat \ {0}, IsFiniteSet(U),
         NEW o \in Nat, NEW c \in Nat, Behind(T, U, o, c)
  PROVE  RanksBehind(T, U, o, c)
<1> DEFINE G == {x \in Nat : x <= c => Rank(U, x) = Rank(T, o + x) - Rank(T, o)}
<1>0. U \subseteq Nat
  OBVIOUS
<1>1. 0 \in G
  <2>1. Rank(U, 0) = 0
    <3>1. \A j \in U : 0 < j
      OBVIOUS
    <3> QED
      BY <1>0, <3>1, RankEnds
  <2>2. Rank(T, o) \in Nat
    BY RankType
  <2>3. o + 0 = o
    OBVIOUS
  <2> QED
    BY <2>1, <2>2, <2>3
<1>2. ASSUME NEW x \in Nat, x \in G PROVE x + 1 \in G
  <2> SUFFICES ASSUME x + 1 <= c PROVE Rank(U, x + 1) = Rank(T, o + (x + 1)) - Rank(T, o)
    OBVIOUS
  <2>1. Rank(U, x) = Rank(T, o + x) - Rank(T, o)
    BY <1>2
  <2>2. PICK p \in Nat, q \in Nat, y \in Nat : p = o + x /\ q = p + 1 /\ y = x + 1
    OBVIOUS
  <2>3. y \in 1..c /\ q = o + y
    BY <2>2
  <2>4. y \in U <=> q \in T
    BY <2>3 DEF Behind
  <2>5. /\ Rank(U, x) \in Nat /\ Rank(U, y) \in Nat
        /\ y \in U => Rank(U, y) = Rank(U, x) + 1
        /\ y \notin U => Rank(U, y) = Rank(U, x)
    BY <1>0, <2>2, RankNext
  <2>6. /\ Rank(T, p) \in Nat /\ Rank(T, q) \in Nat
        /\ q \in T => Rank(T, q) = Rank(T, p) + 1
        /\ q \notin T => Rank(T, q) = Rank(T, p)
    <3>1. p \in Nat /\ q \in Nat /\ q = p + 1
      BY <2>2
    <3> QED
      BY <3>1, RankNext
  <2>7. Rank(T, o) \in Nat
    BY RankType
  <2>8. Rank(U, y) = Rank(T, q) - Rank(T, o)
    BY <2>1, <2>2, <2>4, <2>5, <2>6, <2>7
  <2> QED
    BY <2>2, <2>3, <2>8
<1> HIDE DEF G
<1>3. Nat \subseteq G
  BY <1>1, <1>2, Induction
<1> QED
  BY <1>3 DEF G, RanksBehind

\* Some place is where line n + 1 begins.
LEMMA BeginExists ==
  ASSUME NEW text \in Text, NEW n \in 0..Cardinality(Newlines(text))
  PROVE  \E o : Begins(text, o, n)
<1> DEFINE T == Newlines(text)
<1>1. T \subseteq Nat /\ IsFiniteSet(T) /\ \A k \in T : 0 < k
  BY NewlinesOf
<1> HIDE DEF T
<1>2. CASE n = 0
  BY <1>1, <1>2, RankEnds DEF Begins, T
<1>3. CASE n # 0
  <2>1. n \in 1..Cardinality(T)
    BY <1>3 DEF T
  <2>2. PICK k \in T : Rank(T, k) = n
    BY <1>1, <2>1, RankedOnce
  <2> QED
    BY <2>2 DEF Begins, T
<1> QED
  BY <1>2, <1>3

\* The lines of a text.
LEMMA LinesType ==
  ASSUME NEW text \in Text
  PROVE  LinesOf(text) \in Seq(Text) /\ Len(LinesOf(text)) = Cardinality(Newlines(text))
<1> DEFINE q == Cardinality(Newlines(text))
<1>1. q \in Nat /\ Len(text) \in Nat
  BY NewlinesOf
<1>2. ASSUME NEW n \in 1..q PROVE LinesOf(text)[n] \in Text
  <2>1. n \in 1..Cardinality(Newlines(text)) /\ n - 1 \in 0..Cardinality(Newlines(text))
    BY <1>1
  <2>2. PICK o : Begins(text, o, n - 1)
    BY <2>1, BeginExists
  <2>3. PICK e \in Newlines(text) :
          o \in Nat /\ o < e /\ LinesOf(text)[n] = SubSeq(text, o + 1, e - 1)
    BY <2>1, <2>2, LineIs
  <2>4. e - 1 \in Nat /\ o <= e - 1 /\ e - 1 <= Len(text)
    BY <1>1, <2>3, NewlinesOf
  <2> QED
    BY <2>3, <2>4, ChunkIs
<1>3. LinesOf(text) \in [1..q -> Text]
  BY <1>2 DEF LinesOf
<1> HIDE DEF q
<1>4. LinesOf(text) \in Seq(Text) /\ Len(LinesOf(text)) = q
  BY <1>1, <1>3, FunctionIsSequence
<1> QED
  BY <1>4 DEF q
-----------------------------------------------------------------------------
\* Up to its last newline, the text is still in the file.
StillHolds(f, text) ==
  /\ Len(f) >= LastNewline(text)
  /\ \A k \in 1..LastNewline(text) : f[k] = text[k]

\* The lines of the text are the first ones of the list.
Lists(h, text) ==
  \A n \in 1..Len(h) : n <= Cardinality(Newlines(text)) => h[n] = LinesOf(text)[n]

\* o is where line n + 1 begins, or behind all the lines if there is none.
At(text, o, n) ==
  /\ n < Cardinality(Newlines(text)) => Begins(text, o, n)
  /\ n >= Cardinality(Newlines(text)) => o >= LastNewline(text)

\* A file that holds the text has its newlines, up to its last one.
LEMMA HeldNewlines ==
  ASSUME NEW text \in Text, NEW f \in Text, StillHolds(f, text)
  PROVE  /\ \A k \in Nat : k <= LastNewline(text) => (k \in Newlines(f) <=> k \in Newlines(text))
         /\ \A k \in Nat : k <= LastNewline(text) =>
              Rank(Newlines(f), k) = Rank(Newlines(text), k)
<1> DEFINE N == LastNewline(text)
<1>1. N \in Nat /\ N <= Len(text) /\ N <= Len(f) /\ Len(text) \in Nat /\ Len(f) \in Nat
  BY NewlinesOf, LastOf DEF StillHolds
<1>2. ASSUME NEW k \in Nat, k <= N PROVE k \in Newlines(f) <=> k \in Newlines(text)
  <2>1. DOMAIN f = 1..Len(f) /\ DOMAIN text = 1..Len(text)
    BY NewlinesOf
  <2>2. k \in 1..N => f[k] = text[k]
    BY DEF StillHolds
  <2> QED
    BY <1>1, <1>2, <2>1, <2>2 DEF Newlines
<1>3. ASSUME NEW k \in Nat, k <= N PROVE Rank(Newlines(f), k) = Rank(Newlines(text), k)
  <2>1. {j \in Newlines(f) : j <= k} = {j \in Newlines(text) : j <= k}
    <3>1. \A j \in Nat : j <= k => (j \in Newlines(f) <=> j \in Newlines(text))
      BY <1>1, <1>2, <1>3
    <3>2. \A j : j \in Newlines(f) \/ j \in Newlines(text) => j \in Nat
      BY NewlinesOf
    <3> QED
      BY <3>1, <3>2
  <2> QED
    BY <2>1 DEF Rank
<1> QED
  BY <1>2, <1>3

\* The last newline ends the last line.
LEMMA LastRank ==
  ASSUME NEW text \in Text
  PROVE  Rank(Newlines(text), LastNewline(text)) = Cardinality(Newlines(text))
<1>1. Newlines(text) \subseteq Nat /\ IsFiniteSet(Newlines(text))
  BY NewlinesOf
<1>2. LastNewline(text) \in Nat /\ \A k \in Newlines(text) : k <= LastNewline(text)
  BY LastOf
<1> QED
  BY <1>1, <1>2, RankEnds

\* A place whose rank is that of a line of the text lies in the text.
LEMMA Before ==
  ASSUME NEW text \in Text, NEW f \in Text, StillHolds(f, text), NEW k \in Nat,
         Rank(Newlines(f), k) < Cardinality(Newlines(text))
  PROVE  k < LastNewline(text) /\ Rank(Newlines(text), k) = Rank(Newlines(f), k)
<1>1. LastNewline(text) \in Nat
  BY LastOf
<1>2. Rank(Newlines(f), LastNewline(text)) = Cardinality(Newlines(text))
  BY <1>1, HeldNewlines, LastRank
<1>3. ASSUME LastNewline(text) <= k PROVE FALSE
  <2>1. Newlines(f) \subseteq Nat /\ IsFiniteSet(Newlines(f))
    BY NewlinesOf
  <2>2. Rank(Newlines(f), LastNewline(text)) <= Rank(Newlines(f), k)
    BY <1>1, <1>3, <2>1, RankGrows
  <2>3. Rank(Newlines(f), k) \in Nat /\ Cardinality(Newlines(text)) \in Nat
    BY <2>1, RankType, NewlinesOf
  <2> QED
    BY <1>2, <2>2, <2>3
<1>4. k < LastNewline(text)
  BY <1>1, <1>3
<1> QED
  BY <1>1, <1>4, HeldNewlines

\* A line of a block is a line of the text: the one that follows those listed.
LEMMA BlockLine ==
  ASSUME NEW text \in Text, NEW f \in Text, StillHolds(f, text),
         NEW o \in Nat, NEW b \in Nat, o <= b, b <= Len(f), NEW m \in Nat, Begins(text, o, m),
         NEW i \in 1..Cardinality(Newlines(SubSeq(f, o + 1, b))),
         m + i <= Cardinality(Newlines(text))
  PROVE  LinesOf(SubSeq(f, o + 1, b))[i] = LinesOf(text)[m + i]
<1> DEFINE part == SubSeq(f, o + 1, b)
           T == Newlines(f)
           U == Newlines(part)
           N == LastNewline(text)
<1>1. /\ part \in Text /\ Len(part) = b - o
      /\ \A x \in 1..(b - o) : part[x] = f[o + x]
      /\ \A x \in Nat : x \in U <=> x \in 1..(b - o) /\ o + x \in T
  BY ChunkIs
<1>2. i \in 1..Cardinality(U)
  OBVIOUS
<1>3. part = SubSeq(f, o + 1, b)
  OBVIOUS
<1> HIDE DEF part
<1>4. /\ T \subseteq Nat /\ IsFiniteSet(T) /\ IsFiniteSet(U) /\ Cardinality(U) \in Nat
      /\ U \subseteq Nat \ {0} /\ \A k \in U : k \in 1..(b - o)
  <2>1. /\ IsFiniteSet(U) /\ Cardinality(U) \in Nat
        /\ \A k \in U : k \in 1..(b - o)
    BY <1>1, NewlinesOf
  <2>2. T \subseteq Nat /\ IsFiniteSet(T)
    BY NewlinesOf
  <2>3. \A k \in U : k \in Nat \ {0}
    BY <2>1
  <2> QED
    BY <2>1, <2>2, <2>3
<1>5. b - o \in Nat /\ \A x \in 1..(b - o) : x \in U <=> o + x \in T
  BY <1>1
<1>6. \A x \in 0..(b - o) : Rank(U, x) = Rank(T, o + x) - Rank(T, o)
  <2> DEFINE c == b - o
  <2>1. c \in Nat /\ Behind(T, U, o, c)
    BY <1>5 DEF Behind
  <2> HIDE DEF T, U, c
  <2>2. RanksBehind(T, U, o, c)
    <3>1. T \subseteq Nat /\ IsFiniteSet(T) /\ U \subseteq Nat \ {0} /\ IsFiniteSet(U)
      BY <1>4
    <3> QED
      BY <2>1, <3>1, Shifted
  <2> QED
    BY <2>2 DEF c, RanksBehind
<1>7. N \in Nat /\ N <= Len(text) /\ N <= Len(f) /\ Len(f) \in Nat /\ o <= N
      /\ \A k \in Newlines(text) : k \in Nat /\ k <= N
  BY NewlinesOf, LastOf DEF StillHolds, Begins
<1>8. Rank(T, o) = m
  BY <1>7, HeldNewlines DEF Begins
<1>9. PICK s : Begins(part, s, i - 1)
  <2>1. i - 1 \in 0..Cardinality(U)
    BY <1>2, <1>4
  <2> QED
    BY <1>1, <2>1, BeginExists
<1>10. PICK e \in U : Begins(part, e, i) /\ s \in Nat /\ s < e
                      /\ LinesOf(part)[i] = SubSeq(part, s + 1, e - 1)
  <2>1. part \in Text /\ i \in 1..Cardinality(Newlines(part)) /\ Begins(part, s, i - 1)
    BY <1>1, <1>2, <1>9
  <2> QED
    BY <2>1, LineIs
<1>11. e \in 1..(b - o) /\ s \in 0..(b - o) /\ o + e \in Nat /\ o + s \in Nat
  BY <1>4, <1>10
<1>12. Rank(T, o + e) = m + i /\ Rank(T, o + s) = m + i - 1
  <2>1. Rank(U, e) = i /\ Rank(U, s) = i - 1
    BY <1>9, <1>10 DEF Begins
  <2>2. Rank(U, e) = Rank(T, o + e) - m /\ Rank(U, s) = Rank(T, o + s) - m
    <3>1. e \in 0..(b - o)
      BY <1>11
    <3> QED
      BY <1>6, <1>8, <1>11, <3>1
  <2>3. Rank(T, o + e) \in Nat /\ Rank(T, o + s) \in Nat
    BY <1>4, <1>11, RankType
  <2> QED
    BY <2>1, <2>2, <2>3
<1>13. o + s < N /\ Rank(Newlines(text), o + s) = m + i - 1
  BY <1>11, <1>12, Before, NewlinesOf
<1>14. o + s \in Newlines(text) \cup {0}
  <2>1. CASE s = 0
    BY <2>1 DEF Begins
  <2>2. CASE s # 0
    <3>1. s \in U
      BY <1>9, <2>2 DEF Begins
    <3>2. o + s \in T
      BY <1>1, <1>10, <3>1
    <3> QED
      BY <1>7, <1>11, <1>13, <3>2, HeldNewlines
  <2> QED
    BY <2>1, <2>2
<1>15. Begins(text, o + s, m + i - 1)
  BY <1>13, <1>14 DEF Begins
<1>16. m + i \in 1..Cardinality(Newlines(text))
  BY NewlinesOf
<1>17. PICK d \in Newlines(text) : Begins(text, d, m + i) /\ o + s < d
                     /\ LinesOf(text)[m + i] = SubSeq(text, o + s + 1, d - 1)
  <2>1. Begins(text, o + s, (m + i) - 1)
    BY <1>15
  <2> QED
    BY <1>16, <2>1, LineIs, Zenon
<1>18. d \in Nat /\ d <= N /\ d \in T /\ Rank(T, d) = m + i
  BY <1>7, <1>17, HeldNewlines DEF Begins
<1>19. d = o + e
  <2>1. o + e \in T
    BY <1>1, <1>10, <1>11
  <2> QED
    BY <1>4, <1>12, <1>18, <2>1, RankTells
<1>20. SubSeq(part, s + 1, e - 1) = SubSeq(text, o + s + 1, d - 1)
  <2> DEFINE left == SubSeq(part, s + 1, e - 1)
             right == SubSeq(text, o + s + 1, d - 1)
  <2>1. e - 1 \in Nat /\ s <= e - 1 /\ e - 1 <= Len(part)
    BY <1>1, <1>10, <1>11
  <2>2. /\ left \in Text /\ Len(left) = e - 1 - s
        /\ \A x \in 1..(e - 1 - s) : left[x] = part[s + x]
    <3> DEFINE y == e - 1
    <3>1. y \in Nat /\ s \in Nat /\ s <= y /\ y <= Len(part) /\ left = SubSeq(part, s + 1, y)
      BY <1>10, <2>1
    <3> HIDE DEF left, y
    <3>2. left \in Text /\ Len(left) = y - s /\ \A x \in 1..(y - s) : left[x] = part[s + x]
      <4>1. part \in Text
        BY <1>1
      <4> QED
        BY <3>1, <4>1, ChunkIs
    <3> QED
      BY <3>2 DEF y
  <2>3. d - 1 \in Nat /\ o + s <= d - 1 /\ d - 1 <= Len(text) /\ Len(text) \in Nat
    BY <1>7, <1>10, <1>11, <1>17, <1>18, NewlinesOf
  <2>4. /\ right \in Text /\ Len(right) = d - 1 - (o + s)
        /\ \A x \in 1..(d - 1 - (o + s)) : right[x] = text[o + s + x]
    <3> DEFINE y == d - 1
               z == o + s
    <3>1. /\ y \in Nat /\ z \in Nat /\ z <= y /\ y <= Len(text)
          /\ right = SubSeq(text, z + 1, y)
      BY <1>11, <2>3
    <3> HIDE DEF right, y, z
    <3>2. right \in Text /\ Len(right) = y - z /\ \A x \in 1..(y - z) : right[x] = text[z + x]
      BY <3>1, ChunkIs
    <3> QED
      BY <3>2 DEF y, z
  <2> HIDE DEF left, right
  <2>5. d - 1 - (o + s) = e - 1 - s
    BY <1>10, <1>11, <1>19
  <2>6. ASSUME NEW x \in 1..(e - 1 - s) PROVE left[x] = right[x]
    <3>1. s + x \in 1..(b - o) /\ o + (s + x) = o + s + x /\ o + s + x \in 1..N
      <4>1. s \in Nat /\ e \in Nat /\ x \in Nat /\ N \in Nat
        BY <1>7, <1>10, <1>11
      <4>2. 1 <= x /\ x <= e - 1 - s /\ e <= b - o /\ o + e <= N
        BY <1>11, <1>18, <1>19
      <4> QED
        BY <4>1, <4>2
    <3>2. part[s + x] = f[o + s + x]
      BY <1>1, <3>1
    <3>3. f[o + s + x] = text[o + s + x]
      BY <3>1 DEF StillHolds
    <3> QED
      BY <2>2, <2>4, <2>5, <3>2, <3>3
  <2>7. left = right
    BY <2>2, <2>4, <2>5, <2>6, SeqEqual DEF Text
  <2> QED
    BY <2>7 DEF left, right
<1> QED
  BY <1>3, <1>10, <1>17, <1>20

\* Where a block ends, the next line of the text begins, or the text is over: unless
\* the block ends within a line and is not the last (read_history_file).
LEMMA BlockEnd ==
  ASSUME NEW text \in Text, NEW f \in Text, StillHolds(f, text),
         NEW o \in Nat, NEW b \in Nat, o <= b, b <= Len(f), NEW m \in Nat, At(text, o, m),
         b = Len(f) \/ (b > 0 /\ f[b] = "\n")
  PROVE  At(text, b, m + Cardinality(Newlines(SubSeq(f, o + 1, b))))
<1> DEFINE part == SubSeq(f, o + 1, b)
           T == Newlines(f)
           U == Newlines(part)
           q == Cardinality(U)
           N == LastNewline(text)
           w == Cardinality(Newlines(text))
<1>1. /\ part \in Text /\ Len(part) = b - o
      /\ \A x \in Nat : x \in U <=> x \in 1..(b - o) /\ o + x \in T
  BY ChunkIs
<1>2. At(text, b, m + q) => At(text, b, m + Cardinality(Newlines(SubSeq(f, o + 1, b))))
  OBVIOUS
<1> HIDE DEF part
<1>3. /\ T \subseteq Nat /\ IsFiniteSet(T) /\ IsFiniteSet(U) /\ q \in Nat /\ w \in Nat
      /\ \A k \in U : k \in 1..(b - o)
  BY <1>1, NewlinesOf
<1>4. N \in Nat /\ N <= Len(f) /\ Len(f) \in Nat
  BY NewlinesOf, LastOf DEF StillHolds
<1>5. CASE m >= w
  <2>1. o >= N /\ m + q >= w /\ ~(m + q < w)
    BY <1>3, <1>5 DEF At
  <2>2. b >= N
    BY <1>4, <2>1
  <2> QED
    BY <1>2, <2>1, <2>2 DEF At
<1>6. CASE m < w
  <2>1. Begins(text, o, m)
    BY <1>6 DEF At
  <2>2. o <= N
    BY <1>4, <2>1, LastOf, NewlinesOf DEF Begins
  <2>3. Rank(T, o) = m
    BY <2>1, <2>2, HeldNewlines DEF Begins
  <2>4. Rank(T, b) = m + q
    <3> DEFINE c == b - o
    <3>1. c \in Nat /\ c \in 0..c /\ o + c = b /\ \A x \in 1..c : x \in U <=> o + x \in T
      BY <1>1
    <3>2. U \subseteq Nat \ {0} /\ \A k \in U : k <= c
      <4>1. \A k \in U : k \in Nat \ {0} /\ k <= c
        BY <1>3
      <4> QED
        BY <4>1
    <3> HIDE DEF T, U, c
    <3>3. RanksBehind(T, U, o, c)
      <4>1. Behind(T, U, o, c)
        BY <3>1 DEF Behind
      <4> QED
        BY <1>3, <3>1, <3>2, <4>1, Shifted
    <3>4. Rank(U, c) = q
      <4>1. U \subseteq Nat
        BY <3>2
      <4> QED
        BY <1>3, <3>1, <3>2, <4>1, RankEnds
    <3>5. Rank(U, c) = Rank(T, o + c) - Rank(T, o)
      BY <3>1, <3>3 DEF RanksBehind
    <3>6. Rank(T, b) \in Nat
      BY <1>3, RankType
    <3> QED
      BY <1>3, <2>3, <3>1, <3>4, <3>5, <3>6
  <2>5. CASE m + q < w
    <3>1. b < N /\ Rank(Newlines(text), b) = m + q
      BY <2>4, <2>5, Before
    <3>2. b > 0 /\ f[b] = "\n"
      BY <1>4, <3>1
    <3>3. b \in T
      BY <3>2, NewlinesOf DEF Newlines
    <3>4. b \in Newlines(text)
      <4>1. \A k \in Nat : k <= N => (k \in T <=> k \in Newlines(text))
        BY HeldNewlines
      <4>2. b <= N
        BY <1>4, <3>1
      <4> HIDE DEF T, N
      <4> QED
        BY <3>3, <4>1, <4>2
    <3>5. Begins(text, b, m + q)
      BY <3>1, <3>4 DEF Begins
    <3> QED
      BY <1>2, <1>3, <2>5, <3>5 DEF At
  <2>6. CASE m + q >= w
    <3>1. ASSUME b < N PROVE FALSE
      <4>1. Rank(T, N) = w
        BY <1>4, HeldNewlines, LastRank
      <4>2. N \in T
        <5>1. N \in Newlines(text)
          BY <1>4, <3>1, LastOf
        <5> QED
          BY <1>4, <5>1, HeldNewlines
      <4>3. Rank(T, b) < Rank(T, N)
        <5>1. b <= N /\ b # N
          BY <1>4, <3>1
        <5> QED
          BY <1>3, <1>4, <4>2, <5>1, RankGrows
      <4> QED
        BY <1>3, <2>4, <2>6, <4>1, <4>3
    <3>2. b >= N
      BY <1>4, <3>1
    <3> QED
      BY <1>2, <1>3, <2>6, <3>2 DEF At
  <2> QED
    BY <1>3, <2>5, <2>6
<1> QED
  BY <1>3, <1>5, <1>6

\* The lines of a block go behind those listed, and are those that follow in the text.
LEMMA BlockLists ==
  ASSUME NEW text \in Text, NEW f \in Text, StillHolds(f, text), NEW h \in Seq(Text), Lists(h, text),
         NEW o \in Nat, NEW b \in Nat, o <= b, b <= Len(f), At(text, o, Len(h))
  PROVE  LET lines == LinesOf(SubSeq(f, o + 1, b)) IN
           /\ h \o lines \in Seq(Text)
           /\ Len(h \o lines) = Len(h) + Cardinality(Newlines(SubSeq(f, o + 1, b)))
           /\ Lists(h \o lines, text)
<1> DEFINE part == SubSeq(f, o + 1, b)
           lines == LinesOf(part)
           longer == h \o lines
           w == Cardinality(Newlines(text))
<1>1. part \in Text /\ lines \in Seq(Text) /\ Len(lines) = Cardinality(Newlines(part))
  <2>1. part \in Text
    BY ChunkIs
  <2> HIDE DEF part
  <2> QED
    BY <2>1, LinesType
<1>2. ASSUME NEW i \in 1..Len(lines), Len(h) + i <= w
      PROVE  lines[i] = LinesOf(text)[Len(h) + i]
  <2>1. Len(h) \in Nat /\ w \in Nat /\ i \in Nat /\ i >= 1
    BY LenProperties, NewlinesOf
  <2>2. Begins(text, o, Len(h))
    BY <1>2, <2>1 DEF At
  <2> QED
    BY <1>1, <1>2, <2>1, <2>2, BlockLine
<1>3. Len(h) \in Nat /\ Len(lines) \in Nat
  BY <1>1, LenProperties
<1> HIDE DEF lines
<1>4. longer \in Seq(Text) /\ IsJoined(h, lines, longer)
  BY <1>1, Joined
<1> HIDE DEF longer
<1>5. Lists(longer, text)
  <2> SUFFICES ASSUME NEW n \in 1..Len(longer), n <= w PROVE longer[n] = LinesOf(text)[n]
    BY DEF Lists
  <2>1. CASE n <= Len(h)
    <3>1. n \in 1..Len(h)
      BY <1>3, <2>1
    <3> QED
      BY <1>4, <3>1 DEF IsJoined, Lists
  <2>2. CASE n > Len(h)
    <3>1. PICK i \in 1..Len(lines) : n = Len(h) + i
      <4>1. n - Len(h) \in 1..Len(lines)
        BY <1>3, <1>4, <2>2 DEF IsJoined
      <4>2. n = Len(h) + (n - Len(h))
        BY <1>3
      <4> QED
        BY <4>1, <4>2
    <3>2. longer[n] = lines[i]
      BY <1>4, <3>1 DEF IsJoined
    <3> QED
      BY <1>2, <3>1, <3>2
  <2> QED
    BY <1>3, <2>1, <2>2
<1>6. Len(longer) = Len(h) + Len(lines)
  BY <1>4 DEF IsJoined
<1> QED
  BY <1>1, <1>4, <1>5, <1>6, Zenon DEF longer, lines
-----------------------------------------------------------------------------
\* What a write leaves in the file.
Overwritten(f, o, t) ==
  [k \in 1..Max({Len(f), o + Len(t)}) |-> IF k \in o + 1..o + Len(t) THEN t[k - o] ELSE f[k]]

\* It is a text, no shorter, and the same outside the characters that were written.
LEMMA OverwrittenIs ==
  ASSUME NEW f \in Text, NEW t \in Text, NEW o \in Nat, o <= Len(f)
  PROVE  /\ Overwritten(f, o, t) \in Text
         /\ Len(Overwritten(f, o, t)) >= Len(f) /\ Len(Overwritten(f, o, t)) >= o + Len(t)
         /\ Len(Overwritten(f, o, t)) \in Nat
         /\ \A k \in 1..Len(f) : Overwritten(f, o, t)[k] =
                                   IF k \in o + 1..o + Len(t) THEN t[k - o] ELSE f[k]
<1> DEFINE m == Max({Len(f), o + Len(t)})
           new == Overwritten(f, o, t)
<1>1. /\ Len(f) \in Nat /\ Len(t) \in Nat /\ \A k \in 1..Len(f) : f[k] \in Characters
      /\ \A k \in 1..Len(t) : t[k] \in Characters
  BY LenProperties, ElementOfSeq DEF Text
<1>2. m \in Nat /\ m >= Len(f) /\ m >= o + Len(t) /\ (m = Len(f) \/ m = o + Len(t))
  <2> DEFINE T == {Len(f), o + Len(t)}
  <2>1. T \subseteq Nat /\ T # {} /\ Len(f) + o + Len(t) \in Nat
        /\ \A x \in T : x <= Len(f) + o + Len(t)
    BY <1>1
  <2> HIDE DEF T
  <2>2. Max(T) \in T /\ \A y \in T : Max(T) >= y
    BY <2>1, GreatestOf
  <2> QED
    BY <1>1, <2>2 DEF T
<1> HIDE DEF m
<1>3. ASSUME NEW k \in 1..m
      PROVE  (IF k \in o + 1..o + Len(t) THEN t[k - o] ELSE f[k]) \in Characters
  <2>1. CASE k \in o + 1..o + Len(t)
    <3>1. k - o \in 1..Len(t)
      BY <1>1, <2>1
    <3> QED
      BY <1>1, <2>1, <3>1
  <2>2. CASE k \notin o + 1..o + Len(t)
    <3>1. k \in 1..Len(f)
      BY <1>1, <1>2, <2>2
    <3> QED
      BY <1>1, <2>2, <3>1
  <2> QED
    BY <2>1, <2>2
<1>4. new = [k \in 1..m |-> IF k \in o + 1..o + Len(t) THEN t[k - o] ELSE f[k]]
  BY DEF Overwritten, m
<1> HIDE DEF new
<1>5. new \in [1..m -> Characters]
  BY <1>3, <1>4
<1>6. new \in Text /\ Len(new) = m
  BY <1>2, <1>5, FunctionIsSequence DEF Text
<1>7. \A k \in 1..Len(f) : new[k] = IF k \in o + 1..o + Len(t) THEN t[k - o] ELSE f[k]
  BY <1>1, <1>2, <1>4
<1> QED
  BY <1>2, <1>6, <1>7 DEF new

\* If the characters written are those of the text, it still holds the text.
LEMMA OverwrittenHolds ==
  ASSUME NEW text \in Text, NEW f \in Text, StillHolds(f, text),
         NEW t \in Text, NEW o \in Nat, o <= Len(f),
         \A x \in 1..Len(t) : o + x <= LastNewline(text) => t[x] = text[o + x]
  PROVE  StillHolds(Overwritten(f, o, t), text)
<1> DEFINE N == LastNewline(text)
<1>1. N \in Nat /\ N <= Len(f) /\ Len(f) \in Nat /\ Len(t) \in Nat
  BY NewlinesOf, LastOf DEF StillHolds
<1>2. ASSUME NEW k \in 1..N PROVE Overwritten(f, o, t)[k] = text[k]
  <2>1. k \in 1..Len(f)
    BY <1>1
  <2>2. Overwritten(f, o, t)[k] = IF k \in o + 1..o + Len(t) THEN t[k - o] ELSE f[k]
    BY <2>1, OverwrittenIs
  <2>3. CASE k \in o + 1..o + Len(t)
    <3>1. k - o \in 1..Len(t) /\ o + (k - o) = k /\ k <= N
      BY <1>1, <2>3
    <3>2. t[k - o] = text[k]
      BY <3>1
    <3> QED
      BY <2>2, <2>3, <3>2
  <2>4. CASE k \notin o + 1..o + Len(t)
    BY <2>2, <2>4 DEF StillHolds
  <2> QED
    BY <2>3, <2>4
<1>3. Len(Overwritten(f, o, t)) >= N
  BY <1>1, OverwrittenIs
<1> QED
  BY <1>2, <1>3 DEF StillHolds
-----------------------------------------------------------------------------
\* The types, and an offset that never passes the end of the file.
HistoryType ==
  /\ file \in Text /\ found \in Text
  /\ pc \in [Shells -> {"off", "reading", "prompt", "text", "newline"}]
  /\ offset \in [Shells -> Nat]
  /\ history \in [Shells -> Seq(Text)]
  /\ next \in [Shells -> Nat \ {0}]
  /\ \A s \in Shells : offset[s] <= Len(file)

\* The shells start as the types say.
LEMMA HistoryTypeInit == HistoryInit => HistoryType
<1> SUFFICES ASSUME HistoryInit PROVE HistoryType
  OBVIOUS
<1>1. file \in Text /\ found \in Text
  BY FilesAssumption DEF HistoryInit, Text
<1>2. << >> \in Seq(Text) /\ Len(file) \in Nat
  BY <1>1, LenProperties DEF Text
<1> QED
  BY <1>1, <1>2 DEF HistoryInit, HistoryType

\* What a shell reads: at most a block, from its offset (read).
LEMMA ChunkOf ==
  ASSUME HistoryType, NEW s \in Shells
  PROVE  \E b \in Nat :
           /\ offset[s] <= b /\ b <= Len(file) /\ b <= offset[s] + Block
           /\ b = offset[s] + Block \/ b = Len(file)
           /\ Chunk(s) = SubSeq(file, offset[s] + 1, b)
           /\ Chunk(s) \in Text /\ Len(Chunk(s)) = b - offset[s]
           /\ Chunk(s) # << >> => Last(Chunk(s)) = file[b] /\ offset[s] < b
           /\ Chunk(s) = << >> => offset[s] = Len(file)
<1> DEFINE T == {offset[s] + Block, Len(file)}
           o == offset[s]
           b == Min(T)
           part == SubSeq(file, o + 1, b)
<1>1. o \in Nat /\ Len(file) \in Nat /\ Block \in Nat /\ Block > 0 /\ o <= Len(file)
  BY BlockAssumption, LenProperties DEF HistoryType, Text
<1>2. b \in Nat /\ b <= Len(file) /\ b <= o + Block /\ (b = o + Block \/ b = Len(file)) /\ o <= b
  <2>1. T \subseteq Nat /\ T # {}
    BY <1>1
  <2>2. Min(T) \in T /\ \A y \in T : Min(T) <= y
    <3> HIDE DEF T
    <3> QED
      BY <2>1, LeastOf
  <2> QED
    BY <1>1, <2>2
<1>3. Chunk(s) = part
  BY DEF Chunk
<1> HIDE DEF b
<1>4. /\ part \in Text /\ Len(part) = b - o
      /\ \A x \in 1..(b - o) : part[x] = file[o + x]
  <2>1. file \in Text
    BY DEF HistoryType
  <2>2. part = SubSeq(file, o + 1, b)
    OBVIOUS
  <2> HIDE DEF o, part
  <2> QED
    BY <1>1, <1>2, <2>1, <2>2, ChunkIs
<1> HIDE DEF part
<1>5. ASSUME part # << >> PROVE Last(part) = file[b] /\ o < b
  <2>1. Len(part) # 0
    BY <1>4, <1>5, EmptySeq DEF Text
  <2>2. b - o \in 1..(b - o) /\ o + (b - o) = b /\ o < b
    BY <1>1, <1>2, <1>4, <2>1
  <2> QED
    BY <1>4, <2>2 DEF Last
<1>6. ASSUME part = << >> PROVE o = Len(file)
  <2>1. Len(part) = 0
    BY <1>6
  <2> QED
    BY <1>1, <1>2, <1>4, <2>1
<1> QED
  BY <1>2, <1>3, <1>4, <1>5, <1>6 DEF part

\* Wherever a shell goes back to, it stays in the file (lseek).
LEMMA BehindInFile ==
  ASSUME HistoryType, NEW s \in Shells
  PROVE  OffsetBehind(s) \in Nat /\ OffsetBehind(s) <= Len(file)
<1>1. PICK b \in Nat :
        /\ offset[s] <= b /\ b <= Len(file)
        /\ Chunk(s) \in Text /\ Len(Chunk(s)) = b - offset[s]
  BY ChunkOf
<1>2. /\ offset[s] \in Nat /\ Len(file) \in Nat /\ Block \in Nat
      /\ LastNewline(Chunk(s)) \in Nat /\ LastNewline(Chunk(s)) <= Len(Chunk(s))
  BY <1>1, BlockAssumption, NewlinesOf, LastOf DEF HistoryType
<1>3. CASE Straddles(s)
  <2>1. OffsetBehind(s) = Len(file) - (Block - LastNewline(Chunk(s)))
    BY <1>3 DEF OffsetBehind
  <2>2. Len(Chunk(s)) = Block
    BY <1>3 DEF Straddles
  <2> QED
    BY <1>1, <1>2, <2>1, <2>2
<1>4. CASE ~Straddles(s)
  <2>1. OffsetBehind(s) = offset[s] + Len(Chunk(s))
    BY <1>4 DEF OffsetBehind
  <2> QED
    BY <1>1, <1>2, <2>1
<1> QED
  BY <1>3, <1>4

\* A write that succeeds leaves a text, and the offset in it.
LEMMA WriteType ==
  ASSUME HistoryType, NEW s \in Shells, NEW t \in Text, Write(s, t)
  PROVE  /\ file' \in Text /\ offset' \in [Shells -> Nat]
         /\ \A r \in Shells : offset'[r] <= Len(file')
         /\ found' = found
<1>1. /\ file \in Text /\ offset[s] \in Nat /\ offset[s] <= Len(file) /\ Len(file) \in Nat
      /\ Len(t) \in Nat
  BY NewlinesOf DEF HistoryType
<1>2. CASE file' = Overwritten(file, offset[s], t) /\ offset' = [offset EXCEPT ![s] = @ + Len(t)]
           /\ UNCHANGED counters
  <2>1. /\ file' \in Text /\ Len(file') >= Len(file) /\ Len(file') >= offset[s] + Len(t)
        /\ Len(file') \in Nat
    BY <1>1, <1>2, OverwrittenIs
  <2>2. offset' \in [Shells -> Nat]
    BY <1>1, <1>2 DEF HistoryType
  <2>3. ASSUME NEW r \in Shells PROVE offset'[r] <= Len(file')
    <3>1. offset[r] \in Nat /\ offset[r] <= Len(file)
      BY DEF HistoryType
    <3>2. r # s => offset'[r] = offset[r]
      BY <1>2 DEF HistoryType
    <3>3. offset'[s] = offset[s] + Len(t)
      BY <1>2 DEF HistoryType
    <3> QED
      BY <1>1, <2>1, <3>1, <3>2, <3>3
  <2> QED
    BY <1>2, <2>1, <2>2, <2>3 DEF counters
<1>3. CASE UNCHANGED << file, offset, found, entered, started, sought >>
  BY <1>3 DEF HistoryType
<1> QED
  BY <1>2, <1>3 DEF Write, Overwritten

\* The newline that ends a line.
LEMMA NewlineText == << "\n" >> \in Text /\ Len(<< "\n" >>) = 1 /\ << "\n" >>[1] = "\n"
<1>1. ASSUME NEW S, NEW e \in S PROVE << e >> \in Seq(S) /\ Len(<< e >>) = 1 /\ << e >>[1] = e
  OBVIOUS
<1>2. "\n" \in Characters
  BY CharactersAssumption
<1> QED
  BY <1>1, <1>2 DEF Text

\* A shell that is over.
LEMMA GoneType ==
  ASSUME HistoryType, NEW s \in Shells, Gone(s), file' = file, found' = found
  PROVE  HistoryType'
<1>1. << >> \in Seq(Text) /\ Len(file) \in Nat
  BY NewlinesOf DEF HistoryType
<1>2. /\ pc' \in [Shells -> {"off", "reading", "prompt", "text", "newline"}]
      /\ offset' \in [Shells -> Nat] /\ history' \in [Shells -> Seq(Text)]
      /\ next' \in [Shells -> Nat \ {0}]
  BY <1>1 DEF Gone, HistoryType
<1>3. \A r \in Shells : offset'[r] <= Len(file)
  BY <1>1 DEF Gone, HistoryType
<1> QED
  BY <1>2, <1>3 DEF HistoryType

\* A block is read to lines, and the offset stays within the file, where it goes back
\* as well (read_history_file).
LEMMA ReadBlockType ==
  ASSUME HistoryType, NEW s \in Shells, ReadBlock(s)
  PROVE  HistoryType'
<1>1. OffsetBehind(s) \in Nat /\ OffsetBehind(s) <= Len(file)
  BY BehindInFile
<1>2. history[s] \o LinesOf(Chunk(s)) \in Seq(Text)
  <2>1. Chunk(s) \in Text
    BY ChunkOf
  <2>2. LinesOf(Chunk(s)) \in Seq(Text) /\ history[s] \in Seq(Text)
    BY <2>1, LinesType DEF HistoryType
  <2> QED
    BY <2>2, Joined
<1>3. offset' = [offset EXCEPT ![s] = OffsetBehind(s)]
      /\ history' = [history EXCEPT ![s] = history[s] \o LinesOf(Chunk(s))]
      /\ file' = file /\ found' = found /\ pc' = pc /\ next' = next
  BY DEF ReadBlock
<1> QED
  BY <1>1, <1>2, <1>3 DEF HistoryType

\* Every call leaves texts in the file and the lists, and offsets within the file.
LEMMA HistoryTypeStep ==
  ASSUME HistoryType, [HistoryNext]_historyVars
  PROVE  HistoryType'
<1>1. CASE UNCHANGED historyVars
  BY <1>1 DEF historyVars, counters, HistoryType
<1>2. ASSUME NEW s \in Shells, Start(s) PROVE HistoryType'
  BY <1>2 DEF Start, HistoryType
<1>3. ASSUME NEW s \in Shells, EndOfFile(s) PROVE HistoryType'
  <2>1. Len(file) \in Nat
    BY NewlinesOf DEF HistoryType
  <2> QED
    BY <1>3, <2>1 DEF EndOfFile, counters, HistoryType
<1>4. ASSUME NEW s \in Shells, history_add_entry(s) PROVE HistoryType'
  <2>1. PICK l \in Lines : history' = [history EXCEPT ![s] = Append(history[s], l)]
    BY <1>4 DEF history_add_entry
  <2>2. Append(history[s], l) \in Seq(Text)
    BY LinesAssumption DEF HistoryType, Text
  <2> QED
    BY <1>4, <2>1, <2>2 DEF history_add_entry, HistoryType
<1>5. ASSUME NEW s \in Shells, OpenToSave(s) PROVE HistoryType'
  BY <1>5 DEF OpenToSave, counters, HistoryType
<1>6. ASSUME NEW s \in Shells, WriteLine(s) PROVE HistoryType'
  <2>1. history[s][next[s]] \in Text
    <3>1. history[s] \in Seq(Text) /\ next[s] \in 1..Len(history[s])
      BY <1>6, LenProperties DEF WriteLine, HistoryType
    <3> QED
      BY <3>1, ElementOfSeq
  <2>2. Write(s, history[s][next[s]])
    BY <1>6 DEF WriteLine
  <2>3. /\ file' \in Text /\ offset' \in [Shells -> Nat]
        /\ \A r \in Shells : offset'[r] <= Len(file')
        /\ found' = found
    BY <2>1, <2>2, WriteType
  <2> QED
    BY <1>6, <2>3 DEF WriteLine, HistoryType
<1>7. ASSUME NEW s \in Shells, WriteNewline(s) PROVE HistoryType'
  <2>1. << "\n" >> \in Text
    BY NewlineText
  <2>2. Write(s, << "\n" >>)
    BY <1>7 DEF WriteNewline
  <2>3. /\ file' \in Text /\ offset' \in [Shells -> Nat]
        /\ \A r \in Shells : offset'[r] <= Len(file')
        /\ found' = found
    BY <2>1, <2>2, WriteType
  <2> QED
    <3>1. next[s] + 1 \in Nat \ {0} /\ next' = [next EXCEPT ![s] = next[s] + 1]
      BY <1>7 DEF WriteNewline, HistoryType
    <3>2. pc' = [pc EXCEPT ![s] = "text"] /\ history' = history
      BY <1>7 DEF WriteNewline
    <3> QED
      BY <2>3, <3>1, <3>2 DEF HistoryType
<1>8. ASSUME NEW s \in Shells, Exit(s) PROVE HistoryType'
  BY <1>8, GoneType DEF Exit, counters
<1>9. ASSUME NEW s \in Shells, Dies(s) PROVE HistoryType'
  BY <1>9, GoneType DEF Dies
<1>10. ASSUME NEW s \in Shells, NEW t \in Shells, Copy(s, t) PROVE HistoryType'
  BY <1>10 DEF Copy, HistoryType
<1> QED
  BY <1>1, <1>2, <1>3, <1>4, <1>5, <1>6, <1>7, <1>8, <1>9, <1>10, ReadBlockType
  DEF HistoryNext, Read, Save
-----------------------------------------------------------------------------
\* What one shell, at its place in the code, knows of the text: the lines it lists are
\* those of the text, and it writes each of them where it stands.
Knows(text, where, o, h, n) ==
  /\ Lists(h, text)
  /\ where = "off" => h = << >>
  /\ where \in {"off", "prompt"} => o = 0
  /\ where \in {"off", "prompt", "reading"} => n = 1
  /\ where = "reading" => At(text, o, Len(h))
  /\ where \in {"prompt", "text", "newline"} => Len(h) >= Cardinality(Newlines(text))
  /\ where = "text" => At(text, o, n - 1)
  /\ where = "newline" =>
       /\ n <= Len(h)
       /\ n <= Cardinality(Newlines(text)) => Begins(text, o + 1, n)
       /\ n > Cardinality(Newlines(text)) => o >= LastNewline(text)

\* The text that the first shell found is there, and every shell knows it.
Kept ==
  /\ StillHolds(file, found)
  /\ \A s \in Shells : Knows(found, pc[s], offset[s], history[s], next[s])

\* The inductive invariant: going back to a line, or a write that fails, may end it.
HistoryInv == HistoryType /\ (~sought /\ ~failed => Kept)

\* At the start of the text, no line is listed.
LEMMA AtStart ==
  ASSUME NEW text \in Text
  PROVE  At(text, 0, 0) /\ Lists(<< >>, text)
<1>1. PICK o : Begins(text, o, 0)
  <2>1. 0 \in 0..Cardinality(Newlines(text))
    BY NewlinesOf
  <2> QED
    BY <2>1, BeginExists
<1>2. /\ Newlines(text) \subseteq Nat /\ IsFiniteSet(Newlines(text))
      /\ \A k \in Newlines(text) : 0 < k
  BY NewlinesOf
<1>3. Rank(Newlines(text), 0) = 0
  BY <1>2, RankEnds
<1>4. Begins(text, 0, 0)
  BY <1>3 DEF Begins
<1>5. 0 >= Cardinality(Newlines(text)) => 0 >= LastNewline(text)
  <2> SUFFICES ASSUME Cardinality(Newlines(text)) = 0 PROVE LastNewline(text) = 0
    BY NewlinesOf, LastOf
  <2>1. Newlines(text) = {}
    BY <1>2, FS_EmptySet
  <2> QED
    BY <2>1, LastOf
<1> QED
  BY <1>4, <1>5 DEF At, Lists

\* At first the file is as found, and nobody has read it.
LEMMA HistoryInvInit == HistoryInit => HistoryInv
<1> SUFFICES ASSUME HistoryInit PROVE HistoryInv
  OBVIOUS
<1>1. HistoryType
  BY HistoryTypeInit
<1>2. StillHolds(file, found)
  <2>1. LastNewline(found) <= Len(found) /\ found = file
    BY <1>1, LastOf DEF HistoryType, HistoryInit
  <2> QED
    BY <2>1 DEF StillHolds
<1>3. Knows(found, "off", 0, << >>, 1)
  BY <1>1, AtStart DEF HistoryType, Knows
<1>4. \A s \in Shells : Knows(found, pc[s], offset[s], history[s], next[s])
  BY <1>3 DEF HistoryInit
<1> QED
  BY <1>1, <1>2, <1>4 DEF HistoryInv, Kept

\* What the others know is not touched by a step of one shell.
LEMMA KeptByOne ==
  ASSUME Kept, NEW s \in Shells, found' = found, StillHolds(file', found),
         Knows(found, pc'[s], offset'[s], history'[s], next'[s]),
         \A r \in Shells : r # s =>
           pc'[r] = pc[r] /\ offset'[r] = offset[r] /\ history'[r] = history[r] /\ next'[r] = next[r]
  PROVE  Kept'
<1>1. ASSUME NEW r \in Shells
      PROVE  Knows(found, pc'[r], offset'[r], history'[r], next'[r])
  <2>1. r # s => Knows(found, pc[r], offset[r], history[r], next[r])
    BY DEF Kept
  <2> QED
    BY <2>1
<1> QED
  BY <1>1 DEF Kept

\* A shell that starts knows nothing, at the file's beginning.
LEMMA StartKept ==
  ASSUME HistoryType, Kept, NEW s \in Shells, Start(s)
  PROVE  Kept'
<1>1. found \in Text /\ Knows(found, pc[s], offset[s], history[s], next[s]) /\ StillHolds(file, found)
  BY DEF HistoryType, Kept
<1>2. history[s] = << >> /\ offset[s] = 0 /\ next[s] = 1
  BY <1>1 DEF Start, Knows
<1>3. At(found, 0, 0) /\ Lists(<< >>, found)
  BY <1>1, AtStart
<1>4. Knows(found, "reading", offset[s], history[s], next[s])
  BY <1>2, <1>3 DEF Knows
<1>5. pc' = [pc EXCEPT ![s] = "reading"] /\ UNCHANGED << file, offset, history, next, found >>
  BY DEF Start
<1> QED
  BY <1>1, <1>4, <1>5, KeptByOne DEF HistoryType

\* A copy knows what its shell knows (fork).
LEMMA CopyKept ==
  ASSUME HistoryType, Kept, NEW s \in Shells, NEW t \in Shells, Copy(s, t)
  PROVE  Kept'
<1>1. /\ Knows(found, pc[s], offset[s], history[s], next[s])
      /\ Knows(found, pc[t], offset[t], history[t], next[t]) /\ StillHolds(file, found)
  BY DEF Kept
<1>2. offset[t] = 0 /\ next[t] = 1
  BY <1>1 DEF Copy, Knows
<1>3. Knows(found, "prompt", offset[t], history[s], next[t])
  BY <1>1, <1>2 DEF Copy, Knows
<1>4. /\ pc' = [pc EXCEPT ![t] = "prompt"] /\ history' = [history EXCEPT ![t] = history[s]]
      /\ UNCHANGED << file, offset, next, found >>
  BY DEF Copy
<1> QED
  BY <1>1, <1>3, <1>4, KeptByOne DEF HistoryType

\* A block that was not cut within a line.
LEMMA ReadBlockKept ==
  ASSUME HistoryType, Kept, NEW s \in Shells, ReadBlock(s), ~sought'
  PROVE  Kept'
<1>1. /\ found \in Text /\ file \in Text /\ offset[s] \in Nat /\ history[s] \in Seq(Text)
      /\ StillHolds(file, found) /\ Knows(found, "reading", offset[s], history[s], next[s])
  BY DEF HistoryType, Kept, ReadBlock
<1>2. ~Straddles(s)
  BY DEF ReadBlock
<1>3. PICK b \in Nat :
        /\ offset[s] <= b /\ b <= Len(file) /\ b <= offset[s] + Block
        /\ b = offset[s] + Block \/ b = Len(file)
        /\ Chunk(s) = SubSeq(file, offset[s] + 1, b)
        /\ Len(Chunk(s)) = b - offset[s]
        /\ Last(Chunk(s)) = file[b] /\ offset[s] < b
  BY ChunkOf DEF ReadBlock
<1>4. b = Len(file) \/ (b > 0 /\ file[b] = "\n")
  <2>1. Block \in Nat
    BY BlockAssumption
  <2>2. b = offset[s] + Block => Len(Chunk(s)) = Block
    BY <1>1, <1>3, <2>1
  <2>3. b > 0
    BY <1>1, <1>3
  <2> QED
    BY <1>2, <1>3, <2>2, <2>3 DEF Straddles
<1> DEFINE part == SubSeq(file, offset[s] + 1, b)
           longer == history[s] \o LinesOf(part)
<1>5. At(found, offset[s], Len(history[s])) /\ Lists(history[s], found) /\ next[s] = 1
  BY <1>1 DEF Knows
<1>6. /\ longer \in Seq(Text) /\ Len(longer) = Len(history[s]) + Cardinality(Newlines(part))
      /\ Lists(longer, found)
  <2> DEFINE o == offset[s]
             h == history[s]
  <2>1. /\ o \in Nat /\ b \in Nat /\ o <= b /\ b <= Len(file) /\ h \in Seq(Text)
        /\ found \in Text /\ file \in Text /\ StillHolds(file, found)
        /\ Lists(h, found) /\ At(found, o, Len(h))
    BY <1>1, <1>3, <1>5
  <2> HIDE DEF o, h
  <2>2. /\ h \o LinesOf(SubSeq(file, o + 1, b)) \in Seq(Text)
        /\ Len(h \o LinesOf(SubSeq(file, o + 1, b))) =
             Len(h) + Cardinality(Newlines(SubSeq(file, o + 1, b)))
        /\ Lists(h \o LinesOf(SubSeq(file, o + 1, b)), found)
    BY <2>1, BlockLists
  <2> QED
    BY <2>2 DEF o, h
<1>7. At(found, b, Len(longer))
  <2>1. At(found, b, Len(history[s]) + Cardinality(Newlines(part)))
    <3>1. Len(history[s]) \in Nat
      BY <1>1, LenProperties
    <3> QED
      BY <1>1, <1>3, <1>4, <1>5, <3>1, BlockEnd
  <2> QED
    BY <1>6, <2>1
<1> HIDE DEF longer
<1>8. Knows(found, "reading", b, longer, next[s])
  BY <1>5, <1>6, <1>7 DEF Knows
<1>9. OffsetBehind(s) = b
  BY <1>1, <1>2, <1>3 DEF OffsetBehind
<1>10. /\ history' = [history EXCEPT ![s] = longer] /\ offset' = [offset EXCEPT ![s] = b]
       /\ UNCHANGED << file, pc, next, found >> /\ pc[s] = "reading"
  BY <1>3, <1>9 DEF ReadBlock, longer
<1> QED
  BY <1>1, <1>8, <1>10, KeptByOne DEF HistoryType

\* At the end of the file, all lines of the text have been listed.
LEMMA EndOfFileKept ==
  ASSUME HistoryType, Kept, NEW s \in Shells, EndOfFile(s)
  PROVE  Kept'
<1>1. /\ found \in Text /\ file \in Text /\ offset[s] \in Nat /\ history[s] \in Seq(Text)
      /\ StillHolds(file, found) /\ Knows(found, "reading", offset[s], history[s], next[s])
  BY DEF HistoryType, Kept, EndOfFile
<1>2. offset[s] = Len(file)
  BY ChunkOf DEF EndOfFile
<1>3. Len(history[s]) >= Cardinality(Newlines(found))
  <2> DEFINE n == Len(history[s])
             w == Cardinality(Newlines(found))
  <2>1. n \in Nat /\ w \in Nat /\ LastNewline(found) \in Nat
    BY <1>1, LenProperties, NewlinesOf, LastOf
  <2>2. SUFFICES ASSUME n < w PROVE FALSE
    BY <2>1
  <2>3. Begins(found, offset[s], n)
    BY <1>1, <2>2 DEF Knows, At
  <2>4. offset[s] <= LastNewline(found)
    BY <1>1, <2>1, <2>3, LastOf DEF Begins
  <2>5. offset[s] = LastNewline(found)
    BY <1>1, <1>2, <2>1, <2>4 DEF StillHolds
  <2>6. n = w
    BY <1>1, <2>3, <2>5, LastRank DEF Begins
  <2> QED
    BY <2>1, <2>2, <2>6
<1>4. Knows(found, "prompt", 0, history[s], next[s])
  BY <1>1, <1>3 DEF Knows
<1>5. /\ pc' = [pc EXCEPT ![s] = "prompt"] /\ offset' = [offset EXCEPT ![s] = 0]
      /\ UNCHANGED << file, history, next, found >>
  BY DEF EndOfFile, counters
<1> QED
  BY <1>1, <1>4, <1>5, KeptByOne DEF HistoryType

\* A line that is entered goes behind those of the text.
LEMMA AddEntryKept ==
  ASSUME HistoryType, Kept, NEW s \in Shells, history_add_entry(s)
  PROVE  Kept'
<1>1. /\ history[s] \in Seq(Text) /\ pc[s] = "prompt" /\ StillHolds(file, found)
      /\ Knows(found, pc[s], offset[s], history[s], next[s])
  BY DEF HistoryType, Kept, history_add_entry
<1>2. PICK l \in Lines : history' = [history EXCEPT ![s] = Append(history[s], l)]
  BY DEF history_add_entry
<1> DEFINE longer == Append(history[s], l)
<1>3. /\ longer \in Seq(Text) /\ Len(longer) = Len(history[s]) + 1 /\ Len(history[s]) \in Nat
      /\ \A n \in 1..Len(history[s]) : longer[n] = history[s][n]
  <2>1. l \in Text
    BY LinesAssumption DEF Text
  <2> QED
    BY <1>1, <2>1, Appended
<1> HIDE DEF longer
<1>4. Cardinality(Newlines(found)) \in Nat
  BY NewlinesOf DEF HistoryType
<1>5. Lists(longer, found)
  <2> SUFFICES ASSUME NEW n \in 1..Len(longer), n <= Cardinality(Newlines(found))
               PROVE  longer[n] = LinesOf(found)[n]
    BY DEF Lists
  <2>1. n \in 1..Len(history[s])
    BY <1>1, <1>3, <1>4 DEF Knows
  <2> QED
    BY <1>1, <1>3, <2>1 DEF Knows, Lists
<1>6. Len(longer) >= Cardinality(Newlines(found))
  BY <1>1, <1>3, <1>4 DEF Knows
<1>7. Knows(found, "prompt", offset[s], longer, next[s])
  BY <1>1, <1>5, <1>6 DEF Knows
<1>8. history' = [history EXCEPT ![s] = longer] /\ UNCHANGED << file, pc, offset, next, found >>
  BY <1>2 DEF history_add_entry, longer
<1> QED
  BY <1>1, <1>7, <1>8, KeptByOne DEF HistoryType

\* The file is opened anew, at its beginning (history_save).
LEMMA OpenToSaveKept ==
  ASSUME HistoryType, Kept, NEW s \in Shells, OpenToSave(s)
  PROVE  Kept'
<1>1. /\ found \in Text /\ StillHolds(file, found) /\ pc[s] = "prompt"
      /\ Knows(found, pc[s], offset[s], history[s], next[s])
  BY DEF HistoryType, Kept, OpenToSave
<1>2. offset[s] = 0 /\ next[s] = 1 /\ At(found, 0, 0) /\ 1 - 1 = 0
  BY <1>1, AtStart DEF Knows
<1>3. Knows(found, "text", offset[s], history[s], next[s])
  BY <1>1, <1>2 DEF Knows
<1>4. pc' = [pc EXCEPT ![s] = "text"] /\ UNCHANGED << file, offset, history, next, found >>
  BY DEF OpenToSave, counters
<1> QED
  BY <1>1, <1>3, <1>4, KeptByOne DEF HistoryType

\* A line of the text is written over itself, any other behind the text (history_save).
LEMMA WriteLineKept ==
  ASSUME HistoryType, Kept, NEW s \in Shells, WriteLine(s), ~failed'
  PROVE  Kept'
<1> DEFINE o == offset[s]
           n == next[s]
           h == history[s]
           t == h[n]
           w == Cardinality(Newlines(found))
<1>1. /\ found \in Text /\ file \in Text /\ o \in Nat /\ o <= Len(file) /\ h \in Seq(Text)
      /\ n \in Nat \ {0} /\ StillHolds(file, found) /\ Knows(found, "text", o, h, n)
      /\ n <= Len(h) /\ Len(h) \in Nat
  BY LenProperties DEF HistoryType, Kept, WriteLine
<1>2. n \in 1..Len(h) /\ t \in Text
  <2>1. n \in 1..Len(h)
    BY <1>1
  <2> QED
    BY <1>1, <2>1, ElementOfSeq
<1>3. /\ file' = Overwritten(file, o, t) /\ offset' = [offset EXCEPT ![s] = o + Len(t)]
      /\ found' = found
  BY DEF WriteLine, Write, counters, Overwritten
<1>4. At(found, o, n - 1) /\ Lists(h, found) /\ Len(h) >= w
  BY <1>1 DEF Knows
<1>5. w \in Nat /\ LastNewline(found) \in Nat /\ Len(t) \in Nat
  BY <1>1, <1>2, NewlinesOf, LastOf
<1>6. ASSUME n <= w
      PROVE  StillHolds(Overwritten(file, o, t), found) /\ Knows(found, "newline", o + Len(t), h, n)
  <2>1. n \in 1..Cardinality(Newlines(found)) /\ Begins(found, o, n - 1)
    <3>1. n \in Nat \ {0} /\ n - 1 < w /\ n \in 1..w
      BY <1>1, <1>5, <1>6
    <3> QED
      BY <1>4, <3>1 DEF At
  <2>2. PICK e \in Newlines(found) : /\ Begins(found, e, n) /\ o \in Nat /\ o < e
                                     /\ LinesOf(found)[n] = SubSeq(found, o + 1, e - 1)
    BY <1>1, <2>1, LineIs
  <2>3. t = SubSeq(found, o + 1, e - 1)
    BY <1>2, <1>4, <1>6, <2>2 DEF Lists
  <2>4. e - 1 \in Nat /\ o <= e - 1 /\ e - 1 <= Len(found) /\ e \in Nat
    BY <1>1, <2>2, NewlinesOf
  <2>5. Len(t) = e - 1 - o /\ \A x \in 1..(e - 1 - o) : t[x] = found[o + x]
    <3> DEFINE y == e - 1
    <3>1. y \in Nat /\ o <= y /\ y <= Len(found) /\ t = SubSeq(found, o + 1, y)
      BY <2>3, <2>4
    <3> HIDE DEF y, t, o
    <3>2. Len(t) = y - o /\ \A x \in 1..(y - o) : t[x] = found[o + x]
      BY <1>1, <3>1, ChunkIs
    <3> QED
      BY <3>2 DEF y
  <2>6. StillHolds(Overwritten(file, o, t), found)
    <3>1. \A x \in 1..Len(t) : o + x <= LastNewline(found) => t[x] = found[o + x]
      BY <2>5
    <3> HIDE DEF t, o
    <3> QED
      BY <1>1, <1>2, <3>1, OverwrittenHolds
  <2>7. o + Len(t) + 1 = e
    BY <1>1, <2>4, <2>5
  <2>8. Knows(found, "newline", o + Len(t), h, n)
    BY <1>1, <1>4, <1>5, <1>6, <2>2, <2>7 DEF Knows
  <2> HIDE DEF t, o, h, n, w
  <2> QED
    BY <2>6, <2>8
<1>7. ASSUME n > w
      PROVE  StillHolds(Overwritten(file, o, t), found) /\ Knows(found, "newline", o + Len(t), h, n)
  <2>1. o >= LastNewline(found)
    BY <1>1, <1>4, <1>5, <1>7 DEF At
  <2>2. StillHolds(Overwritten(file, o, t), found)
    <3>1. \A x \in 1..Len(t) : ~(o + x <= LastNewline(found))
      BY <1>1, <1>5, <2>1
    <3> HIDE DEF t, o
    <3> QED
      BY <1>1, <1>2, <3>1, OverwrittenHolds
  <2>3. o + Len(t) >= LastNewline(found)
    BY <1>1, <1>5, <2>1
  <2>4. Knows(found, "newline", o + Len(t), h, n)
    BY <1>1, <1>4, <1>5, <1>7, <2>3 DEF Knows
  <2> HIDE DEF t, o, h, n, w
  <2> QED
    BY <2>2, <2>4
<1>8. StillHolds(Overwritten(file, o, t), found) /\ Knows(found, "newline", o + Len(t), h, n)
  <2>1. n \in Nat
    BY <1>1
  <2> HIDE DEF t, o, h, n, w
  <2>2. n <= w \/ n > w
    BY <1>5, <2>1
  <2> QED
    BY <1>6, <1>7, <2>2, Zenon
<1>9. /\ pc' = [pc EXCEPT ![s] = "newline"] /\ history' = history /\ next' = next
  BY DEF WriteLine
<1> HIDE DEF t
<1> QED
  BY <1>3, <1>8, <1>9, KeptByOne DEF HistoryType

\* The newline of a line of the text is written over itself, any other behind the text.
LEMMA WriteNewlineKept ==
  ASSUME HistoryType, Kept, NEW s \in Shells, WriteNewline(s), ~failed'
  PROVE  Kept'
<1> DEFINE o == offset[s]
           n == next[s]
           h == history[s]
           t == << "\n" >>
           w == Cardinality(Newlines(found))
<1>1. /\ found \in Text /\ file \in Text /\ o \in Nat /\ o <= Len(file) /\ h \in Seq(Text)
      /\ n \in Nat \ {0} /\ StillHolds(file, found) /\ Knows(found, "newline", o, h, n)
  BY DEF HistoryType, Kept, WriteNewline
<1>2. t \in Text /\ Len(t) = 1 /\ t[1] = "\n"
  BY NewlineText
<1>3. /\ file' = Overwritten(file, o, t) /\ offset' = [offset EXCEPT ![s] = o + Len(t)]
      /\ found' = found
  BY DEF WriteNewline, Write, counters, Overwritten
<1>4. /\ n <= w => Begins(found, o + 1, n)
      /\ n > w => o >= LastNewline(found)
      /\ Lists(h, found) /\ Len(h) >= w /\ n <= Len(h)
  BY <1>1 DEF Knows
<1>5. w \in Nat /\ LastNewline(found) \in Nat
  BY <1>1, NewlinesOf, LastOf
<1>6. o + 1 <= LastNewline(found) => found[o + 1] = "\n"
  <2> SUFFICES ASSUME o + 1 <= LastNewline(found) PROVE found[o + 1] = "\n"
    OBVIOUS
  <2>1. n <= w
    BY <1>1, <1>4, <1>5
  <2>2. o + 1 \in Newlines(found)
    BY <1>1, <1>4, <2>1 DEF Begins
  <2> QED
    BY <2>2 DEF Newlines
<1>7. StillHolds(Overwritten(file, o, t), found)
  <2>1. \A x \in 1..Len(t) : o + x <= LastNewline(found) => t[x] = found[o + x]
    BY <1>2, <1>6
  <2> HIDE DEF t, o
  <2> QED
    BY <1>1, <1>2, <2>1, OverwrittenHolds
<1>8. At(found, o + 1, (n + 1) - 1)
  <2>1. CASE n <= w
    <3>1. Begins(found, o + 1, n) /\ (n + 1) - 1 = n
      BY <1>1, <1>4, <2>1
    <3>2. n >= w => o + 1 >= LastNewline(found)
      <4> SUFFICES ASSUME n = w PROVE o + 1 >= LastNewline(found)
        BY <1>1, <1>5, <2>1
      <4>1. /\ Newlines(found) \subseteq Nat /\ IsFiniteSet(Newlines(found))
            /\ o + 1 \in Newlines(found) /\ o + 1 \in Nat
        BY <1>1, <3>1, NewlinesOf DEF Begins
      <4>2. Rank(Newlines(found), o + 1) = Cardinality(Newlines(found))
        BY <3>1 DEF Begins
      <4>3. \A j \in Newlines(found) : j <= o + 1
        BY <4>1, <4>2, RankEnds
      <4>4. LastNewline(found) \in Newlines(found) \cup {0}
        BY <1>1, LastOf
      <4> QED
        BY <1>1, <1>5, <4>3, <4>4
    <3> QED
      BY <3>1, <3>2 DEF At
  <2>2. CASE n > w
    BY <1>1, <1>4, <1>5, <2>2 DEF At
  <2> QED
    BY <1>1, <1>5, <2>1, <2>2
<1>9. Knows(found, "text", o + 1, h, n + 1)
  BY <1>4, <1>8 DEF Knows
<1>10. /\ pc' = [pc EXCEPT ![s] = "text"] /\ history' = history
       /\ next' = [next EXCEPT ![s] = n + 1] /\ offset' = [offset EXCEPT ![s] = o + 1]
  BY <1>2, <1>3 DEF WriteNewline
<1> HIDE DEF t
<1> QED
  BY <1>3, <1>7, <1>9, <1>10, KeptByOne DEF HistoryType

\* A shell that is over knows nothing.
LEMMA GoneKept ==
  ASSUME HistoryType, Kept, NEW s \in Shells, Gone(s), file' = file, found' = found
  PROVE  Kept'
<1>1. Lists(<< >>, found) /\ StillHolds(file, found)
  BY AtStart DEF HistoryType, Kept
<1>2. Knows(found, "off", 0, << >>, 1)
  BY <1>1 DEF Knows
<1> QED
  BY <1>1, <1>2, KeptByOne DEF Gone, HistoryType

\* Every step that goes back to no line and fails no write keeps what was found.
LEMMA HistoryInvStep ==
  ASSUME HistoryInv, [HistoryNext]_historyVars
  PROVE  HistoryInv'
<1>1. HistoryType /\ HistoryType'
  BY HistoryTypeStep DEF HistoryInv
<1> SUFFICES ASSUME ~sought', ~failed' PROVE Kept'
  BY <1>1 DEF HistoryInv
<1>2. ~sought /\ ~failed
  <2>1. CASE UNCHANGED historyVars
    BY <2>1 DEF historyVars, counters
  <2>2. CASE UNCHANGED << sought, failed >>
    BY <2>2
  <2>3. ASSUME NEW s \in Shells, Read(s) PROVE ~sought /\ ~failed
    <3>1. CASE UNCHANGED << sought, failed >>
      BY <3>1
    <3>2. ASSUME ReadBlock(s) PROVE ~sought /\ ~failed
      <4>1. sought' = (sought \/ Straddles(s)) /\ failed' = failed
        BY <3>2 DEF ReadBlock
      <4> QED
        BY <4>1, Zenon
    <3>3. ASSUME EndOfFile(s) PROVE UNCHANGED << sought, failed >>
      BY <3>3 DEF EndOfFile, counters
    <3> QED
      BY <2>3, <3>1, <3>2, <3>3, Zenon DEF Read
  <2>4. ASSUME NEW s \in Shells, Save(s) PROVE ~sought /\ ~failed
    <3>1. ASSUME NEW t, Write(s, t) PROVE UNCHANGED << sought, failed >>
      <4>1. CASE UNCHANGED counters
        BY <4>1 DEF counters
      <4>2. CASE failed' = TRUE
        BY <4>2
      <4> QED
        BY <3>1, <4>1, <4>2, Zenon DEF Write
    <3>2. UNCHANGED << sought, failed >>
      BY <2>4, <3>1 DEF Save, WriteLine, WriteNewline, Exit, counters
    <3> QED
      BY <3>2
  <2>5. ASSUME NEW s \in Shells,
               \/ Start(s) \/ history_add_entry(s) \/ OpenToSave(s) \/ Dies(s)
               \/ \E t \in Shells : Copy(s, t)
        PROVE  UNCHANGED << sought, failed >>
    BY <2>5 DEF Start, history_add_entry, OpenToSave, Dies, Copy, counters
  <2> QED
    BY <2>1, <2>2, <2>3, <2>4, <2>5, Zenon DEF HistoryNext
<1>3. Kept
  BY <1>2 DEF HistoryInv
<1>4. CASE UNCHANGED historyVars
  BY <1>3, <1>4 DEF historyVars, counters, Kept
<1>5. ASSUME NEW s \in Shells, Exit(s) PROVE Kept'
  BY <1>1, <1>3, <1>5, GoneKept DEF Exit, counters
<1>6. ASSUME NEW s \in Shells, Dies(s) PROVE Kept'
  BY <1>1, <1>3, <1>6, GoneKept DEF Dies
<1>7. ASSUME NEW s \in Shells, Read(s) PROVE Kept'
  BY <1>1, <1>3, <1>7, ReadBlockKept, EndOfFileKept DEF Read
<1>8. ASSUME NEW s \in Shells, Save(s) PROVE Kept'
  BY <1>1, <1>3, <1>5, <1>8, WriteLineKept, WriteNewlineKept DEF Save
<1>9. ASSUME NEW s \in Shells, \E t \in Shells : Copy(s, t) PROVE Kept'
  BY <1>1, <1>3, <1>9, CopyKept
<1> QED
  BY <1>1, <1>3, <1>4, <1>6, <1>7, <1>8, <1>9, StartKept, AddEntryKept, OpenToSaveKept
  DEF HistoryNext

\* HistoryInv is an invariant of the shells that share the file.
LEMMA HistoryInvariant == HistorySpec => []HistoryInv
BY HistoryInvInit, HistoryInvStep, PTL DEF HistorySpec

\* The lines that the first shell found stay in the file, whatever shells read and save
\* at once and die on the way (read_history_file, history_save).
THEOREM FoundIsKept == HistorySpec => []KeptAsFound
<1>1. HistoryInv => KeptAsFound
  <2> SUFFICES ASSUME HistoryInv, ~sought, ~failed
               PROVE  IsPrefix(SubSeq(found, 1, LastNewline(found)), file)
    BY DEF KeptAsFound
  <2> DEFINE N == LastNewline(found)
             head == SubSeq(found, 0 + 1, N)
  <2>1. /\ found \in Text /\ file \in Text /\ StillHolds(file, found)
        /\ N \in Nat /\ N <= Len(found) /\ N <= Len(file) /\ Len(file) \in Nat
    BY LastOf, NewlinesOf DEF HistoryInv, HistoryType, Kept, StillHolds
  <2>2. head \in Text /\ Len(head) = N /\ \A x \in 1..N : head[x] = found[x]
    <3>1. 0 <= N /\ N <= Len(found)
      BY <2>1
    <3>2. /\ head \in Text /\ Len(head) = N - 0
          /\ \A x \in 1..(N - 0) : head[x] = found[0 + x]
      BY <2>1, <3>1, ChunkIs
    <3> HIDE DEF head, N
    <3> QED
      BY <2>1, <3>2
  <2>3. head = SubSeq(found, 1, N)
    OBVIOUS
  <2> DEFINE same == SubSeq(file, 0 + 1, N)
  <2>4. same \in Text /\ Len(same) = N /\ \A x \in 1..N : same[x] = file[x]
    <3>1. 0 <= N
      BY <2>1
    <3>2. /\ same \in Text /\ Len(same) = N - 0
          /\ \A x \in 1..(N - 0) : same[x] = file[0 + x]
      BY <2>1, <3>1, ChunkIs
    <3> HIDE DEF same, N
    <3> QED
      BY <2>1, <3>2
  <2>5. same = SubSeq(file, 1, N)
    OBVIOUS
  <2>6. \A x \in 1..N : file[x] = found[x]
    BY <2>1 DEF StillHolds
  <2> HIDE DEF head, same, N
  <2>7. head = same
    BY <2>2, <2>4, <2>6, SeqEqual DEF Text
  <2>8. SubSeq(head, 1, Len(head)) = head
    BY <2>2, SubSeqFull DEF Text
  <2>9. Len(head) <= Len(file) /\ SubSeq(head, 1, Len(head)) = SubSeq(file, 1, Len(head))
    BY <2>1, <2>2, <2>5, <2>7, <2>8
  <2> QED
    BY <2>3, <2>9 DEF IsPrefix, N
<1> QED
  BY <1>1, HistoryInvariant, PTL
-----------------------------------------------------------------------------
(* What a shell loads, when no other shell is there. *)

\* A part of a text holds as many lines as newlines lie between its ends.
LEMMA PartCount ==
  ASSUME NEW f \in Text, NEW o \in Nat, NEW b \in Nat, o <= b, b <= Len(f)
  PROVE  Cardinality(Newlines(SubSeq(f, o + 1, b))) = Rank(Newlines(f), b) - Rank(Newlines(f), o)
<1> DEFINE part == SubSeq(f, o + 1, b)
           T == Newlines(f)
           U == Newlines(part)
           c == b - o
<1>1. c \in Nat /\ o + c = b
  OBVIOUS
<1>2. part \in Text /\ Len(part) = b - o
      /\ \A x \in Nat : x \in U <=> x \in 1..(b - o) /\ o + x \in T
  BY ChunkIs
<1>3. T \subseteq Nat /\ IsFiniteSet(T)
  BY NewlinesOf
<1>4. U \subseteq Nat \ {0} /\ U \subseteq Nat /\ IsFiniteSet(U) /\ \A j \in U : j <= c
  <2>1. part \in Text /\ Len(part) = c /\ c \in Nat
    BY <1>1, <1>2
  <2> HIDE DEF part, c
  <2>2. IsFiniteSet(U) /\ \A j \in U : j \in 1..c
    BY <2>1, NewlinesOf
  <2> QED
    BY <2>1, <2>2
<1>5. Behind(T, U, o, c)
  BY <1>1, <1>2 DEF Behind
<1> HIDE DEF U, T, c
<1>6. RanksBehind(T, U, o, c)
  BY <1>1, <1>3, <1>4, <1>5, Shifted
<1>7. Rank(U, c) = Cardinality(U)
  BY <1>1, <1>4, RankEnds
<1>8. c \in 0..c
  BY <1>1
<1> QED
  BY <1>1, <1>6, <1>7, <1>8 DEF RanksBehind, U, T

\* The lines of a text, up to where a line begins and from there on.
LEMMA JoinLines ==
  ASSUME NEW f \in Text, NEW o \in Nat, NEW b \in Nat, o <= b, b <= Len(f),
         o = 0 \/ f[o] = "\n"
  PROVE  LinesOf(SubSeq(f, 1, o)) \o LinesOf(SubSeq(f, o + 1, b)) = LinesOf(SubSeq(f, 1, b))
<1> DEFINE T == Newlines(f)
           front == SubSeq(f, 0 + 1, o)
           part == SubSeq(f, o + 1, b)
           whole == SubSeq(f, 0 + 1, b)
           m == Rank(T, o)
           w == Rank(T, b)
<1>1. /\ Len(f) \in Nat /\ T \subseteq Nat /\ IsFiniteSet(T) /\ Cardinality(T) \in Nat
      /\ DOMAIN f = 1..Len(f) /\ \A k \in T : 0 < k
  BY NewlinesOf
<1>2. /\ m \in Nat /\ w \in Nat /\ m <= w /\ w <= Cardinality(T)
  BY <1>1, RankType, RankGrows
<1>3. Begins(f, o, m)
  <2>1. o = 0 \/ o \in T
    BY <1>1 DEF Newlines
  <2> QED
    BY <2>1 DEF Begins
<1>4. Begins(f, 0, 0)
  BY <1>1, RankEnds DEF Begins
<1>5. StillHolds(f, f)
  <2>1. LastNewline(f) <= Len(f)
    BY LastOf
  <2> QED
    BY <2>1 DEF StillHolds
<1>6. front \in Text /\ part \in Text /\ whole \in Text
  <2>1. 0 <= o /\ 0 <= b /\ o <= Len(f) /\ 0 \in Nat
    BY <1>1
  <2> QED
    BY <2>1, ChunkIs
<1>7. /\ Cardinality(Newlines(front)) = m
      /\ Cardinality(Newlines(part)) = w - m
      /\ Cardinality(Newlines(whole)) = w
  <2>1. 0 <= o /\ 0 <= b /\ o <= Len(f) /\ 0 \in Nat
    BY <1>1
  <2>2. /\ Cardinality(Newlines(front)) = Rank(T, o) - Rank(T, 0)
        /\ Cardinality(Newlines(part)) = Rank(T, b) - Rank(T, o)
        /\ Cardinality(Newlines(whole)) = Rank(T, b) - Rank(T, 0)
    BY <2>1, PartCount
  <2>3. Rank(T, 0) = 0
    BY <1>4 DEF Begins
  <2> HIDE DEF T, front, part, whole
  <2> QED
    BY <1>2, <2>2, <2>3
<1> DEFINE a == LinesOf(front)
           c == LinesOf(part)
           d == LinesOf(whole)
<1>8. /\ a \in Seq(Text) /\ c \in Seq(Text) /\ d \in Seq(Text)
      /\ Len(a) = m /\ Len(c) = w - m /\ Len(d) = w
  <2> HIDE DEF front, part, whole
  <2> QED
    BY <1>6, <1>7, LinesType
<1>9. ASSUME NEW i \in 1..m PROVE a[i] = d[i]
  <2>1. i \in 1..Cardinality(Newlines(front)) /\ i \in 1..Cardinality(Newlines(whole))
    BY <1>2, <1>7
  <2>2. 0 + i <= Cardinality(T) /\ 0 <= o /\ 0 <= b /\ o <= Len(f) /\ 0 \in Nat /\ 0 + i = i
    BY <1>1, <1>2
  <2>3. a[i] = LinesOf(f)[0 + i]
    BY <1>4, <1>5, <2>1, <2>2, BlockLine
  <2>4. d[i] = LinesOf(f)[0 + i]
    BY <1>4, <1>5, <2>1, <2>2, BlockLine
  <2> QED
    BY <2>3, <2>4
<1>10. ASSUME NEW i \in 1..(w - m) PROVE c[i] = d[m + i]
  <2> DEFINE j == m + i
  <2>0. j = m + i
    OBVIOUS
  <2>1. i \in 1..Cardinality(Newlines(part)) /\ j \in 1..Cardinality(Newlines(whole))
    BY <1>2, <1>7
  <2>2. m + i <= Cardinality(T) /\ 0 + j <= Cardinality(T) /\ 0 <= b /\ 0 \in Nat /\ 0 + j = j
    BY <1>1, <1>2
  <2>3. c[i] = LinesOf(f)[m + i]
    BY <1>2, <1>3, <1>5, <2>1, <2>2, BlockLine
  <2> HIDE DEF j
  <2>4. d[j] = LinesOf(f)[0 + j]
    BY <1>4, <1>5, <2>1, <2>2, BlockLine
  <2> QED
    BY <2>0, <2>2, <2>3, <2>4
<1> HIDE DEF a, c, d, m, w
<1>11. a \o c \in Seq(Text) /\ IsJoined(a, c, a \o c)
  BY <1>8, Joined
<1>12. /\ Len(a \o c) = w
       /\ \A i \in 1..w : (a \o c)[i] = d[i]
  <2>1. /\ Len(a \o c) = m + (w - m)
        /\ \A i \in 1..m : (a \o c)[i] = a[i]
        /\ \A i \in 1..(w - m) : (a \o c)[m + i] = c[i]
    BY <1>8, <1>11 DEF IsJoined
  <2>2. ASSUME NEW i \in 1..w PROVE (a \o c)[i] = d[i]
    <3>1. CASE i <= m
      <4>1. i \in 1..m
        BY <1>2, <3>1
      <4> QED
        BY <1>9, <2>1, <4>1
    <3>2. CASE m < i
      <4>1. PICK x \in 1..(w - m) : i = m + x
        <5>1. i - m \in 1..(w - m) /\ i = m + (i - m)
          BY <1>2, <3>2
        <5> QED
          BY <5>1
      <4> QED
        BY <1>10, <2>1, <4>1
    <3>3. i <= m \/ m < i
      BY <1>2
    <3> QED
      BY <3>1, <3>2, <3>3, Zenon
  <2> QED
    BY <1>2, <2>1, <2>2
<1>13. a \o c = d
  BY <1>8, <1>11, <1>12, SeqEqual
<1>14. front = SubSeq(f, 1, o) /\ whole = SubSeq(f, 1, b)
  OBVIOUS
<1> QED
  BY <1>13, <1>14 DEF a, c, d

\* The last newline of a text is that of its end, unless there is none.
LEMMA LastBehind ==
  ASSUME NEW f \in Text, NEW o \in Nat, NEW b \in Nat, o <= b, b <= Len(f),
         o = 0 \/ f[o] = "\n"
  PROVE  LastNewline(SubSeq(f, 1, b)) = o + LastNewline(SubSeq(f, o + 1, b))
<1> DEFINE T == Newlines(f)
           part == SubSeq(f, o + 1, b)
           whole == SubSeq(f, 0 + 1, b)
           u == LastNewline(part)
           v == LastNewline(whole)
<1>1. Len(f) \in Nat /\ DOMAIN f = 1..Len(f) /\ 0 \in Nat /\ 0 <= b
  BY NewlinesOf
<1>2. /\ part \in Text /\ Len(part) = b - o
      /\ \A x \in Nat : x \in Newlines(part) <=> x \in 1..(b - o) /\ o + x \in T
  BY ChunkIs
<1>3. /\ whole \in Text /\ Len(whole) = b - 0
      /\ \A x \in Nat : x \in Newlines(whole) <=> x \in 1..(b - 0) /\ 0 + x \in T
  BY <1>1, ChunkIs
<1>4. whole = SubSeq(f, 1, b)
  OBVIOUS
<1> HIDE DEF part, whole
<1>5. /\ u \in Newlines(part) \cup {0} /\ u \in Nat /\ \A k \in Newlines(part) : k <= u
      /\ v \in Newlines(whole) \cup {0} /\ v \in Nat /\ \A k \in Newlines(whole) : k <= v
  BY <1>2, <1>3, LastOf
<1> HIDE DEF u, v
<1>6. o + u <= v
  <2>1. CASE o + u = 0
    BY <1>5, <2>1
  <2>2. CASE o + u # 0
    <3>1. o + u \in T /\ o + u \in 1..b
      <4>1. CASE u = 0
        <5>1. o \in 1..b /\ o \in DOMAIN f /\ f[o] = "\n" /\ o + u = o
          BY <1>1, <2>2, <4>1
        <5> QED
          BY <5>1 DEF Newlines
      <4>2. CASE u # 0
        <5>1. u \in Newlines(part)
          BY <1>5, <4>2
        <5> QED
          BY <1>2, <1>5, <5>1
      <4> QED
        BY <4>1, <4>2
    <3>2. 0 + (o + u) = o + u /\ o + u \in Nat /\ b - 0 = b
      BY <1>5
    <3>3. o + u \in Newlines(whole)
      BY <1>3, <3>1, <3>2
    <3> QED
      BY <1>5, <3>3
  <2> QED
    BY <2>1, <2>2
<1>7. v <= o + u
  <2> SUFFICES ASSUME o < v PROVE v <= o + u
    BY <1>5
  <2>1. v \in T /\ v <= b
    <3>1. v \in Newlines(whole) /\ 0 + v = v
      BY <1>5
    <3> QED
      BY <1>3, <1>5, <3>1
  <2>2. PICK x \in Nat : v = o + x /\ x \in 1..(b - o)
    <3>1. v - o \in Nat /\ v = o + (v - o) /\ v - o \in 1..(b - o)
      BY <1>5, <2>1
    <3> QED
      BY <3>1
  <2>3. x \in Newlines(part)
    BY <1>2, <2>1, <2>2
  <2> QED
    BY <1>5, <2>2, <2>3
<1>8. v = o + u
  BY <1>5, <1>6, <1>7
<1> QED
  BY <1>4, <1>8 DEF u, v, part

\* Behind its last newline, a part has none.
LEMMA NoneBehind ==
  ASSUME NEW f \in Text, NEW o \in Nat, NEW b \in Nat, o <= b, b <= Len(f),
         NEW k \in Newlines(f), k <= b
  PROVE  k <= o + LastNewline(SubSeq(f, o + 1, b))
<1> DEFINE part == SubSeq(f, o + 1, b)
<1>1. /\ part \in Text
      /\ \A x \in Nat : x \in Newlines(part) <=> x \in 1..(b - o) /\ o + x \in Newlines(f)
  BY ChunkIs
<1>2. k \in Nat
  BY NewlinesOf
<1> HIDE DEF part
<1>3. LastNewline(part) \in Nat /\ \A x \in Newlines(part) : x <= LastNewline(part)
  BY <1>1, LastOf
<1>4. CASE k <= o
  BY <1>2, <1>3, <1>4 DEF part
<1>5. CASE o < k
  <2>1. PICK x \in Nat : k = o + x /\ x \in 1..(b - o)
    <3>1. k - o \in Nat /\ k = o + (k - o) /\ k - o \in 1..(b - o)
      BY <1>2, <1>5
    <3> QED
      BY <3>1
  <2>2. x \in Newlines(part)
    BY <1>1, <2>1
  <2> QED
    BY <1>3, <2>1, <2>2 DEF part
<1> QED
  BY <1>2, <1>4, <1>5

\* A part without newlines has no lines.
LEMMA NoLines ==
  ASSUME NEW part \in Text, Newlines(part) = {}
  PROVE  LinesOf(part) = << >> /\ LastNewline(part) = 0
<1>1. LinesOf(part) \in Seq(Text) /\ Len(LinesOf(part)) = 0
  BY LinesType, FS_EmptySet
<1>2. LastNewline(part) = 0
  BY LastOf
<1> QED
  BY <1>1, <1>2, EmptySeq

\* Between two ends of blocks there is none.
LEMMA NextBlock ==
  ASSUME NEW o \in Nat, o % Block = 0
  PROVE  /\ (o + Block) % Block = 0
         /\ \A k \in Nat : o < k /\ k < o + Block => k % Block # 0
<1>1. Block \in Nat \ {0} /\ o \in Int
  BY BlockAssumption
<1>2. PICK q \in Int : o = Block * q + (o % Block)
  BY <1>1, Split
<1>3. (o + Block) % Block = 0
  <2>1. o + Block = Block * (q + 1) + 0 /\ q + 1 \in Int /\ 0 \in 0..(Block - 1)
    BY <1>1, <1>2
  <2> QED
    BY <1>1, <2>1, Remainder
<1>4. ASSUME NEW k \in Nat, o < k, k < o + Block PROVE k % Block # 0
  <2>1. PICK r \in 0..(Block - 1) : k = Block * q + r /\ r # 0
    <3>1. k - o \in 0..(Block - 1) /\ k = Block * q + (k - o) /\ k - o # 0
      BY <1>1, <1>2, <1>4
    <3> QED
      BY <3>1
  <2> QED
    BY <1>1, <2>1, Remainder
<1> QED
  BY <1>3, <1>4

\* The first block that ends within a line, and what it has behind its last newline.
Cut(text) == Min(Straddled(text))
Rest(text) == Cut(text) - LastNewline(SubSeq(text, 1, Cut(text)))

\* Up to the offset, no block ended within a line: the list has the lines up to there.
Straight(text, o, h) ==
  /\ \A k \in Straddled(text) : o < k
  /\ o = Len(text) \/ o % Block = 0
  /\ h = LinesOf(SubSeq(text, 1, o))

\* A block has just ended within a line: the offset is as far from the end of the file.
Back(text, o, h) ==
  /\ Straddled(text) # {}
  /\ Rest(text) \in 1..Block /\ o + Rest(text) = Len(text)
  /\ h = LinesOf(SubSeq(text, 1, Cut(text)))

\* There is nothing more to load.
Over(text, o, h) ==
  /\ Straddled(text) # {} /\ h = LoadedFrom(text)
  /\ \A k \in Newlines(text) : k <= o

\* What a shell has loaded that reads the file alone.
Loads(text, o, h) == Straight(text, o, h) \/ Back(text, o, h) \/ Over(text, o, h)

\* The places where blocks end within a line.
LEMMA StraddledOf ==
  ASSUME NEW text \in Text
  PROVE  /\ Straddled(text) \subseteq Nat
         /\ \A k \in Nat : k \in Straddled(text) <=>
              k \in 1..Len(text) /\ k % Block = 0 /\ text[k] # "\n"
         /\ Straddled(text) # {} =>
              /\ Cut(text) \in Straddled(text) /\ Cut(text) \in Nat
              /\ \A k \in Straddled(text) : Cut(text) <= k
<1>1. Len(text) \in Nat /\ DOMAIN text = 1..Len(text)
  BY NewlinesOf
<1>2. Straddled(text) \subseteq Nat
  BY <1>1 DEF Straddled
<1>3. \A k \in Nat : k \in Straddled(text) <=>
              k \in 1..Len(text) /\ k % Block = 0 /\ text[k] # "\n"
  BY <1>1 DEF Straddled
<1>4. ASSUME Straddled(text) # {}
      PROVE  /\ Cut(text) \in Straddled(text) /\ Cut(text) \in Nat
             /\ \A k \in Straddled(text) : Cut(text) <= k
  BY <1>2, <1>4, LeastOf DEF Cut
<1> QED
  BY <1>2, <1>3, <1>4

\* Before the first read, nothing is loaded.
LEMMA LoadsNothing ==
  ASSUME NEW text \in Text
  PROVE  Loads(text, 0, << >>)
<1>1. \A k \in Straddled(text) : 0 < k
  <2>1. \A k \in Nat : k \in Straddled(text) => k \in 1..Len(text)
    BY StraddledOf
  <2>2. Straddled(text) \subseteq Nat
    BY StraddledOf
  <2> QED
    BY <2>1, <2>2
<1>2. 0 % Block = 0
  <2>1. 0 = Block * 0 + 0 /\ 0 \in Int /\ 0 \in 0..(Block - 1)
    BY BlockAssumption
  <2> QED
    BY <2>1, Remainder, BlockAssumption
<1>3. << >> = LinesOf(SubSeq(text, 1, 0))
  <2> DEFINE part == SubSeq(text, 0 + 1, 0)
  <2>1. 0 <= 0 /\ 0 <= Len(text)
    BY NewlinesOf
  <2>2. /\ part \in Text /\ Len(part) = 0 - 0
    BY <2>1, ChunkIs
  <2>3. part = SubSeq(text, 1, 0)
    OBVIOUS
  <2> HIDE DEF part
  <2>4. Newlines(part) = {}
    <3>1. \A k \in Newlines(part) : k \in 1..Len(part)
      BY <2>2, NewlinesOf
    <3> QED
      BY <2>2, <3>1
  <2> QED
    BY <2>2, <2>3, <2>4, NoLines
<1> QED
  BY <1>1, <1>2, <1>3 DEF Loads, Straight

\* What a read says of a shell: the block it reads runs from its offset to b.
Reading(s, b) ==
  /\ file \in Text /\ offset[s] \in Nat /\ b \in Nat /\ Len(file) \in Nat
  /\ offset[s] < b /\ b <= Len(file) /\ b <= offset[s] + Block
  /\ b = offset[s] + Block \/ b = Len(file)
  /\ Chunk(s) = SubSeq(file, offset[s] + 1, b)
  /\ Chunk(s) \in Text
  /\ LastNewline(Chunk(s)) \in Nat /\ LastNewline(Chunk(s)) <= b - offset[s]
  /\ Straddles(s) <=> b = offset[s] + Block /\ file[b] # "\n"
  /\ Straddles(s) => OffsetBehind(s) + (Block - LastNewline(Chunk(s))) = Len(file)
  /\ ~Straddles(s) => OffsetBehind(s) = b
  /\ OffsetBehind(s) \in Nat

\* A read from a file that is not at its end is one.
LEMMA ReadingIs ==
  ASSUME HistoryType, NEW s \in Shells, ReadBlock(s)
  PROVE  \E b : Reading(s, b)
<1>1. PICK b \in Nat :
           /\ offset[s] <= b /\ b <= Len(file) /\ b <= offset[s] + Block
           /\ b = offset[s] + Block \/ b = Len(file)
           /\ Chunk(s) = SubSeq(file, offset[s] + 1, b)
           /\ Chunk(s) \in Text /\ Len(Chunk(s)) = b - offset[s]
           /\ Chunk(s) # << >> => Last(Chunk(s)) = file[b] /\ offset[s] < b
  BY ChunkOf
<1>2. /\ file \in Text /\ offset[s] \in Nat /\ Len(file) \in Nat /\ Block \in Nat
      /\ Chunk(s) # << >>
  BY NewlinesOf, BlockAssumption DEF HistoryType, ReadBlock
<1>3. LastNewline(Chunk(s)) \in Nat /\ LastNewline(Chunk(s)) <= b - offset[s]
  BY <1>1, LastOf
<1>4. Straddles(s) <=> b = offset[s] + Block /\ file[b] # "\n"
  <2>1. Len(Chunk(s)) = Block <=> b = offset[s] + Block
    <3>1. Len(Chunk(s)) = b - offset[s] /\ offset[s] \in Nat /\ b \in Nat /\ Block \in Nat
      BY <1>1, <1>2, Zenon
    <3> QED
      BY <3>1
  <2> QED
    BY <1>1, <1>2, <2>1 DEF Straddles
<1>5. ASSUME Straddles(s) PROVE OffsetBehind(s) + (Block - LastNewline(Chunk(s))) = Len(file)
  <2>1. OffsetBehind(s) = Len(file) - (Block - LastNewline(Chunk(s)))
    BY <1>5 DEF OffsetBehind
  <2> QED
    BY <1>2, <1>3, <2>1
<1>6. ASSUME ~Straddles(s) PROVE OffsetBehind(s) = b
  <2>1. OffsetBehind(s) = offset[s] + Len(Chunk(s))
    BY <1>6 DEF OffsetBehind
  <2> QED
    BY <1>1, <1>2, <2>1
<1>7. OffsetBehind(s) \in Nat
  BY BehindInFile
<1> QED
  BY <1>1, <1>2, <1>3, <1>4, <1>5, <1>6, <1>7 DEF Reading

\* A block behind a straight reading.
LEMMA StraightReads ==
  ASSUME NEW s \in Shells, NEW b, Reading(s, b), Straight(file, offset[s], history[s])
  PROVE  Loads(file, OffsetBehind(s), history[s] \o LinesOf(Chunk(s)))
<1> DEFINE o == offset[s]
           h == history[s]
           part == Chunk(s)
           more == h \o LinesOf(part)
           to == OffsetBehind(s)
           u == LastNewline(part)
<1>1. /\ file \in Text /\ o \in Nat /\ b \in Nat /\ Len(file) \in Nat
      /\ o < b /\ b <= Len(file) /\ b <= o + Block
      /\ b = o + Block \/ b = Len(file)
      /\ part = SubSeq(file, o + 1, b)
      /\ u \in Nat /\ u <= b - o
      /\ Straddles(s) <=> b = o + Block /\ file[b] # "\n"
      /\ Straddles(s) => to + (Block - u) = Len(file)
      /\ ~Straddles(s) => to = b
      /\ to \in Nat
  BY DEF Reading
<1>2. /\ \A k \in Straddled(file) : o < k
      /\ o % Block = 0
      /\ h = LinesOf(SubSeq(file, 1, o))
  BY <1>1 DEF Straight
<1> HIDE DEF o, h, part, to, u
<1>3. o = 0 \/ file[o] = "\n"
  <2> SUFFICES ASSUME o # 0, file[o] # "\n" PROVE FALSE
    OBVIOUS
  <2>1. o \in 1..Len(file) /\ o \in Nat
    BY <1>1
  <2>2. o \in Straddled(file)
    BY <1>1, <1>2, <2>1, StraddledOf
  <2>3. o < o
    BY <1>2, <2>2
  <2> QED
    BY <1>1, <2>3
<1>4. more = LinesOf(SubSeq(file, 1, b))
  <2>1. o <= b
    BY <1>1
  <2> QED
    BY <1>1, <1>2, <1>3, <2>1, JoinLines
<1>5. LastNewline(SubSeq(file, 1, b)) = o + u
  <2>1. o <= b
    BY <1>1
  <2> QED
    BY <1>1, <1>3, <2>1, LastBehind DEF u
<1>6. Block \in Nat \ {0}
  BY BlockAssumption
<1>7. /\ (o + Block) % Block = 0
      /\ \A k \in Nat : o < k /\ k < o + Block => k % Block # 0
  BY <1>1, <1>2, NextBlock
<1>8. \A k \in Straddled(file) : k \in Nat /\ k % Block = 0 /\ k \in 1..Len(file) /\ file[k] # "\n"
                                 /\ o + Block <= k
  <2> TAKE k \in Straddled(file)
  <2>1. k \in Nat /\ k % Block = 0 /\ k \in 1..Len(file) /\ file[k] # "\n"
    BY <1>1, StraddledOf
  <2>2. o < k /\ ~(k < o + Block)
    BY <1>2, <1>7, <2>1
  <2> QED
    BY <1>1, <1>6, <2>1, <2>2
<1> HIDE DEF more
<1>9. CASE ~Straddles(s)
  <2>1. \A k \in Straddled(file) : b < k
    <3> TAKE k \in Straddled(file)
    <3>1. k \in Nat /\ k <= Len(file) /\ file[k] # "\n" /\ o + Block <= k
      BY <1>8
    <3>2. CASE b = o + Block
      <4>1. file[b] = "\n"
        BY <1>1, <1>9, <3>2
      <4>2. k # b
        BY <3>1, <4>1
      <4> QED
        BY <1>1, <1>6, <3>1, <3>2, <4>2
    <3>3. CASE b # o + Block
      BY <1>1, <1>6, <3>1, <3>3
    <3> QED
      BY <3>2, <3>3
  <2>2. to = b /\ (b = Len(file) \/ b % Block = 0)
    BY <1>1, <1>7, <1>9
  <2> QED
    BY <1>4, <2>1, <2>2 DEF Loads, Straight, more, to, h, part
<1>10. CASE Straddles(s)
  <2>1. b = o + Block /\ file[b] # "\n" /\ to + (Block - u) = Len(file)
    BY <1>1, <1>10
  <2>2. b \in Straddled(file)
    <3>1. b \in 1..Len(file) /\ b % Block = 0
      BY <1>1, <1>7, <2>1
    <3> QED
      BY <1>1, <2>1, <3>1, StraddledOf
  <2>3. Cut(file) = b
    <3>1. Cut(file) \in Straddled(file) /\ Cut(file) \in Nat /\ Cut(file) <= b
      BY <1>1, <2>2, StraddledOf
    <3>2. b <= Cut(file)
      BY <1>8, <2>1, <3>1
    <3> QED
      BY <1>1, <3>1, <3>2
  <2>4. Rest(file) = b - (o + u)
    BY <1>5, <2>3 DEF Rest
  <2>5. u # Block
    <3> SUFFICES ASSUME u = Block PROVE FALSE
      OBVIOUS
    <3>1. u \in Newlines(part) \cup {0}
      BY LastOf DEF Reading, u, part
    <3>2. o <= b /\ u \in 1..(b - o) /\ u # 0
      BY <1>1, <1>6, <2>1
    <3>3. o + u \in Newlines(file)
      <4>1. \A x \in Nat : x \in Newlines(part) <=> x \in 1..(b - o) /\ o + x \in Newlines(file)
        BY <1>1, <3>2, ChunkIs
      <4> QED
        BY <1>1, <3>1, <3>2, <4>1
    <3> QED
      BY <2>1, <3>3 DEF Newlines
  <2>6. Rest(file) = Block - u /\ Rest(file) \in 1..Block
    <3>1. /\ o \in Nat /\ b \in Nat /\ u \in Nat /\ Block \in Nat
          /\ u <= b - o /\ b = o + Block /\ u # Block /\ Rest(file) = b - (o + u)
      BY <1>1, <1>6, <2>1, <2>4, <2>5, Zenon
    <3> QED
      BY <3>1
  <2> QED
    BY <1>4, <2>1, <2>2, <2>3, <2>6 DEF Loads, Back, more, to, h, part
<1> QED
  BY <1>9, <1>10 DEF more, to, h, part

\* The lines that are read again, and the block that begins with them.
LEMMA BackReads ==
  ASSUME NEW s \in Shells, NEW b, Reading(s, b), Back(file, offset[s], history[s])
  PROVE  Loads(file, OffsetBehind(s), history[s] \o LinesOf(Chunk(s)))
<1> DEFINE o == offset[s]
           h == history[s]
           part == Chunk(s)
           more == h \o LinesOf(part)
           to == OffsetBehind(s)
           u == LastNewline(part)
           r == Rest(file)
<1>1. /\ file \in Text /\ o \in Nat /\ b \in Nat /\ Len(file) \in Nat
      /\ o < b /\ b <= Len(file) /\ b <= o + Block
      /\ b = o + Block \/ b = Len(file)
      /\ part = SubSeq(file, o + 1, b)
      /\ u \in Nat /\ u <= b - o
      /\ Straddles(s) <=> b = o + Block /\ file[b] # "\n"
      /\ Straddles(s) => to + (Block - u) = Len(file)
      /\ ~Straddles(s) => to = b
      /\ to \in Nat
  BY DEF Reading
<1>2. /\ Straddled(file) # {} /\ r \in 1..Block /\ o + r = Len(file)
      /\ h = LinesOf(SubSeq(file, 1, Cut(file)))
  BY DEF Back
<1>3. Block \in Nat \ {0}
  BY BlockAssumption
<1> HIDE DEF o, h, to, u, r, part
<1>4. b = Len(file) /\ o = Len(file) - r
  BY <1>1, <1>2, <1>3
<1>5. more = LoadedFrom(file)
  <2>1. Len(file) - r + 1 = o + 1
    BY <1>1, <1>4
  <2>2. LoadedFrom(file) = LinesOf(SubSeq(file, 1, Cut(file)))
                             \o LinesOf(SubSeq(file, Len(file) - r + 1, Len(file)))
    BY <1>2 DEF LoadedFrom, Cut, Rest, r
  <2>3. part = SubSeq(file, Len(file) - r + 1, Len(file))
    BY <1>1, <1>4, <2>1
  <2> QED
    BY <1>2, <2>2, <2>3 DEF more
<1>6. \A k \in Newlines(file) : k <= to
  <2> TAKE k \in Newlines(file)
  <2>1. k \in Nat /\ k <= Len(file)
    BY <1>1, NewlinesOf
  <2>2. k <= o + u
    <3>1. o <= b /\ k <= b
      BY <1>1, <1>4, <2>1
    <3>2. k <= o + LastNewline(SubSeq(file, o + 1, b))
      BY <1>1, <3>1, NoneBehind
    <3> QED
      BY <1>1, <3>2 DEF u
  <2>3. CASE Straddles(s)
    BY <1>1, <1>3, <1>4, <2>1, <2>2, <2>3
  <2>4. CASE ~Straddles(s)
    BY <1>1, <1>4, <2>1, <2>4
  <2> QED
    BY <2>3, <2>4
<1> HIDE DEF more
<1>7. Loads(file, to, more)
  BY <1>2, <1>5, <1>6 DEF Loads, Over
<1> QED
  BY <1>7 DEF more, to, h, part

\* What follows holds no line.
LEMMA OverReads ==
  ASSUME NEW s \in Shells, NEW b, Reading(s, b), Over(file, offset[s], history[s]),
         history[s] \in Seq(Text)
  PROVE  Loads(file, OffsetBehind(s), history[s] \o LinesOf(Chunk(s)))
<1> DEFINE o == offset[s]
           h == history[s]
           part == Chunk(s)
           to == OffsetBehind(s)
           u == LastNewline(part)
<1>1. /\ file \in Text /\ o \in Nat /\ b \in Nat /\ Len(file) \in Nat
      /\ o < b /\ b <= Len(file) /\ b <= o + Block
      /\ b = o + Block \/ b = Len(file)
      /\ part = SubSeq(file, o + 1, b) /\ part \in Text
      /\ u \in Nat /\ u <= b - o
      /\ Straddles(s) <=> b = o + Block /\ file[b] # "\n"
      /\ Straddles(s) => to + (Block - u) = Len(file)
      /\ ~Straddles(s) => to = b
      /\ to \in Nat
  BY DEF Reading
<1>2. /\ Straddled(file) # {} /\ h = LoadedFrom(file)
      /\ \A k \in Newlines(file) : k <= o
  BY DEF Over
<1>3. Block \in Nat \ {0}
  BY BlockAssumption
<1> HIDE DEF o, to, u, part
<1>4. Newlines(part) = {}
  <2> SUFFICES ASSUME NEW x \in Newlines(part) PROVE FALSE
    OBVIOUS
  <2>1. x \in Nat
    BY <1>1, NewlinesOf
  <2>2. x \in 1..(b - o) /\ o + x \in Newlines(file)
    <3>1. o <= b
      BY <1>1
    <3>2. \A y \in Nat : y \in Newlines(part) <=> y \in 1..(b - o) /\ o + y \in Newlines(file)
      BY <1>1, <3>1, ChunkIs
    <3> QED
      BY <2>1, <3>2
  <2>3. o + x <= o
    BY <1>2, <2>2
  <2> QED
    BY <1>1, <2>1, <2>2, <2>3
<1>5. LinesOf(part) = << >> /\ u = 0
  BY <1>1, <1>4, NoLines DEF u
<1>6. h \o LinesOf(part) = h
  BY <1>5, ConcatEmptySeq
<1>7. \A k \in Newlines(file) : k <= to
  <2> TAKE k \in Newlines(file)
  <2>1. k \in Nat /\ k <= o
    BY <1>1, <1>2, NewlinesOf
  <2>2. CASE Straddles(s)
    BY <1>1, <1>3, <1>5, <2>1, <2>2
  <2>3. CASE ~Straddles(s)
    BY <1>1, <2>1, <2>3
  <2> QED
    BY <2>2, <2>3
<1>8. Loads(file, to, h)
  BY <1>2, <1>7 DEF Loads, Over
<1> QED
  BY <1>6, <1>8 DEF to, h, part
-----------------------------------------------------------------------------
\* While only one shell was ever started, it has the file for itself: the inductive
\* invariant.
Alone ==
  /\ \A s, t \in Shells : pc[s] # "off" /\ pc[t] # "off" => s = t
  /\ \A s \in Shells : pc[s] = "reading" => Loads(file, offset[s], history[s])

LoadInv ==
  /\ HistoryType /\ started \in Nat
  /\ \A s \in Shells : pc[s] = "off" => offset[s] = 0 /\ history[s] = << >>
  /\ started = 0 => \A s \in Shells : pc[s] = "off"
  /\ started = 1 => Alone

\* Nobody is there at first.
LEMMA LoadInvInit == HistoryInit => LoadInv
BY HistoryTypeInit DEF HistoryInit, LoadInv

\* A step of one shell that is there, which leaves it reading nothing.
LEMMA AloneOn ==
  ASSUME LoadInv, HistoryType', NEW s \in Shells, pc[s] # "off", started' = started,
         \A r \in Shells : r # s =>
           pc'[r] = pc[r] /\ offset'[r] = offset[r] /\ history'[r] = history[r],
         pc'[s] # "reading",
         pc'[s] = "off" => offset'[s] = 0 /\ history'[s] = << >>
  PROVE  LoadInv'
<1>1. ASSUME NEW r \in Shells, pc'[r] = "off" PROVE offset'[r] = 0 /\ history'[r] = << >>
  <2>1. CASE r = s
    BY <1>1, <2>1
  <2>2. CASE r # s
    BY <1>1, <2>2 DEF LoadInv
  <2> QED
    BY <2>1, <2>2
<1>2. started # 0 /\ started \in Nat
  BY DEF LoadInv
<1>3. ASSUME started = 1 PROVE Alone'
  <2>1. \A r \in Shells : r # s => pc[r] = "off"
    BY <1>3 DEF LoadInv, Alone
  <2>2. \A r \in Shells : r # s => pc'[r] = "off"
    BY <2>1
  <2> QED
    BY <2>2 DEF Alone
<1> QED
  BY <1>1, <1>2, <1>3 DEF LoadInv

\* The first shell starts at the beginning of the file, a later one is not alone.
LEMMA StartLoads ==
  ASSUME LoadInv, HistoryType', NEW s \in Shells, Start(s)
  PROVE  LoadInv'
<1>1. /\ pc' = [pc EXCEPT ![s] = "reading"] /\ started' = started + 1 /\ pc[s] = "off"
      /\ file' = file /\ offset' = offset /\ history' = history
      /\ started \in Nat /\ offset[s] = 0 /\ history[s] = << >>
      /\ pc \in [Shells -> {"off", "reading", "prompt", "text", "newline"}]
  BY DEF Start, LoadInv, HistoryType
<1>2. started' \in Nat /\ started' # 0
  BY <1>1
<1>3. \A r \in Shells : pc'[r] = "off" => offset'[r] = 0 /\ history'[r] = << >>
  BY <1>1 DEF LoadInv
<1>4. ASSUME started' = 1 PROVE Alone'
  <2>1. started = 0
    BY <1>1, <1>4
  <2>2. \A r \in Shells : r # s => pc'[r] = "off"
    BY <1>1, <2>1 DEF LoadInv
  <2>3. Loads(file', offset'[s], history'[s])
    BY <1>1, LoadsNothing DEF LoadInv, HistoryType
  <2> QED
    BY <2>2, <2>3 DEF Alone
<1> QED
  BY <1>2, <1>3, <1>4 DEF LoadInv

\* Where there is a copy, no shell is alone.
LEMMA CopyLoads ==
  ASSUME LoadInv, HistoryType', NEW s \in Shells, NEW t \in Shells, Copy(s, t)
  PROVE  LoadInv'
<1>1. /\ pc' = [pc EXCEPT ![t] = "prompt"] /\ started' = started + 1 /\ pc[s] = "prompt"
      /\ offset' = offset /\ history' = [history EXCEPT ![t] = history[s]]
      /\ started \in Nat
      /\ pc \in [Shells -> {"off", "reading", "prompt", "text", "newline"}]
  BY DEF Copy, LoadInv, HistoryType
<1>2. started # 0
  BY <1>1 DEF LoadInv
<1>3. started' \in Nat /\ started' # 0 /\ started' # 1
  BY <1>1, <1>2
<1>4. \A r \in Shells : pc'[r] = "off" => offset'[r] = 0 /\ history'[r] = << >>
  <2> SUFFICES ASSUME NEW r \in Shells, pc'[r] = "off"
               PROVE  offset'[r] = 0 /\ history'[r] = << >>
    OBVIOUS
  <2>1. r # t /\ pc[r] = "off"
    BY <1>1
  <2>2. history'[r] = history[r]
    BY <1>1, <2>1 DEF LoadInv, HistoryType
  <2> QED
    BY <1>1, <2>1, <2>2 DEF LoadInv
<1> QED
  BY <1>3, <1>4 DEF LoadInv

\* A block more is loaded.
LEMMA ReadBlockLoads ==
  ASSUME LoadInv, HistoryType', NEW s \in Shells, ReadBlock(s)
  PROVE  LoadInv'
<1>1. /\ pc' = pc /\ started' = started /\ pc[s] = "reading" /\ file' = file
      /\ offset' = [offset EXCEPT ![s] = OffsetBehind(s)]
      /\ history' = [history EXCEPT ![s] = history[s] \o LinesOf(Chunk(s))]
      /\ offset \in [Shells -> Nat] /\ history \in [Shells -> Seq(Text)]
  BY DEF ReadBlock, LoadInv, HistoryType
<1>2. \A r \in Shells : r # s => offset'[r] = offset[r] /\ history'[r] = history[r]
  BY <1>1
<1>3. offset'[s] = OffsetBehind(s) /\ history'[s] = history[s] \o LinesOf(Chunk(s))
  BY <1>1
<1>4. \A r \in Shells : pc'[r] = "off" => offset'[r] = 0 /\ history'[r] = << >>
  BY <1>1, <1>2 DEF LoadInv
<1>5. ASSUME started = 1 PROVE Alone'
  <2>1. \A r \in Shells : r # s => pc[r] = "off"
    BY <1>1, <1>5 DEF LoadInv, Alone
  <2>2. Loads(file, offset[s], history[s])
    BY <1>1, <1>5 DEF LoadInv, Alone
  <2>3. PICK b : Reading(s, b)
    BY ReadingIs DEF LoadInv
  <2>4. history[s] \in Seq(Text)
    BY <1>1
  <2>5. Loads(file, OffsetBehind(s), history[s] \o LinesOf(Chunk(s)))
    BY <2>2, <2>3, <2>4, StraightReads, BackReads, OverReads DEF Loads
  <2>6. Loads(file', offset'[s], history'[s])
    BY <1>1, <1>3, <2>5
  <2> QED
    BY <1>1, <2>1, <2>6 DEF Alone
<1>6. started = 0 => \A r \in Shells : pc'[r] = "off"
  BY <1>1 DEF LoadInv
<1> QED
  BY <1>1, <1>4, <1>5, <1>6 DEF LoadInv

\* A write changes the file only for a shell that is there.
LEMMA SaveLoads ==
  ASSUME LoadInv, HistoryType', NEW s \in Shells, Save(s)
  PROVE  LoadInv'
<1>1. HistoryType
  BY DEF LoadInv
<1>2. ASSUME NEW t, Write(s, t)
      PROVE  started' = started /\ \A r \in Shells : r # s => offset'[r] = offset[r]
  <2>1. CASE offset' = [offset EXCEPT ![s] = @ + Len(t)] /\ UNCHANGED counters
    BY <1>1, <2>1 DEF counters, HistoryType
  <2>2. CASE UNCHANGED << file, offset, found, entered, started, sought >>
    BY <2>2
  <2> QED
    BY <1>2, <2>1, <2>2, Zenon DEF Write
<1>3. CASE WriteLine(s)
  <2>1. /\ pc' = [pc EXCEPT ![s] = "newline"] /\ history' = history /\ pc[s] = "text"
        /\ Write(s, history[s][next[s]])
    BY <1>3 DEF WriteLine
  <2>2. pc'[s] = "newline" /\ \A r \in Shells : r # s => pc'[r] = pc[r]
    BY <1>1, <2>1 DEF HistoryType
  <2> QED
    BY <1>2, <2>1, <2>2, AloneOn
<1>4. CASE WriteNewline(s)
  <2>1. /\ pc' = [pc EXCEPT ![s] = "text"] /\ history' = history /\ pc[s] = "newline"
        /\ Write(s, << "\n" >>)
    BY <1>4 DEF WriteNewline
  <2>2. pc'[s] = "text" /\ \A r \in Shells : r # s => pc'[r] = pc[r]
    BY <1>1, <2>1 DEF HistoryType
  <2> QED
    BY <1>2, <2>1, <2>2, AloneOn
<1>5. CASE Exit(s)
  <2>1. Gone(s) /\ pc[s] = "text" /\ started' = started
    BY <1>5 DEF Exit, counters
  <2>2. /\ pc'[s] = "off" /\ offset'[s] = 0 /\ history'[s] = << >>
        /\ \A r \in Shells : r # s =>
             pc'[r] = pc[r] /\ offset'[r] = offset[r] /\ history'[r] = history[r]
    BY <1>1, <2>1 DEF Gone, HistoryType
  <2> QED
    BY <2>1, <2>2, AloneOn
<1> QED
  BY <1>3, <1>4, <1>5 DEF Save

\* Every step keeps it.
LEMMA LoadInvStep ==
  ASSUME LoadInv, [HistoryNext]_historyVars
  PROVE  LoadInv'
<1>1. HistoryType /\ HistoryType'
  BY HistoryTypeStep DEF LoadInv
<1>2. CASE UNCHANGED historyVars
  BY <1>1, <1>2 DEF historyVars, counters, LoadInv, Alone
<1>3. ASSUME NEW s \in Shells, EndOfFile(s) PROVE LoadInv'
  <2>1. /\ pc'[s] = "prompt" /\ started' = started /\ pc[s] = "reading" /\ history' = history
        /\ \A r \in Shells : r # s => pc'[r] = pc[r] /\ offset'[r] = offset[r]
    BY <1>1, <1>3 DEF EndOfFile, counters, HistoryType
  <2> QED
    BY <1>1, <2>1, AloneOn
<1>4. ASSUME NEW s \in Shells, history_add_entry(s) PROVE LoadInv'
  <2>1. /\ pc'[s] = "prompt" /\ started' = started /\ pc[s] = "prompt"
        /\ \A r \in Shells : r # s =>
             pc'[r] = pc[r] /\ offset'[r] = offset[r] /\ history'[r] = history[r]
    BY <1>1, <1>4 DEF history_add_entry, HistoryType
  <2> QED
    BY <1>1, <2>1, AloneOn
<1>5. ASSUME NEW s \in Shells, OpenToSave(s) PROVE LoadInv'
  <2>1. /\ pc'[s] = "text" /\ started' = started /\ pc[s] = "prompt"
        /\ \A r \in Shells : r # s =>
             pc'[r] = pc[r] /\ offset'[r] = offset[r] /\ history'[r] = history[r]
    BY <1>1, <1>5 DEF OpenToSave, counters, HistoryType
  <2> QED
    BY <1>1, <2>1, AloneOn
<1>6. ASSUME NEW s \in Shells, Dies(s) PROVE LoadInv'
  <2>1. /\ pc'[s] = "off" /\ started' = started /\ pc[s] # "off"
        /\ offset'[s] = 0 /\ history'[s] = << >>
        /\ \A r \in Shells : r # s =>
             pc'[r] = pc[r] /\ offset'[r] = offset[r] /\ history'[r] = history[r]
    BY <1>1, <1>6 DEF Dies, Gone, HistoryType
  <2> QED
    BY <1>1, <2>1, AloneOn
<1>7. ASSUME NEW s \in Shells,
             Start(s) \/ Read(s) \/ Save(s) \/ \E t \in Shells : Copy(s, t)
      PROVE  LoadInv'
  BY <1>1, <1>3, <1>7, StartLoads, ReadBlockLoads, SaveLoads, CopyLoads DEF Read
<1> QED
  BY <1>2, <1>4, <1>5, <1>6, <1>7 DEF HistoryNext

\* At the end of the file, a shell that was alone has loaded what the file says.
LEMMA LoadedAll ==
  ASSUME LoadInv, NEW s \in Shells, EndOfFile(s), started = 1
  PROVE  history[s] = LoadedFrom(file)
<1>1. /\ file \in Text /\ offset[s] = Len(file) /\ Len(file) \in Nat
      /\ Loads(file, offset[s], history[s])
  BY ChunkOf, NewlinesOf DEF LoadInv, HistoryType, Alone, EndOfFile
<1>2. CASE Straight(file, offset[s], history[s])
  <2>1. Straddled(file) = {}
    <3> SUFFICES ASSUME NEW k \in Straddled(file) PROVE FALSE
      OBVIOUS
    <3>1. k \in Nat /\ k \in 1..Len(file)
      BY <1>1, StraddledOf
    <3>2. Len(file) < k
      BY <1>1, <1>2 DEF Straight
    <3> QED
      BY <1>1, <3>1, <3>2
  <2>2. SubSeq(file, 1, Len(file)) = file
    BY <1>1, SubSeqFull DEF Text
  <2>3. history[s] = LinesOf(file)
    BY <1>1, <1>2, <2>2 DEF Straight
  <2> QED
    BY <2>1, <2>3 DEF LoadedFrom
<1>3. CASE Back(file, offset[s], history[s])
  <2>1. Rest(file) \in 1..Block /\ Len(file) + Rest(file) = Len(file)
    BY <1>1, <1>3 DEF Back
  <2> QED
    BY <1>1, <2>1, BlockAssumption
<1>4. CASE Over(file, offset[s], history[s])
  BY <1>4 DEF Over
<1> QED
  BY <1>1, <1>2, <1>3, <1>4 DEF Loads

\* LoadInv is an invariant of the shells.
LEMMA LoadInvariant == HistorySpec => []LoadInv
BY LoadInvInit, LoadInvStep, PTL DEF HistorySpec

\* What a shell that is alone with the file loads is a function of it: its lines, and
\* where one straddles two blocks the lines up to there and those that are read again
\* (read_history_file).
THEOREM AlwaysLoadsWhatIsSaved == HistorySpec => LoadsWhatIsSaved
<1>1. LoadInv /\ [HistoryNext]_historyVars =>
        [\A s \in Shells : EndOfFile(s) /\ started = 1 => history[s] = LoadedFrom(file)]_historyVars
  BY LoadedAll
<1> QED
  BY <1>1, LoadInvariant, PTL DEF HistorySpec, LoadsWhatIsSaved
=============================================================================
