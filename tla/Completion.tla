------------------------------ MODULE Completion ------------------------------
(***************************************************************************)
(* Completion (src/src/ux/complete.c): the executables are read from the   *)
(* directories of PATH when the shell starts; on a tab, those that begin   *)
(* with the word are searched for (find), or the names in a directory      *)
(* (read_dirents), listed, and the word is lengthened                      *)
(* (insert_minimal_prefix).                                                *)
(*                                                                         *)
(* A name is a sequence of characters, and a character a number.  Left     *)
(* out: how the list is laid out, `more` when it is long, and a tab behind *)
(* a blank, which lists the whole directory.                               *)
(***************************************************************************)
EXTENDS Integers, SequencesExt

CONSTANTS Paths,            \* what PATH may be: sequences of directories
          Missing,          \* a directory that cannot be opened
          Words,            \* what may be typed
          MinResultsMore    \* MIN_RESULTS_MORE

Characters == Nat \ {0}
Name == Seq(Characters) \ {<< >>}

ASSUME WordsAssumption == Words \subseteq Name
ASSUME PathsAssumption ==
  \A p \in Paths :
    /\ p \in Seq({Missing} \cup SUBSET Name)
    /\ \A k \in DOMAIN p : p[k] # Missing => IsFiniteSet(p[k])
ASSUME MoreAssumption == MinResultsMore \in Nat \ {0}

VARIABLES
  phase,
  path,           \* PATH
  dir,            \* the directory read_executables is at
  executables,
  word,           \* the word in the buffer
  typed,          \* what it was when the tab came
  left, right,
  result_set

search == << left, right >>
completionVars == << phase, path, dir, executables, word, typed, search, result_set >>

CompletionInit ==
  /\ path \in Paths
  /\ phase = "init" /\ dir = 1 /\ executables = << >>
  /\ word = << >> /\ typed = << >>
  /\ left = 1 /\ right = 1 /\ result_set = << >>

\* strcmp(a, b) < 0.  The NUL behind a name is less than every character.
Less(a, b) ==
  \/ IsStrictPrefix(a, b)
  \/ \E k \in DOMAIN a \cap DOMAIN b :
       a[k] < b[k] /\ \A j \in 1..(k - 1) : a[j] = b[j]

\* prefix[k], for k up to the name's length: the NUL included.
CharAt(name, k) == IF k = Len(name) THEN 0 ELSE name[k + 1]
-----------------------------------------------------------------------------
(* completion_init *)

ReadDirectory ==
  /\ phase = "init" /\ dir <= Len(path) /\ path[dir] # Missing
  /\ executables' = executables \o SetToSeq(path[dir])
  /\ dir' = dir + 1
  /\ UNCHANGED << phase, path, word, typed, search, result_set >>

\* `continue` goes back to the same directory: the shell never gets to its first prompt.
CannotOpen ==
  /\ phase = "init" /\ dir <= Len(path) /\ path[dir] = Missing
  /\ UNCHANGED completionVars

\* qsort: the names in an order in which none is less than one before it.
Sort ==
  /\ phase = "init" /\ dir > Len(path)
  /\ \E place \in Bijection(DOMAIN executables, DOMAIN executables) :
       executables' = [k \in DOMAIN executables |-> executables[place[k]]]
  /\ \A j, k \in DOMAIN executables : j < k => ~Less(executables'[k], executables'[j])
  /\ phase' = "ready"
  /\ UNCHANGED << path, dir, word, typed, search, result_set >>
-----------------------------------------------------------------------------
(* find: executables[left + 1 .. right] is the window. *)

Tab ==
  /\ phase = "ready"
  /\ \E w \in Words : typed' = w /\ word' = w
  /\ left' = 0 /\ right' = Len(executables)
  /\ result_set' = << >>
  /\ phase' = "find"
  /\ UNCHANGED << path, dir, executables >>

mid == left + (right - left) \div 2

Node(k) == executables[k + 1]

Matches(name) == IsPrefix(typed, name)

\* The first place where a node and the word differ decides, or the node's end.
NodeIsGreater(node) == Less(typed, node) /\ ~Matches(node)

\* (Fault) The node below one that is greater leaves the window, too.
NarrowTooFar ==
  /\ phase = "find" /\ left < right /\ ~Matches(Node(mid))
  /\ IF NodeIsGreater(Node(mid)) THEN right' = mid - 1 /\ UNCHANGED left
     ELSE left' = mid + 1 /\ UNCHANGED right
  /\ UNCHANGED << phase, path, dir, executables, word, typed, result_set >>

Narrow ==
  /\ phase = "find" /\ left < right /\ ~Matches(Node(mid))
  /\ IF NodeIsGreater(Node(mid)) THEN right' = mid /\ UNCHANGED left
     ELSE left' = mid + 1 /\ UNCHANGED right
  /\ UNCHANGED << phase, path, dir, executables, word, typed, result_set >>

\* From mid upwards, and from mid - 1 downwards as long as it is greater than left:
\* executables[left] is looked at only when it is mid.
Collected ==
  LET Run(j, k) == \A n \in j..k : Matches(Node(n))
      lowest  == Min({k \in {mid} \cup (left + 1)..mid : Run(k, mid)})
      highest == Max({k \in mid..(right - 1) : Run(mid, k)})
  IN  SubSeq(executables, lowest + 1, highest + 1)

\* For mid = 0 the loop downwards begins at (size_t) -1, outside of the list.
FindsFirst ==
  /\ phase = "find" /\ left < right /\ Matches(Node(mid)) /\ mid = 0
  /\ phase' = "undefined"
  /\ UNCHANGED << path, dir, executables, word, typed, search, result_set >>

Finds ==
  /\ phase = "find" /\ left < right /\ Matches(Node(mid)) /\ mid > 0
  /\ result_set' = Collected
  /\ phase' = "insert"
  /\ UNCHANGED << path, dir, executables, word, typed, search >>

FindsNone ==
  /\ phase = "find" /\ left >= right
  /\ phase' = "ready"
  /\ UNCHANGED << path, dir, executables, word, typed, search, result_set >>
-----------------------------------------------------------------------------
\* A tab in a later word: read_dirents, in the order of readdir.  The directories of
\* PATH stand for the directory the word is in.
TabInArgument ==
  /\ phase = "ready"
  /\ \E w \in Words, k \in DOMAIN path :
       /\ path[k] # Missing
       /\ \E names \in SetToSeqs({n \in path[k] : IsPrefix(w, n)}) : result_set' = names
       /\ typed' = w /\ word' = w
  /\ phase' = IF result_set' = << >> THEN "ready" ELSE "insert"
  /\ UNCHANGED << path, dir, executables, search >>

min_len == Min({Len(result_set[n]) : n \in DOMAIN result_set})

\* *buffer_index_ptr - start, where start is the place of the blank before the word.
l == Len(typed) + 1

Differences(n, j) == {k \in l..j : CharAt(result_set[1], k) # CharAt(result_set[n], k)}

\* (Fault) Only the last result counts.
AgreeingLast == min_len - Cardinality(Differences(Len(result_set), min_len))

\* j of insert_minimal_prefix: for every further result, as many less as characters up
\* to it differ.  Once it is less than l the loop is left.
Agreeing ==
  LET after[n \in DOMAIN result_set] ==
        IF n = 1 THEN min_len
        ELSE IF after[n - 1] < l THEN after[n - 1]
        ELSE after[n - 1] - Cardinality(Differences(n, after[n - 1]))
  IN  after[Len(result_set)]

\* complete: the word grows by the characters of the first result up to there.
Insert ==
  /\ phase = "insert"
  /\ word' = IF Len(result_set) <= MinResultsMore /\ min_len > l /\ Agreeing >= l
             THEN SubSeq(result_set[1], 1, Agreeing) ELSE word
  /\ phase' = "ready"
  /\ UNCHANGED << path, dir, executables, typed, search, result_set >>

CompletionNext ==
  \/ ReadDirectory \/ CannotOpen \/ Sort
  \/ Tab \/ Narrow \/ FindsFirst \/ Finds \/ FindsNone
  \/ TabInArgument \/ Insert

CompletionSpec == CompletionInit /\ [][CompletionNext]_completionVars
-----------------------------------------------------------------------------
Matching == {k \in DOMAIN executables : Matches(executables[k])}

\* The binary search finds every executable that begins with the word, but for the
\* least, which it may miss (the loop downwards of find); it finds none only if there
\* is none, and leaves the list only where the least of all begins with the word.
FoundAreMatches ==
  [][/\ Finds => \E least \in {Min(Matching), Min(Matching) + 1} :
                   result_set' = SubSeq(executables, least, Max(Matching))
     /\ FindsNone => Matching = {}
     /\ FindsFirst => 1 \in Matching]_completionVars

\* The results go on alike by one character, and once one differs from the first it
\* differs from there on: then the count of insert_minimal_prefix is the place where
\* they part.
PartForGood ==
  \A n \in DOMAIN result_set : \A j, k \in (l - 1)..(min_len - 1) :
    LET Apart(i) == CharAt(result_set[1], i) # CharAt(result_set[n], i)
    IN  ~Apart(l - 1) /\ (j < k /\ Apart(j) => Apart(k))

\* Completion never takes away what was typed nor invents a name: the word stays a
\* prefix of the first result, no longer than the shortest; a sole result that is
\* longer by more than a character is completed; and where the results part for good,
\* the word remains a prefix of them all.
CompletedIsCommon ==
  [][Insert =>
       /\ IsPrefix(typed, word') /\ IsPrefix(word', result_set[1])
       /\ Len(word') <= min_len
       /\ Len(result_set) = 1 /\ min_len > l => word' = result_set[1]
       /\ PartForGood => \A n \in DOMAIN result_set : IsPrefix(word', result_set[n])]_completionVars
==============================================================================
