----------------------------- MODULE HistoryFile -----------------------------
(***************************************************************************)
(* The history file (src/src/ux/history.c) and the shells that share it:   *)
(* each reads it block by block when it starts, and writes its list over   *)
(* it from the beginning, line by line and without truncating it, when it  *)
(* runs exit.  Copies of a shell (JobControl) do so, too.                  *)
(*                                                                         *)
(* The file is a sequence of characters.  A shell may die between any two  *)
(* calls, and a write may fail.                                            *)
(***************************************************************************)
EXTENDS Integers, SequencesExt

CONSTANTS Shells,
          Characters,
          Files,         \* the files considered: sequences of characters
          Lines,         \* what may be entered: not empty, and without "\n"
          Block,         \* BUFSIZE
          MaxLines,      \* bound: the lines entered in all shells
          MaxStarts,     \* bound: the shells started or copied
          MaxFaults      \* bound: the shells that die and the writes that fail

ASSUME BlockAssumption == Block \in Nat \ {0}
ASSUME CharactersAssumption == "\n" \in Characters
ASSUME FilesAssumption == \A f \in Files : f \in Seq(Characters)
ASSUME LinesAssumption ==
  \A l \in Lines : l \in Seq(Characters) /\ l # << >> /\ Len(l) < Block /\ ~Contains(l, "\n")

VARIABLES
  file,
  pc,         \* of every shell
  offset,     \* of its descriptor of the file
  history,
  next,       \* the line it saves next: i + 1 in history_save
  found,      \* the file at the first start
  entered, started, faults,
  sought,     \* some shell went back to read a line again (the lseek)
  failed      \* some write failed

counters == << found, entered, started, faults, sought, failed >>
historyVars == << file, pc, offset, history, next, counters >>

HistoryInit ==
  /\ file \in Files /\ found = file
  /\ pc = [s \in Shells |-> "off"]
  /\ offset = [s \in Shells |-> 0]
  /\ history = [s \in Shells |-> << >>]
  /\ next = [s \in Shells |-> 1]
  /\ entered = 0 /\ started = 0 /\ faults = 0 /\ sought = FALSE /\ failed = FALSE

Newlines(text) == {k \in DOMAIN text : text[k] = "\n"}

\* The place of the last newline; 0 when there is none (j).
LastNewline(text) == Max(Newlines(text) \cup {0})

\* The lines of a text that end in it.
LinesOf(text) ==
  [n \in 1..Cardinality(Newlines(text)) |->
     LET end == CHOOSE k \in Newlines(text) : Cardinality({j \in Newlines(text) : j <= k}) = n
     IN  SubSeq(text, LastNewline(SubSeq(text, 1, end - 1)) + 1, end - 1)]
-----------------------------------------------------------------------------
Start(s) ==
  /\ pc[s] = "off" /\ started < MaxStarts
  /\ pc' = [pc EXCEPT ![s] = "reading"]
  /\ started' = started + 1
  /\ UNCHANGED << file, offset, history, next, found, entered, faults, sought, failed >>

\* fork, for a background chain or the leader of one.
Copy(s, t) ==
  /\ pc[s] = "prompt" /\ pc[t] = "off" /\ started < MaxStarts
  /\ pc' = [pc EXCEPT ![t] = "prompt"]
  /\ history' = [history EXCEPT ![t] = history[s]]
  /\ started' = started + 1
  /\ UNCHANGED << file, offset, next, found, entered, faults, sought, failed >>

Chunk(s) == SubSeq(file, offset[s] + 1, Min({offset[s] + Block, Len(file)}))

\* A full block ends within a line.
Straddles(s) == Len(Chunk(s)) = Block /\ Last(Chunk(s)) # "\n"

\* (Fault) Going back, the size of the block is forgotten.
OffsetBehindFromEnd(s) ==
  IF Straddles(s)
  THEN Len(file) - LastNewline(Chunk(s)) ELSE offset[s] + Len(Chunk(s))

\* (Fault) A line that the file does not end is read again, too.
OffsetBehindAnyLine(s) ==
  IF Last(Chunk(s)) # "\n"
  THEN Len(file) - (Len(Chunk(s)) - LastNewline(Chunk(s))) ELSE offset[s] + Len(Chunk(s))

\* To read the line again, lseek(fd, j - readed, SEEK_END) counts from the end of the
\* file, not of the block.
OffsetBehind(s) ==
  IF Straddles(s)
  THEN Len(file) - (Block - LastNewline(Chunk(s))) ELSE offset[s] + Len(Chunk(s))

ReadBlock(s) ==
  /\ pc[s] = "reading" /\ Chunk(s) # << >>
  /\ history' = [history EXCEPT ![s] = @ \o LinesOf(Chunk(s))]
  /\ offset' = [offset EXCEPT ![s] = OffsetBehind(s)]
  /\ sought' = (sought \/ Straddles(s))
  /\ UNCHANGED << file, pc, next, found, entered, started, faults, failed >>

\* read returns 0: what is left of a line without a newline is not kept.
EndOfFile(s) ==
  /\ pc[s] = "reading" /\ Chunk(s) = << >>
  /\ pc' = [pc EXCEPT ![s] = "prompt"]
  /\ offset' = [offset EXCEPT ![s] = 0]
  /\ UNCHANGED << file, history, next, counters >>

history_add_entry(s) ==
  /\ pc[s] = "prompt" /\ entered < MaxLines
  /\ \E l \in Lines : history' = [history EXCEPT ![s] = Append(@, l)]
  /\ entered' = entered + 1
  /\ UNCHANGED << file, pc, offset, next, found, started, faults, sought, failed >>

\* (Fault) The file is emptied before it is written (O_TRUNC).
OpenToSaveTruncates(s) ==
  /\ pc[s] = "prompt"
  /\ pc' = [pc EXCEPT ![s] = "text"]
  /\ file' = << >>
  /\ UNCHANGED << offset, history, next, counters >>

\* exit: history_save opens the file anew, and does not truncate it.
OpenToSave(s) ==
  /\ pc[s] = "prompt"
  /\ pc' = [pc EXCEPT ![s] = "text"]
  /\ UNCHANGED << file, offset, history, next, counters >>

\* A write lands at the shell's own offset, over what is there.  If it fails the loop
\* goes on all the same: write_status, a size_t, is greater than 0 then, too.
Write(s, text) ==
  \/ /\ file' = [k \in 1..Max({Len(file), offset[s] + Len(text)}) |->
                   IF k \in offset[s] + 1 .. offset[s] + Len(text)
                   THEN text[k - offset[s]] ELSE file[k]]
     /\ offset' = [offset EXCEPT ![s] = @ + Len(text)]
     /\ UNCHANGED counters
  \/ /\ faults < MaxFaults /\ faults' = faults + 1 /\ failed' = TRUE
     /\ UNCHANGED << file, offset, found, entered, started, sought >>

WriteLine(s) ==
  /\ pc[s] = "text" /\ next[s] <= Len(history[s])
  /\ Write(s, history[s][next[s]])
  /\ pc' = [pc EXCEPT ![s] = "newline"]
  /\ UNCHANGED << history, next >>

WriteNewline(s) ==
  /\ pc[s] = "newline"
  /\ Write(s, << "\n" >>)
  /\ pc' = [pc EXCEPT ![s] = "text"]
  /\ next' = [next EXCEPT ![s] = @ + 1]
  /\ UNCHANGED history

\* The shell is over, and its memory with it.
Gone(s) ==
  /\ pc' = [pc EXCEPT ![s] = "off"]
  /\ offset' = [offset EXCEPT ![s] = 0]
  /\ history' = [history EXCEPT ![s] = << >>]
  /\ next' = [next EXCEPT ![s] = 1]

Exit(s) ==
  /\ pc[s] = "text" /\ next[s] > Len(history[s])
  /\ Gone(s)
  /\ UNCHANGED << file, counters >>

\* Killed, by hand or by the terminal that goes away.
Dies(s) ==
  /\ pc[s] # "off" /\ faults < MaxFaults
  /\ Gone(s)
  /\ faults' = faults + 1
  /\ UNCHANGED << file, found, entered, started, sought, failed >>

Read(s) == ReadBlock(s) \/ EndOfFile(s)

Save(s) == WriteLine(s) \/ WriteNewline(s) \/ Exit(s)

HistoryNext ==
  \E s \in Shells :
    \/ Start(s) \/ Read(s) \/ history_add_entry(s) \/ OpenToSave(s) \/ Save(s) \/ Dies(s)
    \/ \E t \in Shells : Copy(s, t)

\* Reading and saving go on by themselves.
HistorySpec ==
  /\ HistoryInit /\ [][HistoryNext]_historyVars
  /\ \A s \in Shells : WF_historyVars(Read(s)) /\ WF_historyVars(Save(s))
-----------------------------------------------------------------------------
\* The places where a block of the text ends within a line.
Straddled(text) == {k \in DOMAIN text : k % Block = 0 /\ text[k] # "\n"}

\* Every line that ends in the text; but if a line straddles two blocks, only the lines
\* up to there, and those of as many characters at the end of the text as the block had
\* behind its last newline.
LoadedFrom(text) ==
  IF Straddled(text) = {} THEN LinesOf(text)
  ELSE LET cut  == Min(Straddled(text))
           rest == cut - LastNewline(SubSeq(text, 1, cut))
       IN  LinesOf(SubSeq(text, 1, cut)) \o LinesOf(SubSeq(text, Len(text) - rest + 1, Len(text)))

\* What a shell loads is a function of the file, and all of its lines when none
\* straddles two blocks: the loop of read_history_file neither doubles nor drops a line
\* between two blocks, but where it goes back to the wrong place.
LoadsWhatIsSaved ==
  [][\A s \in Shells : EndOfFile(s) /\ started = 1 => history[s] = LoadedFrom(file)]_historyVars

\* As long as no shell went back and no write failed, the lines that the first shell
\* found stay in the file, whatever shells read and save at once and die on the way:
\* they write over them the very lines they have loaded (history_save, which does not
\* truncate the file).
KeptAsFound ==
  ~sought /\ ~failed => IsPrefix(SubSeq(found, 1, LastNewline(found)), file)

\* No shell hangs at its start (the loop of read_history_file reads a block that holds
\* no newline over and over): the lines are shorter than a block, and whatever mixture
\* two shells leave when they save at once, its end holds a newline.  Two faults can
\* take that from it.
LoadEnds == \A s \in Shells : pc[s] = "reading" ~> pc[s] # "reading" \/ faults > 1
==============================================================================
