# A TLA+ development of zhsh

zhsh (`src/`) is a small interactive shell in C: it reads a line, parses it into
chains of pipelines, runs them as jobs under job control, and keeps a jobs list,
an environment and a history.  The modules here model its core, TLC checks them on
small instances, and TLAPS proves the most important results for every value of
the constants.

All paths below are relative to `src/src/`, where the code is.

## 1. Inventory

| Component | State | Operations | Talks to |
|---|---|---|---|
| jobs list (`jobs.c`, `jobs.h`) | `jobs` (head, tail, size, cells), `last_updt_job` | `add_job`, `get_job`, `remove_job`, the walk of `wait_jobs` | job control |
| job control (`jobs.c`, `builtins/{fg,bg,jobs,exit}.c`, `tty_handle.c`) | `SHELL_PID`, terminal mode; the kernel's process table and foreground group | `wait_jobs`, `set_foreground_*`, `set_background_*`, `exit` | kernel (fork, waitpid, setpgid, kill, tcsetpgrp), jobs list |
| chain executor (`parser/interpreter.c`) | none of its own: the shell, the leader it forks for a chain, and their descriptors | `main_executor`, `execute_foreground`, `execute_background`, `execute_pipeline`, `execute_cmd` | parser (chains), job control, builtins, kernel |
| parser (`parser/parser.c`) | one index, `argv_list`, `io_redirections`, the structures under construction | `parse`, `create_io_redirection` | lexer (tokens), executor (chains) |
| environment (`env.c`, `hashtable.c`) | hash table; `argc`, `argv` | `get_env`, `set_env`, `shift_pos_args`, resize | preprocessor, `cd`, prompt, completion |
| lexer (`parser/lexer.c`, `token.c`, `recognizer.c`) | escape level, token buffer | `tokenize` | command loop, parser |
| preprocessor (`parser/preprocessor.c`) | none | `expand_variables`, `open_glob` | environment, array lists |
| command loop and line editor (`zhsh.c`, `tty_navigation.c`, `io.c`) | `buffer`, `buf_index`, `promt_position` | `handle_char`, `handle_tty_navigation`, `promt` | terminal, history, completion, executor |
| history (`ux/history.c`) | `history`, `history_ptr`, the file | up, down, add, read and save the file | line editor |
| completion (`ux/complete.c`) | sorted `executables`, `result_set` | `complete`, `find`, `insert_minimal_prefix` | line editor, environment |
| array lists (`arraylist.c`) | size, capacity, data | append, remove, merge | most others |
| cd, pwd, shift, true, false | none | the builtins | environment |
| kill | - | not compiled: `builtin.c` does not include it | - |
| signal names, messages, strings | constant tables, formatting | - | - |

What is hard about it:

* **Interleavings.** Jobs die, stop and continue between any two system calls of a
  handler.  `setpgid` is called by the parent only, after `fork`, so a chain's
  leader may fork commands, wait, or be gone before it has its group.
* **Copies of the shell.** `execute_background` has an empty child branch
  (`interpreter.c:195`): the child returns into `main_executor`'s loop and becomes a
  second zhsh that runs the rest of the line and then prompts, with a copy of the
  jobs list, whose jobs are not its children, on the same terminal.
* **Stale state.** `fg` decides by the recorded `stat`; `last_updt_job` names a job
  by number and numbers are reused; a removed tail leaves a dangling `next`.
* **Order.** Gates follow the status `waitpid` reported last; the terminal changes
  hands in several steps; three parser loops hand one token on by `break`.
* **Descriptors.** A leader redirects itself, dups and closes pipe ends between forks,
  and every child inherits what is open at that moment; backups, inputs and outputs
  stay open from one pipeline of a chain to the next.
* **Files and crashes.** All shells, and their copies, save over one history file from
  its beginning, line by line, without truncating it, and may die in between; the next
  shell reads the mixture in blocks.
* **Boundaries.** Three loops count down or towards a `size_t` 0 (`find`,
  `merge_arraylists`, `insert_minimal_prefix`), and the lexer looks at `token[-1]`.

What makes the components correct, in short: no child is lost and none is listed
after it was collected; a number names one job; nobody waits for what will not
come; the terminal is given back; `&&` and `||` are followed; the end of input
reaches every command of a pipeline, and every command gets the ends that the
redirections and its neighbours say; a line becomes the words and the commands it
says; the environment is a map; saving keeps the history that was there; completion
finds what begins with the word, and invents nothing.

## 2. Modules

| Module | Models | Uses |
|---|---|---|
| `JobTable` | the list as a sequence of records: numbering, adding, removing, `last_updt_job` | |
| `JobTableSpec` | what the list promises: search, add, mark, and a walk that removes | `JobTable` |
| `JobList`, `MCJobList` | the same list cell by cell, with `malloc`/`free`, `head`, `tail` and stale `next` fields; refines `JobTableSpec` | `JobTable` |
| `JobControl`, `MCJobControl` | the command loop, `wait_jobs`, `fg`, `bg`, `exit` and background chains, in the shell and all its copies, over the kernel | `JobTable` |
| `JobControlProofs` | lemmas about the list; the inductive invariant of `JobControl` | `JobControl` |
| `JobListProofs` | the list's cells as a row, and the refinement of `JobTableSpec` | `JobList`, `NatInduction` |
| `ChainSpec` | what `&&` and `\|\|` mean: after a pipeline, the first one whose gate accepts the status reported last; which commands may be left behind, and when a pipeline is run again | |
| `ChainExec`, `MCChainExec` | a foreground chain: the shell's own builtins, the leader, the group it is in, `waitpid(0)` and the status it reports, the shift; refines `ChainSpec` | |
| `ChainExecProofs` | the chain executor's proofs, the refinement included | `ChainExec`, `NatInduction` |
| `Pipeline`, `MCPipeline` | the descriptors of the pipelines of a chain by their numbers: redirections, backups, pipes, inheritance; full and empty pipes, end of input; which commands `setpgid` hides from the leader | |
| `PipelineProofs` | who holds which end at each place of the loop; what is written comes out, whichever commands are overlooked | `Pipeline`, `NatInduction` |
| `Lexer` | `tokenize` over classes of characters; a token is the places of its characters | |
| `Words`, `MCWords` | the loop of `handle_line` over the tokens: `expand_variables`, `open_glob`, and the list that grows in the middle | `Lexer` |
| `Parser` | `parse` as a machine over token kinds, one action per branch of its loops | |
| `ParserMeaning`, `MCParser` | what a whole line means, by cutting it at `;` `&`, then gates, then pipes | `Parser` |
| `LanguageProofs` | the proofs of the lexer, of the list of words and of the parser, up to what a line means | `Words`, `ParserMeaning`, `NatInduction` |
| `LineEditor`, `MCLineEditor` | keys, the prompt and its question to the terminal, the history in memory, and a terminal whose lines wrap and scroll | |
| `LineEditorProofs` | what the screen shows, for every size of terminal, line and history; what the search for names finds, and how far a word grows | `LineEditor`, `Completion`, `NatInduction` |
| `HistoryFile`, `MCHistoryFile` | the history file, and the shells that read it in blocks, save over it and die | |
| `Completion`, `MCCompletion` | reading PATH, the binary search, the names of a directory, and how the word grows | |
| `EnvMap` | a map from names to values | |
| `HashTable`, `MCHashTable` | `put`, `get` and `resize`, with the capacity's limit; refines `EnvMap` | |
| `StoreProofs` | the proofs of what the shell stores: the hash table, the refinement included, and the history file | `HashTable`, `HistoryFile`, `NatInduction` |
| `NatInduction` | lemmas: least elements, induction and recursion over the naturals, with sets for predicates; sets of places listed in their order; sequences cut and joined; remainders | |

How state and actions correspond:

* **`JobControl`.** `state`, `parent`, `pgid`, `fgPgrp` are the kernel's; `list`,
  `stale`, `lastUpd` are each shell's `jobs` and `last_updt_job` (copied by fork);
  `pc`, `job`, `cursor` say where each shell is in its handlers.  One action is one
  stretch between system calls whose outcome others can influence: `ReapNothing`,
  `ReapDead` and `ReapMissing` are the three outcomes of the `waitpid` of one turn of
  `wait_jobs`, with the removal; `FgSet`, `FgCont`, `WaitDead`, `WaitStopped`,
  `WaitFails`, `FgEnd` are `set_foreground_by_num` call by call.  `WaitFails` leaves
  `status` uninitialised in the code: the mark that follows is a free choice.
  `WalkOffTail` is a shell that follows a dangling `next` (undefined from there).
* **`ChainExec`.** `pos` is `pipeline` of the shell or the leader, `next` its loop
  index, `group` the group the leader is in (the shell's until `AddJob` calls
  `setpgid`), `waited` the group a `waitpid(0)` in progress looks at: the kernel
  fixes it at the call.  `status` is the variable of that name, the shell's and then the
  leader's: what the builtin that the shell ran returned (`RunInShell`), or what `waitpid`
  reported last.  `Shift` is the loop over `next_action`, in `ShellFollows` and in
  `GoToNext`.  In `ChainSpec` a status is what a command that was there has come to, and
  `overlooked` are the commands that `setpgid` left behind, in the group of the shell.
* **`Pipeline`.** `fds[p]` is what the descriptors of a process are open on, by number;
  process 0 is the leader.  `local` holds the numbers in `backup`, `infd` and `output`.
  `Backup`, then one action per redirection, `Redirected` (the dups into `input` and
  `output`), a turn of the loop up to `execute_cmd` (`ConnectToPipe`, `ConnectLast`),
  `Start` (the fork, with everything that is inherited), `Restore`.  `dup`, `open` and
  `pipe` return the lowest free number.  `NextPipeline` keeps what the leader has open.
  `AddJob` is the `setpgid` of the shell: the commands that run then are `overlooked`, and
  `Done`, the `waitpid` loop, ends without them.  Behind `NextPipeline` these are followed
  no further: they run on, over pipes that no other pipeline has open (`OneWriter`), and
  no one waits for them.  That a pipeline is run a second time is no action of its own: its
  effect on the descriptors is that of a chain which holds it twice.
  The commands are environment: sources, filters, `head`, `yes`, and builtins, which
  the leader runs itself.
* **`Parser`.** `kinds` are the kinds of the tokens, `place` is the index the three loops share; `level` says which loop has
  control; `Word`, `Redirect`, `Command`, `EmptyCommand`, `UnexpectedEnd` are the
  branches of the innermost loop, `DropPipeline` and `Pipeline` of the middle one,
  `Chain` of the outer one.  A word is the place of its token, so that losing,
  moving or repeating one is visible.
* **`Lexer`.** `inWord` is `IS_TOKEN`, `word` the buffer `token[0..j)`, `escape` and
  `process` are `esc_lvl` and `tkn_proc`; one action per way a turn of the loop ends,
  between words (`Skip`, `Bind`, `StartQuoted`, `StartWord`) and in one (`EndWord`,
  `EndByOperator`, `AddChar`).  A character is its place in the line, so that losing,
  repeating or moving one is visible.  `token[-1]` is a free choice.
* **`Words`.** `list` and `index` are the token list and `i` of `handle_line`; one action
  per turn of its loop.  An expanded word is the places of the characters that are left
  of it, so that one that is lost or kept by mistake shows; a value is a 0, and a name is
  its length.  Which names a pattern matches is a free choice.
* **`HistoryFile`.** One action per system call of `read_history_file` and
  `history_save`, but that a `read` and the `lseek` behind it are one (`ReadBlock`): a write
  of another shell between the two, which moves the end of the file, is left out.  `offset`
  is the descriptor's, so that two shells save at once as the kernel lets them.  `sought` and `failed` are no program state; they tell the runs
  in which a shell went back with `lseek`, or a write failed.
* **`Completion`.** `left`, `right`, `mid` and `result_set` as in `find`; a name is a
  sequence of numbers, compared as `strcmp` does, the NUL included.  Where the code
  leaves the list the shell is `undefined`.
* **`LineEditor`.** `buffer`, `buf_index`, `promt_position`, `history`, `history_ptr` as
  in the code; one action per key.  `tty` is the terminal, its cells numbered row by
  row; a character in the last column leaves the cursor on it (`edge`) until the next
  one is written, as terminals do.  `input` is what standard input holds: keys and,
  between them, the terminal's answer.  `ReadPosition` reads as the code does up to the
  answer's `R`: behind an arrow typed ahead the row becomes 0, which is the first row to the
  terminal (`InFirstRow`).  `drifted`, `misled` and `tty.line` are no program state.
  `drifted` tells whether the user has moved the cursor from the line's end, or deleted over
  the edge of a row; `tty.line` is where the line was last begun to be written, behind the
  prompt or at the place kept for recalled lines: one that has scrolled away begins above
  the first row, and is followed as far as its characters can reach.  `misled` tells whether
  that kept place was wrong from the start, or the terminal has scrolled since.
* **`JobList`.** `heap`, `live`, `head`, `tail`, `size` as in `jobs.c`; a freed
  cell keeps nothing definite, and reading one sets `broken`.  `Walk[k]` is the cell that
  a walk from `head` meets after `k` steps, `Steps` the cells it meets at all.
* **`HashTable`.** `capacity`, `threshold`, `size`, `table` as in `hashtable.c`; a
  bucket is the set of its nodes; `hash` is any function from names to numbers.

Each `(Fault)` operator is a definition as a plausible mistake would have it; no
specification uses it.  `PROJECT.json` pairs every checked property with one that
breaks it.

## 3. Runs

| Run | Question | Bounds |
|---|---|---|
| `jobcontrol_copies` | the inductive invariant with copies, copies of copies, and `fg`, `bg`, `exit` inside chains | 2 other processes, 2 copies |
| `jobcontrol_live` | does the first shell always come back to its prompt, with the terminal, and do numbers name one job | 2 other processes, 1 copy |
| `joblist` | is the linked list the sequence its users see | 4 cells, 4 jobs, numbers to 4 |
| `chainexec` | do gates decide by the status reported last, which commands are left behind, does the leader go on, for every chain and every moment of `setpgid` | chains of 1 to 3 pipelines, 2 processes at a time |
| `chainexec_status` | does a gate see what a builtin returned, as the comment says? No | as above |
| `pipeline` | does every command get its ends, does all data arrive, and does the end of input reach every filter, at every moment of `setpgid` | one pipeline of 4 commands; two in a chain with 2 and 1 redirections; pipes of 1 block, sources of 2; descriptors to 14 |
| `words` | is every character in one token, do tokens end where they should, whose are the flags, where do names go, does the list end in its one EOF, what does a backslash protect | all lines of up to 4 characters, up to 6 of six classes and of five; 1 or 2 names for a pattern |
| `parser` | does every line become what it says | all lines of up to 4 tokens, up to 6 of the five main kinds |
| `lineeditor` | does the screen show the line, where will a recalled line be written, and is what is run what the screen showed | lines of 2 characters, 2 history lines, 2 keys ahead, a terminal of 2 rows of 2 |
| `historyfile` | does saving keep what was there, and is what is loaded what the file says | 2 shells at a time, 3 starts, 1 new line, 1 fault; blocks of 3 characters, files of up to 3 lines |
| `completion` | is everything found that begins with the word, and what may the word become | names of up to 4 of two characters, three of them or any set of the short ones |
| `hashtable` | is the table a map, through collisions and resizes | 4 names, every hashing into 0..7, 2 to 8 buckets |

Why these bounds are enough. A shell's handlers work on one job at a time; the list's
special cases (only job, head, middle, tail) need three and are in `joblist`, where
numbers are reused as well. The effects of copies need a copy that inherits a job and a
copy of that copy. Of a chain, a gate that is skipped and one that is taken behind it
need three pipelines; the longest chains are checked with single commands, the shorter
ones with pipes. A pipe of one block is already both full and empty around every write,
and four commands give a first, two inner ones next to each other and a last. What one
pipeline leaves open is seen by the next, so that two suffice, and the order of
redirections shows with two; the greatest descriptor used is below `MaxFd`, so that
`dup` and `pipe` never find all of them taken. Every loop of the parser is entered, continued and left by every
kind of token within four; the longer lines combine the kinds. A line of four
characters has every pair and triple of classes inside and outside quotes; six hold two
words with an operator, a quote and a flag, a pattern between two words, and two
backslashes in front of a `$` in a word. Two characters make a recalled line longer
than, as long as and shorter than the one it replaces, and two keys ahead of a prompt
are one before the answer and one behind; behind the prompt such a line ends at the
edge of a row, wraps, and scrolls the terminal (rows of three hold, too, but take four
minutes). A block of three characters ends with a line,
within one, and within the last, unfinished one; two shells are enough to save at once,
and the third start reads what they left. Three names give the search a match at, below
and above the middle, the directory of six names one at every place of two rounds. The
table doubles twice and reaches its limit; four names exceed every threshold.

What the violation run shows (the counterexample is short and worth reading):
`execute_cmd` drops what a builtin returns, so that a builtin run by the leader counts
as a success, unlike one the shell runs itself: in `a && false && c`, `c` is run.

Met on the way and in the models, but contradicted by no text of the repository:

* after the tail of the jobs list was removed, the new tail's `next` still points at
  the freed cell, and the next search or walk past the tail reads it (`jobs.c:72`;
  `broken` in `JobList`, `undefined` in `JobControl`);
* a line ending in `&` or `;` is refused as a whole (`parser.c:191`), so that `sleep 9
  &` alone is a syntax error;
* `a | | b` runs `b` only;
* `echo $unset > f` takes the empty word for a descriptor and redirects descriptor 0
  (`parser.c:131`);
* the leader's first commands may stay in the group of the shell (`jobs.c:15`): it does
  not wait for them, takes its gates from the others or from none, and may end, and the
  prompt come back, while they run (`overlooked`);
* `wait_jobs` in a copy of the shell takes the jobs it inherited, which are not its
  children, for deleted, though they run (`jobs.c:153`);
* a pipeline whose last reported status is a stop is run again (`interpreter.c:175`);
* the child of a background chain never runs the chain;
* a command inherits `infd`, the read end of its own output pipe (`interpreter.c:96`),
  so that `yes | head` gets no SIGPIPE and does not end;
* a redirection of descriptor 3 or 4 overwrites `backup`: 0 and 1 are then not restored
  for the next pipeline (`Plain` in `Pipeline`); one of 2 holds for the pipelines that
  follow (`interpreter.c:109`); and O_CREAT is always set, so that `< missing` makes the
  file (`interpreter.c:74`);
* a quote that the line does not close drops its word (`lexer.c:48`);
* whether a `$` right behind a double quote is expanded depends on the byte in front
  of the buffer (`lexer.c:55`);
* a pattern in the first word of a line makes `merge_arraylists` run out of the list
  (`arraylist.c:114`; `GlobFirst`); one that no name matches stays as it is;
* a backslash stays in a word without a `$`; and of `\\$x` the lexer says that the `$` is
  protected and the expansion, when another `$` makes it run, that it is not
  (`lexer.c:55`, `preprocessor.c:28`);
* a line of the history file that straddles a block is not read again: `lseek` counts
  from the end of the file, and what is there is read in its place
  (`history.c:52`; `LoadedFrom` says what exactly);
* a write that fails while another shell dies can leave a file whose end has a full
  block without a newline, which the next shell reads for ever;
* a directory of PATH that cannot be opened is tried again for ever
  (`complete.c:27`), and `strtok` leaves `$PATH` its first directory only
  (`complete.c:21`);
* `find` misses the least match when its window begins there, and looks outside of the
  list when the match is its first element (`complete.c:129`; `FindsFirst`);
  `insert_minimal_prefix` counts the places that differ, so that the word may become a
  prefix of the first result only (`complete.c:187`; `PartForGood`), and prints that
  result with a `puts` left from debugging (`complete.c:184`);
* keys typed ahead of a prompt make the shell give up, because they come before the
  terminal's answer (`tty_navigation.c:84`), unless the first of them is an arrow: that
  begins as the answer does, the keys behind it are lost, and the row becomes 0, so that
  the next recalled line goes to the first row (`tty_navigation.c:93`; an `R` among these
  keys ends the reading early, and digits before a `;` would be the row: `Letters` has
  neither);
* after an arrow to the left, characters still go to the end of the line
  (`zhsh.c:74`);
* a recalled line is written to the place the terminal reported: when the line has made
  it scroll, or the prompt fills its row, that is the wrong place (`history.c:139`;
  `misled`); and deleting does not go back over the edge of a row (`zhsh.c:59`; `drifted`);
* up and then down shows the same line of the history twice (`history.c:123`, `141`).

**Fairness.** `jobcontrol_live` assumes `WF_vars(Handle(Main))`: the kernel runs the
first shell when its next step is not blocked in a system call.  Nothing is assumed
of the user, of jobs, of copies, or of deaths.  `chainexec` assumes `WF_vars(Leader)`,
the same of the leader: not that commands end.  `pipeline` assumes it of the leader
and of the commands taken together; a command blocked on a full or an empty pipe has
no step to take, and a leader in `waitpid` is only assumed to go on when no command runs
(`LeaderRuns`), as it may have called it before `setpgid`, for commands it no longer
sees.  `historyfile` assumes it of each shell's reading and saving, not that a
shell is started, used or left.  In every case the processes are ordinary ones under a fair
scheduler, and no lock or priority is involved.

**Deadlock** is checked everywhere but in `pipeline`, where a source in front of a
command that stops reading may block for ever, in `historyfile`, where all shells may be
over, and in `completion`, where the search may leave the list.  Sessions, chains, words
and the parser have an explicit last step (`SessionOver`, `Finished`, `Stop`,
`Returned`); that of `LineEditor` is also where it meets its bounds.

## 4. Proofs

* **`JobControlProofs`** proves `Spec => []IInv` and from it `TypeOK`,
  `NumbersIncrease`, `NoOrphan`, `PromptTableIsLive`, `NoHangOnStopped` and
  `TerminalOwner`, for any set of processes, any number of copies, with and without
  builtins in chains.  None of these is inductive alone.  `NoOrphan` needs that a
  child between fork and `add_job` is unlisted and uncollected (`AddingOK`);
  `PromptTableIsLive` that what `wait_jobs` has passed is live (`WalkedIsLive`);
  `NoHangOnStopped` that a stop already reported is recorded as STOPPED (`StopsOK`) and
  that jobs have groups of their own, so that SIGCONT reaches them (`GroupsOK`);
  `TerminalOwner` that the first shell lists only its own children (`MainOK`).  The
  proof treats a step of one shell against that shell's part of the invariant and
  shows once that it leaves the parts of the others alone.
  Lemmas about lists say what adding, removing and marking keep of numbers, pids and order.
* **`JobListProofs`** proves `WellLinked` and the refinement `Spec => ImplementsTable`, for
  a heap of any size.  The invariant says that the allocated cells form a `Row`: a sequence
  without repetition from `head` to `tail`, each `next` the following cell, the last one's
  outside of the list.  From a row `Walk` is computed by induction (`WalkOfRow`), and the
  sequence of `JobTableSpec` is the row's.  That a process is in one cell (`OwnPids`) is what
  lets a cell be found again in that sequence by its pid.
* **`ChainExecProofs`** proves `JobCollected` and the refinement `Spec => ImplementsChain`,
  for chains of any length.  `JobCollected` says that the commands left behind are those
  forked before `setpgid`.  It needs that no command is in the job's group before
  `setpgid`, nor while the leader waits for the group of the shell (`GroupsKept`):
  otherwise a `waitpid(0)` begun before `setpgid` could end with commands of the job left.
  The refinement maps the states of the commands, those in another group than the leader
  (`overlooked`), whether `setpgid` has come (`moved`) and `status`; that a pipeline is run
  again only with a command there needs that a stop the leader was told of is one of a
  command that it has not collected (`StatusKept`).  The loop `Shift` takes the same
  pipeline as the least one that `ChainSpec` chooses.
* **`PipelineProofs`** proves `OneWriter`, `AllDelivered` and `CommandsGetTheirEnds`, for
  chains of any length, pipes of any capacity and any `MaxFd`.  `Connected` says for every
  step of `execute_pipeline` what 0, 1, `infd`, `output` and the backups of the leader are
  open on, and what each command inherited: none is inductive without the others, because a
  command holds what the leader held when it forked.  `OneWriter` follows from it.
  `AllDelivered` adds a conservation law: there are numbers `out[c]` such that what is
  behind command `c` sums up to them (`Balanced`, `Flows`), and that when the last command
  has ended all of them have, each waiting for the one before it, overlooked or not
  (`LastIsWaitedFor` for the leader); `CommandsGetTheirEnds` adds what
  the redirections read so far say (`Named`).
* **`LineEditorProofs`** proves `TypeOK`, `ShownIsLine`, `AnswerIsNotTyped` and
  `RunsWhatIsShown`, for every size of the terminal, length of lines and history.  The
  invariant says where the terminal's cursor can stand (`Terminal`: at the edge only
  behind a full row), that the line is the cells from `tty.line` on, and what is behind them
  blank, as long as the cursor has not `drifted` (`Line`, `Screen`), that the kept place is
  the line's while the shell is not `misled`, that a prompt begins in an empty row, and that
  there is one answer in the input exactly while the prompt's
  question is open (`Answers`).  `WrittenShows`, by induction over a string, says what
  writing it leaves on a screen that wraps and scrolls, and rests on the arithmetic of
  rows (`Split`, `Remainder`, `RowEnds`).  `RunsWhatIsShown` is about lines whose beginning
  is still on the screen (`tty.line >= 1`) and a cursor that has not drifted.
  Of completion it proves `FoundAreMatches` and `CompletedIsCommon`, for any names, words
  and PATH, and any order in which qsort may leave equal names.  In a sorted list the names
  that begin with a word are neighbours (`InOrder`), so that the window between `left` and
  `right` holds all of them (`Within`), and the walk to both sides of a match stops at their
  ends.  A turn of the loop of `insert_minimal_prefix` leaves no more characters than
  its two results agree in (`TurnAgrees`), and what is left after all turns is what all the
  results have in common (`AgreeingIs`).
* **`StoreProofs`** proves, of the hash table, `TypeOK`, `WellHashed`, `LoadBounded` and the
  refinement `Spec => ImplementsMap`, for any names and hash function.  The argument
  is about the set of all nodes: resize leaves it as it is and deals it out anew,
  `put` adds or replaces one node, and `WellHashed` makes a bucket a function of
  that set.  `LoadBounded` is about capacities that are powers of two, as the code's are.
  Of the history file it proves `KeptAsFound`, for any file, lines, block and number of
  shells.  The invariant (`Knows`) says for each place of each shell that the lines it has
  loaded begin with those of the text first found, each as it stands there, and that its
  offset is where the line it reads or writes next begins; a write then puts there what
  was there.  It rests on lemmas about the n-th newline of a text (`Begins`, `LinesOf`).
  It also proves the action property `LoadsWhatIsSaved`, for any file and block.  A shell
  that is alone with the file reads it in one of three ways (`Loads`): no block has ended
  within a line, and its list is the lines up to its offset (`Straight`, where `JoinLines`
  puts the lines of two parts together); one just has, and it stands as far from the end
  of the file as that line's begin from the end of the block (`Back`); or no newline is
  left behind it (`Over`), although it may go back once more.
* **`LanguageProofs`** follows a line of any length to its chains.
  For the lexer it proves `TokensCoverLine`, `TokensEndInTime` and `FlagsAreTheWordsOwn`.
  The invariant cuts the line into three: up to the word that is being read, where every
  character is in a token or lies between two (`InRow`, `Covered`); that word, whose
  characters are the ones right before `i` and whose flags are what these ask for
  (`WordOK`); and what has not been read.  Each of the seven ways in which a turn of the
  loop ends moves the cuts.  That a double operator is read as one is a fact about each
  token (`TokenOK`): the character behind a single one is another.
  For the loop of `handle_line` it proves `NamesInPlace` and its part `EofIsLast`: the entries of
  the list keep the order of the tokens they come from (`Placed`), and from `index` on they
  still are these tokens (`Fresh`).  `SplicedIs` says what removing the pattern and making
  room for its names does to the list, and `PlacedNames` that the place a name comes from
  never decreases.  `EofIsLast` is the assumption that `Parser` makes about its input.
  `ProtectedStays` needs that the loop of `expand_variables`, after any number of characters,
  has `ESCAPE` set exactly behind an odd number of backslashes and has kept exactly the
  dollars behind one (`ReadTo`), and that the list keeps this of every entry it has passed
  (`Told`).
  For the parser it proves `TypeOK` (the index never leaves the line) and
  `ChainsAreExecutable`; the invariant `HandedOn` says which tokens a loop may be handed.
  `ParsedAsWritten` says of a whole line what it becomes, by cutting it; the machine sees it
  token by token.  The invariant `WrittenInv` says that the chain, pipeline and command that
  are read begin behind three places `s`, `g`, `b` (`Stands`), and that what has been built
  is what the cuts up to the token mean (`Reads`).  Its steps rest on what one more cut adds
  to a sequence of spans, which `NatInduction` lists by their rank.
  `OnlyDroppedLost` is about all lines: the arguments in front of a token are those of the
  command that is read, of its pipeline, of what came before, or dropped
  (`WordsPlaced`), and a pipe that ends a pipeline has no argument between it and the
  pipe in front of it, so that nothing but that pipeline is lost.

Induction over the naturals is needed wherever a walk, a string or a chain has no bound, and
the library's theorems take an operator, which no prover here can instantiate.
`NatInduction` proves the same for sets: that a nonempty set of naturals has a least element
(`Least`, from the well-foundedness of subsets), hence `Induction`, and `Recursion`: that a
function given by its start and step exists.  The recursive functions of `JobList`,
`LineEditor`, `Words` and `Completion` get their values from it, by exhibiting a function that satisfies
their equation.  It also says, of a finite set of naturals, that it is listed by rank without
gaps or repetitions, which is how `ParserMeaning` and `HistoryFile` list cuts and lines.

Assumptions are the named `ASSUME`s of the modules, which TLC evaluates in the runs.

`TypeOK` of `JobControl` is proved as a theorem of its own and checked by the runs as a
part of `IInv`.

Every invariant, action property and refinement that a run checks is proved.  Only
model-checked is all liveness, which is out of TLAPS's reach: that a chain, a pipeline and
the first shell go on, and that a reader of the history file gets to its end.

## 5. What is abstracted or left out

* `JobControl` ends when the first shell dies or is suspended, or when a shell reads a
  freed cell; a job is its leader; pids are not reused; the first shell starts as the
  leader of the terminal's foreground group.  `LeaderBuiltins` says whether lines use
  `fg`, `bg` or `exit` inside longer chains, where they act on the leader's copy.
* `ChainExec` does not stop the leader itself (JobControl does) and takes chains as
  given; `ChainsAreExecutable` is what `Parser` guarantees of them.
* `Pipeline` counts data in blocks, and takes every file that is read for empty; what
  becomes of a command whose descriptor is closed is not followed, nor is a command that
  was left behind once the next pipeline begins.
* `Words`: the translation of a pattern into a regular expression, the directory that
  is read and the matching are the C library's or a free choice; `expand_variables_str`,
  for the prompt, is the same code as `expand_variables`.
* `HistoryFile`: the file can be opened and read, and a line is shorter than a block.
* `Completion`: how the names are laid out, and `more` when they are many; names differ
  in two characters.  Names are ASCII: `find` compares signed characters and `strcmp`
  unsigned ones, which say the same only there.  `qsort` is any order in which no name is
  less than one before it.  A tab behind a blank, which lists the whole directory, is left
  out.
* `LineEditor` has a bound for the line (`MaxLine` in `Type`) where the code has none: what
  a 4097th character overwrites (`zhsh.c:74`) depends on the build.  It leaves out what
  earlier commands left below the cursor, and takes the keys typed ahead of a prompt for
  few enough to fit in the 32 bytes that the answer is read into.  A completion adds
  nothing or a letter to the line.  What the properties say
  of the screen stops where the code goes wrong: see above.
* `HashTable`: `get` is only called when something was put (an empty `environ` makes
  `get` index NULL); the names that `set_env` refuses and the positional arguments, which
  never reach the table (`env.c:25`, `env.c:47`), are left out; `unset_env` and `debug_env`
  are called by nothing.
* `Lexer` leaves out the bytes of a word and the size of the buffer; the `&` that lines
  80 to 85 would keep behind a redirection is unreachable, because the last token there
  is the word just pushed.
* `Parser` starts from tokens whose words are already expanded, as `handle_line`
  does; a digitful word and a `&` word are kinds of their own.

Not modelled at all:

* `cd`, `pwd`, `shift`, `true` and `false`: each is a few calls in a row, of `chdir` and
  `getcwd` and of the environment's `put` and `get`, with no loop or waiting of its own
  but that of `shift_pos_args`.  What such a builtin returns, and to whom, is in
  `ChainExec`.  `main` calls `env_init` without its arguments, so that the positional
  parameters are whatever the build leaves there (`Words` lets `$` be either).
* `kill` is not compiled; the names of signals are a table that is only printed;
  messages, string utilities and the string builder format and keep no state.

## 6. Plan

Done, in this order: the jobs list and job control with their proofs; chains; the hash
table with its proofs; pipelines; the parser with its proofs; the lexer; the line
editor with its history; the history file with crashes; completion; the words of a
line; redirections and descriptors by number; then the proofs of chains, pipelines, the
cells of the jobs list, the table's load, the line editor, the lexer and the list of words;
the history file, the expansion, the meaning of a line, and completion.

Next, most important first:

1. `Words` composed with `Parser`: its tokens as the parser's kinds, through the
   expansion.
2. The environment's positional parameters and `shift`, `cd` with PWD and OLDPWD.

## 7. Running it

    tlc -workers 2 -config Pipeline.cfg MCPipeline.tla
    tlapm JobControlProofs.tla

Every run takes about two minutes or less with two workers; the proofs of a module take from
a few seconds to about seven minutes, from nothing.
