----------------------------- MODULE LineEditor -----------------------------
(***************************************************************************)
(* The line editor: the loop over keys of src/src/zhsh.c, the prompt with  *)
(* its question for the cursor's place (tty_navigation.c), the history     *)
(* (ux/history.c), and the terminal, whose lines wrap and scroll.          *)
(*                                                                         *)
(* The terminal's answer comes on standard input, between the keys.  A key *)
(* is one element of the input, an arrow's three bytes included.           *)
(*                                                                         *)
(* Left out: running a line (its output ends somewhere in a fresh row, and *)
(* TCSAFLUSH may drop the keys typed meanwhile), and which names           *)
(* complete() finds.                                                       *)
(***************************************************************************)
EXTENDS Integers, Sequences

CONSTANTS Letters,       \* what a line is made of, besides blanks
          MaxLine,       \* bound: the characters of a line
          MaxHistory,    \* bound: the lines of the history
          MaxAhead,      \* bound: the keys typed and not read yet
          Rows, Width    \* the size of the terminal

ASSUME BoundsAssumption ==
  /\ MaxLine \in Nat \ {0} /\ MaxHistory \in Nat /\ MaxAhead \in Nat \ {0}
  /\ Rows \in Nat \ {0} /\ Width \in Nat \ {0, 1}

\* The letters are none of the names for other things in a buffer or in the input; nor
\* is one of them an R or a semicolon: typed behind an arrow, ahead of the prompt, an R
\* ends the reading of the answer, and what precedes a ; is taken for the row.
ASSUME LettersAssumption == Letters \cap {"nul", "answer", "R", ";"} = {}

Chars == Letters \cup {" "}
CursorKeys == {"up", "down", "right", "left"}
Keys == Chars \cup CursorKeys \cup {"enter", "delete", "tab"}

Cells == 1..(Rows * Width)

VARIABLES
  input,            \* standard input: keys, and the terminal's answer
  tty,              \* the terminal, see Fresh
  asked,            \* the terminal has been asked and has not answered
  pc,
  buffer, buf_index,
  promt_position,   \* its cell
  history, history_ptr,
  drifted,          \* no program state: is the cursor not where the line ends?
  misled            \* nor this: has promt_position been wrong from the start, or the
                    \* terminal scrolled since?

terminal == << tty, asked >>
line == << buffer, buf_index >>
past == << history, history_ptr >>
marks == << drifted, misled >>
vars == << input, terminal, pc, line, promt_position, past, marks >>

Text == SubSeq(buffer, 1, buf_index)

\* The string in the buffer b.
String(b) ==
  LET end == CHOOSE k \in DOMAIN b : b[k] = "nul" /\ \A j \in 1..(k - 1) : b[j] # "nul"
  IN  SubSeq(b, 1, end - 1)

is_empty(str) == \A k \in DOMAIN str : str[k] = " "

\* The cursor in a fresh row, behind n characters of output.  The next character goes
\* to the cell at; with edge, the one written last fills its row, and the cursor still
\* stands on it.  The line begins at line (no state of the terminal: where it was last
\* begun to be written; below 1 when that has scrolled away, and followed no further
\* than a line reaches).
Fresh(n) ==
  {[screen |-> [k \in Cells |-> IF k \in first..(first + n - 1) THEN "#" ELSE " "],
    at |-> first + n, edge |-> FALSE, line |-> 0] :
     first \in {(row - 1) * Width + 1 : row \in 1..Rows}}

Init ==
  /\ input = << >>
  /\ tty \in Fresh(0) /\ asked = FALSE
  /\ pc = "promt"
  /\ buffer = [k \in 1..(MaxLine + 1) |-> "nul"] /\ buf_index = 0
  /\ promt_position = 1
  /\ \E saved \in {<< >>} \cup {<< << a >> >> : a \in Letters} :
       history = saved /\ history_ptr = Len(saved)
  /\ drifted = FALSE /\ misled = FALSE
-----------------------------------------------------------------------------
(* The user and the terminal. *)

\* While keys are read one is typed at a time: what is typed earlier waits, and is read
\* as if it had been typed later.
Press ==
  /\ pc # "panic"
  /\ pc = "edit" => input = << >>
  /\ Len(SelectSeq(input, LAMBDA k : k \in Keys)) < MaxAhead
  /\ \E key \in Keys : input' = Append(input, key)
  /\ UNCHANGED << terminal, pc, line, promt_position, past, marks >>

Answer ==
  /\ asked
  /\ asked' = FALSE
  /\ input' = Append(input, "answer")
  /\ UNCHANGED << tty, pc, line, promt_position, past, marks >>

\* The rows go up by one when the cursor is to leave the last.
Scrolled(t) ==
  IF t.at \in Cells THEN t
  ELSE LET up == [k \in Cells |-> IF k + Width \in Cells THEN t.screen[k + Width] ELSE " "]
       IN  [t EXCEPT !.screen = up, !.at = @ - Width,
                     !.line = IF @ - Width > -MaxLine THEN @ - Width ELSE -MaxLine]

Put(t, char) ==
  LET u == Scrolled(t)
  IN  [u EXCEPT !.screen[u.at] = char, !.at = @ + 1, !.edge = u.at % Width = 0]

Written(t, str) ==
  LET after[n \in 0..Len(str)] == IF n = 0 THEN t ELSE Put(after[n - 1], str[n])
  IN  after[Len(str)]

\* The cell the cursor stands on.
Cursor(t) == IF t.edge THEN t.at - 1 ELSE t.at

\* The terminal keeps the cursor in its row.
Leftwards(t) ==
  [t EXCEPT !.at = IF Cursor(t) % Width = 1 THEN Cursor(t) ELSE Cursor(t) - 1, !.edge = FALSE]
Rightwards(t) ==
  [t EXCEPT !.at = IF Cursor(t) % Width = 0 THEN Cursor(t) ELSE Cursor(t) + 1, !.edge = FALSE]

\* tty_navigation_move_to, and clear_to_end, for a line that begins there.
ClearedFrom(t, cell) ==
  [t EXCEPT !.screen = [k \in Cells |-> IF k < cell THEN t.screen[k] ELSE " "],
            !.at = cell, !.edge = FALSE, !.line = cell]
-----------------------------------------------------------------------------
(* promt *)

Promt ==
  /\ pc = "promt"
  /\ LET t == Put(tty, "$") IN tty' = [t EXCEPT !.line = t.at]
  /\ asked' = TRUE
  /\ pc' = "ask"
  /\ UNCHANGED << input, line, promt_position, past, marks >>

\* (Fault) A key is no reason to give up: the prompt goes on without the answer.
ReadPositionOrKey ==
  /\ pc = "ask" /\ input # << >>
  /\ promt_position' = Cursor(tty)
  /\ input' = IF input[1] = "answer" THEN Tail(input) ELSE input
  /\ pc' = "edit" /\ drifted' = FALSE /\ misled' = FALSE
  /\ tty' = Written(tty, Text)
  /\ UNCHANGED << asked, line, past >>

InFirstRow(cell) == ((cell - 1) % Width) + 1

\* tty_navigation_save_position: everything up to the answer's R is read, if it begins
\* as the answer does.  An arrow typed ahead does, and what is taken for the number of
\* the row is then the rest of the arrow, the keys behind it, and the answer's: atoi
\* makes it 0, for which the terminal will go to the first row.
\* After a completion the line is written again; at a new prompt there is none yet.
ReadPosition ==
  /\ pc = "ask"
  /\ input # << >> /\ input[1] \in CursorKeys \cup {"answer"}
  /\ \E n \in DOMAIN input : input[n] = "answer" /\ input' = SubSeq(input, n + 1, Len(input))
  /\ promt_position' = IF input[1] = "answer" THEN Cursor(tty) ELSE InFirstRow(Cursor(tty))
  /\ pc' = "edit" /\ drifted' = FALSE
  /\ tty' = Written(tty, Text)
  /\ misled' = \/ tty.edge
               \/ input[1] # "answer" /\ Cursor(tty) > Width
               \/ tty'.line # tty.line
  /\ UNCHANGED << asked, line, past >>

\* What was typed ahead is taken for an answer that makes no sense.
Panic ==
  /\ pc = "ask"
  /\ input # << >> /\ input[1] \notin CursorKeys \cup {"answer"}
  /\ pc' = "panic"
  /\ UNCHANGED << input, terminal, line, promt_position, past, marks >>
-----------------------------------------------------------------------------
(* handle_char and handle_tty_navigation *)

Getch(key) == pc = "edit" /\ input # << >> /\ input[1] = key /\ input' = Tail(input)

Type == \E char \in Chars :
  /\ Getch(char)
  /\ buf_index < MaxLine
  /\ buffer' = [buffer EXCEPT ![buf_index + 1] = char]
  /\ buf_index' = buf_index + 1
  /\ tty' = Put(tty, char)
  /\ misled' = (misled \/ tty'.line # tty.line)
  /\ UNCHANGED << asked, pc, promt_position, past, drifted >>

\* To the left, a blank, and to the left again.
Rubout == Leftwards(Put(Leftwards(tty), " "))

\* (Fault) Deleting goes on in front of the line.
DeleteUnguarded ==
  /\ Getch("delete")
  /\ buf_index' = buf_index - 1
  /\ tty' = Rubout
  /\ UNCHANGED << asked, pc, buffer, promt_position, past, marks >>

\* The cursor does not go back to the row before, and at the edge of one not far enough.
Delete ==
  /\ Getch("delete")
  /\ IF buf_index > 0
     THEN /\ buf_index' = buf_index - 1
          /\ tty' = Rubout
          /\ drifted' = (drifted \/ tty.at % Width = 1)
     ELSE UNCHANGED << buf_index, tty, drifted >>
  /\ UNCHANGED << asked, pc, buffer, promt_position, past, misled >>

\* The cursor moves, the place where the next character goes in the buffer does not.
MoveCursor ==
  /\ \/ Getch("left") /\ tty' = Leftwards(tty)
     \/ Getch("right") /\ tty' = Rightwards(tty)
  /\ drifted' = TRUE
  /\ UNCHANGED << asked, pc, line, promt_position, past, misled >>

\* (Fault) The rest of a longer line is left on the screen.
RecallLeavesRest(entry) ==
  /\ tty' = Written([tty EXCEPT !.at = promt_position, !.edge = FALSE, !.line = promt_position],
                    entry)
  /\ drifted' = FALSE
  /\ misled' = (misled \/ tty'.line # promt_position)
  /\ buffer' = [k \in DOMAIN buffer |-> IF k <= Len(entry) THEN entry[k] ELSE buffer[k]]
  /\ buf_index' = Len(entry)
  /\ UNCHANGED << asked, pc, promt_position, history >>

\* Show an entry of the history in place of the line, at the place that was kept: nobody
\* tells the shell of a scroll.
Recall(entry) ==
  /\ tty' = Written(ClearedFrom(tty, promt_position), entry)
  /\ drifted' = FALSE
  /\ misled' = (misled \/ tty'.line # promt_position)
  /\ buffer' = [k \in DOMAIN buffer |-> IF k <= Len(entry) THEN entry[k] ELSE buffer[k]]
  /\ buf_index' = Len(entry)
  /\ UNCHANGED << asked, pc, promt_position, history >>

NoRecall == UNCHANGED << terminal, pc, line, promt_position, past, marks >>

history_up ==
  /\ Getch("up")
  /\ IF history_ptr < 1 THEN NoRecall
     ELSE Recall(history[history_ptr]) /\ history_ptr' = history_ptr - 1

history_down ==
  /\ Getch("down")
  /\ IF history_ptr >= Len(history) THEN NoRecall
     ELSE Recall(history[history_ptr + 1]) /\ history_ptr' = history_ptr + 1

\* complete(): the line may grow at its end; it is shown again behind a new prompt.
Complete ==
  /\ Getch("tab")
  /\ IF buf_index = 0 THEN UNCHANGED << terminal, pc, line, marks >>
     ELSE /\ \/ UNCHANGED buf_index /\ buffer' = [buffer EXCEPT ![buf_index + 1] = "nul"]
             \/ /\ buf_index < MaxLine /\ buf_index' = buf_index + 1
                /\ \E a \in Letters : buffer' = [buffer EXCEPT ![buf_index + 1] = a]
          /\ tty' \in Fresh(0) /\ pc' = "promt"
          /\ UNCHANGED << asked, marks >>
  /\ UNCHANGED << promt_position, past >>

\* (Fault) The line is not ended where the user ended it.
EnterWithoutNul ==
  /\ Getch("enter")
  /\ IF is_empty(Text) THEN UNCHANGED history /\ pc' = "promt"
     ELSE /\ Len(history) < MaxHistory
          /\ history' = Append(history, String(buffer))
          /\ pc' = "run"
  /\ tty' \in Fresh(0)
  /\ buf_index' = 0
  /\ history_ptr' = Len(history')
  /\ UNCHANGED << asked, buffer, promt_position, marks >>

Enter ==
  /\ Getch("enter")
  /\ buffer' = [buffer EXCEPT ![buf_index + 1] = "nul"]
  /\ IF is_empty(Text) THEN UNCHANGED history /\ pc' = "promt"
     ELSE /\ Len(history) < MaxHistory
          /\ history' = Append(history, String(buffer'))
          /\ pc' = "run"
  /\ tty' \in Fresh(0)
  /\ buf_index' = 0
  /\ history_ptr' = Len(history')
  /\ UNCHANGED << asked, promt_position, marks >>

\* handle_line returns; its output may leave the cursor anywhere in its last row.
LineDone ==
  /\ pc = "run"
  /\ \E n \in 0..(Width - 1) : tty' \in Fresh(n)
  /\ input' \in {input, << >>}
  /\ pc' = "promt"
  /\ UNCHANGED << asked, line, promt_position, past, marks >>

\* A session is followed until the shell gives up or meets a bound.
SessionOver ==
  /\ \/ pc = "panic"
     \/ pc = "edit" /\ (buf_index = MaxLine \/ Len(history) = MaxHistory)
  /\ UNCHANGED vars

Next ==
  \/ Press \/ Answer
  \/ Promt \/ ReadPosition \/ Panic
  \/ Type \/ Delete \/ MoveCursor \/ history_up \/ history_down \/ Complete
  \/ Enter \/ LineDone
  \/ SessionOver

Spec == Init /\ [][Next]_vars
-----------------------------------------------------------------------------
\* The bound of buf_index is that of Type, the model's own: handle_char checks none.
TypeOK ==
  /\ input \in Seq(Keys \cup {"answer"})
  /\ tty \in [screen : [Cells -> Chars \cup {"$", "#"}], at : 1..(Rows * Width + 1),
              edge : BOOLEAN, line : (-MaxLine)..(Rows * Width + 1)]
  /\ asked \in BOOLEAN
  /\ pc \in {"promt", "ask", "edit", "run", "panic"}
  /\ buffer \in [1..(MaxLine + 1) -> Chars \cup {"nul"}] /\ buf_index \in 0..MaxLine
  /\ promt_position \in Cells
  /\ history \in Seq(Seq(Chars)) /\ history_ptr \in 0..Len(history)
  /\ drifted \in BOOLEAN /\ misled \in BOOLEAN

\* What the user sees is what the shell has: from where the line was begun, behind the
\* prompt or where an entry of the history was written, there is the line, over as many
\* rows as it takes, and nothing else, and the cursor stands where the next character
\* goes; until the user moves the cursor or deletes over the edge of a row (drifted).
\* And the place that the next entry will be written to is where the line begins, unless
\* the terminal has scrolled since the prompt, the prompt filled its row, or an arrow was
\* typed ahead of it below the first row (misled): in these cases the code writes it
\* elsewhere (handle_char, history_up, history_down, tty_navigation_save_position).
ShownIsLine ==
  pc = "edit" =>
    /\ ~drifted =>
         /\ tty.at = tty.line + buf_index
         /\ \A k \in Cells : k >= tty.line =>
              tty.screen[k] = IF k < tty.at THEN Text[k - tty.line + 1] ELSE " "
    /\ ~misled => promt_position = tty.line

\* The terminal's answer never becomes a part of a line: while keys are read none is
\* on its way.
AnswerIsNotTyped == pc = "edit" => ~asked /\ \A k \in DOMAIN input : input[k] # "answer"

\* What is run and remembered is what stood on the screen from the line's first cell to
\* the cursor, if the cursor has not drifted from the line's end and the first cell has
\* not scrolled away; and no step but the entering of a line changes the history.
Shown == SubSeq(tty.screen, tty.line, tty.at - 1)

RunsWhatIsShown ==
  [][LET entered == pc = "edit" /\ pc' \in {"run", "promt"} /\ Head(input) = "enter" IN
       /\ entered /\ ~drifted /\ tty.line >= 1 =>
            history' = IF is_empty(Shown) THEN history ELSE Append(history, Shown)
       /\ ~entered => UNCHANGED history]_vars
=============================================================================
