-------------------------- MODULE LineEditorProofs --------------------------
(***************************************************************************)
(* What the user sees is what the shell has, for every size of the         *)
(* terminal, of the line and of the history: proofs about LineEditor.      *)
(*                                                                         *)
(* Completion finds what begins with the word and only adds what the names *)
(* have in common, for any names and any word: proofs about Completion.    *)
(***************************************************************************)
EXTENDS LineEditor, Completion, NatInduction

N == Rows * Width

Glyphs == Chars \cup {"$", "#"}

Terminals ==
  [screen : [Cells -> Glyphs], at : 1..(N + 1), edge : BOOLEAN,
   line : (-MaxLine)..(N + 1)]

\* The cursor is at the edge only behind a full row, and always when the last is full.
Stands(t) ==
  /\ t.edge => t.at > 1 /\ t.at % Width = 1
  /\ t.at = N + 1 => t.edge

\* Nothing stands on a cell or behind it.
BlankFrom(t, cell) == \A k \in Cells : k >= cell => t.screen[k] = " "

\* From the line's first cell on there are the first n characters of str and nothing
\* else, and the cursor is behind them.
Shows(t, str, n) ==
  /\ t.at = t.line + n
  /\ \A k \in Cells : k >= t.line =>
       t.screen[k] = IF k < t.at THEN str[k - t.line + 1] ELSE " "
-----------------------------------------------------------------------------
(* The cells of a row. *)

\* The cell behind the last of a row is the first of the next.
LEMMA RowEnds ==
  ASSUME NEW a \in Nat
  PROVE  a % Width = 0 <=> (a + 1) % Width = 1
<1>0. a \in Int /\ Width \in Nat \ {0}
  BY BoundsAssumption
<1>1. PICK q \in Int : a = Width * q + (a % Width) /\ a % Width \in 0..(Width - 1)
  BY <1>0, Split, Zenon
<1>2. CASE a % Width = Width - 1
  <2>1. a + 1 = Width * (q + 1) + 0 /\ q + 1 \in Int /\ 0 \in 0..(Width - 1)
    BY <1>1, <1>2, BoundsAssumption
  <2>2. (a + 1) % Width = 0
    BY <2>1, Remainder, BoundsAssumption
  <2> QED
    BY <1>2, <2>2, BoundsAssumption
<1>3. CASE a % Width # Width - 1
  <2>1. a + 1 = Width * q + ((a % Width) + 1) /\ (a % Width) + 1 \in 0..(Width - 1)
    BY <1>1, <1>3, BoundsAssumption
  <2>2. (a + 1) % Width = (a % Width) + 1
    BY <2>1, Remainder, BoundsAssumption
  <2> QED
    BY <1>1, <2>2
<1> QED
  BY <1>2, <1>3

\* The screen's last cell ends a row, its first begins one, and it has a row at least.
LEMMA ScreenSize ==
  /\ N \in Nat /\ N >= Width /\ Cells = 1..N
  /\ N % Width = 0 /\ 1 % Width = 1
<1>1. N \in Nat /\ N >= Width
  <2>1. PICK d \in Nat : Rows = d + 1
    BY BoundsAssumption
  <2>2. N = d * Width + Width /\ d * Width \in Nat
    BY <2>1, BoundsAssumption DEF N
  <2> QED
    BY <2>2, BoundsAssumption
<1>2. N = Width * Rows + 0 /\ 1 = Width * 0 + 1 /\ 0 \in 0..(Width - 1) /\ 1 \in 0..(Width - 1)
  BY BoundsAssumption DEF N
<1>3. N % Width = 0 /\ 1 % Width = 1
  BY <1>2, Remainder, BoundsAssumption
<1> QED
  BY <1>1, <1>3 DEF Cells, N
-----------------------------------------------------------------------------
(* The terminal. *)

\* What a terminal is made of.
LEMMA Fields ==
  ASSUME NEW t \in Terminals
  PROVE  /\ t.at \in 1..(N + 1) /\ t.at \in Int
         /\ t.line \in (-MaxLine)..(N + 1) /\ t.line \in Int
         /\ t.screen \in [Cells -> Glyphs]
BY ScreenSize, BoundsAssumption DEF Terminals

\* The cursor stands on a cell.
LEMMA CursorStands ==
  ASSUME NEW t \in Terminals, Stands(t)
  PROVE  Cursor(t) \in Cells
BY ScreenSize DEF Terminals, Stands, Cursor

\* It can be moved as a cursor can, and stays on a cell.
LEMMA Moved ==
  ASSUME NEW t \in Terminals, NEW cell \in Cells
  PROVE  LET u == [t EXCEPT !.at = cell, !.edge = FALSE] IN u \in Terminals /\ Stands(u)
<1> DEFINE u == [t EXCEPT !.at = cell, !.edge = FALSE]
<1>1. u.at = cell /\ u.edge = FALSE /\ cell \in 1..(N + 1) /\ cell # N + 1
  BY ScreenSize DEF Terminals
<1>2. u \in Terminals
  BY <1>1 DEF Terminals
<1> HIDE DEF u
<1>3. Stands(u)
  BY <1>1 DEF Stands
<1> QED
  BY <1>2, <1>3 DEF u

\* It goes to the left within its row (tty_navigation_move).
LEMMA MovedLeft ==
  ASSUME NEW t \in Terminals, Stands(t)
  PROVE  Leftwards(t) \in Terminals /\ Stands(Leftwards(t))
<1>1. Cursor(t) \in Cells /\ (Cursor(t) % Width # 1 => Cursor(t) - 1 \in Cells)
  BY CursorStands, ScreenSize
<1> QED
  BY <1>1, Moved DEF Leftwards

\* And to the right.
LEMMA MovedRight ==
  ASSUME NEW t \in Terminals, Stands(t)
  PROVE  Rightwards(t) \in Terminals /\ Stands(Rightwards(t))
<1>1. Cursor(t) \in Cells /\ (Cursor(t) % Width # 0 => Cursor(t) + 1 \in Cells)
  BY CursorStands, ScreenSize
<1> QED
  BY <1>1, Moved DEF Rightwards

\* Neither changes where the line begins, nor does writing on a cell of the screen.
LEMMA LineStays ==
  ASSUME NEW t \in Terminals
  PROVE  /\ Leftwards(t).line = t.line /\ Rightwards(t).line = t.line
         /\ \A char \in Glyphs : t.at \in Cells => Put(t, char).line = t.line
<1>1. Leftwards(t).line = t.line /\ Rightwards(t).line = t.line
  BY DEF Leftwards, Rightwards, Terminals
<1>2. ASSUME NEW char \in Glyphs, t.at \in Cells PROVE Put(t, char).line = t.line
  <2>1. Scrolled(t) = t
    BY <1>2 DEF Scrolled
  <2>2. Put(t, char) = [t EXCEPT !.screen[t.at] = char, !.at = t.at + 1, !.edge = t.at % Width = 0]
    BY <2>1 DEF Put, Terminals
  <2> QED
    BY <2>2 DEF Terminals
<1> QED
  BY <1>1, <1>2

\* A move to the left ends on a cell.
LEMMA LeftOnCell ==
  ASSUME NEW t \in Terminals, Stands(t)
  PROVE  Leftwards(t).at \in Cells
<1>1. Cursor(t) \in Cells /\ (Cursor(t) % Width # 1 => Cursor(t) - 1 \in Cells)
  BY CursorStands, ScreenSize
<1> QED
  BY <1>1 DEF Leftwards, Terminals

\* A terminal that makes room for the next character.
LEMMA RoomMade ==
  ASSUME NEW t \in Terminals
  PROVE  LET u == Scrolled(t) IN u \in Terminals /\ u.at \in Cells
<1>1. CASE t.at \in Cells
  BY <1>1 DEF Scrolled
<1>2. CASE t.at \notin Cells
  <2> DEFINE up == [k \in Cells |-> IF k + Width \in Cells THEN t.screen[k + Width] ELSE " "]
             to == IF t.line - Width > -MaxLine THEN t.line - Width ELSE -MaxLine
  <2>1. up \in [Cells -> Glyphs]
    BY DEF Terminals, Glyphs, Chars
  <2>2. t.at = N + 1 /\ t.at - Width \in Cells /\ to \in (-MaxLine)..(N + 1)
    BY <1>2, ScreenSize, BoundsAssumption DEF Terminals
  <2>3. Scrolled(t) = [t EXCEPT !.screen = up, !.at = t.at - Width, !.line = to]
    BY <1>2 DEF Scrolled, Terminals
  <2> HIDE DEF up, to
  <2> QED
    <3>1. Scrolled(t).at \in Cells
      BY <2>2, <2>3 DEF Terminals
    <3>2. t.at - Width \in 1..(N + 1)
      BY <2>2, ScreenSize
    <3>3. Scrolled(t) \in Terminals
      BY <2>1, <2>2, <2>3, <3>2 DEF Terminals
    <3> QED
      BY <3>1, <3>3
<1>3. Scrolled(t) \in Terminals /\ Scrolled(t).at \in Cells
  BY <1>1, <1>2
<1> QED
  BY <1>3

\* What writing a character does.
LEMMA PutFields ==
  ASSUME NEW t \in Terminals, NEW char \in Glyphs
  PROVE  LET u == Scrolled(t) IN
         /\ Put(t, char).screen = [u.screen EXCEPT ![u.at] = char]
         /\ Put(t, char).at = u.at + 1 /\ Put(t, char).line = u.line
         /\ Put(t, char).edge = (u.at % Width = 0)
         /\ Put(t, char) \in Terminals /\ Stands(Put(t, char))
<1> DEFINE u == Scrolled(t)
<1>1. u \in Terminals /\ u.at \in Cells
  BY RoomMade
<1>2. Put(t, char) = [u EXCEPT !.screen[u.at] = char, !.at = u.at + 1,
                               !.edge = (u.at % Width = 0)]
  BY <1>1 DEF Put, Terminals
<1> HIDE DEF u
<1>3. /\ Put(t, char).screen = [u.screen EXCEPT ![u.at] = char]
      /\ Put(t, char).at = u.at + 1 /\ Put(t, char).line = u.line
      /\ Put(t, char).edge = (u.at % Width = 0)
      /\ Put(t, char) \in Terminals
  <2> DEFINE full == u.at % Width = 0
             scr == [u.screen EXCEPT ![u.at] = char]
  <2>1. /\ full \in BOOLEAN /\ scr \in [Cells -> Glyphs] /\ u.at + 1 \in 1..(N + 1)
        /\ u.line \in (-MaxLine)..(N + 1)
    BY <1>1, ScreenSize DEF Terminals
  <2>2. Put(t, char) = [u EXCEPT !.screen = scr, !.at = u.at + 1, !.edge = full]
    BY <1>1, <1>2 DEF Terminals
  <2> HIDE DEF full, scr
  <2>3. /\ Put(t, char).screen = scr /\ Put(t, char).at = u.at + 1
        /\ Put(t, char).line = u.line /\ Put(t, char).edge = full
        /\ Put(t, char) \in Terminals
    BY <1>1, <2>1, <2>2 DEF Terminals
  <2> QED
    BY <2>3 DEF full, scr
<1>4. Stands(Put(t, char))
  <2>1. u.at \in Nat /\ u.at >= 1 /\ (u.at + 1 = N + 1 => u.at % Width = 0)
    BY <1>1, ScreenSize
  <2>2. u.at % Width = 0 <=> (u.at + 1) % Width = 1
    BY <2>1, RowEnds
  <2>3. (u.at % Width = 0) => Put(t, char).at > 1 /\ Put(t, char).at % Width = 1
    BY <1>3, <2>1, <2>2
  <2>4. Put(t, char).at = N + 1 => u.at % Width = 0
    BY <1>3, <2>1, ScreenSize
  <2> QED
    BY <1>3, <2>3, <2>4 DEF Stands
<1> QED
  BY <1>3, <1>4 DEF u

\* A cleared terminal.
LEMMA ClearedFields ==
  ASSUME NEW t \in Terminals, NEW cell \in Cells
  PROVE  LET u == ClearedFrom(t, cell) IN
         /\ u \in Terminals /\ Stands(u)
         /\ u.at = cell /\ u.line = cell
         /\ BlankFrom(u, cell)
<1> DEFINE scr == [k \in Cells |-> IF k < cell THEN t.screen[k] ELSE " "]
           u == ClearedFrom(t, cell)
<1>1. scr \in [Cells -> Glyphs] /\ \A k \in Cells : k >= cell => scr[k] = " "
  <2>1. " " \in Glyphs /\ t.screen \in [Cells -> Glyphs]
    BY Fields DEF Glyphs, Chars
  <2>2. \A k \in Cells : k >= cell => ~(k < cell)
    BY ScreenSize
  <2> QED
    BY <2>1, <2>2
<1>2. u = [t EXCEPT !.screen = scr, !.at = cell, !.edge = FALSE,
             !.line = cell]
  BY Zenon DEF ClearedFrom
<1>3. cell \in 1..(N + 1) /\ cell # N + 1 /\ cell \in (-MaxLine)..(N + 1)
  BY ScreenSize, BoundsAssumption
<1> HIDE DEF scr, u
<1>4. u \in Terminals /\ u.at = cell /\ u.line = cell /\ u.screen = scr /\ u.edge = FALSE
  BY <1>1, <1>2, <1>3 DEF Terminals
<1>5. Stands(u)
  BY <1>3, <1>4 DEF Stands
<1>6. /\ u \in Terminals /\ Stands(u)
      /\ u.at = cell /\ u.line = cell
      /\ BlankFrom(u, cell)
  BY <1>1, <1>4, <1>5 DEF BlankFrom
<1> QED
  BY <1>6 DEF u

\* What the terminal shows does not depend on what str says behind its first n.
LEMMA ShowsAlike ==
  ASSUME NEW t \in Terminals, NEW str, NEW other, NEW n \in 0..MaxLine,
         \A k \in 1..n : str[k] = other[k],
         Shows(t, str, n)
  PROVE  Shows(t, other, n)
<1>0. t.at \in Int /\ t.line \in Int /\ Cells \subseteq Int
  BY ScreenSize, BoundsAssumption DEF Terminals
<1>1. ASSUME NEW k \in Cells, k >= t.line, k < t.at
      PROVE  k - t.line + 1 \in 1..n
  <2>1. t.at = t.line + n
    BY DEF Shows
  <2> QED
    BY <1>0, <1>1, <2>1
<1> SUFFICES ASSUME NEW k \in Cells, k >= t.line
             PROVE  t.screen[k] = IF k < t.at THEN other[k - t.line + 1] ELSE " "
  BY DEF Shows
<1>2. t.screen[k] = IF k < t.at THEN str[k - t.line + 1] ELSE " "
  BY DEF Shows
<1> QED
  BY <1>1, <1>2

\* Making room moves the line up with the rest.
LEMMA RoomShows ==
  ASSUME NEW t \in Terminals, NEW str, NEW n \in 0..(MaxLine - 1), Shows(t, str, n)
  PROVE  Shows(Scrolled(t), str, n)
<1>1. CASE t.at \in Cells
  BY <1>1 DEF Scrolled
<1>2. CASE t.at \notin Cells
  <2> DEFINE up == [k \in Cells |-> IF k + Width \in Cells THEN t.screen[k + Width] ELSE " "]
             u == Scrolled(t)
  <2>0. /\ N \in Nat /\ Cells = 1..N /\ Width \in Nat /\ MaxLine \in Nat /\ n \in Nat
        /\ Width <= N /\ n < MaxLine
    BY ScreenSize, BoundsAssumption
  <2>1. t.at = N + 1 /\ t.line = N + 1 - n
    <3>1. t.at = t.line + n
      BY DEF Shows
    <3> QED
      BY <1>2, <2>0, <3>1, Fields
  <2>2. u.at = N + 1 - Width /\ u.line = N + 1 - n - Width /\ u.screen = up
    <3>1. t.line - Width > -MaxLine
      BY <2>0, <2>1
    <3>2. u = [t EXCEPT !.screen = up, !.at = t.at - Width, !.line = t.line - Width]
      BY <1>2, <3>1 DEF Scrolled, Terminals
    <3> HIDE DEF u, up
    <3>3. u.screen = up /\ u.at = t.at - Width /\ u.line = t.line - Width
      BY <3>2 DEF Terminals
    <3> QED
      BY <2>0, <2>1, <3>3
  <2> HIDE DEF u
  <2>3. u.at = N + 1 - Width /\ u.line = N + 1 - n - Width
    BY <2>2, Zenon
  <2>4. ASSUME NEW k \in Cells, k >= u.line
        PROVE  up[k] = IF k < u.at THEN str[k - u.line + 1] ELSE " "
    <3>1. CASE k + Width \in Cells
      <4> DEFINE c == k + Width
      <4>1. c \in Cells /\ c >= t.line /\ c < t.at /\ k < u.at
        BY <2>0, <2>1, <2>3, <2>4, <3>1
      <4>2. up[k] = t.screen[c]
        BY <3>1
      <4>3. c - t.line + 1 = k - u.line + 1
        BY <2>0, <2>1, <2>3
      <4> HIDE DEF c, up
      <4>4. t.screen[c] = str[c - t.line + 1]
        BY <4>1 DEF Shows
      <4> QED
        BY <4>1, <4>2, <4>3, <4>4
    <3>2. CASE k + Width \notin Cells
      <4>1. ~(k < u.at)
        BY <2>0, <2>3, <3>2
      <4> QED
        BY <3>2, <4>1
    <3> QED
      BY <3>1, <3>2
  <2>5. u.at = u.line + n
    BY <2>0, <2>3
  <2>6. Shows(u, str, n)
    BY <2>2, <2>4, <2>5 DEF Shows
  <2> QED
    BY <2>6 DEF u
<1> QED
  BY <1>1, <1>2

\* Behind the first n characters the next is written.
LEMMA PutShows ==
  ASSUME NEW t \in Terminals, NEW str, NEW n \in 0..(MaxLine - 1), Shows(t, str, n),
         str[n + 1] \in Glyphs
  PROVE  Shows(Put(t, str[n + 1]), str, n + 1)
<1> DEFINE u == Scrolled(t)
           v == Put(t, str[n + 1])
<1>1. u \in Terminals /\ u.at \in Cells /\ Shows(u, str, n)
  BY RoomMade, RoomShows
<1>2. v.screen = [u.screen EXCEPT ![u.at] = str[n + 1]] /\ v.at = u.at + 1 /\ v.line = u.line
  BY PutFields
<1> HIDE DEF u, v
<1>0. u.at \in Int /\ u.line \in Int /\ n \in Int /\ Cells \subseteq Int
  BY <1>1, Fields, ScreenSize, BoundsAssumption
<1>3. u.at = u.line + n /\ v.at = v.line + (n + 1)
  <2>1. u.at = u.line + n
    BY <1>1 DEF Shows
  <2> QED
    BY <1>0, <1>2, <2>1
<1>4. ASSUME NEW k \in Cells, k >= v.line
      PROVE  v.screen[k] = IF k < v.at THEN str[k - v.line + 1] ELSE " "
  <2>1. CASE k = u.at
    <3>1. v.screen[k] = str[n + 1]
      BY <1>1, <1>2, <2>1, Fields
    <3>2. k < v.at /\ k - v.line + 1 = n + 1
      BY <1>0, <1>2, <1>3, <2>1
    <3> QED
      BY <3>1, <3>2
  <2>2. CASE k # u.at
    <3>1. v.screen[k] = u.screen[k] /\ (k < v.at <=> k < u.at)
      BY <1>0, <1>1, <1>2, <2>2, Fields
    <3> QED
      BY <1>1, <1>2, <1>4, <3>1 DEF Shows
  <2> QED
    BY <2>1, <2>2
<1>5. Shows(v, str, n + 1)
  BY <1>3, <1>4 DEF Shows
<1> QED
  BY <1>5 DEF v

\* Writing a string is putting its characters one after the other.
LEMMA WrittenUnfolds ==
  ASSUME NEW t \in Terminals, NEW str \in Seq(Chars)
  PROVE  \E f : /\ Written(t, str) = f[Len(str)] /\ f[0] = t
                /\ \A n \in 0..(Len(str) - 1) : f[n + 1] = Put(f[n], str[n + 1])
<1> DEFINE Is(f) == f = [n \in 0..Len(str) |-> IF n = 0 THEN t ELSE Put(f[n - 1], str[n])]
           after == CHOOSE f : Is(f)
           step == [x \in Terminals \X Nat |->
                      IF x[2] \in 1..Len(str) THEN Put(x[1], str[x[2]]) ELSE x[1]]
<1>1. Written(t, str) = after[Len(str)]
  BY DEF Written
<1>2. PICK f : f = [n \in Nat |-> IF n = 0 THEN t ELSE step[<< f[n - 1], n >>]]
  <2> HIDE DEF step
  <2>1. PICK f : Recursive(f, t, step)
    BY Recursion
  <2> QED
    BY <2>1 DEF Recursive
<1>3. Len(str) \in Nat /\ \A n \in 1..Len(str) : str[n] \in Glyphs
  BY DEF Glyphs
<1>4. \A n \in Nat : f[n] \in Terminals
  <2> DEFINE T == {n \in Nat : f[n] \in Terminals}
  <2>1. 0 \in T
    BY <1>2
  <2>2. ASSUME NEW n \in Nat, n \in T PROVE n + 1 \in T
    <3>1. f[n + 1] = step[<< f[n], n + 1 >>]
      <4> HIDE DEF step, T, Is
      <4>1. \A k \in Nat : f[k] = IF k = 0 THEN t ELSE step[<< f[k - 1], k >>]
        BY <1>2
      <4>2. n + 1 \in Nat /\ n + 1 # 0 /\ (n + 1) - 1 = n
        BY <2>2
      <4>3. f[n + 1] = step[<< f[(n + 1) - 1], n + 1 >>]
        BY <4>1, <4>2
      <4> QED
        BY <4>2, <4>3
    <3>2. f[n + 1] = IF n + 1 \in 1..Len(str) THEN Put(f[n], str[n + 1]) ELSE f[n]
      BY <2>2, <3>1
    <3>3. f[n] \in Terminals
      BY <2>2
    <3>4. CASE n + 1 \in 1..Len(str)
      <4>1. Put(f[n], str[n + 1]) \in Terminals
        BY <1>3, <3>3, <3>4, PutFields
      <4> QED
        BY <3>2, <3>4, <4>1
    <3>5. CASE n + 1 \notin 1..Len(str)
      BY <3>2, <3>3, <3>5
    <3> QED
      BY <3>4, <3>5
  <2> HIDE DEF T
  <2>3. Nat \subseteq T
    BY <2>1, <2>2, Induction
  <2> QED
    BY <2>3 DEF T
<1>5. f[0] = t
  BY <1>2
<1>6. \A n \in 1..Len(str) : f[n] = Put(f[n - 1], str[n])
  <2> TAKE n \in 1..Len(str)
  <2>1. n \in Nat /\ n # 0 /\ n - 1 \in Nat
    BY <1>3
  <2>2. f[n] = step[<< f[n - 1], n >>]
    <3> HIDE DEF step
    <3> QED
      BY <1>2, <2>1
  <2>3. << f[n - 1], n >> \in Terminals \X Nat
    BY <1>4, <2>1
  <2> QED
    BY <2>2, <2>3
<1> HIDE DEF step
<1> DEFINE g == [n \in 0..Len(str) |-> f[n]]
<1>7. Is(g)
  <2>1. \A n \in 0..Len(str) : g[n] = IF n = 0 THEN t ELSE Put(g[n - 1], str[n])
    <3> TAKE n \in 0..Len(str)
    <3>1. CASE n = 0
      BY <1>5, <3>1
    <3>2. CASE n # 0
      <4>1. n \in 1..Len(str) /\ n - 1 \in 0..Len(str)
        BY <1>3, <3>2
      <4> QED
        BY <1>6, <3>2, <4>1
    <3> QED
      BY <3>1, <3>2
  <2> QED
    BY <2>1
<1> HIDE DEF g
<1>8. Is(after)
  <2> HIDE DEF Is
  <2> QED
    BY <1>7
<1> HIDE DEF after
<1>9. after[0] = t
  BY <1>3, <1>8
<1>10. \A n \in 0..(Len(str) - 1) : after[n + 1] = Put(after[n], str[n + 1])
  <2> TAKE n \in 0..(Len(str) - 1)
  <2>1. n + 1 \in 0..Len(str) /\ n + 1 # 0 /\ n + 1 - 1 = n
    BY <1>3
  <2> QED
    BY <1>8, <2>1
<1> QED
  BY <1>1, <1>9, <1>10

\* What has been written is shown behind the prompt.
LEMMA WrittenShows ==
  ASSUME NEW t \in Terminals, Stands(t), NEW str \in Seq(Chars), Len(str) <= MaxLine
  PROVE  /\ Written(t, str) \in Terminals /\ Stands(Written(t, str))
         /\ Shows(t, str, 0) => Shows(Written(t, str), str, Len(str))
<1>1. Len(str) \in Nat /\ \A n \in 1..Len(str) : str[n] \in Glyphs
  BY DEF Glyphs
<1>2. PICK f : /\ Written(t, str) = f[Len(str)] /\ f[0] = t
               /\ \A n \in 0..(Len(str) - 1) : f[n + 1] = Put(f[n], str[n + 1])
  BY WrittenUnfolds
<1> DEFINE Good(n) == /\ f[n] \in Terminals /\ Stands(f[n])
                      /\ Shows(t, str, 0) => Shows(f[n], str, n)
           T == {n \in Nat : n <= Len(str) => Good(n)}
<1>3. 0 \in T
  BY <1>2
<1>4. ASSUME NEW n \in Nat, n \in T PROVE n + 1 \in T
  <2> SUFFICES ASSUME n + 1 <= Len(str) PROVE Good(n + 1)
    OBVIOUS
  <2>1. n \in 0..(Len(str) - 1) /\ n \in 0..(MaxLine - 1) /\ n + 1 \in 1..Len(str)
    BY <1>1, BoundsAssumption
  <2>2. f[n + 1] = Put(f[n], str[n + 1]) /\ str[n + 1] \in Glyphs /\ Good(n)
    BY <1>1, <1>2, <1>4, <2>1
  <2>3. f[n + 1] \in Terminals /\ Stands(f[n + 1])
    BY <2>2, PutFields
  <2>4. Shows(t, str, 0) => Shows(f[n + 1], str, n + 1)
    BY <2>1, <2>2, PutShows
  <2> QED
    BY <2>3, <2>4
<1> HIDE DEF T
<1>5. Nat \subseteq T
  BY <1>3, <1>4, Induction
<1>6. Good(Len(str))
  BY <1>1, <1>5 DEF T
<1> QED
  BY <1>2, <1>6
-----------------------------------------------------------------------------
(* What the user and the program do to the terminal. *)

\* A fresh row: the rest of the screen is blank.
LEMMA FreshRow ==
  ASSUME NEW n \in 0..(Width - 1), NEW t \in Fresh(n)
  PROVE  /\ t \in Terminals /\ Stands(t) /\ ~t.edge /\ t.at \in Cells
         /\ BlankFrom(t, t.at)
<1>1. PICK row \in 1..Rows :
        t = [screen |-> [k \in Cells |->
                           IF k \in ((row - 1) * Width + 1)..((row - 1) * Width + 1 + n - 1)
                           THEN "#" ELSE " "],
             at |-> (row - 1) * Width + 1 + n, edge |-> FALSE, line |-> 0]
  BY DEF Fresh
<1> DEFINE first == (row - 1) * Width + 1
           scr == [k \in Cells |-> IF k \in first..(first + n - 1) THEN "#" ELSE " "]
<1>2. first \in Nat /\ first >= 1 /\ first + n <= N
  <2>1. PICK d \in Nat : row = d + 1
    BY BoundsAssumption
  <2>2. PICK e \in Nat : Rows = row + e
    BY BoundsAssumption
  <2>3. first = d * Width + 1 /\ d * Width \in Nat
    BY <2>1, BoundsAssumption
  <2>4. N = d * Width + Width + e * Width /\ e * Width \in Nat
    BY <2>1, <2>2, BoundsAssumption DEF N
  <2> QED
    BY <2>3, <2>4, BoundsAssumption
<1>3. t = [screen |-> scr, at |-> first + n, edge |-> FALSE, line |-> 0]
  BY <1>1
<1> HIDE DEF first
<1>4. scr \in [Cells -> Glyphs] /\ \A k \in Cells : k >= first + n => scr[k] = " "
  BY <1>2, ScreenSize DEF Glyphs, Chars
<1> HIDE DEF scr
<1>5. first + n \in Cells /\ first + n \in 1..(N + 1) /\ first + n # N + 1 /\ 0 \in (-MaxLine)..(N + 1)
  BY <1>2, ScreenSize, BoundsAssumption
<1>6. t \in Terminals /\ t.at = first + n /\ t.screen = scr /\ t.edge = FALSE
  BY <1>3, <1>4, <1>5 DEF Terminals
<1> QED
  BY <1>4, <1>5, <1>6 DEF Stands, BlankFrom

\* Behind the prompt there is nothing yet.
LEMMA PromtShows ==
  ASSUME NEW t \in Terminals, t.at \in Cells, BlankFrom(t, t.at), NEW str
  PROVE  LET p == Put(t, "$")
             u == [p EXCEPT !.line = p.at]
         IN  u \in Terminals /\ Stands(u) /\ Shows(u, str, 0)
<1> DEFINE p == Put(t, "$")
           u == [p EXCEPT !.line = p.at]
<1>1. Scrolled(t) = t
  BY DEF Scrolled
<1>2. "$" \in Glyphs
  BY DEF Glyphs
<1>3. p.screen = [t.screen EXCEPT ![t.at] = "$"] /\ p.at = t.at + 1
  BY <1>1, <1>2, PutFields
<1>4. p \in Terminals /\ Stands(p)
  BY <1>2, PutFields
<1> HIDE DEF p
<1>5. p.at \in 1..(N + 1) /\ p.at \in Int /\ t.at \in Int /\ N \in Nat /\ Cells = 1..N
  BY <1>4, Fields, ScreenSize
<1>6. u \in Terminals
  <2>1. p.at \in (-MaxLine)..(N + 1)
    BY <1>5, BoundsAssumption
  <2> QED
    BY <1>4, <2>1 DEF Terminals
<1>7. u.screen = p.screen /\ u.at = p.at /\ u.line = p.at
  BY <1>4 DEF Terminals
<1>8. Stands(u)
  BY <1>4 DEF Terminals, Stands
<1> HIDE DEF u
<1>9. \A k \in Cells : k >= u.line => ~(k < u.at) /\ u.screen[k] = " "
  <2> TAKE k \in Cells
  <2> HAVE k >= u.line
  <2>1. k # t.at /\ k >= t.at /\ ~(k < u.at)
    BY <1>3, <1>5, <1>7
  <2>2. u.screen[k] = t.screen[k]
    BY <1>3, <1>7, <2>1, Fields
  <2> QED
    BY <2>1, <2>2 DEF BlankFrom
<1>10. u.at = u.line + 0
  BY <1>5, <1>7
<1>11. Shows(u, str, 0)
  BY <1>9, <1>10 DEF Shows
<1> QED
  BY <1>6, <1>8, <1>11 DEF u, p
-----------------------------------------------------------------------------
(* The line, and the input. *)

\* A buffer that holds n characters.
Holds(b, n) ==
  /\ b \in [1..(MaxLine + 1) -> Chars \cup {"nul"}] /\ n \in 0..MaxLine
  /\ \A k \in 1..n : b[k] \in Chars

\* Its text.
LEMMA TextOf ==
  ASSUME NEW b, NEW n, Holds(b, n)
  PROVE  /\ SubSeq(b, 1, n) \in Seq(Chars) /\ Len(SubSeq(b, 1, n)) = n
         /\ \A k \in 1..n : SubSeq(b, 1, n)[k] = b[k]
<1>1. n \in Nat /\ 1..n \subseteq 1..(MaxLine + 1)
  BY BoundsAssumption DEF Holds
<1>2. b \in Seq(Chars \cup {"nul"}) /\ Len(b) = MaxLine + 1
  BY BoundsAssumption DEF Holds
<1>3. SubSeq(b, 1, n) = [k \in 1..n |-> b[k]]
  BY <1>1, <1>2, BoundsAssumption
<1> QED
  BY <1>1, <1>3 DEF Holds

\* Its string, when a nul ends it there.
LEMMA StringOf ==
  ASSUME NEW b, NEW n, Holds(b, n), b[n + 1] = "nul"
  PROVE  String(b) = SubSeq(b, 1, n)
<1> DEFINE Ends(k) == b[k] = "nul" /\ \A j \in 1..(k - 1) : b[j] # "nul"
           end == CHOOSE k \in DOMAIN b : Ends(k)
<1>1. n \in Nat /\ n + 1 \in DOMAIN b /\ DOMAIN b = 1..(MaxLine + 1) /\ n + 1 - 1 = n
  BY BoundsAssumption DEF Holds
<1>2. \A j \in 1..n : b[j] # "nul"
  BY LettersAssumption DEF Holds, Chars
<1>3. Ends(n + 1)
  BY <1>1, <1>2
<1>4. ASSUME NEW k \in DOMAIN b, Ends(k) PROVE k = n + 1
  <2>1. k \in Nat /\ k >= 1
    BY <1>1
  <2>2. CASE k < n + 1
    BY <1>2, <1>4, <2>1, <2>2, <1>1
  <2>3. CASE k > n + 1
    <3>1. n + 1 \in 1..(k - 1)
      BY <1>1, <2>1, <2>3
    <3> QED
      BY <1>3, <1>4, <3>1
  <2> QED
    BY <1>1, <2>1, <2>2, <2>3
<1> HIDE DEF Ends
<1>5. end = n + 1
  BY <1>1, <1>3, <1>4
<1>6. String(b) = SubSeq(b, 1, end - 1)
  BY DEF String, Ends
<1> HIDE DEF end
<1>7. end - 1 = n
  BY <1>1, <1>5
<1> QED
  BY <1>6, <1>7

Unanswered(in) == \A k \in DOMAIN in : in[k] # "answer"
AnsweredOnce(in) == \E n \in DOMAIN in : \A k \in DOMAIN in : in[k] = "answer" <=> k = n

Input == Seq(Keys \cup {"answer"})

\* A key is no answer.
LEMMA KeysAreNoAnswer == "answer" \notin Keys
BY LettersAssumption DEF Keys, Chars, CursorKeys

\* What a key, the answer, and reading do to the input.
LEMMA Grown ==
  ASSUME NEW in \in Input, NEW key \in Keys
  PROVE  /\ Append(in, key) \in Input /\ Append(in, "answer") \in Input
         /\ Unanswered(in) => Unanswered(Append(in, key)) /\ AnsweredOnce(Append(in, "answer"))
         /\ AnsweredOnce(in) => AnsweredOnce(Append(in, key))
<1>1. /\ Append(in, key) \in Input /\ Append(in, "answer") \in Input
      /\ Len(in) \in Nat /\ DOMAIN in = 1..Len(in)
  BY DEF Input
<1>2. ASSUME NEW e \in Keys \cup {"answer"}
      PROVE  /\ DOMAIN Append(in, e) = 1..(Len(in) + 1)
             /\ Append(in, e)[Len(in) + 1] = e
             /\ \A k \in DOMAIN in : Append(in, e)[k] = in[k]
  BY <1>1 DEF Input
<1>3. key # "answer"
  BY KeysAreNoAnswer
<1>4. ASSUME Unanswered(in)
      PROVE  Unanswered(Append(in, key)) /\ AnsweredOnce(Append(in, "answer"))
  <2>1. Unanswered(Append(in, key))
    BY <1>1, <1>2, <1>3, <1>4 DEF Unanswered
  <2>2. AnsweredOnce(Append(in, "answer"))
    <3> DEFINE out == Append(in, "answer")
    <3>1. DOMAIN out = 1..(Len(in) + 1) /\ out[Len(in) + 1] = "answer"
      BY <1>2
    <3>2. \A k \in DOMAIN in : out[k] # "answer"
      BY <1>2, <1>4 DEF Unanswered
    <3> HIDE DEF out
    <3>3. \A k \in DOMAIN out : out[k] = "answer" <=> k = Len(in) + 1
      BY <1>1, <3>1, <3>2
    <3>4. Len(in) + 1 \in DOMAIN out
      BY <1>1, <3>1
    <3>5. AnsweredOnce(out)
      BY <3>3, <3>4 DEF AnsweredOnce
    <3> QED
      BY <3>5 DEF out
  <2> QED
    BY <2>1, <2>2
<1>5. ASSUME AnsweredOnce(in) PROVE AnsweredOnce(Append(in, key))
  <2>1. PICK n \in DOMAIN in : \A k \in DOMAIN in : in[k] = "answer" <=> k = n
    BY <1>5 DEF AnsweredOnce
  <2> DEFINE out == Append(in, key)
  <2>2. /\ DOMAIN out = 1..(Len(in) + 1) /\ out[Len(in) + 1] # "answer"
        /\ \A k \in DOMAIN in : out[k] = in[k]
    BY <1>2, <1>3
  <2> HIDE DEF out
  <2>3. n \in DOMAIN out /\ n # Len(in) + 1
    BY <1>1, <2>2
  <2>4. \A k \in DOMAIN out : out[k] = "answer" <=> k = n
    BY <1>1, <2>1, <2>2, <2>3
  <2>5. AnsweredOnce(out)
    BY <2>3, <2>4 DEF AnsweredOnce
  <2> QED
    BY <2>5 DEF out
<1> QED
  BY <1>1, <1>4, <1>5

\* Reading the first element, or everything up to the answer.
LEMMA Shrunk ==
  ASSUME NEW in \in Input, in # << >>
  PROVE  /\ Tail(in) \in Input
         /\ Unanswered(in) => Unanswered(Tail(in))
         /\ \A n \in DOMAIN in :
              /\ SubSeq(in, n + 1, Len(in)) \in Input
              /\ AnsweredOnce(in) /\ in[n] = "answer" => Unanswered(SubSeq(in, n + 1, Len(in)))
<1>1. Len(in) \in Nat /\ Len(in) >= 1 /\ DOMAIN in = 1..Len(in)
  BY DEF Input
<1>2. Tail(in) \in Input /\ (Unanswered(in) => Unanswered(Tail(in)))
  <2>1. Tail(in) \in Input /\ DOMAIN Tail(in) = 1..(Len(in) - 1)
    BY <1>1 DEF Input
  <2>2. \A k \in 1..(Len(in) - 1) : Tail(in)[k] = in[k + 1] /\ k + 1 \in DOMAIN in
    BY <1>1 DEF Input
  <2> QED
    BY <2>1, <2>2 DEF Unanswered
<1>3. ASSUME NEW n \in DOMAIN in
      PROVE  /\ SubSeq(in, n + 1, Len(in)) \in Input
             /\ AnsweredOnce(in) /\ in[n] = "answer" => Unanswered(SubSeq(in, n + 1, Len(in)))
  <2> DEFINE out == SubSeq(in, n + 1, Len(in))
  <2>1. out \in Input
    BY <1>1 DEF Input
  <2>2. /\ DOMAIN out = 1..(Len(in) - n)
        /\ \A k \in 1..(Len(in) - n) : out[k] = in[k + n] /\ k + n \in DOMAIN in /\ k + n # n
    BY <1>1 DEF Input
  <2> HIDE DEF out
  <2>3. ASSUME AnsweredOnce(in), in[n] = "answer" PROVE Unanswered(out)
    <3>1. \A k \in DOMAIN in : in[k] = "answer" => k = n
      BY <2>3 DEF AnsweredOnce
    <3> QED
      BY <2>2, <3>1 DEF Unanswered
  <2> QED
    BY <2>1, <2>3 DEF out
<1> QED
  BY <1>2, <1>3
-----------------------------------------------------------------------------
(* The inductive invariant. *)

Terminal == tty \in Terminals /\ Stands(tty)

Line == Holds(buffer, buf_index)

Past ==
  /\ history \in Seq(Seq(Chars)) /\ history_ptr \in 0..Len(history)
  /\ \A k \in DOMAIN history : Len(history[k]) <= MaxLine

\* The answer is on its way only while the prompt waits for it, and comes once.
Answers ==
  /\ input \in Input /\ asked \in BOOLEAN
  /\ pc \in {"promt", "edit", "run"} => ~asked /\ Unanswered(input)
  /\ pc = "ask" /\ asked => Unanswered(input)
  /\ pc = "ask" /\ ~asked => AnsweredOnce(input)

\* The prompt goes to a free row, and the line behind it.
Screen ==
  /\ pc = "promt" => tty.at \in Cells /\ BlankFrom(tty, tty.at)
  /\ pc = "ask" => Shows(tty, Text, 0)
  /\ pc = "edit" /\ ~drifted => Shows(tty, Text, buf_index)
  /\ pc = "edit" /\ ~misled => promt_position = tty.line

Rest ==
  /\ pc \in {"promt", "ask", "edit", "run", "panic"}
  /\ promt_position \in Cells /\ drifted \in BOOLEAN /\ misled \in BOOLEAN

IInv == Terminal /\ Line /\ Past /\ Answers /\ Screen /\ Rest

\* It contains the type invariant.
LEMMA IInvTyped == IInv => TypeOK
<1> SUFFICES ASSUME IInv PROVE TypeOK
  OBVIOUS
<1>1. tty \in [screen : [Cells -> Chars \cup {"$", "#"}], at : 1..(Rows * Width + 1),
               edge : BOOLEAN, line : (-MaxLine)..(Rows * Width + 1)]
  BY DEF IInv, Terminal, Terminals, Glyphs, N
<1>2. buffer \in [1..(MaxLine + 1) -> Chars \cup {"nul"}] /\ buf_index \in 0..MaxLine
  BY DEF IInv, Line, Holds
<1>3. input \in Seq(Keys \cup {"answer"}) /\ asked \in BOOLEAN
  BY DEF IInv, Answers, Input
<1>4. history \in Seq(Seq(Chars)) /\ history_ptr \in 0..Len(history)
  BY DEF IInv, Past
<1>5. /\ pc \in {"promt", "ask", "edit", "run", "panic"}
      /\ promt_position \in Cells /\ drifted \in BOOLEAN /\ misled \in BOOLEAN
  BY DEF IInv, Rest
<1> QED
  BY <1>1, <1>2, <1>3, <1>4, <1>5 DEF TypeOK

\* The line as the program has it.
LEMMA TextIs ==
  ASSUME Line
  PROVE  /\ Text \in Seq(Chars) /\ Len(Text) = buf_index /\ buf_index \in 0..MaxLine
         /\ \A k \in 1..buf_index : Text[k] = buffer[k]
BY TextOf DEF Line, Text, Holds

\* It holds at the start.
LEMMA InitIInv == Init => IInv
<1> SUFFICES ASSUME Init PROVE IInv
  OBVIOUS
<1>1. Terminal /\ (pc = "promt" => tty.at \in Cells /\ BlankFrom(tty, tty.at))
  <2>1. 0 \in 0..(Width - 1) /\ tty \in Fresh(0)
    BY BoundsAssumption DEF Init
  <2> QED
    BY <2>1, FreshRow DEF Terminal
<1>2. Line
  BY BoundsAssumption DEF Init, Line, Holds
<1>3. Past
  <2>1. PICK saved \in {<< >>} \cup {<< << a >> >> : a \in Letters} :
          history = saved /\ history_ptr = Len(saved)
    BY DEF Init
  <2>2. CASE saved = << >>
    BY <2>1, <2>2 DEF Past
  <2>3. ASSUME NEW a \in Letters, saved = << << a >> >> PROVE Past
    <3> DEFINE entry == << a >>
    <3>1. entry \in Seq(Chars) /\ Len(entry) = 1
      <4>1. a \in Chars
        BY DEF Chars
      <4> QED
        BY <4>1
    <3>2. entry \in Seq(Chars) /\ Len(entry) <= MaxLine
      BY <3>1, BoundsAssumption
    <3>3. history = << entry >> /\ history_ptr = 1
      BY <2>1, <2>3
    <3> HIDE DEF entry
    <3> QED
      BY <3>2, <3>3 DEF Past
  <2> QED
    BY <2>2, <2>3
<1>4. Answers
  <2>1. input \in Input /\ Unanswered(input)
    BY DEF Init, Input, Unanswered
  <2>2. asked \in BOOLEAN /\ ~asked /\ pc = "promt"
    BY Zenon DEF Init
  <2> QED
    BY <2>1, <2>2 DEF Answers
<1>5. Rest
  <2>1. promt_position \in Cells /\ pc = "promt"
    BY ScreenSize, BoundsAssumption DEF Init
  <2>2. drifted \in BOOLEAN /\ misled \in BOOLEAN
    BY Zenon DEF Init
  <2> QED
    BY <2>1, <2>2 DEF Rest
<1>6. Screen
  BY <1>1 DEF Init, Screen
<1> QED
  BY <1>1, <1>2, <1>3, <1>4, <1>5, <1>6 DEF IInv

\* A key has been read.
LEMMA KeyRead ==
  ASSUME Answers, NEW key, Getch(key), asked' = asked, pc' \in {"promt", "edit", "run"}
  PROVE  Answers'
<1>1. pc = "edit" /\ input # << >> /\ input' = Tail(input)
  BY DEF Getch
<1>2. input \in Input /\ Unanswered(input)
  BY <1>1 DEF Answers
<1>3. input' \in Input /\ Unanswered(input')
  <2>1. Tail(input) \in Input /\ (Unanswered(input) => Unanswered(Tail(input)))
    BY <1>1, <1>2, Shrunk, Zenon
  <2> QED
    BY <1>1, <1>2, <2>1, Zenon
<1>4. asked' \in BOOLEAN /\ ~asked'
  BY <1>1, Zenon DEF Answers
<1>5. pc' # "ask"
  OBVIOUS
<1> QED
  BY <1>3, <1>4, <1>5, Zenon DEF Answers

\* The cell of the first row in the same column.
LEMMA FirstRow ==
  ASSUME NEW cell \in Cells
  PROVE  /\ InFirstRow(cell) \in Cells
         /\ ~(cell > Width) => InFirstRow(cell) = cell
<1>1. cell \in Nat /\ cell >= 1 /\ Width \in Nat \ {0} /\ N >= Width /\ N \in Nat /\ Cells = 1..N
  BY ScreenSize, BoundsAssumption
<1>2. (cell - 1) % Width \in 0..(Width - 1)
  BY <1>1
<1>3. ~(cell > Width) => (cell - 1) % Width = cell - 1
  BY <1>1
<1> QED
  BY <1>1, <1>2, <1>3 DEF InFirstRow

\* The cursor goes to a fresh row.
LEMMA RowFreed ==
  ASSUME NEW n \in 0..(Width - 1), tty' \in Fresh(n), pc' \in {"promt", "run"}
  PROVE  Terminal' /\ Screen'
<1>1. /\ tty' \in Terminals /\ Stands(tty') /\ tty'.at \in Cells
      /\ BlankFrom(tty', tty'.at)
  BY FreshRow
<1> QED
  BY <1>1 DEF Terminal, Screen

\* An entry of the history is shown in place of the line.
LEMMA Recalled ==
  ASSUME Terminal, Line, Rest, pc = "edit",
         NEW entry \in Seq(Chars), Len(entry) <= MaxLine, Recall(entry)
  PROVE  Terminal' /\ Line' /\ Screen' /\ Rest' /\ pc' = "edit" /\ asked' = asked
<1> DEFINE t == ClearedFrom(tty, promt_position)
           u == Written(t, entry)
<1>1. /\ tty' = u /\ drifted' = FALSE /\ misled' = (misled \/ tty'.line # promt_position)
      /\ buffer' = [k \in DOMAIN buffer |-> IF k <= Len(entry) THEN entry[k] ELSE buffer[k]]
      /\ buf_index' = Len(entry)
      /\ asked' = asked /\ pc' = "edit" /\ promt_position' = promt_position
  BY DEF Recall
<1>2. promt_position \in Cells /\ tty \in Terminals
  BY DEF Rest, Terminal
<1>3. /\ t \in Terminals /\ Stands(t) /\ t.at = promt_position /\ t.line = promt_position
      /\ BlankFrom(t, promt_position)
  BY <1>2, ClearedFields
<1> HIDE DEF t
<1>4. /\ u \in Terminals /\ Stands(u)
      /\ Shows(t, entry, 0) => Shows(u, entry, Len(entry))
  BY <1>3, WrittenShows
<1> HIDE DEF u
<1>5. Holds(buffer', buf_index')
  <2>1. /\ buffer \in [1..(MaxLine + 1) -> Chars \cup {"nul"}]
        /\ Len(entry) \in Nat /\ \A k \in 1..Len(entry) : entry[k] \in Chars
    BY DEF Line, Holds
  <2>2. buffer' \in [1..(MaxLine + 1) -> Chars \cup {"nul"}]
    BY <1>1, <2>1
  <2>3. Len(entry) \in 0..MaxLine
    BY <2>1, BoundsAssumption
  <2>4. \A k \in 1..Len(entry) : buffer'[k] = entry[k]
    BY <1>1, <2>1, <2>3, BoundsAssumption
  <2> QED
    BY <1>1, <2>1, <2>2, <2>3, <2>4 DEF Holds
<1>6. \A k \in 1..Len(entry) : entry[k] = Text'[k]
  <2>1. Len(entry) \in 0..MaxLine /\ DOMAIN buffer = 1..(MaxLine + 1)
    BY BoundsAssumption DEF Line, Holds
  <2>2. \A k \in 1..Len(entry) : buffer'[k] = entry[k]
    BY <1>1, <2>1, BoundsAssumption
  <2>3. Text' = SubSeq(buffer', 1, buf_index')
    BY DEF Text
  <2> QED
    BY <1>1, <1>5, <2>2, <2>3, TextOf
<1>7. Shows(tty', Text', buf_index')
  <2>1. t.at = t.line + 0
    BY <1>3, Fields
  <2>2. Shows(t, entry, 0)
    <3>1. \A k \in Cells : k >= t.line => ~(k < t.at) /\ t.screen[k] = " "
      <4>1. t.at = promt_position /\ t.line = t.at /\ t.at \in Int /\ Cells \subseteq Int
        BY <1>3, Fields, ScreenSize
      <4> QED
        <5> TAKE k \in Cells
        <5> HAVE k >= t.line
        <5>1. k >= promt_position /\ ~(k < t.at)
          BY <4>1
        <5> QED
          BY <1>3, <5>1 DEF BlankFrom
    <3> QED
      BY <2>1, <3>1 DEF Shows
  <2>3. Len(entry) \in 0..MaxLine
    BY BoundsAssumption
  <2>4. Shows(u, Text', Len(entry))
    BY <1>4, <1>6, <2>2, <2>3, ShowsAlike
  <2> QED
    BY <1>1, <2>4
<1>8. Rest'
  <2>1. drifted' \in BOOLEAN /\ misled' \in BOOLEAN
    BY <1>1, Zenon
  <2> QED
    BY <1>1, <2>1 DEF Rest
<1>9. Terminal' /\ Line' /\ Screen'
  <2>1. ~misled' => promt_position' = tty'.line
    BY <1>1, Zenon
  <2> QED
    BY <1>1, <1>4, <1>5, <1>7, <2>1 DEF Terminal, Line, Screen
<1> QED
  BY <1>1, <1>8, <1>9

\* Off the edge the cursor goes one cell to the left.
LEMMA OneLeftOf ==
  ASSUME NEW t \in Terminals, ~t.edge, t.at % Width # 1
  PROVE  LET u == Leftwards(t) IN
         u.at = t.at - 1 /\ u.screen = t.screen /\ u.line = t.line
<1>1. Cursor(t) = t.at
  BY Zenon DEF Cursor
<1>2. Leftwards(t) = [t EXCEPT !.at = t.at - 1, !.edge = FALSE]
  BY <1>1, Zenon DEF Leftwards
<1> QED
  BY <1>2 DEF Terminals

\* A deleted character goes from the screen, unless it is the last of another row.
LEMMA RubbedOut ==
  ASSUME NEW t \in Terminals, Stands(t), NEW str, NEW n \in 1..MaxLine, Shows(t, str, n),
         t.at % Width # 1
  PROVE  LET u == Leftwards(Put(Leftwards(t), " ")) IN Shows(u, str, n - 1)
<1> DEFINE back == Leftwards(t)
           p == Put(back, " ")
           u == Leftwards(p)
<1>1. ~t.edge
  BY Zenon DEF Stands
<1>2. back.at = t.at - 1 /\ back.screen = t.screen /\ back.line = t.line
  BY <1>1, OneLeftOf
<1>3. back \in Terminals
  BY MovedLeft
<1> HIDE DEF back
<1>4. t.at \in Int /\ t.line \in Int /\ t.at - 1 \in Cells /\ Cells \subseteq Nat
  <2>1. t.at # N + 1 /\ t.at # 1
    BY <1>1, ScreenSize DEF Stands
  <2> QED
    BY <2>1, Fields, ScreenSize
<1>5. p.screen = [t.screen EXCEPT ![t.at - 1] = " "] /\ p.at = t.at /\ p.line = t.line
  <2>1. Scrolled(back) = back
    BY <1>2, <1>4 DEF Scrolled
  <2>2. " " \in Glyphs
    BY DEF Glyphs, Chars
  <2>3. p.screen = [back.screen EXCEPT ![back.at] = " "] /\ p.at = back.at + 1 /\ p.line = back.line
    BY <1>3, <2>1, <2>2, PutFields
  <2> HIDE DEF p
  <2>4. back.at + 1 = t.at
    BY <1>2, <1>4
  <2> QED
    BY <1>2, <2>3, <2>4
<1>6. p \in Terminals /\ ~p.edge
  <2>1. p \in Terminals /\ Stands(p)
    <3>1. " " \in Glyphs
      BY DEF Glyphs, Chars
    <3> QED
      BY <1>3, <3>1, PutFields
  <2> HIDE DEF p
  <2> QED
    BY <1>5, <2>1, Zenon DEF Stands
<1> HIDE DEF p
<1>7. u.at = t.at - 1 /\ u.screen = p.screen /\ u.line = t.line
  BY <1>5, <1>6, OneLeftOf
<1> HIDE DEF u
<1>8. t.at = t.line + n
  BY DEF Shows
<1>9. u.at = u.line + (n - 1)
  BY <1>4, <1>7, <1>8
<1>10. ASSUME NEW k \in Cells, k >= u.line
       PROVE  u.screen[k] = IF k < u.at THEN str[k - u.line + 1] ELSE " "
  <2>0. t.screen[k] = IF k < t.at THEN str[k - t.line + 1] ELSE " "
    BY <1>7, <1>10 DEF Shows
  <2>1. CASE k = t.at - 1
    <3>1. u.screen[k] = " "
      BY <1>5, <1>7, <2>1, Fields
    <3>2. ~(k < u.at)
      BY <1>4, <1>7, <2>1
    <3> QED
      BY <3>1, <3>2
  <2>2. CASE k # t.at - 1
    <3>1. u.screen[k] = t.screen[k]
      BY <1>5, <1>7, <2>2, Fields
    <3>2. k < u.at <=> k < t.at
      BY <1>4, <1>7, <2>2
    <3> QED
      BY <1>7, <2>0, <3>1, <3>2
  <2> QED
    BY <2>1, <2>2
<1>11. Shows(u, str, n - 1)
  BY <1>9, <1>10 DEF Shows
<1> QED
  BY <1>11 DEF u, p, back

\* Deleting leaves a terminal with its cursor on the screen, and the line where it is.
LEMMA RuboutTyped ==
  ASSUME Terminal
  PROVE  Rubout \in Terminals /\ Stands(Rubout) /\ Rubout.line = tty.line
<1>1. " " \in Glyphs
  BY DEF Glyphs, Chars
<1>2. Leftwards(tty) \in Terminals
  BY MovedLeft DEF Terminal
<1>3. Put(Leftwards(tty), " ") \in Terminals /\ Stands(Put(Leftwards(tty), " "))
  BY <1>1, <1>2, PutFields
<1>4. Put(Leftwards(tty), " ").line = tty.line
  <2>1. tty \in Terminals /\ Leftwards(tty).at \in Cells
    BY LeftOnCell DEF Terminal
  <2> QED
    BY <1>1, <1>2, <2>1, LineStays
<1>5. Rubout.line = tty.line
  BY <1>3, <1>4, LineStays DEF Rubout
<1> QED
  BY <1>3, <1>5, MovedLeft DEF Rubout

\* What is remembered is the text.
LEMMA EnteredText ==
  ASSUME Line, Enter
  PROVE  String(buffer') = Text
<1>1. buffer' = [buffer EXCEPT ![buf_index + 1] = "nul"]
  BY DEF Enter
<1>2. /\ buffer \in [1..(MaxLine + 1) -> Chars \cup {"nul"}] /\ buf_index \in 0..MaxLine
      /\ \A k \in 1..buf_index : buffer[k] \in Chars
  BY DEF Line, Holds
<1>3. Holds(buffer', buf_index) /\ buffer'[buf_index + 1] = "nul"
  BY <1>1, <1>2, BoundsAssumption DEF Holds
<1>4. String(buffer') = SubSeq(buffer', 1, buf_index)
  BY <1>3, StringOf
<1>5. SubSeq(buffer', 1, buf_index) = Text
  <2>1. \A k \in 1..buf_index : buffer'[k] = buffer[k]
    BY <1>1, <1>2, BoundsAssumption
  <2>2. /\ Text \in Seq(Chars) /\ Len(Text) = buf_index
        /\ \A k \in 1..buf_index : Text[k] = buffer[k]
    BY TextIs
  <2>3. /\ SubSeq(buffer', 1, buf_index) \in Seq(Chars)
        /\ Len(SubSeq(buffer', 1, buf_index)) = buf_index
        /\ \A k \in 1..buf_index : SubSeq(buffer', 1, buf_index)[k] = buffer'[k]
    BY <1>3, TextOf
  <2> QED
    BY <2>1, <2>2, <2>3
<1> QED
  BY <1>4, <1>5

\* Every step keeps it.
LEMMA StepIInv == IInv /\ [Next]_vars => IInv'
<1> SUFFICES ASSUME IInv, [Next]_vars PROVE IInv'
  OBVIOUS
<1> USE DEF IInv
<1>1. CASE Press
  <2>1. PICK key \in Keys : input' = Append(input, key)
    BY <1>1 DEF Press
  <2>2. UNCHANGED << terminal, pc, line, promt_position, past, marks >>
    BY <1>1 DEF Press
  <2>3. Answers'
    <3>1. input \in Input
      BY DEF Answers
    <3>2. /\ input' \in Input
          /\ Unanswered(input) => Unanswered(input')
          /\ AnsweredOnce(input) => AnsweredOnce(input')
      BY <2>1, <3>1, Grown
    <3>3. asked' = asked /\ pc' = pc
      BY <2>2 DEF terminal
    <3> QED
      BY <3>2, <3>3, Zenon DEF Answers
  <2> QED
    BY <2>2, <2>3 DEF marks, terminal, line, past, Terminal, Line, Past, Screen, Rest, Text
<1>2. CASE Answer
  <2>1. /\ asked /\ ~asked' /\ asked' \in BOOLEAN /\ input' = Append(input, "answer")
        /\ UNCHANGED << tty, pc, line, promt_position, past, marks >>
    BY <1>2, Zenon DEF Answer
  <2>2. Answers'
    <3>1. input \in Input
      BY DEF Answers
    <3>2. input' \in Input /\ (Unanswered(input) => AnsweredOnce(input'))
      <4>1. "enter" \in Keys
        BY DEF Keys
      <4> QED
        BY <2>1, <3>1, <4>1, Grown
    <3> QED
      BY <2>1, <3>2, Zenon DEF Answers
  <2> QED
    BY <2>1, <2>2 DEF marks, line, past, Terminal, Line, Past, Screen, Rest, Text
<1>3. CASE Promt
  <2>1. /\ pc = "promt" /\ pc' = "ask" /\ asked' /\ asked' \in BOOLEAN
        /\ UNCHANGED << input, line, promt_position, past, marks >>
    BY <1>3, Zenon DEF Promt
  <2>2. tty' \in Terminals /\ Stands(tty') /\ Shows(tty', Text, 0)
    <3>1. tty \in Terminals /\ tty.at \in Cells /\ BlankFrom(tty, tty.at)
      BY <2>1 DEF Terminal, Screen
    <3>2. tty' = LET t == Put(tty, "$") IN [t EXCEPT !.line = t.at]
      BY <1>3, Zenon DEF Promt
    <3> QED
      BY <3>1, <3>2, PromtShows
  <2>3. Answers'
    BY <2>1, Zenon DEF Answers
  <2>4. Screen' /\ Terminal'
    BY <2>1, <2>2 DEF Screen, Terminal, line, Text
  <2> QED
    BY <2>1, <2>3, <2>4 DEF marks, line, past, Line, Past, Rest
<1>4. CASE ReadPosition
  <2>1. /\ pc = "ask" /\ input # << >> /\ pc' = "edit" /\ drifted' = FALSE
        /\ tty' = Written(tty, Text) /\ UNCHANGED << asked, line, past >>
    BY <1>4, Zenon DEF ReadPosition
  <2>p. promt_position' = IF input[1] = "answer" THEN Cursor(tty) ELSE InFirstRow(Cursor(tty))
    BY <1>4, Zenon DEF ReadPosition
  <2>m. misled' = \/ tty.edge
                  \/ input[1] # "answer" /\ Cursor(tty) > Width
                  \/ tty'.line # tty.line
    BY <1>4 DEF ReadPosition
  <2>2. PICK n \in DOMAIN input : input[n] = "answer" /\ input' = SubSeq(input, n + 1, Len(input))
    BY <1>4 DEF ReadPosition
  <2>3. Answers'
    <3>1. input \in Input /\ ~asked /\ AnsweredOnce(input)
      BY <2>1, <2>2, Zenon DEF Answers, Unanswered
    <3>2. input' \in Input /\ Unanswered(input')
      <4>1. input \in Input /\ AnsweredOnce(input) /\ input # << >>
        BY <2>1, <3>1
      <4> QED
        BY <2>2, <4>1, Shrunk
    <3>3. asked' \in BOOLEAN /\ ~asked'
      BY <2>1, <3>1, Zenon DEF Answers
    <3> QED
      BY <2>1, <3>2, <3>3, Zenon DEF Answers
  <2>4. tty' \in Terminals /\ Stands(tty') /\ Shows(tty', Text, buf_index)
    <3>1. Text \in Seq(Chars) /\ Len(Text) = buf_index /\ Len(Text) <= MaxLine
      BY TextIs, BoundsAssumption
    <3>2. tty \in Terminals /\ Stands(tty) /\ Shows(tty, Text, 0)
      BY <2>1 DEF Terminal, Screen
    <3> QED
      BY <2>1, <3>1, <3>2, WrittenShows
  <2>5. Screen' /\ Terminal'
    <3>1. ASSUME ~misled' PROVE promt_position' = tty'.line
      <4>1. ~tty.edge /\ (input[1] = "answer" \/ ~(Cursor(tty) > Width)) /\ tty'.line = tty.line
        BY <2>m, <3>1, Zenon
      <4>2. Cursor(tty) = tty.at /\ tty.at = tty.line
        <5>1. Shows(tty, Text, 0) /\ tty \in Terminals
          BY <2>1 DEF Screen, Terminal
        <5>2. tty.at = tty.line + 0 /\ tty.line \in Int
          BY <5>1, Fields DEF Shows
        <5>3. Cursor(tty) = tty.at
          BY <4>1, Zenon DEF Cursor
        <5> QED
          BY <5>2, <5>3
      <4>3. CASE input[1] = "answer"
        BY <2>p, <4>1, <4>2, <4>3
      <4>4. CASE input[1] # "answer"
        <5>1. InFirstRow(Cursor(tty)) = Cursor(tty)
          <6>1. Cursor(tty) \in Cells /\ ~(Cursor(tty) > Width)
            BY <4>1, <4>4, CursorStands DEF Terminal
          <6> QED
            BY <6>1, FirstRow
        <5> QED
          BY <2>p, <4>1, <4>2, <4>4, <5>1
      <4> QED
        BY <4>3, <4>4
    <3> QED
      BY <2>1, <2>4, <3>1 DEF Screen, Terminal, line, Text
  <2>6. Rest'
    <3>1. promt_position' \in Cells
      <4>1. Cursor(tty) \in Cells
        BY CursorStands DEF Terminal
      <4> QED
        BY <2>p, <4>1, FirstRow
    <3>2. drifted' \in BOOLEAN /\ misled' \in BOOLEAN
      BY <2>1, <2>m, Zenon
    <3> QED
      BY <2>1, <3>1, <3>2 DEF Rest
  <2> QED
    BY <2>1, <2>3, <2>5, <2>6 DEF line, past, Line, Past
<1>5. CASE Panic
  <2>1. /\ pc' = "panic"
        /\ UNCHANGED << input, terminal, line, promt_position, past, marks >>
    BY <1>5 DEF Panic
  <2>2. Answers'
    <3>1. input' = input /\ asked' = asked /\ pc' = "panic"
      BY <2>1, Zenon DEF terminal
    <3> QED
      BY <3>1, Zenon DEF Answers
  <2> QED
    BY <2>1, <2>2 DEF marks, terminal, line, past, Terminal, Line, Past, Screen, Rest
<1>6. CASE Type
  <2>1. PICK char \in Chars :
          /\ Getch(char) /\ buf_index < MaxLine
          /\ buffer' = [buffer EXCEPT ![buf_index + 1] = char] /\ buf_index' = buf_index + 1
          /\ tty' = Put(tty, char) /\ misled' = (misled \/ tty'.line # tty.line)
          /\ UNCHANGED << asked, pc, promt_position, past, drifted >>
    BY <1>6 DEF Type
  <2>2. Answers'
    <3>1. asked' = asked /\ pc' = "edit"
      BY <2>1, Zenon DEF Getch
    <3> QED
      BY <2>1, <3>1, KeyRead
  <2>3. /\ Line' /\ Text'[buf_index + 1] = char
        /\ \A k \in 1..buf_index : Text[k] = Text'[k]
    <3>1. /\ buffer \in [1..(MaxLine + 1) -> Chars \cup {"nul"}] /\ buf_index \in 0..MaxLine
          /\ \A k \in 1..buf_index : buffer[k] \in Chars
      BY DEF Line, Holds
    <3>2. buf_index + 1 \in 1..(MaxLine + 1) /\ buf_index + 1 \in 0..MaxLine
      BY <2>1, <3>1, BoundsAssumption
    <3>3. Holds(buffer', buf_index')
      BY <2>1, <3>1, <3>2, BoundsAssumption DEF Holds
    <3>4. \A k \in 1..(buf_index + 1) : Text'[k] = buffer'[k]
      BY <2>1, <3>3, TextOf DEF Text
    <3>5. buffer'[buf_index + 1] = char /\ \A k \in 1..buf_index : buffer'[k] = buffer[k]
      BY <2>1, <3>1, <3>2, BoundsAssumption
    <3>6. \A k \in 1..buf_index : Text[k] = buffer[k]
      BY TextIs
    <3>7. /\ buf_index + 1 \in 1..(buf_index + 1)
          /\ \A k \in 1..buf_index : k \in 1..(buf_index + 1)
      BY <3>1, BoundsAssumption
    <3> QED
      BY <3>3, <3>4, <3>5, <3>6, <3>7 DEF Line
  <2>4. Terminal'
    <3>1. char \in Glyphs
      BY DEF Glyphs
    <3> QED
      BY <2>1, <3>1, PutFields DEF Terminal
  <2>5. Screen'
    <3>1. pc = "edit" /\ pc' = pc /\ drifted' = drifted
      BY <2>1, Zenon DEF Getch
    <3>2. ASSUME ~drifted PROVE Shows(tty', Text', buf_index + 1)
      <4>1. Shows(tty, Text, buf_index) /\ buf_index \in 0..(MaxLine - 1) /\ buf_index \in 0..MaxLine
        BY <2>1, <3>1, <3>2, BoundsAssumption DEF Screen, Line, Holds
      <4>2. tty \in Terminals /\ char \in Glyphs
        BY DEF Terminal, Glyphs
      <4>3. Shows(tty, Text', buf_index)
        BY <2>3, <4>1, <4>2, ShowsAlike
      <4> QED
        BY <2>1, <2>3, <4>1, <4>2, <4>3, PutShows
    <3>3. ~misled' => promt_position' = tty'.line
      <4>1. ~misled => promt_position = tty.line
        BY <3>1 DEF Screen
      <4>2. misled' = (misled \/ tty'.line # tty.line) /\ promt_position' = promt_position
        BY <2>1
      <4> QED
        BY <4>1, <4>2, Zenon
    <3> QED
      BY <2>1, <3>1, <3>2, <3>3 DEF Screen
  <2>6. Rest'
    <3>1. misled' \in BOOLEAN
      BY <2>1, Zenon
    <3> QED
      BY <2>1, <3>1 DEF Rest
  <2> QED
    BY <2>1, <2>2, <2>3, <2>4, <2>5, <2>6 DEF past, Past
<1>7. CASE Delete
  <2>1. Getch("delete") /\ UNCHANGED << asked, pc, buffer, promt_position, past, misled >>
    BY <1>7 DEF Delete
  <2>2. pc = "edit" /\ pc' = "edit" /\ asked' = asked
    BY <2>1, Zenon DEF Getch
  <2>3. Answers'
    BY <2>1, <2>2, KeyRead
  <2>4. CASE buf_index > 0
    <3>1. /\ buf_index' = buf_index - 1 /\ tty' = Rubout
          /\ drifted' = (drifted \/ tty.at % Width = 1)
      BY <1>7, <2>4 DEF Delete
    <3>2. Terminal' /\ tty'.line = tty.line
      BY <3>1, RuboutTyped DEF Terminal
    <3>3. /\ Line' /\ buf_index \in 1..MaxLine /\ buf_index - 1 \in 0..MaxLine
          /\ \A k \in 1..(buf_index - 1) : Text[k] = Text'[k]
      <4>1. /\ buf_index \in 1..MaxLine /\ buf_index - 1 \in 0..MaxLine
            /\ \A k \in 1..(buf_index - 1) : k \in 1..buf_index
        BY <2>4, BoundsAssumption DEF Line, Holds
      <4>2. Holds(buffer', buf_index')
        BY <2>1, <3>1, <4>1 DEF Line, Holds
      <4>3. \A k \in 1..(buf_index - 1) : Text'[k] = buffer'[k]
        BY <3>1, <4>2, TextOf DEF Text
      <4>4. \A k \in 1..buf_index : Text[k] = buffer[k]
        BY TextIs
      <4> QED
        BY <2>1, <4>1, <4>2, <4>3, <4>4 DEF Line
    <3>4. ASSUME ~drifted' PROVE Shows(tty', Text', buf_index - 1)
      <4>1. ~drifted /\ tty.at % Width # 1
        BY <3>1, <3>4, Zenon
      <4>2. tty \in Terminals /\ Stands(tty) /\ Shows(tty, Text, buf_index)
        BY <2>2, <4>1 DEF Terminal, Screen
      <4>3. Shows(tty', Text, buf_index - 1)
        BY <3>1, <3>3, <4>1, <4>2, RubbedOut DEF Rubout
      <4> QED
        BY <3>2, <3>3, <4>3, ShowsAlike DEF Terminal
    <3>5. Screen'
      <4>1. ~misled' => promt_position' = tty'.line
        BY <2>1, <2>2, <3>2 DEF Screen
      <4> QED
        BY <2>2, <3>1, <3>4, <4>1 DEF Screen
    <3>6. Rest'
      <4>1. drifted' \in BOOLEAN
        BY <3>1, Zenon
      <4> QED
        BY <2>1, <2>2, <4>1 DEF Rest
    <3> QED
      BY <2>1, <2>3, <3>2, <3>3, <3>5, <3>6 DEF past, Past
  <2>5. CASE ~(buf_index > 0)
    <3>1. UNCHANGED << buf_index, tty, drifted >>
      BY <1>7, <2>5 DEF Delete
    <3> QED
      BY <2>1, <2>3, <3>1 DEF past, Terminal, Line, Past, Screen, Rest, Text
  <2> QED
    BY <2>4, <2>5
<1>8. CASE MoveCursor
  <2>1. PICK key \in {"left", "right"} :
          /\ Getch(key) /\ tty' \in {Leftwards(tty), Rightwards(tty)}
          /\ drifted' = TRUE /\ UNCHANGED << asked, pc, line, promt_position, past, misled >>
    BY <1>8, Zenon DEF MoveCursor
  <2>2. pc' = "edit" /\ asked' = asked /\ drifted' \in BOOLEAN
    BY <2>1, Zenon DEF Getch
  <2>3. Answers'
    BY <2>1, <2>2, KeyRead
  <2>4. Terminal'
    BY <2>1, MovedLeft, MovedRight DEF Terminal
  <2>5. Screen'
    <3>1. tty'.line = tty.line
      BY <2>1, LineStays DEF Terminal
    <3>2. ~misled' => promt_position' = tty'.line
      BY <2>1, <3>1 DEF Getch, Screen
    <3> QED
      BY <2>1, <2>2, <3>2 DEF Screen
  <2>6. Rest'
    BY <2>1, <2>2 DEF Rest
  <2> QED
    BY <2>1, <2>3, <2>4, <2>5, <2>6 DEF line, past, Line, Past
<1>9. CASE history_up
  <2>1. Getch("up")
    BY <1>9 DEF history_up
  <2>2. CASE history_ptr < 1
    <3>1. UNCHANGED << terminal, pc, line, promt_position, past, marks >>
      BY <1>9, <2>2 DEF history_up, NoRecall
    <3>2. Answers'
      <4>1. asked' = asked /\ pc' = "edit"
        BY <2>1, <3>1, Zenon DEF Getch, terminal
      <4> QED
        BY <2>1, <4>1, KeyRead
    <3> QED
      BY <3>1, <3>2 DEF marks, terminal, line, past, Terminal, Line, Past, Screen, Rest, Text
  <2>3. CASE ~(history_ptr < 1)
    <3>1. Recall(history[history_ptr]) /\ history_ptr' = history_ptr - 1
      BY <1>9, <2>3 DEF history_up
    <3>2. /\ history_ptr \in DOMAIN history /\ history_ptr - 1 \in 0..Len(history)
          /\ history[history_ptr] \in Seq(Chars)
      BY <2>3 DEF Past
    <3>3. Len(history[history_ptr]) <= MaxLine
      BY <3>2 DEF Past
    <3>4. pc = "edit"
      BY <2>1 DEF Getch
    <3>5. Terminal' /\ Line' /\ Screen' /\ Rest' /\ pc' = "edit" /\ asked' = asked
      BY <3>1, <3>2, <3>3, <3>4, Recalled
    <3>6. Answers'
      BY <2>1, <3>5, KeyRead
    <3>7. Past'
      <4>1. history' = history
        BY <3>1 DEF Recall
      <4> QED
        BY <3>1, <3>2, <4>1 DEF Past
    <3> QED
      BY <3>5, <3>6, <3>7
  <2> QED
    BY <2>2, <2>3
<1>10. CASE history_down
  <2>1. Getch("down")
    BY <1>10 DEF history_down
  <2>2. CASE history_ptr >= Len(history)
    <3>1. UNCHANGED << terminal, pc, line, promt_position, past, marks >>
      BY <1>10, <2>2 DEF history_down, NoRecall
    <3>2. Answers'
      <4>1. asked' = asked /\ pc' = "edit"
        BY <2>1, <3>1, Zenon DEF Getch, terminal
      <4> QED
        BY <2>1, <4>1, KeyRead
    <3> QED
      BY <3>1, <3>2 DEF marks, terminal, line, past, Terminal, Line, Past, Screen, Rest, Text
  <2>3. CASE ~(history_ptr >= Len(history))
    <3>1. Recall(history[history_ptr + 1]) /\ history_ptr' = history_ptr + 1
      BY <1>10, <2>3 DEF history_down
    <3>2. /\ history_ptr + 1 \in DOMAIN history /\ history_ptr + 1 \in 0..Len(history)
          /\ history[history_ptr + 1] \in Seq(Chars)
      BY <2>3 DEF Past
    <3>3. Len(history[history_ptr + 1]) <= MaxLine
      BY <3>2 DEF Past
    <3>4. pc = "edit"
      BY <2>1 DEF Getch
    <3>5. Terminal' /\ Line' /\ Screen' /\ Rest' /\ pc' = "edit" /\ asked' = asked
      BY <3>1, <3>2, <3>3, <3>4, Recalled
    <3>6. Answers'
      BY <2>1, <3>5, KeyRead
    <3>7. Past'
      <4>1. history' = history
        BY <3>1 DEF Recall
      <4> QED
        BY <3>1, <3>2, <4>1 DEF Past
    <3> QED
      BY <3>5, <3>6, <3>7
  <2> QED
    BY <2>2, <2>3
<1>11. CASE Complete
  <2>1. Getch("tab") /\ UNCHANGED << promt_position, past >>
    BY <1>11 DEF Complete
  <2>2. CASE buf_index = 0
    <3>1. UNCHANGED << terminal, pc, line, marks >>
      BY <1>11, <2>2 DEF Complete
    <3>2. Answers'
      <4>1. asked' = asked /\ pc' = "edit"
        BY <2>1, <3>1, Zenon DEF Getch, terminal
      <4> QED
        BY <2>1, <4>1, KeyRead
    <3> QED
      BY <2>1, <3>1, <3>2 DEF marks, terminal, line, past, Terminal, Line, Past, Screen, Rest, Text
  <2>3. CASE buf_index # 0
    <3>1. /\ \/ buf_index' = buf_index /\ buffer' = [buffer EXCEPT ![buf_index + 1] = "nul"]
             \/ /\ buf_index < MaxLine /\ buf_index' = buf_index + 1
                /\ \E a \in Letters : buffer' = [buffer EXCEPT ![buf_index + 1] = a]
          /\ tty' \in Fresh(0) /\ pc' = "promt" /\ UNCHANGED << asked, marks >>
      BY <1>11, <2>3 DEF Complete
    <3>2. Answers'
      <4>1. asked' = asked /\ pc' = "promt"
        BY <3>1, Zenon
      <4> QED
        BY <2>1, <4>1, KeyRead
    <3>3. Terminal' /\ Screen'
      BY <3>1, RowFreed, BoundsAssumption
    <3>4. Line'
      <4>1. /\ buffer \in [1..(MaxLine + 1) -> Chars \cup {"nul"}] /\ buf_index \in 0..MaxLine
            /\ \A k \in 1..buf_index : buffer[k] \in Chars
        BY DEF Line, Holds
      <4>2. CASE buf_index' = buf_index /\ buffer' = [buffer EXCEPT ![buf_index + 1] = "nul"]
        BY <4>1, <4>2, BoundsAssumption DEF Line, Holds
      <4>3. ASSUME NEW a \in Letters, buf_index < MaxLine, buf_index' = buf_index + 1,
                   buffer' = [buffer EXCEPT ![buf_index + 1] = a]
            PROVE  Line'
        <5>1. a \in Chars
          BY DEF Chars
        <5> QED
          BY <4>1, <4>3, <5>1, BoundsAssumption DEF Line, Holds
      <4> QED
        BY <3>1, <4>2, <4>3
    <3> QED
      BY <2>1, <3>1, <3>2, <3>3, <3>4 DEF marks, past, Past, Rest
  <2> QED
    BY <2>2, <2>3
<1>12. CASE Enter
  <2>1. /\ Getch("enter") /\ tty' \in Fresh(0) /\ buf_index' = 0
        /\ buffer' = [buffer EXCEPT ![buf_index + 1] = "nul"]
        /\ history_ptr' = Len(history')
        /\ UNCHANGED << asked, promt_position, marks >>
    BY <1>12 DEF Enter
  <2>2. /\ pc' \in {"promt", "run"}
        /\ history' \in {history, Append(history, Text)}
    BY <1>12, EnteredText DEF Enter
  <2>3. Answers'
    <3>1. asked' = asked
      BY <2>1, Zenon
    <3> QED
      BY <2>1, <2>2, <3>1, KeyRead
  <2>4. Terminal' /\ Screen'
    BY <2>1, <2>2, RowFreed, BoundsAssumption
  <2>5. Line'
    BY <2>1, BoundsAssumption DEF Line, Holds
  <2>6. Past'
    <3>1. CASE history' = history
      BY <2>1, <3>1 DEF Past
    <3>2. CASE history' = Append(history, Text)
      <4>1. Text \in Seq(Chars) /\ Len(Text) <= MaxLine
        BY TextIs, BoundsAssumption
      <4>2. /\ history \in Seq(Seq(Chars))
            /\ \A k \in DOMAIN history : Len(history[k]) <= MaxLine
        BY DEF Past
      <4>3. history' \in Seq(Seq(Chars)) /\ Len(history') \in Nat
        BY <3>2, <4>1, <4>2
      <4>4. /\ Len(history) \in Nat /\ DOMAIN history = 1..Len(history)
            /\ DOMAIN history' = 1..(Len(history) + 1)
            /\ history'[Len(history) + 1] = Text
            /\ \A k \in 1..Len(history) : history'[k] = history[k]
        BY <3>2, <4>1, <4>2
      <4>5. \A k \in DOMAIN history' : Len(history'[k]) <= MaxLine
        <5> TAKE k \in DOMAIN history'
        <5>1. CASE k = Len(history) + 1
          BY <4>1, <4>4, <5>1
        <5>2. CASE k # Len(history) + 1
          <6>1. k \in 1..Len(history)
            BY <4>4, <5>2
          <6> QED
            BY <4>2, <4>4, <6>1
        <5> QED
          BY <5>1, <5>2
      <4>6. history_ptr' \in 0..Len(history')
        BY <2>1, <4>3
      <4> QED
        BY <4>3, <4>5, <4>6 DEF Past
    <3> QED
      BY <2>2, <3>1, <3>2
  <2>7. Rest'
    BY <2>1, <2>2 DEF marks, Rest
  <2> QED
    BY <2>3, <2>4, <2>5, <2>6, <2>7
<1>13. CASE LineDone
  <2>1. PICK n \in 0..(Width - 1) : tty' \in Fresh(n)
    BY <1>13 DEF LineDone
  <2>2. /\ pc = "run" /\ pc' = "promt" /\ input' \in {input, << >>}
        /\ UNCHANGED << asked, line, promt_position, past, marks >>
    BY <1>13 DEF LineDone
  <2>3. Terminal' /\ Screen'
    BY <2>1, <2>2, RowFreed
  <2>4. Answers'
    <3>1. input' \in Input /\ (Unanswered(input) => Unanswered(input'))
      <4>1. input \in Input
        BY DEF Answers
      <4>2. << >> \in Input /\ Unanswered(<< >>)
        BY DEF Input, Unanswered
      <4>3. input' = input \/ input' = << >>
        BY <2>2
      <4> QED
        BY <4>1, <4>2, <4>3, Zenon
    <3>2. asked' = asked /\ pc = "run" /\ pc' = "promt"
      BY <2>2, Zenon
    <3> QED
      BY <3>1, <3>2, Zenon DEF Answers
  <2> QED
    BY <2>2, <2>3, <2>4 DEF marks, line, past, Line, Past, Rest
<1>14. CASE UNCHANGED vars
  BY <1>14 DEF vars, marks, terminal, line, past, Terminal, Line, Past, Answers, Screen, Rest, Text
<1> QED
  BY <1>1, <1>2, <1>3, <1>4, <1>5, <1>6, <1>7, <1>8, <1>9, <1>10, <1>11, <1>12, <1>13, <1>14
  DEF Next, SessionOver

\* The invariant holds throughout.
LEMMA Inductive == Spec => []IInv
<1> QED
  BY InitIInv, StepIInv, PTL DEF Spec
-----------------------------------------------------------------------------
\* The state is what it is declared to be: wherever lines wrap, scroll and are recalled
\* the cursor and the place kept of the prompt are on the screen, and deleting does not go
\* in front of the line.  (That a line is no longer than MaxLine is the guard of Type.)
THEOREM AlwaysTyped == Spec => []TypeOK
<1> QED
  BY Inductive, IInvTyped, PTL

\* While keys are read and unless the cursor has drifted, the line stands from where it
\* was begun and nothing else behind it; and unless the shell is misled, by a scroll, a
\* full row or an arrow ahead of the answer, an entry is recalled to that very place.
THEOREM LineIsAlwaysShown == Spec => []ShownIsLine
<1>1. IInv => ShownIsLine
  BY DEF IInv, Screen, Shows, ShownIsLine
<1> QED
  BY Inductive, <1>1, PTL

\* No key is read while the terminal's answer is on its way, so none of it is typed.
THEOREM AnswerIsNeverTyped == Spec => []AnswerIsNotTyped
<1>1. IInv => AnswerIsNotTyped
  BY DEF IInv, Answers, Unanswered, AnswerIsNotTyped
<1> QED
  BY Inductive, <1>1, PTL

\* The cells from the line's first to the cursor hold the text.
LEMMA ShownText ==
  ASSUME IInv, pc = "edit", ~drifted, tty.line >= 1
  PROVE  Shown = Text
<1>1. tty \in Terminals /\ Shows(tty, Text, buf_index)
  BY DEF IInv, Terminal, Screen
<1>2. /\ Text \in Seq(Chars) /\ Len(Text) = buf_index /\ buf_index \in 0..MaxLine
  BY TextIs DEF IInv
<1>3. /\ tty.at \in 1..(N + 1) /\ tty.line \in Int /\ tty.line >= 1
      /\ tty.at = tty.line + buf_index /\ buf_index \in Nat /\ N \in Nat /\ Cells = 1..N
  <2>1. tty.at = tty.line + buf_index
    BY <1>1 DEF Shows
  <2> QED
    BY <1>1, <1>2, <2>1, Fields, ScreenSize, BoundsAssumption
<1>4. ASSUME NEW k \in 1..buf_index
      PROVE  tty.screen[k + tty.line - 1] = Text[k]
  <2> DEFINE c == k + tty.line - 1
  <2>1. c \in Cells /\ c >= tty.line /\ c < tty.at /\ c - tty.line + 1 = k
    BY <1>3
  <2> HIDE DEF c
  <2>2. tty.screen[c] = Text[k]
    BY <1>1, <2>1 DEF Shows
  <2> QED
    BY <2>2 DEF c
<1>5. Shown = [k \in 1..buf_index |-> tty.screen[k + tty.line - 1]]
  <2> DEFINE scr == tty.screen
             from == tty.line
             to == tty.at - 1
  <2>1. scr \in Seq(Glyphs) /\ Len(scr) = N
    BY <1>1, <1>3, Fields
  <2>2. from \in Int /\ to \in Int /\ from >= 1 /\ to <= N /\ to - from + 1 = buf_index
    BY <1>3
  <2>3. Shown = SubSeq(scr, from, to)
    BY DEF Shown
  <2> HIDE DEF scr, from, to
  <2>4. SubSeq(scr, from, to) = [k \in 1..(to - from + 1) |-> scr[k + from - 1]]
    BY <1>3, <2>1, <2>2
  <2>5. SubSeq(scr, from, to) = [k \in 1..buf_index |-> scr[k + from - 1]]
    BY <2>2, <2>4
  <2> QED
    BY <2>3, <2>5 DEF scr, from
<1> QED
  BY <1>2, <1>4, <1>5

\* A line that is entered is run and remembered as it stood on the screen, from its first
\* cell to the cursor, if the cursor has not drifted and that cell has not scrolled away;
\* and no other step changes the history.
THEOREM ShownIsAlwaysRun == Spec => RunsWhatIsShown
<1> DEFINE entered == pc = "edit" /\ pc' \in {"run", "promt"} /\ Head(input) = "enter"
           shown == entered /\ ~drifted /\ tty.line >= 1 =>
                      history' = IF is_empty(Shown) THEN history ELSE Append(history, Shown)
           Runs == shown /\ (~entered => UNCHANGED history)
<1>1. IInv /\ [Next]_vars => [Runs]_vars
  <2> SUFFICES ASSUME IInv, Next PROVE Runs
    BY Zenon
  <2>1. CASE Enter
    <3>1. entered
      <4>1. /\ pc = "edit" /\ input # << >> /\ input[1] = "enter" /\ pc' \in {"run", "promt"}
        BY <2>1 DEF Enter, Getch
      <4>2. input \in Seq(Keys \cup {"answer"})
        BY DEF IInv, Answers, Input
      <4>3. Head(input) = input[1]
        BY <4>1, <4>2
      <4> QED
        BY <4>1, <4>3
    <3>2. shown
      <4> SUFFICES ASSUME ~drifted, tty.line >= 1
                   PROVE  history' = IF is_empty(Shown) THEN history ELSE Append(history, Shown)
        OBVIOUS
      <4>1. Shown = Text
        BY <3>1, ShownText
      <4>2. String(buffer') = Text
        BY <2>1, EnteredText DEF IInv
      <4>3. history' = IF is_empty(Text) THEN history ELSE Append(history, String(buffer'))
        BY <2>1 DEF Enter
      <4> QED
        BY <4>1, <4>2, <4>3, Zenon
    <3> HIDE DEF entered, shown
    <3> QED
      BY <3>1, <3>2
  <2>2. CASE Complete
    <3>1. Head(input) # "enter"
      <4>1. input # << >> /\ input[1] = "tab"
        BY <2>2 DEF Complete, Getch
      <4>2. input \in Seq(Keys \cup {"answer"})
        BY DEF IInv, Answers, Input
      <4> QED
        BY <4>1, <4>2
    <3>2. UNCHANGED history
      BY <2>2 DEF Complete, past
    <3> QED
      BY <3>1, <3>2, Zenon
  <2>3. CASE ~Enter /\ ~Complete
    <3>1. UNCHANGED history
      BY <2>3 DEF Next, Press, Answer, Promt, ReadPosition, Panic, Type, Delete, MoveCursor,
                  history_up, history_down, Recall, NoRecall, LineDone, SessionOver, past, vars
    <3>2. ~entered
      <4> SUFFICES ASSUME pc = "edit" PROVE pc' \notin {"run", "promt"}
        OBVIOUS
      <4> QED
        BY <2>3 DEF Next, Press, Answer, Promt, ReadPosition, Panic, Type, Delete, MoveCursor,
                    history_up, history_down, Recall, NoRecall, LineDone, SessionOver, vars
    <3> HIDE DEF entered
    <3> QED
      BY <3>1, <3>2, Zenon
  <2> QED
    BY <2>1, <2>2, <2>3
<1> QED
  BY <1>1, Inductive, PTL DEF Spec, RunsWhatIsShown
-----------------------------------------------------------------------------
(***************************************************************************)
(* Completion.  The list is in the order of strcmp, in which the names     *)
(* that begin with a word stand next to each other; the search halves a    *)
(* window that holds all of them.  Of the results, a turn of the loop over *)
(* them leaves no more characters than agree, if those that differ do so   *)
(* for good.                                                               *)
(***************************************************************************)

\* A name is a sequence of numbers, and has a first.
LEMMA NameIs ==
  ASSUME NEW a \in Name
  PROVE  /\ a \in Seq(Nat) /\ a \in Seq(Characters) /\ Len(a) \in Nat \ {0} /\ DOMAIN a = 1..Len(a)
         /\ \A k \in 1..Len(a) : a[k] \in Nat /\ a[k] > 0
<1>1. a \in Seq(Characters) /\ a # << >>
  BY DEF Name
<1>2. Len(a) \in Nat /\ DOMAIN a = 1..Len(a) /\ a \in [1..Len(a) -> Characters]
  BY <1>1, LenProperties
<1>3. Len(a) # 0
  BY <1>1, EmptySeq
<1>4. \A k \in 1..Len(a) : a[k] \in Characters
  BY <1>1, ElementOfSeq
<1>5. a \in Seq(Nat)
  BY <1>2, <1>4, SeqDef DEF Characters
<1> QED
  BY <1>1, <1>2, <1>3, <1>4, <1>5 DEF Characters

\* One name begins with another if it has its characters, each in its place.
LEMMA BeginsWith ==
  ASSUME NEW a \in Name, NEW b \in Name
  PROVE  IsPrefix(a, b) <=> Len(a) <= Len(b) /\ \A k \in 1..Len(a) : a[k] = b[k]
<1>1. Len(a) \in Nat /\ Len(b) \in Nat /\ 0 + 1 = 1
  BY NameIs
<1>2. SubSeq(a, 1, Len(a)) = a
  BY NameIs
<1>3. ASSUME Len(a) <= Len(b)
      PROVE  /\ SubSeq(b, 1, Len(a)) \in Seq(Nat) /\ Len(SubSeq(b, 1, Len(a))) = Len(a)
             /\ \A n \in 1..Len(a) : SubSeq(b, 1, Len(a))[n] = b[n]
  <2>1. /\ SubSeq(b, 0 + 1, Len(a)) \in Seq(Nat) /\ Len(SubSeq(b, 0 + 1, Len(a))) = Len(a) - 0
        /\ \A n \in 1..(Len(a) - 0) : SubSeq(b, 0 + 1, Len(a))[n] = b[0 + n]
    BY <1>1, <1>3, NameIs, Sliced
  <2>2. Len(a) - 0 = Len(a) /\ \A n \in 1..Len(a) : 0 + n = n
    BY <1>1
  <2> QED
    BY <1>1, <2>1, <2>2
<1>4. ASSUME Len(a) <= Len(b), \A k \in 1..Len(a) : a[k] = b[k]
      PROVE  SubSeq(b, 1, Len(a)) = a
  BY <1>3, <1>4, NameIs, SeqEqual
<1>5. ASSUME Len(a) <= Len(b), a = SubSeq(b, 1, Len(a)), NEW k \in 1..Len(a)
      PROVE  a[k] = b[k]
  BY <1>3, <1>5
<1> QED
  BY <1>2, <1>4, <1>5 DEF IsPrefix

\* Two names differ first at k, where the first one is less.
Parts(a, b, k) ==
  /\ k \in 1..Len(a) /\ k <= Len(b)
  /\ a[k] < b[k] /\ \A j \in 1..(k - 1) : a[j] = b[j]

\* strcmp, spelled out.
LEMMA LessIs ==
  ASSUME NEW a \in Name, NEW b \in Name
  PROVE  Less(a, b) <=>
           \/ Len(a) < Len(b) /\ \A k \in 1..Len(a) : a[k] = b[k]
           \/ \E k \in Nat : Parts(a, b, k)
<1>1. Len(a) \in Nat /\ Len(b) \in Nat /\ DOMAIN a = 1..Len(a) /\ DOMAIN b = 1..Len(b)
      /\ a \in Seq(Nat) /\ b \in Seq(Nat)
  BY NameIs
<1> DEFINE Agree == \A k \in 1..Len(a) : a[k] = b[k]
<1>2. IsStrictPrefix(a, b) <=> Len(a) < Len(b) /\ Agree
  <2>1. ASSUME Len(a) = Len(b), Agree PROVE a = b
    BY <1>1, <2>1, SeqEqual
  <2>2. a = b => Len(a) = Len(b)
    OBVIOUS
  <2>3. IsPrefix(a, b) <=> Len(a) <= Len(b) /\ Agree
    BY BeginsWith
  <2> HIDE DEF Agree
  <2>4. a # b /\ IsPrefix(a, b) => Len(a) # Len(b)
    BY <2>1, <2>3
  <2>5. IsPrefix(a, b) /\ Len(a) # Len(b) <=> Len(a) < Len(b) /\ Agree
    <3>1. Len(a) <= Len(b) /\ Len(a) # Len(b) <=> Len(a) < Len(b)
      <4>1. Len(a) \in Nat /\ Len(b) \in Nat
        BY NameIs
      <4> QED
        BY <4>1
    <3> QED
      BY <2>3, <3>1, Zenon
  <2> QED
    BY <2>2, <2>4, <2>5, Zenon DEF IsStrictPrefix
<1>3. (\E k \in DOMAIN a \cap DOMAIN b : a[k] < b[k] /\ \A j \in 1..(k - 1) : a[j] = b[j])
        <=> \E k \in Nat : Parts(a, b, k)
  <2>1. \A k : k \in DOMAIN a \cap DOMAIN b <=> k \in Nat /\ k \in 1..Len(a) /\ k <= Len(b)
    BY <1>1
  <2>2. \A k : k \in DOMAIN a \cap DOMAIN b /\ a[k] < b[k] /\ (\A j \in 1..(k - 1) : a[j] = b[j])
               <=> k \in Nat /\ Parts(a, b, k)
    BY <2>1 DEF Parts
  <2> QED
    BY <2>2
<1> QED
  BY <1>2, <1>3 DEF Less

\* A name that does not begin with the word comes before it, or parts from it.
LEMMA BeforeOrParts ==
  ASSUME NEW t \in Name, NEW a \in Name, ~IsPrefix(t, a)
  PROVE  Less(a, t) \/ \E k \in Nat : Parts(t, a, k)
<1> DEFINE D == {k \in Nat : k \in 1..Len(t) /\ k <= Len(a) /\ a[k] # t[k]}
<1>1. /\ Len(a) \in Nat /\ Len(t) \in Nat
      /\ \A k \in 1..Len(a) : a[k] \in Nat
      /\ \A k \in 1..Len(t) : t[k] \in Nat
  BY NameIs
<1>2. CASE D = {}
  <2>1. Len(a) < Len(t)
    BY <1>1, <1>2, BeginsWith
  <2>2. \A k \in 1..Len(a) : a[k] = t[k]
    BY <1>1, <1>2, <2>1
  <2> QED
    BY <2>1, <2>2, LessIs
<1>3. CASE D # {}
  <2>1. PICK k \in D : \A j \in D : k <= j
    <3>1. D \subseteq Nat
      OBVIOUS
    <3> HIDE DEF D
    <3> QED
      BY <1>3, <3>1, Least
  <2>2. k \in 1..Len(t) /\ k <= Len(a) /\ k \in 1..Len(a) /\ k \in Nat
        /\ (a[k] < t[k] \/ t[k] < a[k])
    BY <1>1, <2>1
  <2>3. \A j \in 1..(k - 1) : a[j] = t[j]
    BY <1>1, <2>1, <2>2
  <2>4. Parts(a, t, k) \/ Parts(t, a, k)
    BY <1>1, <2>2, <2>3 DEF Parts
  <2> QED
    BY <2>2, <2>4, LessIs
<1> QED
  BY <1>2, <1>3

\* What parts from the word parts from every name that begins with it.
LEMMA PartsLess ==
  ASSUME NEW t \in Name, NEW b \in Name, NEW a \in Name, NEW k \in Nat,
         Parts(t, b, k), IsPrefix(t, a)
  PROVE  Less(a, b)
<1>1. Len(a) \in Nat /\ Len(t) \in Nat /\ Len(b) \in Nat
  BY NameIs
<1>2. Len(t) <= Len(a) /\ \A j \in 1..Len(t) : t[j] = a[j]
  BY BeginsWith
<1>3. Parts(a, b, k)
  BY <1>1, <1>2 DEF Parts
<1> QED
  BY <1>3, LessIs

\* What comes before the word comes before every name that begins with it.
LEMMA LessThrough ==
  ASSUME NEW t \in Name, NEW a \in Name, NEW b \in Name, Less(a, t), IsPrefix(t, b)
  PROVE  Less(a, b)
<1>1. Len(a) \in Nat /\ Len(t) \in Nat /\ Len(b) \in Nat
  BY NameIs
<1>2. Len(t) <= Len(b) /\ \A j \in 1..Len(t) : t[j] = b[j]
  BY BeginsWith
<1>3. CASE Len(a) < Len(t) /\ \A k \in 1..Len(a) : a[k] = t[k]
  <2>1. Len(a) < Len(b) /\ \A k \in 1..Len(a) : a[k] = b[k]
    BY <1>1, <1>2, <1>3
  <2> QED
    BY <2>1, LessIs
<1>4. ASSUME NEW k \in Nat, Parts(a, t, k) PROVE Less(a, b)
  <2>1. Parts(a, b, k)
    BY <1>1, <1>2, <1>4 DEF Parts
  <2> QED
    BY <2>1, LessIs
<1> QED
  BY <1>3, <1>4, LessIs

\* Behind a name that is greater than the word and does not begin with it, none does.
LEMMA NoneBehind ==
  ASSUME NEW t \in Name, NEW a \in Name, NEW b \in Name,
         Less(t, a), ~IsPrefix(t, a), ~Less(b, a)
  PROVE  ~IsPrefix(t, b)
<1>1. PICK k \in Nat : Parts(t, a, k)
  BY LessIs, BeginsWith
<1> QED
  BY <1>1, PartsLess

\* In front of a name that is less than the word, none does.
LEMMA NoneBefore ==
  ASSUME NEW t \in Name, NEW a \in Name, NEW b \in Name,
         ~Less(t, a), ~IsPrefix(t, a), ~Less(a, b)
  PROVE  ~IsPrefix(t, b)
<1>1. Less(a, t)
  BY BeforeOrParts, LessIs
<1> QED
  BY <1>1, LessThrough

\* Between two names that begin with the word, all do.
LEMMA AllBetween ==
  ASSUME NEW t \in Name, NEW a \in Name, NEW b \in Name, NEW d \in Name,
         IsPrefix(t, a), IsPrefix(t, d), ~Less(b, a), ~Less(d, b)
  PROVE  IsPrefix(t, b)
BY BeforeOrParts, PartsLess, LessThrough
-----------------------------------------------------------------------------
\* No name is less than one before it.
InOrder(names) == \A j, k \in DOMAIN names : j < k => ~Less(names[k], names[j])

\* Every match is in the window.
Within == \A k \in Matching : left < k /\ k <= right

\* The inductive invariant.
CompletionInv ==
  /\ path \in Paths /\ dir \in Nat \ {0}
  /\ executables \in Seq(Name) /\ result_set \in Seq(Name)
  /\ left \in Nat /\ right \in Nat
  /\ phase # "init" => InOrder(executables)
  /\ phase = "find" =>
       /\ typed \in Name /\ word = typed
       /\ left <= right /\ right <= Len(executables) /\ Within
  /\ phase = "insert" =>
       /\ typed \in Name /\ word = typed /\ result_set # << >>
       /\ \A n \in DOMAIN result_set : IsPrefix(typed, result_set[n])

\* The places of the list.
LEMMA Listed ==
  ASSUME CompletionInv
  PROVE  /\ Len(executables) \in Nat /\ DOMAIN executables = 1..Len(executables)
         /\ \A k \in 1..Len(executables) : executables[k] \in Name
         /\ Matching \subseteq 1..Len(executables) /\ Matching \subseteq Nat
<1>1. executables \in Seq(Name)
  BY DEF CompletionInv
<1>2. Len(executables) \in Nat /\ DOMAIN executables = 1..Len(executables)
  BY <1>1, LenProperties
<1> QED
  BY <1>1, <1>2, ElementOfSeq DEF Matching

\* The middle is in the window.
LEMMA MiddleIs ==
  ASSUME CompletionInv, phase = "find", left < right
  PROVE  /\ mid \in Nat /\ left <= mid /\ mid < right /\ mid + 1 \in 1..Len(executables)
         /\ Node(mid) = executables[mid + 1] /\ Node(mid) \in Name /\ typed \in Name
<1>1. left \in Nat /\ right \in Nat /\ right <= Len(executables) /\ typed \in Name
  BY DEF CompletionInv
<1>2. mid \in Nat /\ left <= mid /\ mid < right
  BY <1>1 DEF mid
<1>3. mid + 1 \in 1..Len(executables)
  BY <1>1, <1>2, Listed
<1> QED
  BY <1>1, <1>2, <1>3, Listed DEF Node

\* Two places of the list in order.
LEMMA OrderedAt ==
  ASSUME CompletionInv, phase # "init",
         NEW j \in 1..Len(executables), NEW k \in 1..Len(executables), j <= k
  PROVE  ~Less(executables[k], executables[j])
<1>1. CASE j < k
  BY <1>1, Listed DEF CompletionInv, InOrder
<1>2. CASE ~(j < k)
  <2>1. j = k /\ executables[j] \in Name
    BY <1>2, Listed
  <2>2. ~Less(executables[j], executables[j])
    <3>1. /\ Len(executables[j]) \in Nat
          /\ \A i \in 1..Len(executables[j]) : executables[j][i] \in Nat
      BY <2>1, NameIs
    <3> QED
      BY <2>1, <3>1, LessIs DEF Parts
  <2> QED
    BY <2>1, <2>2
<1> QED
  BY <1>1, <1>2

\* The matches are next to each other.
LEMMA MatchesBetween ==
  ASSUME CompletionInv, phase = "find", NEW j \in Matching, NEW k \in Nat, NEW m \in Matching,
         j <= k, k <= m
  PROVE  k \in Matching
<1>1. /\ Len(executables) \in Nat /\ DOMAIN executables = 1..Len(executables)
      /\ j \in 1..Len(executables) /\ m \in 1..Len(executables)
  BY Listed
<1>2. k \in 1..Len(executables)
  BY <1>1
<1>3. /\ IsPrefix(typed, executables[j]) /\ IsPrefix(typed, executables[m])
      /\ typed \in Name
  BY DEF Matching, Matches, CompletionInv
<1>4. ~Less(executables[k], executables[j]) /\ ~Less(executables[m], executables[k])
  BY <1>1, <1>2, OrderedAt
<1>5. executables[j] \in Name /\ executables[k] \in Name /\ executables[m] \in Name
  BY <1>1, <1>2, Listed
<1>6. IsPrefix(typed, executables[k])
  BY <1>3, <1>4, <1>5, AllBetween
<1> QED
  BY <1>1, <1>2, <1>6 DEF Matching, Matches

\* Half of the window is left, and no match with it.
LEMMA NarrowStep == CompletionInv /\ Narrow => CompletionInv'
<1> SUFFICES ASSUME CompletionInv, Narrow PROVE CompletionInv'
  OBVIOUS
<1>1. phase = "find" /\ left < right /\ ~IsPrefix(typed, Node(mid))
      /\ UNCHANGED << phase, path, dir, executables, word, typed, result_set >>
  BY DEF Narrow, Matches
<1>2. /\ mid \in Nat /\ left <= mid /\ mid < right /\ mid + 1 \in 1..Len(executables)
      /\ Node(mid) = executables[mid + 1] /\ Node(mid) \in Name /\ typed \in Name
  BY <1>1, MiddleIs
<1>3. Matching' = Matching
  BY <1>1 DEF Matching, Matches
<1>4. /\ left' \in Nat /\ right' \in Nat /\ left' <= right' /\ right' <= Len(executables)
      /\ Within'
  <2>1. left \in Nat /\ right \in Nat /\ right <= Len(executables) /\ Within
    BY <1>1 DEF CompletionInv
  <2>2. CASE NodeIsGreater(Node(mid))
    <3>1. right' = mid /\ left' = left
      BY <2>2 DEF Narrow
    <3>2. ASSUME NEW k \in Matching PROVE k <= mid
      <4> SUFFICES ASSUME mid + 1 <= k PROVE FALSE
        BY <1>2, Listed
      <4>1. k \in 1..Len(executables) /\ executables[k] \in Name /\ IsPrefix(typed, executables[k])
        BY Listed DEF Matching, Matches
      <4>2. ~Less(executables[k], executables[mid + 1])
        BY <1>1, <1>2, <4>1, OrderedAt
      <4> QED
        BY <1>1, <1>2, <2>2, <4>1, <4>2, NoneBehind DEF NodeIsGreater
    <3> QED
      BY <1>2, <1>3, <2>1, <3>1, <3>2, Listed DEF Within
  <2>3. CASE ~NodeIsGreater(Node(mid))
    <3>1. left' = mid + 1 /\ right' = right
      BY <2>3 DEF Narrow
    <3>2. ASSUME NEW k \in Matching PROVE mid + 1 < k
      <4> SUFFICES ASSUME k <= mid + 1 PROVE FALSE
        BY <1>2, Listed
      <4>1. k \in 1..Len(executables) /\ executables[k] \in Name /\ IsPrefix(typed, executables[k])
        BY Listed DEF Matching, Matches
      <4>2. ~Less(executables[mid + 1], executables[k])
        BY <1>1, <1>2, <4>1, OrderedAt
      <4>3. ~Less(typed, Node(mid))
        BY <1>1, <2>3 DEF NodeIsGreater, Matches
      <4> QED
        BY <1>1, <1>2, <4>1, <4>2, <4>3, NoneBefore
    <3> QED
      BY <1>2, <1>3, <2>1, <3>1, <3>2, Listed DEF Within
  <2> QED
    BY <2>2, <2>3
<1> QED
  BY <1>1, <1>4 DEF CompletionInv

\* What has been collected.
LEMMA CollectedIs ==
  ASSUME CompletionInv, phase = "find", left < right, Matches(Node(mid)), mid > 0
  PROVE  \E least \in {Min(Matching), Min(Matching) + 1} :
           /\ least \in Nat /\ 1 <= least /\ least <= mid + 1
           /\ mid + 1 <= Max(Matching) /\ Max(Matching) <= Len(executables)
           /\ Min(Matching) \in Matching /\ Max(Matching) \in Matching /\ Min(Matching) <= least
           /\ Collected = SubSeq(executables, least, Max(Matching))
<1> DEFINE M == Matching
           Run(j, k) == \A n \in j..k : Matches(Node(n))
           Down == {k \in {mid} \cup (left + 1)..mid : Run(k, mid)}
           Up == {k \in mid..(right - 1) : Run(mid, k)}
<1>1. /\ mid \in Nat /\ left <= mid /\ mid < right /\ mid + 1 \in 1..Len(executables)
      /\ Len(executables) \in Nat /\ DOMAIN executables = 1..Len(executables)
      /\ left \in Nat /\ right \in Nat /\ right <= Len(executables)
      /\ \A k \in M : left < k /\ k <= right
  BY MiddleIs, Listed DEF CompletionInv, Within
<1>2. mid + 1 \in M /\ M \subseteq Nat /\ M \subseteq 1..Len(executables)
  BY <1>1, Listed DEF Matching, Node
<1>3. \A n \in Nat : n < Len(executables) => (Matches(Node(n)) <=> n + 1 \in M)
  BY <1>1 DEF Matching, Node
<1>4. /\ Min(M) \in M /\ \A y \in M : Min(M) <= y
      /\ Max(M) \in M /\ \A y \in M : Max(M) >= y
  <2>1. \A x \in M : x <= Len(executables)
    BY <1>1, <1>2
  <2> HIDE DEF M
  <2> QED
    BY <1>1, <1>2, <2>1, LeastOf, GreatestOf
<1> DEFINE lo == Min(M)
           hi == Max(M)
<1>6. /\ lo \in Nat /\ hi \in Nat /\ left < lo /\ lo <= mid + 1 /\ mid + 1 <= hi /\ hi <= right
      /\ hi <= Len(executables)
  <2> HIDE DEF M, lo, hi
  <2>1. lo \in M /\ hi \in M /\ lo <= mid + 1 /\ mid + 1 <= hi
    BY <1>1, <1>2, <1>4 DEF lo, hi
  <2>2. lo \in Nat /\ hi \in Nat
    BY <1>2, <2>1
  <2> QED
    BY <1>1, <2>1, <2>2
<1>5. \A j, k \in Nat : lo <= j + 1 /\ k + 1 <= hi => Run(j, k)
  <2> SUFFICES ASSUME NEW j \in Nat, NEW k \in Nat, lo <= j + 1, k + 1 <= hi,
                      NEW n \in j..k
               PROVE  Matches(Node(n))
    OBVIOUS
  <2> HIDE DEF lo, hi
  <2>1. n \in Nat /\ n + 1 \in Nat /\ lo <= n + 1 /\ n + 1 <= hi /\ n < Len(executables)
    BY <1>1, <1>6
  <2>2. n + 1 \in M
    BY <1>4, <2>1, MatchesBetween DEF lo, hi
  <2> QED
    BY <1>3, <2>1, <2>2
<1> HIDE DEF lo, hi, M
<1>7. Max(Up) = hi - 1
  <2>1. hi - 1 \in Up
    <3>1. hi - 1 \in Nat /\ hi - 1 \in mid..(right - 1) /\ (hi - 1) + 1 <= hi /\ lo <= mid + 1
      BY <1>1, <1>6
    <3> QED
      BY <1>1, <1>5, <3>1 DEF lo, hi
  <2>2. ASSUME NEW k \in Up PROVE k <= hi - 1
    <3>1. k \in mid..(right - 1) /\ k \in Nat /\ k < Len(executables) /\ k \in mid..k
      BY <1>1
    <3>2. Matches(Node(k))
      BY <3>1
    <3>3. k + 1 \in M
      BY <1>3, <3>1, <3>2
    <3> QED
      BY <1>4, <1>6, <3>1, <3>3 DEF hi
  <2>3. Up \subseteq Nat
    BY <1>1
  <2> HIDE DEF Up
  <2>4. Max(Up) \in Up /\ \A y \in Up : Max(Up) >= y
    <3>1. hi - 1 \in Nat /\ \A x \in Up : x <= hi - 1
      BY <2>1, <2>2, <2>3
    <3> QED
      BY <2>1, <2>3, <3>1, GreatestOf
  <2>5. Max(Up) \in Nat /\ Max(Up) <= hi - 1 /\ Max(Up) >= hi - 1
    BY <2>1, <2>2, <2>3, <2>4
  <2> QED
    BY <1>6, <2>5
<1>8. Min(Down) + 1 \in {lo, lo + 1} /\ Min(Down) \in Nat /\ Min(Down) <= mid
  <2>1. Down \subseteq Nat /\ \A k \in Down : k <= mid
    BY <1>1
  <2>2. ASSUME NEW k \in Down PROVE lo <= k + 1
    <3>1. k \in Nat /\ k <= mid /\ k < Len(executables) /\ k \in k..mid
      BY <1>1
    <3>2. Matches(Node(k))
      BY <3>1
    <3>3. k + 1 \in M
      BY <1>3, <3>1, <3>2
    <3> QED
      BY <1>4, <3>3 DEF lo
  <2>3. mid \in Down
    BY <1>1, <1>5, <1>6 DEF lo, hi
  <2>4. lo \in Down \/ lo = mid + 1
    <3> SUFFICES ASSUME lo # mid + 1 PROVE lo \in Down
      OBVIOUS
    <3>1. lo \in (left + 1)..mid /\ lo <= lo + 1 /\ mid + 1 <= hi
      BY <1>1, <1>6
    <3> QED
      BY <1>1, <1>5, <1>6, <3>1 DEF lo, hi
  <2> HIDE DEF Down
  <2>5. Min(Down) \in Down /\ \A y \in Down : Min(Down) <= y
    BY <2>1, <2>3, LeastOf
  <2>6. Min(Down) \in Nat /\ Min(Down) <= mid /\ lo <= Min(Down) + 1
    BY <2>1, <2>2, <2>5
  <2>7. Min(Down) <= lo
    BY <1>1, <1>6, <2>4, <2>5, <2>6
  <2> QED
    BY <1>6, <2>6, <2>7
<1>9. Collected = SubSeq(executables, Min(Down) + 1, Max(Up) + 1)
  BY DEF Collected
<1> DEFINE least == Min(Down) + 1
<1>10. Max(Up) + 1 = hi
  BY <1>6, <1>7
<1>11. /\ least \in {lo, lo + 1} /\ least \in Nat /\ 1 <= least /\ least <= mid + 1
       /\ lo <= least
  BY <1>1, <1>6, <1>8
<1>12. Collected = SubSeq(executables, least, hi)
  BY <1>9, <1>10
<1> HIDE DEF least
<1> QED
  BY <1>4, <1>6, <1>11, <1>12 DEF lo, hi, M

\* What find returns begins with the word.
LEMMA FindsStep == CompletionInv /\ Finds => CompletionInv'
<1> SUFFICES ASSUME CompletionInv, Finds PROVE CompletionInv'
  OBVIOUS
<1>1. /\ phase = "find" /\ left < right /\ Matches(Node(mid)) /\ mid > 0
      /\ result_set' = Collected /\ phase' = "insert"
      /\ UNCHANGED << path, dir, executables, word, typed, search >>
  BY DEF Finds
<1>2. PICK least \in {Min(Matching), Min(Matching) + 1} :
        /\ least \in Nat /\ 1 <= least /\ least <= mid + 1
        /\ mid + 1 <= Max(Matching) /\ Max(Matching) <= Len(executables)
        /\ Min(Matching) \in Matching /\ Max(Matching) \in Matching /\ Min(Matching) <= least
        /\ Collected = SubSeq(executables, least, Max(Matching))
  BY <1>1, CollectedIs
<1> DEFINE lo == Min(Matching)
           hi == Max(Matching)
<1>3. /\ mid \in Nat /\ typed \in Name /\ executables \in Seq(Name)
      /\ Len(executables) \in Nat /\ word = typed
      /\ \A k \in 1..Len(executables) : executables[k] \in Name
      /\ lo \in Nat /\ hi \in Nat /\ lo \in Matching /\ hi \in Matching
  BY <1>1, <1>2, MiddleIs, Listed DEF CompletionInv
<1>4. /\ least \in Nat /\ 1 <= least /\ least <= hi /\ hi <= Len(executables) /\ lo <= least
      /\ Collected = SubSeq(executables, least, hi)
  <2>1. /\ least \in Nat /\ 1 <= least /\ least <= mid + 1 /\ mid + 1 <= hi
        /\ hi <= Len(executables) /\ lo <= least /\ Collected = SubSeq(executables, least, hi)
    BY <1>2
  <2> HIDE DEF lo, hi
  <2> QED
    BY <1>3, <2>1
<1> HIDE DEF lo, hi
<1>5. /\ Collected \in Seq(Name) /\ Len(Collected) = hi - (least - 1)
      /\ \A n \in 1..(hi - (least - 1)) : Collected[n] = executables[(least - 1) + n]
  <2>1. least - 1 \in Nat /\ (least - 1) + 1 = least /\ least - 1 <= hi
    BY <1>3, <1>4
  <2> HIDE DEF Collected
  <2>2. /\ SubSeq(executables, (least - 1) + 1, hi) \in Seq(Name)
        /\ Len(SubSeq(executables, (least - 1) + 1, hi)) = hi - (least - 1)
        /\ \A n \in 1..(hi - (least - 1)) :
             SubSeq(executables, (least - 1) + 1, hi)[n] = executables[(least - 1) + n]
    BY <1>3, <1>4, <2>1, Sliced
  <2> QED
    BY <1>4, <2>1, <2>2
<1>6. ASSUME NEW n \in DOMAIN Collected PROVE IsPrefix(typed, Collected[n])
  <2>1. n \in 1..(hi - (least - 1))
    BY <1>5, LenProperties
  <2>2. (least - 1) + n \in Nat /\ lo <= (least - 1) + n /\ (least - 1) + n <= hi
    BY <1>3, <1>4, <2>1
  <2>3. (least - 1) + n \in Matching
    BY <1>1, <1>3, <2>2, MatchesBetween
  <2> QED
    BY <1>5, <2>1, <2>3 DEF Matching, Matches
<1>7. Collected # << >>
  <2>1. Len(Collected) \in Nat /\ Len(Collected) > 0
    BY <1>3, <1>4, <1>5
  <2> QED
    BY <2>1, EmptySeq
<1>8. InOrder(executables)
  BY <1>1 DEF CompletionInv
<1> HIDE DEF Collected
<1> QED
  BY <1>1, <1>3, <1>5, <1>6, <1>7, <1>8 DEF CompletionInv, search

\* The names of a directory, in some order.
LEMMA DirectoryListed ==
  ASSUME NEW p \in Paths, NEW k \in DOMAIN p, p[k] # Missing
  PROVE  /\ p[k] \subseteq Name /\ IsFiniteSet(p[k])
         /\ SetToSeq(p[k]) \in Seq(Name)
         /\ \A w : \A names \in SetToSeqs({n \in p[k] : IsPrefix(w, n)}) :
              /\ names \in Seq(Name)
              /\ \A n \in DOMAIN names : IsPrefix(w, names[n])
<1>1. p \in Seq({Missing} \cup SUBSET Name) /\ IsFiniteSet(p[k])
  BY PathsAssumption
<1>2. p[k] \in {Missing} \cup SUBSET Name
  BY <1>1, ElementOfSeq, LenProperties
<1>3. p[k] \subseteq Name
  BY <1>2
<1>4. SetToSeq(p[k]) \in Seq(Name)
  <2> DEFINE S == p[k]
  <2>1. Cardinality(S) \in Nat /\ ExistsBijection(1..Cardinality(S), S)
    BY <1>1, FS_CardinalityType
  <2>2. \E f \in [1..Cardinality(S) -> S] : IsInjective(f)
    BY <2>1 DEF ExistsBijection, Bijection, Injection
  <2>3. SetToSeq(S) \in [1..Cardinality(S) -> S]
    BY <2>2 DEF SetToSeq
  <2> HIDE DEF S
  <2>4. SetToSeq(S) \in [1..Cardinality(S) -> Name]
    <3>1. S \subseteq Name
      BY <1>3 DEF S
    <3> QED
      BY <2>3, <3>1
  <2>5. SetToSeq(S) \in Seq(Name)
    BY <2>1, <2>4, FunctionIsSequence
  <2> QED
    BY <2>5 DEF S
<1>5. ASSUME NEW w, NEW names \in SetToSeqs({n \in p[k] : IsPrefix(w, n)})
      PROVE  /\ names \in Seq(Name)
             /\ \A n \in DOMAIN names : IsPrefix(w, names[n])
  <2> DEFINE S == {n \in p[k] : IsPrefix(w, n)}
  <2>1. S \subseteq p[k] /\ S \subseteq Name /\ \A n \in S : IsPrefix(w, n)
    BY <1>3
  <2>2. Cardinality(S) \in Nat
    BY <1>1, <2>1, FS_Subset, FS_CardinalityType
  <2>3. names \in [1..Cardinality(S) -> S]
    BY DEF SetToSeqs
  <2> HIDE DEF S
  <2>4. names \in [1..Cardinality(S) -> Name]
    BY <2>1, <2>3
  <2>5. names \in Seq(Name)
    BY <2>2, <2>4, FunctionIsSequence
  <2> QED
    BY <2>1, <2>3, <2>5
<1> QED
  BY <1>1, <1>3, <1>4, <1>5

\* The executables are read, and sorted.
LEMMA ReadStep == CompletionInv /\ (ReadDirectory \/ Sort) => CompletionInv'
<1> SUFFICES ASSUME CompletionInv PROVE (ReadDirectory \/ Sort) => CompletionInv'
  OBVIOUS
<1>1. /\ path \in Paths /\ dir \in Nat \ {0} /\ executables \in Seq(Name)
      /\ result_set \in Seq(Name) /\ left \in Nat /\ right \in Nat
  BY DEF CompletionInv
<1>2. ASSUME ReadDirectory PROVE CompletionInv'
  <2>1. phase = "init" /\ dir <= Len(path) /\ path[dir] # Missing
        /\ executables' = executables \o SetToSeq(path[dir]) /\ dir' = dir + 1
        /\ UNCHANGED << phase, path, word, typed, search, result_set >>
    BY <1>2 DEF ReadDirectory
  <2>2. dir \in DOMAIN path
    <3>1. path \in Seq({Missing} \cup SUBSET Name)
      BY <1>1, PathsAssumption
    <3> QED
      BY <1>1, <2>1, <3>1, LenProperties
  <2>3. executables' \in Seq(Name)
    BY <1>1, <2>1, <2>2, DirectoryListed, Joined
  <2>4. dir + 1 \in Nat \ {0}
    BY <1>1
  <2> QED
    BY <1>1, <2>1, <2>3, <2>4 DEF CompletionInv, search
<1>3. ASSUME Sort PROVE CompletionInv'
  <2>1. phase = "init" /\ phase' = "ready"
        /\ (\A j, k \in DOMAIN executables : j < k => ~Less(executables'[k], executables'[j]))
        /\ UNCHANGED << path, dir, word, typed, search, result_set >>
    BY <1>3 DEF Sort
  <2>2. PICK at \in Bijection(DOMAIN executables, DOMAIN executables) :
          executables' = [k \in DOMAIN executables |-> executables[at[k]]]
    BY <1>3 DEF Sort
  <2>3. at \in [DOMAIN executables -> DOMAIN executables]
    BY <2>2 DEF Bijection, Injection
  <2>4. Len(executables) \in Nat /\ DOMAIN executables = 1..Len(executables)
        /\ \A k \in 1..Len(executables) : executables[k] \in Name
    BY Listed
  <2>5. executables' \in [1..Len(executables) -> Name]
    BY <2>2, <2>3, <2>4
  <2>6. executables' \in Seq(Name) /\ DOMAIN executables' = 1..Len(executables)
    BY <2>4, <2>5, FunctionIsSequence
  <2>7. InOrder(executables')
    BY <2>1, <2>4, <2>6 DEF InOrder
  <2> QED
    BY <1>1, <2>1, <2>6, <2>7 DEF CompletionInv, search
<1> QED
  BY <1>2, <1>3

\* The invariant of completion.
LEMMA CompletionInvariant == CompletionSpec => []CompletionInv
<1>1. CompletionInit => CompletionInv
  <2>1. << >> \in Seq(Name)
    BY EmptySeq
  <2> QED
    BY <2>1 DEF CompletionInit, CompletionInv
<1>2. CompletionInv /\ [CompletionNext]_completionVars => CompletionInv'
  <2> SUFFICES ASSUME CompletionInv, [CompletionNext]_completionVars PROVE CompletionInv'
    OBVIOUS
  <2>0. /\ path \in Paths /\ dir \in Nat \ {0} /\ executables \in Seq(Name)
        /\ result_set \in Seq(Name) /\ left \in Nat /\ right \in Nat
        /\ phase # "init" => InOrder(executables)
    BY DEF CompletionInv
  <2>1. CASE UNCHANGED completionVars
    BY <2>1 DEF CompletionInv, completionVars, search, Within, Matching, Matches
  <2>2. CASE CannotOpen
    BY <2>2 DEF CannotOpen, CompletionInv, completionVars, search, Within, Matching, Matches
  <2>3. CASE ReadDirectory \/ Sort
    BY <2>3, ReadStep
  <2>4. CASE Tab
    <3>1. PICK w \in Words : typed' = w /\ word' = w
      BY <2>4 DEF Tab
    <3>2. /\ phase = "ready" /\ phase' = "find" /\ left' = 0 /\ right' = Len(executables)
          /\ result_set' = << >> /\ UNCHANGED << path, dir, executables >>
      BY <2>4 DEF Tab
    <3>3. typed' \in Name /\ word' = typed' /\ << >> \in Seq(Name)
      BY <3>1, WordsAssumption, EmptySeq
    <3>4. Len(executables) \in Nat /\ \A k \in Matching' : 0 < k /\ k <= Len(executables)
      <4>1. Len(executables) \in Nat /\ DOMAIN executables = 1..Len(executables)
        BY Listed
      <4> QED
        BY <3>2, <4>1 DEF Matching
    <3> QED
      BY <2>0, <3>2, <3>3, <3>4 DEF CompletionInv, Within
  <2>5. CASE Narrow
    BY <2>5, NarrowStep
  <2>6. CASE FindsFirst \/ FindsNone
    BY <2>0, <2>6 DEF FindsFirst, FindsNone, CompletionInv, search
  <2>7. CASE Finds
    BY <2>7, FindsStep
  <2>8. CASE TabInArgument
    <3>1. PICK w \in Words, k \in DOMAIN path :
            /\ path[k] # Missing
            /\ \E names \in SetToSeqs({n \in path[k] : IsPrefix(w, n)}) : result_set' = names
            /\ typed' = w /\ word' = w
      BY <2>8 DEF TabInArgument
    <3>2. /\ phase = "ready" /\ phase' = IF result_set' = << >> THEN "ready" ELSE "insert"
          /\ UNCHANGED << path, dir, executables, search >>
      BY <2>8 DEF TabInArgument
    <3>3. result_set' \in Seq(Name) /\ \A n \in DOMAIN result_set' : IsPrefix(typed', result_set'[n])
      BY <2>0, <3>1, DirectoryListed
    <3>4. typed' \in Name /\ word' = typed'
      BY <3>1, WordsAssumption
    <3>5. CASE result_set' = << >>
      <4>1. phase' = "ready"
        BY <3>2, <3>5, Zenon
      <4> QED
        BY <2>0, <3>2, <3>3, <4>1 DEF CompletionInv, search
    <3>6. CASE result_set' # << >>
      <4>1. phase' = "insert"
        BY <3>2, <3>6, Zenon
      <4> QED
        BY <2>0, <3>2, <3>3, <3>4, <3>6, <4>1 DEF CompletionInv, search
    <3> QED
      BY <3>5, <3>6
  <2>9. CASE Insert
    BY <2>0, <2>9 DEF Insert, CompletionInv, search
  <2> QED
    BY <2>1, <2>2, <2>3, <2>4, <2>5, <2>6, <2>7, <2>8, <2>9 DEF CompletionNext
<1> QED
  BY <1>1, <1>2, PTL DEF CompletionSpec

\* The binary search finds every executable that begins with the word but perhaps the
\* least, finds none only if there is none, and leaves the list only where the least of
\* all begins with the word (find), for any names and any word.
THEOREM SearchFindsMatches == CompletionSpec => FoundAreMatches
<1> DEFINE Found ==
      /\ Finds => \E least \in {Min(Matching), Min(Matching) + 1} :
                    result_set' = SubSeq(executables, least, Max(Matching))
      /\ FindsNone => Matching = {}
      /\ FindsFirst => 1 \in Matching
<1>1. CompletionInv => Found
  <2> SUFFICES ASSUME CompletionInv PROVE Found
    OBVIOUS
  <2>1. ASSUME Finds
        PROVE  \E least \in {Min(Matching), Min(Matching) + 1} :
                 result_set' = SubSeq(executables, least, Max(Matching))
    <3>1. /\ phase = "find" /\ left < right /\ Matches(Node(mid)) /\ mid > 0
          /\ result_set' = Collected
      BY <2>1 DEF Finds
    <3> QED
      BY <3>1, CollectedIs
  <2>2. ASSUME FindsNone PROVE Matching = {}
    <3>1. phase = "find" /\ left >= right
      BY <2>2 DEF FindsNone
    <3>2. left \in Nat /\ right \in Nat /\ Within
      BY <3>1 DEF CompletionInv
    <3>3. \A k \in Matching : k \in Nat /\ left < k /\ k <= right
      BY <3>2, Listed DEF Within
    <3> QED
      BY <3>1, <3>2, <3>3
  <2>3. ASSUME FindsFirst PROVE 1 \in Matching
    <3>1. phase = "find" /\ left < right /\ Matches(Node(mid)) /\ mid = 0
      BY <2>3 DEF FindsFirst
    <3>2. mid + 1 \in 1..Len(executables) /\ Node(mid) = executables[mid + 1]
          /\ DOMAIN executables = 1..Len(executables)
      BY <3>1, MiddleIs, Listed
    <3> QED
      BY <3>1, <3>2 DEF Matching
  <2> QED
    BY <2>1, <2>2, <2>3
<1>2. FoundAreMatches <=> [][Found]_completionVars
  BY DEF FoundAreMatches
<1> HIDE DEF Found
<1>3. CompletionInv /\ [CompletionNext]_completionVars => [Found]_completionVars
  BY <1>1
<1> QED
  BY <1>2, <1>3, CompletionInvariant, PTL DEF CompletionSpec
-----------------------------------------------------------------------------
\* Where the word stands in the results, while it is inserted.
LEMMA ResultsAre ==
  ASSUME CompletionInv, phase = "insert"
  PROVE  /\ Len(result_set) \in Nat /\ Len(result_set) >= 1
         /\ DOMAIN result_set = 1..Len(result_set)
         /\ \A n \in 1..Len(result_set) :
              /\ result_set[n] \in Name /\ IsPrefix(typed, result_set[n])
              /\ Len(result_set[n]) \in Nat /\ min_len <= Len(result_set[n])
         /\ typed \in Name /\ Len(typed) \in Nat /\ Len(typed) >= 1
         /\ l \in Nat /\ l = Len(typed) + 1
         /\ min_len \in Nat /\ l - 1 <= min_len
         /\ Len(result_set) = 1 => min_len = Len(result_set[1])
<1> DEFINE Lengths == {Len(result_set[n]) : n \in DOMAIN result_set}
<1>1. /\ result_set \in Seq(Name) /\ result_set # << >> /\ typed \in Name
      /\ \A n \in DOMAIN result_set : IsPrefix(typed, result_set[n])
  BY DEF CompletionInv
<1>2. Len(result_set) \in Nat /\ DOMAIN result_set = 1..Len(result_set) /\ Len(result_set) >= 1
  <2>1. Len(result_set) \in Nat /\ DOMAIN result_set = 1..Len(result_set)
    BY <1>1, LenProperties
  <2>2. Len(result_set) # 0
    BY <1>1, EmptySeq
  <2> QED
    BY <2>1, <2>2
<1>3. \A n \in 1..Len(result_set) : result_set[n] \in Name /\ Len(result_set[n]) \in Nat
  BY <1>1, ElementOfSeq, NameIs
<1>4. Lengths \subseteq Nat /\ Lengths # {}
  <2>1. 1 \in DOMAIN result_set
    BY <1>2
  <2>2. Len(result_set[1]) \in Lengths
    BY <2>1
  <2>3. \A n \in DOMAIN result_set : Len(result_set[n]) \in Nat
    BY <1>2, <1>3
  <2> QED
    BY <2>2, <2>3
<1>5. Min(Lengths) \in Lengths /\ \A y \in Lengths : Min(Lengths) <= y
  <2> HIDE DEF Lengths
  <2> QED
    BY <1>4, LeastOf
<1>6. min_len = Min(Lengths)
  BY DEF min_len
<1>7. min_len \in Nat /\ \A n \in 1..Len(result_set) : min_len <= Len(result_set[n])
  BY <1>2, <1>4, <1>5, <1>6
<1>8. PICK m \in 1..Len(result_set) : min_len = Len(result_set[m])
  BY <1>2, <1>5, <1>6
<1>9. Len(typed) \in Nat /\ Len(typed) >= 1 /\ l \in Nat /\ l = Len(typed) + 1
  BY <1>1, NameIs DEF l
<1>10. Len(typed) <= Len(result_set[m])
  BY <1>1, <1>2, <1>3, BeginsWith
<1>11. Len(result_set) = 1 => min_len = Len(result_set[1])
  BY <1>2, <1>8
<1> QED
  BY <1>1, <1>2, <1>3, <1>7, <1>8, <1>9, <1>10, <1>11

\* One turn of the loop over the results.
Turn(n, j) == IF j < l THEN j ELSE j - Cardinality(Differences(n, j))

\* Its value.
LEMMA TurnIs ==
  ASSUME CompletionInv, phase = "insert", NEW n, NEW j \in Nat
  PROVE  /\ Turn(n, j) \in Nat /\ Turn(n, j) <= j
         /\ l - 1 <= j => l - 1 <= Turn(n, j)
         /\ \A p \in Nat : l <= p /\ p <= j /\ (\A k \in p..(j - 1) : k \in Differences(n, j))
                             => Turn(n, j) <= p
<1>1. l \in Nat /\ l >= 1
  BY ResultsAre
<1>2. CASE j < l
  BY <1>1, <1>2 DEF Turn
<1>3. CASE l <= j
  <2> DEFINE D == Differences(n, j)
  <2>1. D \subseteq l..j /\ IsFiniteSet(l..j) /\ Cardinality(l..j) = j - l + 1
    BY <1>1, <1>3, FS_Interval DEF Differences
  <2> HIDE DEF D
  <2>2. Cardinality(D) \in Nat /\ Cardinality(D) <= j - l + 1 /\ IsFiniteSet(D)
    BY <2>1, FS_Subset, FS_CardinalityType
  <2>3. Turn(n, j) = j - Cardinality(D)
    BY <1>1, <1>3 DEF Turn, D
  <2>4. ASSUME NEW p \in Nat, l <= p, p <= j, \A k \in p..(j - 1) : k \in D
        PROVE  Turn(n, j) <= p
    <3>1. CASE p = j
      BY <2>2, <2>3, <3>1
    <3>2. CASE p < j
      <4>1. p..(j - 1) \subseteq D
        BY <2>4
      <4>2. Cardinality(p..(j - 1)) = j - p
        <5>1. p \in Int /\ j - 1 \in Int /\ p <= j - 1
          BY <3>2
        <5>2. Cardinality(p..(j - 1)) = (j - 1) - p + 1
          BY <5>1, FS_Interval
        <5> QED
          BY <5>2
      <4>3. j - p <= Cardinality(D)
        BY <2>2, <4>1, <4>2, FS_Subset
      <4> QED
        BY <2>2, <2>3, <4>3
    <3> QED
      BY <2>4, <3>1, <3>2
  <2> QED
    BY <1>1, <1>3, <2>2, <2>3, <2>4 DEF D
<1> QED
  BY <1>1, <1>2, <1>3

\* Where the results part for good, those looked at agree with the first as far as is left.
LEMMA TurnAgrees ==
  ASSUME CompletionInv, phase = "insert", PartForGood, min_len > l,
         NEW n \in 1..Len(result_set), NEW j \in Nat, l <= j, j <= min_len,
         NEW i \in 1..Turn(n, j)
  PROVE  result_set[n][i] = result_set[1][i]
<1> DEFINE Apart(k) == CharAt(result_set[1], k) # CharAt(result_set[n], k)
<1>1. /\ l \in Nat /\ l = Len(typed) + 1 /\ Len(typed) \in Nat /\ l >= 1 /\ min_len \in Nat
      /\ 1 \in 1..Len(result_set) /\ typed \in Name
      /\ DOMAIN result_set = 1..Len(result_set)
      /\ result_set[1] \in Name /\ result_set[n] \in Name
      /\ IsPrefix(typed, result_set[1]) /\ IsPrefix(typed, result_set[n])
      /\ Len(result_set[1]) \in Nat /\ Len(result_set[n]) \in Nat
      /\ min_len <= Len(result_set[1]) /\ min_len <= Len(result_set[n])
  BY ResultsAre
<1>2. Turn(n, j) \in Nat /\ Turn(n, j) <= j /\ i \in Nat /\ 1 <= i /\ i <= j /\ i <= min_len
  BY <1>1, TurnIs
<1>3. \A k \in Nat : k < min_len => (Apart(k) <=> result_set[1][k + 1] # result_set[n][k + 1])
  BY <1>1 DEF CharAt
<1>4. \A a, b \in (l - 1)..(min_len - 1) : ~Apart(l - 1) /\ (a < b /\ Apart(a) => Apart(b))
  BY <1>1 DEF PartForGood
<1>5. l - 1 \in (l - 1)..(min_len - 1)
  BY <1>1
<1>6. ~Apart(l - 1)
  BY <1>4, <1>5
<1> SUFFICES ASSUME result_set[1][i] # result_set[n][i] PROVE FALSE
  OBVIOUS
<1>7. i > Len(typed)
  BY <1>1, <1>2, BeginsWith
<1>8. i # l
  <2>1. l - 1 \in Nat /\ l - 1 < min_len /\ (l - 1) + 1 = l
    BY <1>1
  <2> HIDE DEF Apart
  <2>2. result_set[1][l] = result_set[n][l]
    BY <1>3, <1>6, <2>1
  <2> QED
    BY <2>2
<1> DEFINE p == i - 1
<1>9. p \in Nat /\ l <= p /\ p < j /\ p <= j /\ p < min_len /\ p + 1 = i
      /\ p \in (l - 1)..(min_len - 1)
  BY <1>1, <1>2, <1>7, <1>8
<1> HIDE DEF p
<1>10. Apart(p)
  <2> HIDE DEF Apart
  <2> QED
    BY <1>3, <1>9
<1>11. ASSUME NEW k \in p..(j - 1) PROVE k \in Differences(n, j)
  <2>1. k \in (l - 1)..(min_len - 1) /\ k \in l..j
    BY <1>1, <1>9
  <2>2. Apart(k)
    <3> HIDE DEF Apart
    <3>1. k = p \/ p < k
      BY <1>9
    <3> QED
      BY <1>4, <1>9, <1>10, <2>1, <3>1
  <2> QED
    BY <2>1, <2>2 DEF Differences
<1>12. Turn(n, j) <= p
  BY <1>9, <1>11, TurnIs
<1> QED
  BY <1>2, <1>9, <1>12

\* The loop of insert_minimal_prefix over the results.
IsLoop(g) ==
  g = [n \in DOMAIN result_set |->
         IF n = 1 THEN min_len
         ELSE IF g[n - 1] < l THEN g[n - 1]
         ELSE g[n - 1] - Cardinality(Differences(n, g[n - 1]))]

\* It is a function of the number of results looked at.
LEMMA LoopExists ==
  ASSUME CompletionInv, phase = "insert"
  PROVE  \E g : IsLoop(g)
<1> DEFINE step == [q \in Nat \X Nat |-> Turn(q[2] + 1, q[1])]
           len == Len(result_set)
<1>1. len \in Nat /\ DOMAIN result_set = 1..len /\ min_len \in Nat
  BY ResultsAre
<1>2. ASSUME NEW j \in Nat, NEW n \in Nat PROVE step[<< j, n >>] = Turn(n + 1, j)
  <2>1. << j, n >> \in Nat \X Nat /\ << j, n >>[1] = j /\ << j, n >>[2] = n
    OBVIOUS
  <2> QED
    BY <2>1
<1> HIDE DEF step, len
<1>3. PICK f : Recursive(f, min_len, step)
  BY Recursion
<1>4. f[0] = min_len /\ \A n \in Nat : n # 0 => f[n] = step[<< f[n - 1], n >>]
  BY <1>3 DEF Recursive
<1> DEFINE T == {n \in Nat : f[n] \in Nat}
<1>5. Nat \subseteq T
  <2>1. 0 \in T
    BY <1>1, <1>4
  <2>2. ASSUME NEW n \in Nat, n \in T PROVE n + 1 \in T
    <3>1. f[n] \in Nat /\ n + 1 \in Nat /\ n + 1 # 0 /\ (n + 1) - 1 = n
      BY <2>2
    <3>2. f[n + 1] = Turn(n + 2, f[n])
      <4>1. f[n + 1] = step[<< f[n], n + 1 >>]
        BY <1>4, <3>1
      <4>2. (n + 1) + 1 = n + 2
        OBVIOUS
      <4> QED
        BY <1>2, <3>1, <4>1, <4>2
    <3> QED
      BY <3>1, <3>2, TurnIs
  <2> HIDE DEF T
  <2> QED
    BY <2>1, <2>2, Induction
<1> DEFINE g == [n \in 1..len |-> f[n - 1]]
<1>6. ASSUME NEW n \in 1..len
      PROVE  g[n] = IF n = 1 THEN min_len ELSE Turn(n, g[n - 1])
  <2>1. CASE n = 1
    BY <1>1, <1>4, <2>1
  <2>2. CASE n # 1
    <3>1. n - 1 \in Nat /\ n - 2 \in Nat /\ n - 1 # 0 /\ (n - 1) - 1 = n - 2 /\ n - 1 \in 1..len
          /\ (n - 1) + 1 = n
      BY <1>1, <2>2
    <3>2. f[n - 1] = step[<< f[n - 2], n - 1 >>] /\ f[n - 2] \in Nat
      BY <1>4, <1>5, <3>1
    <3>3. f[n - 1] = Turn(n, f[n - 2])
      BY <1>2, <3>1, <3>2
    <3>4. g[n] = f[n - 1] /\ g[n - 1] = f[n - 2]
      BY <3>1
    <3> HIDE DEF g
    <3> QED
      BY <2>2, <3>3, <3>4
  <2> QED
    BY <2>1, <2>2
<1>7. g = [n \in 1..len |-> g[n]]
  OBVIOUS
<1> HIDE DEF g
<1>8. g = [n \in 1..len |-> IF n = 1 THEN min_len ELSE Turn(n, g[n - 1])]
  BY <1>6, <1>7
<1>9. IsLoop(g)
  BY <1>1, <1>8 DEF IsLoop, Turn
<1> QED
  BY <1>9

\* What insert_minimal_prefix counts.
LEMMA AgreeingIs ==
  ASSUME CompletionInv, phase = "insert", min_len > l
  PROVE  /\ Agreeing \in Nat /\ Agreeing <= min_len
         /\ Len(result_set) = 1 => Agreeing = min_len
         /\ PartForGood /\ Agreeing >= l =>
              \A n \in 1..Len(result_set) : \A i \in 1..Agreeing :
                result_set[n][i] = result_set[1][i]
<1> DEFINE g == CHOOSE h : IsLoop(h)
           len == Len(result_set)
<1>1. Agreeing = g[len]
  BY DEF Agreeing, IsLoop
<1>2. IsLoop(g)
  BY LoopExists
<1> HIDE DEF g
<1>3. len \in Nat /\ len >= 1 /\ DOMAIN result_set = 1..len /\ min_len \in Nat /\ l \in Nat
      /\ l >= 1
  BY ResultsAre
<1>4. g[1] = min_len /\ \A n \in 1..len : n # 1 => g[n] = Turn(n, g[n - 1])
  <2>1. g = [n \in 1..len |-> IF n = 1 THEN min_len ELSE Turn(n, g[n - 1])]
    BY <1>2, <1>3 DEF IsLoop, Turn
  <2>2. \A n \in 1..len : g[n] = IF n = 1 THEN min_len ELSE Turn(n, g[n - 1])
    BY <2>1
  <2>3. 1 \in 1..len
    BY <1>3
  <2> QED
    BY <2>2, <2>3
<1> HIDE DEF len
<1> DEFINE Same(n, j) == \A m \in 1..n : \A i \in 1..j : result_set[m][i] = result_set[1][i]
           Right(n) == /\ g[n] \in Nat /\ g[n] <= min_len
                       /\ PartForGood /\ l <= g[n] => Same(n, g[n])
           T == {n \in Nat : n + 1 <= len => Right(n + 1)}
<1>5. Nat \subseteq T
  <2>1. 0 \in T
    <3>1. g[1] \in Nat /\ g[1] <= min_len
      BY <1>3, <1>4
    <3>2. Same(1, g[1])
      OBVIOUS
    <3> QED
      BY <3>1, <3>2
  <2>2. ASSUME NEW n \in Nat, n \in T, n + 2 <= len PROVE Right(n + 2)
    <3>1. n + 2 \in 1..len /\ n + 2 # 1 /\ (n + 2) - 1 = n + 1 /\ n + 1 <= len
      BY <1>3, <2>2
    <3>2. Right(n + 1)
      BY <2>2, <3>1
    <3>3. g[n + 2] = Turn(n + 2, g[n + 1])
      BY <1>4, <3>1
    <3> DEFINE j == g[n + 1]
               k == g[n + 2]
    <3>4. j \in Nat /\ j <= min_len
      BY <3>2
    <3>5. k = Turn(n + 2, j) /\ k \in Nat /\ k <= j
      BY <3>3, <3>4, TurnIs
    <3>6. ASSUME PartForGood, l <= k PROVE Same(n + 2, k)
      <4>1. l <= j
        BY <1>3, <3>4, <3>5, <3>6
      <4>2. Same(n + 1, j)
        BY <3>2, <3>6, <4>1
      <4>3. ASSUME NEW m \in 1..(n + 2), NEW i \in 1..k
            PROVE  result_set[m][i] = result_set[1][i]
        <5> HIDE DEF j, k
        <5>1. CASE m = n + 2
          BY <3>1, <3>4, <3>5, <3>6, <4>1, <4>3, <5>1, TurnAgrees DEF len
        <5>2. CASE m # n + 2
          <6>1. m \in 1..(n + 1) /\ i \in 1..j
            BY <3>4, <3>5, <5>2
          <6> QED
            BY <4>2, <6>1
        <5> QED
          BY <5>1, <5>2
      <4> QED
        BY <4>3
    <3>7. k <= min_len
      <4> HIDE DEF j, k
      <4> QED
        BY <1>3, <3>4, <3>5
    <3> QED
      BY <3>5, <3>6, <3>7
  <2>3. ASSUME NEW n \in Nat, n \in T PROVE n + 1 \in T
    <3>1. (n + 1) + 1 = n + 2 /\ n + 1 \in Nat
      OBVIOUS
    <3>2. n + 2 <= len => Right(n + 2)
      BY <2>2, <2>3
    <3> HIDE DEF Right
    <3> QED
      BY <3>1, <3>2
  <2> HIDE DEF T
  <2> QED
    BY <2>1, <2>3, Induction
<1>6. Right(len)
  <2>1. len - 1 \in Nat /\ (len - 1) + 1 = len /\ len <= len
    BY <1>3
  <2>2. len - 1 \in T
    BY <1>5, <2>1
  <2> HIDE DEF Right
  <2> QED
    BY <2>1, <2>2
<1>7. len = 1 => Agreeing = min_len
  BY <1>1, <1>4
<1> QED
  BY <1>1, <1>3, <1>6, <1>7 DEF len

\* What the first characters of a name are, as a name.
LEMMA Beginning ==
  ASSUME NEW a \in Name, NEW j \in Nat, 1 <= j, j <= Len(a)
  PROVE  /\ SubSeq(a, 1, j) \in Name /\ Len(SubSeq(a, 1, j)) = j
         /\ \A i \in 1..j : SubSeq(a, 1, j)[i] = a[i]
<1> DEFINE s == SubSeq(a, 1, j)
<1>1. s \in Seq(Characters) /\ Len(s) = j /\ \A i \in 1..j : s[i] = a[i]
  <2>1. a \in Seq(Characters)
    BY NameIs
  <2>2. /\ SubSeq(a, 0 + 1, j) \in Seq(Characters) /\ Len(SubSeq(a, 0 + 1, j)) = j - 0
        /\ \A n \in 1..(j - 0) : SubSeq(a, 0 + 1, j)[n] = a[0 + n]
    BY <2>1, Sliced
  <2>3. j - 0 = j /\ 0 + 1 = 1 /\ \A n \in 1..j : 0 + n = n
    OBVIOUS
  <2> QED
    BY <2>2, <2>3
<1> HIDE DEF s
<1>2. s # << >>
  BY <1>1, EmptySeq
<1> QED
  BY <1>1, <1>2 DEF Name, s

\* The word only grows, along the first of the names that were found; where the names
\* part for good it remains the beginning of them all (insert_minimal_prefix), for any
\* names and any word.
THEOREM WordStaysCommon == CompletionSpec => CompletedIsCommon
<1> DEFINE Common ==
      Insert =>
        /\ IsPrefix(typed, word') /\ IsPrefix(word', result_set[1])
        /\ Len(word') <= min_len
        /\ Len(result_set) = 1 /\ min_len > l => word' = result_set[1]
        /\ PartForGood => \A n \in DOMAIN result_set : IsPrefix(word', result_set[n])
<1>1. CompletionInv => Common
  <2> SUFFICES ASSUME CompletionInv, Insert
               PROVE  /\ IsPrefix(typed, word') /\ IsPrefix(word', result_set[1])
                      /\ Len(word') <= min_len
                      /\ Len(result_set) = 1 /\ min_len > l => word' = result_set[1]
                      /\ PartForGood =>
                           \A n \in 1..Len(result_set) : IsPrefix(word', result_set[n])
    <3>1. Insert => DOMAIN result_set = 1..Len(result_set)
      BY ResultsAre DEF Insert
    <3> QED
      BY <3>1
  <2>1. phase = "insert" /\ word = typed
        /\ word' = IF Len(result_set) <= MinResultsMore /\ min_len > l /\ Agreeing >= l
                   THEN SubSeq(result_set[1], 1, Agreeing) ELSE word
    BY DEF Insert, CompletionInv
  <2>2. /\ Len(result_set) \in Nat /\ Len(result_set) >= 1
        /\ \A n \in 1..Len(result_set) :
             /\ result_set[n] \in Name /\ IsPrefix(typed, result_set[n])
             /\ Len(result_set[n]) \in Nat /\ min_len <= Len(result_set[n])
        /\ typed \in Name /\ Len(typed) \in Nat /\ Len(typed) >= 1
        /\ l \in Nat /\ l = Len(typed) + 1
        /\ min_len \in Nat /\ l - 1 <= min_len
        /\ Len(result_set) = 1 => min_len = Len(result_set[1])
    BY <2>1, ResultsAre
  <2>3. 1 \in 1..Len(result_set)
    BY <2>2
  <2>4. CASE Len(result_set) <= MinResultsMore /\ min_len > l /\ Agreeing >= l
    <3> DEFINE w == SubSeq(result_set[1], 1, Agreeing)
    <3>1. word' = w
      BY <2>1, <2>4
    <3>2. /\ Agreeing \in Nat /\ Agreeing <= min_len
          /\ Len(result_set) = 1 => Agreeing = min_len
          /\ PartForGood =>
               \A n \in 1..Len(result_set) : \A i \in 1..Agreeing :
                 result_set[n][i] = result_set[1][i]
      BY <2>1, <2>4, AgreeingIs
    <3>3. 1 <= Agreeing /\ Agreeing <= Len(result_set[1]) /\ Len(typed) <= Agreeing
      BY <2>2, <2>3, <2>4, <3>2
    <3>4. w \in Name /\ Len(w) = Agreeing /\ \A i \in 1..Agreeing : w[i] = result_set[1][i]
      BY <2>2, <2>3, <3>2, <3>3, Beginning
    <3> HIDE DEF w
    <3>5. IsPrefix(w, result_set[1])
      BY <2>2, <2>3, <3>3, <3>4, BeginsWith
    <3>6. IsPrefix(typed, w)
      <4>1. \A k \in 1..Len(typed) : typed[k] = result_set[1][k] /\ k \in 1..Agreeing
        BY <2>2, <2>3, <3>2, <3>3, BeginsWith
      <4> QED
        BY <2>2, <3>3, <3>4, <4>1, BeginsWith
    <3>7. ASSUME Len(result_set) = 1 PROVE w = result_set[1]
      <4>1. Agreeing = Len(result_set[1]) /\ result_set[1] \in Seq(Nat) /\ w \in Seq(Nat)
        BY <2>2, <2>3, <3>2, <3>4, <3>7, NameIs
      <4> QED
        BY <3>4, <4>1, SeqEqual
    <3>8. ASSUME PartForGood, NEW n \in 1..Len(result_set) PROVE IsPrefix(w, result_set[n])
      <4>1. result_set[n] \in Name /\ Agreeing <= Len(result_set[n])
        BY <2>2, <3>2
      <4>2. \A i \in 1..Agreeing : w[i] = result_set[n][i]
        BY <3>2, <3>4, <3>8
      <4> QED
        BY <3>4, <4>1, <4>2, BeginsWith
    <3> QED
      BY <3>1, <3>2, <3>4, <3>5, <3>6, <3>7, <3>8
  <2>5. CASE ~(Len(result_set) <= MinResultsMore /\ min_len > l /\ Agreeing >= l)
    <3>1. word' = typed
      BY <2>1, <2>5
    <3>2. IsPrefix(typed, typed)
      BY <2>2, BeginsWith
    <3>3. Len(typed) <= min_len
      BY <2>2
    <3>4. ~(Len(result_set) = 1 /\ min_len > l)
      <4> SUFFICES ASSUME Len(result_set) = 1, min_len > l PROVE FALSE
        OBVIOUS
      <4>1. Agreeing = min_len
        BY <2>1, AgreeingIs
      <4>2. MinResultsMore \in Nat /\ 1 <= MinResultsMore
        BY MoreAssumption
      <4> QED
        BY <2>2, <2>5, <4>1, <4>2
    <3> QED
      BY <2>2, <2>3, <3>1, <3>2, <3>3, <3>4
  <2> QED
    BY <2>4, <2>5
<1>2. CompletedIsCommon <=> [][Common]_completionVars
  BY DEF CompletedIsCommon
<1> HIDE DEF Common
<1>3. CompletionInv /\ [CompletionNext]_completionVars => [Common]_completionVars
  BY <1>1
<1> QED
  BY <1>2, <1>3, CompletionInvariant, PTL DEF CompletionSpec
=============================================================================
