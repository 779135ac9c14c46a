------------------------------- MODULE NewText -------------------------------
(***************************************************************************)
(* The text of a session event: what a terminal has shown since the last   *)
(* one.  NewText keeps an emulator of its own and remembers the row and    *)
(* the column where the text starts; the row is an index that counts the   *)
(* scrollback, so it is off once the scrollback drops a row.               *)
(*                                                                         *)
(* The characters that programs print are numbered.  A line is a sequence  *)
(* of characters.  Programs print, end lines, look below the cursor and    *)
(* clear the screen; a push is as many of these steps as its output has,   *)
(* and nobody looks at the text in between.                                *)
(***************************************************************************)
EXTENDS Naturals, Sequences, SequencesExt

CONSTANTS
  Rows, Cols,   \* the size of the terminal
  Scrollback,   \* scrollback_len
  MaxPrinted,   \* bound on the characters
  MaxEarlier    \* bound on the lines at which the screen is cleared again

ASSUME NewTextAssumption ==
  /\ Rows \in Nat /\ Rows > 1
  /\ Cols \in Nat \ {0}
  /\ Scrollback \in Nat \ {0}
  /\ MaxPrinted \in Nat /\ MaxEarlier \in Nat

VARIABLES
  back,       \* the rows of the scrollback, oldest first
  screen,     \* the rows of the screen
  cursor,     \* the row of the cursor; its column is the end of that row
  startRow,   \* where the text starts: the number of rows before it
  startCol,   \* and of columns
  earlier,    \* lines taken out before the screen was cleared
  truncated,  \* some output was not seen, or lines were dropped
  printed,    \* (history) characters printed so far
  due,        \* (history) the lines, in characters, since the last text
  open,       \* (history) the last of them goes on
  ended,      \* (history) a line was ended since the last text or clear
  unseen      \* (history) the screen was cleared since the last text, unnoticed

emulator == <<back, screen, cursor>>
start == <<startRow, startCol>>
vars == <<emulator, start, earlier, truncated, printed, due, open, ended, unseen>>

Lines == Seq(Nat)
Row == [text : Lines, wrapped : BOOLEAN]
RowOf(line) == [text |-> line, wrapped |-> FALSE]
Blank == RowOf(<<>>)

\* The variables have their types; the scrollback and the rows keep to their
\* limits.
TypeOK ==
  /\ back \in Seq(Row) /\ Len(back) <= Scrollback
  /\ screen \in Seq(Row) /\ Len(screen) = Rows
  /\ \A r \in 1..Rows : Len(screen[r].text) <= Cols
  /\ cursor \in 1..Rows
  /\ startRow \in Nat /\ startCol \in 0..Cols
  /\ earlier \in Seq(Lines) /\ due \in Seq(Lines)
  /\ printed \in Nat
  /\ truncated \in BOOLEAN /\ open \in BOOLEAN /\ ended \in BOOLEAN /\ unseen \in BOOLEAN

\* new, for a screen on which a prompt has been printed.
Init ==
  /\ back = <<>>
  /\ screen = [r \in 1..Rows |-> IF r = 1 THEN RowOf(<<1>>) ELSE Blank]
  /\ cursor = 1
  /\ startRow = 0 /\ startCol = 1
  /\ earlier = <<>> /\ truncated = FALSE
  /\ printed = 1 /\ due = <<>> /\ open = FALSE /\ ended = FALSE /\ unseen = FALSE

-----------------------------------------------------------------------------
(* lines, has_new_line                                                     *)

\* scrollback_full: it is as long as it can be.  Rows need not have been
\* dropped yet.
Full == Len(back) = Scrollback

\* collect_lines: the scrollback and the screen down to the cursor, below which
\* these programs leave nothing.
Collected == [i \in 1..(Len(back) + cursor) |->
                IF i <= Len(back) THEN back[i].text ELSE screen[i - Len(back)].text]

From(line, n) == SubSeq(line, n + 1, Len(line))

HasText(line) == line # <<>>

\* The rows after row r and column c.
Shown(rows, r, c) ==
  IF r >= Len(rows) THEN <<>>
  ELSE [i \in 1..(Len(rows) - r) |-> IF i = 1 THEN From(rows[r + 1], c) ELSE rows[r + i]]

\* The lines with text, in order.
WithText(lines) ==
  LET first[n \in 0..Len(lines)] ==   \* of the first n
        IF n = 0 THEN <<>>
        ELSE IF HasText(lines[n]) THEN Append(first[n - 1], lines[n]) ELSE first[n - 1]
  IN  first[Len(lines)]

\* lines, after row r and column c: those with text; with toCursor the cursor's
\* even without, unless the text starts on it.
LinesFrom(r, c, toCursor) ==
  LET shown == Shown(Collected, r, c)
  IN  IF toCursor /\ Len(shown) > 1 /\ ~HasText(Last(shown))
      THEN Append(WithText(shown), <<>>) ELSE WithText(shown)

\* Mutant: the starting point is used whatever the scrollback has dropped.
LinesAfterStart(toCursor) == LinesFrom(startRow, startCol, toCursor)

LinesOf(toCursor) ==
  IF Full THEN LinesFrom(0, 0, toCursor) ELSE LinesFrom(startRow, startCol, toCursor)

\* Mutant: the row of the starting point is one of the screen.
HasNewLineOnScreen ==
  \/ earlier # <<>> \/ Full
  \/ \E r \in (startRow + 1)..(cursor - 1) : ~screen[r].wrapped

\* A row before the cursor's that is in the scrollback or was not wrapped.
HasNewLine ==
  \/ earlier # <<>> \/ Full
  \/ \E r \in startRow..(Len(back) + cursor - 2) :
       r < Len(back) \/ ~screen[r + 1 - Len(back)].wrapped

\* What `take` would return, and whether it would be marked.
Text == earlier \o LinesOf(TRUE)
Marked == truncated \/ Full

-----------------------------------------------------------------------------
(* The emulator                                                            *)

\* The screen scrolls; the scrollback drops its oldest row when it is full.
Scrolls(rows, row) ==
  /\ screen' = Append(Tail(rows), row)
  /\ back' = Append(IF Full THEN Tail(back) ELSE back, Head(rows))

\* The cursor goes down to `row`, which at the bottom is a new one.
Down(rows, row) ==
  IF cursor < Rows
  THEN /\ screen' = [rows EXCEPT ![cursor + 1] = row]
       /\ cursor' = cursor + 1
       /\ UNCHANGED back
  ELSE Scrolls(rows, row) /\ UNCHANGED cursor

\* Mutant: a row takes one character more than it has columns.
PutBeyond ==
  /\ printed < MaxPrinted
  /\ printed' = printed + 1
  /\ screen' = [screen EXCEPT ![cursor].text = Append(@, printed')]
  /\ open' = TRUE
  /\ due' = IF open THEN [due EXCEPT ![Len(due)] = Append(@, printed')] ELSE Append(due, <<printed'>>)
  /\ UNCHANGED <<back, cursor, start, earlier, truncated, ended, unseen>>

\* A program prints a character; the row after a full one goes on with its line.
Put ==
  /\ printed < MaxPrinted
  /\ printed' = printed + 1
  /\ open' = TRUE
  /\ IF Len(screen[cursor].text) < Cols
     THEN /\ screen' = [screen EXCEPT ![cursor].text = Append(@, printed')]
          /\ due' = IF open THEN [due EXCEPT ![Len(due)] = Append(@, printed')]
                    ELSE Append(due, <<printed'>>)
          /\ UNCHANGED <<back, cursor>>
     ELSE /\ Down([screen EXCEPT ![cursor].wrapped = TRUE], RowOf(<<printed'>>))
          /\ due' = Append(due, <<printed'>>)
  /\ UNCHANGED <<start, earlier, truncated, ended, unseen>>

\* Carriage return and line feed.
NewLine ==
  /\ Down(screen, Blank)
  /\ open' = FALSE /\ ended' = TRUE
  /\ UNCHANGED <<start, earlier, truncated, printed, due, unseen>>

\* A line editor steps down, to clear below its line, and back up; away from the
\* bottom nothing is changed.
StepBelow ==
  /\ cursor = Rows
  /\ Scrolls(screen, Blank)
  /\ cursor' = cursor - 1
  /\ UNCHANGED <<start, earlier, truncated, printed, due, open, ended, unseen>>

\* The screen is erased and the cursor goes home.
Erased == screen' = [r \in 1..Rows |-> Blank] /\ cursor' = 1 /\ UNCHANGED back

-----------------------------------------------------------------------------
(* NewText                                                                 *)

\* Mutant: the rows of the cleared screen are counted from its top.
ClearFromTop ==
  /\ Len(earlier) < MaxEarlier
  /\ Erased
  /\ earlier' = earlier \o LinesOf(FALSE)
  /\ truncated' = Marked
  /\ startRow' = 0 /\ startCol' = 0
  /\ open' = FALSE /\ ended' = FALSE
  /\ UNCHANGED <<printed, due, unseen>>

\* push finds a clear: the lines so far are kept, and the text goes on at the
\* top of the screen.
Clear ==
  /\ Len(earlier) < MaxEarlier
  /\ Erased
  /\ earlier' = earlier \o LinesOf(FALSE)
  /\ truncated' = Marked
  /\ startRow' = Len(back) /\ startCol' = 0
  /\ open' = FALSE /\ ended' = FALSE
  /\ UNCHANGED <<printed, due, unseen>>

\* push finds only the last clear of its output, none that two reads tore apart
\* and none that is spelled otherwise.
ClearUnseen ==
  /\ Erased
  /\ unseen' = TRUE /\ open' = FALSE
  /\ UNCHANGED <<start, earlier, truncated, printed, due, ended>>

\* mark_truncated; a character that was missed is not on the screen.
Miss ==
  /\ printed < MaxPrinted
  /\ printed' = printed + 1
  /\ truncated' = TRUE
  /\ UNCHANGED <<emulator, start, earlier, due, open, ended, unseen>>

\* take: it starts over at the cursor, with a copy of the screen only.
Take ==
  /\ back' = <<>>
  /\ startRow' = cursor - 1 /\ startCol' = Len(screen[cursor].text)
  /\ earlier' = <<>> /\ truncated' = FALSE
  /\ due' = <<>> /\ open' = FALSE /\ ended' = FALSE /\ unseen' = FALSE
  /\ UNCHANGED <<screen, cursor, printed>>

-----------------------------------------------------------------------------
Next == Put \/ NewLine \/ StepBelow \/ Clear \/ ClearUnseen \/ Miss \/ Take

Spec == Init /\ [][Next]_vars

-----------------------------------------------------------------------------
(* Properties                                                              *)

\* However lines wrap, the screen scrolls or is cleared: a text that is not
\* marked has every line printed since the last one, whole, once, in order, and
\* nothing of the prompt before it.  (No clear must have gone unnoticed.)
TextIsExact == ~Marked /\ ~unseen => WithText(Text) = due

CharsOf(lines) == UNION {ToSet(line) : line \in ToSet(lines)}

\* Marked or not, a text leaves out nothing that the scrollback still has, and
\* it ends where the cursor is.
NewestIsTold ==
  ~unseen =>
    /\ CharsOf(due) \cap CharsOf(Collected) \subseteq CharsOf(Text)
    /\ open => IsSuffix(Last(due), Last(Text))

\* A line that a program has ended is noticed.  A wrapped line or a step below
\* the cursor is not taken for one, as long as the line's rows are on the screen.
NewLineCounts ==
  ~unseen =>
    /\ ended => HasNewLine
    /\ HasNewLine =>
         \/ ended \/ earlier # <<>> \/ Full
         \/ \E r \in (startRow + 1)..Len(back) : back[r].wrapped
=============================================================================
