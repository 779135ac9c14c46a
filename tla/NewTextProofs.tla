--------------------------- MODULE NewTextProofs ---------------------------
(***************************************************************************)
(* A completed line is noticed, and nothing else is taken for one: proved  *)
(* for every size of the terminal and of the scrollback.  The rows are     *)
(* counted from the oldest of the scrollback, as NewText does.             *)
(***************************************************************************)
EXTENDS NewText, TLAPS, SequenceTheorems

\* Rows and their number, and what the texts are not needed for.
Shape ==
  /\ back \in Seq(Row) /\ Len(back) <= Scrollback
  /\ screen \in Seq(Row) /\ Len(screen) = Rows
  /\ cursor \in 1..Rows
  /\ startRow \in Nat
  /\ printed \in Nat
  /\ ended \in BOOLEAN /\ unseen \in BOOLEAN

\* The row i of the scrollback and the screen, and whether its line goes on.
RowIn(b, s, i) == IF i <= Len(b) THEN b[i] ELSE s[i - Len(b)]

WrapsIn(b, s, i) == RowIn(b, s, i).wrapped

Wraps(i) == WrapsIn(back, screen, i)

\* The number of the cursor's row.
At == Len(back) + cursor

\* The row of the cursor and those below it go on nowhere.
BelowInv == \A r \in cursor..Rows : ~screen[r].wrapped

\* Where a text starts and which of its rows go on, unless the lines count anyway.
RowsInv ==
  ~unseen /\ ~Full /\ earlier = <<>> =>
    /\ startRow < At
    /\ ended => \E i \in (startRow + 1)..(At - 1) : ~Wraps(i)
    /\ ~ended => \A i \in (startRow + 1)..(At - 1) : Wraps(i)

LineInv == Shape /\ BelowInv /\ RowsInv

LEMMA NoticedByRows ==
  ASSUME LineInv, NewTextAssumption
  PROVE  NewLineCounts
<1> USE NewTextAssumption
<1>1. CASE unseen \/ Full \/ earlier # <<>>
  BY <1>1 DEF NewLineCounts, HasNewLine
<1>2. CASE ~unseen /\ ~Full /\ earlier = <<>>
  <2>1. /\ Len(back) \in Nat /\ cursor \in 1..Rows /\ startRow \in Nat
        /\ ended => \E i \in (startRow + 1)..(At - 1) : ~Wraps(i)
        /\ ~ended => \A i \in (startRow + 1)..(At - 1) : Wraps(i)
    BY <1>2 DEF LineInv, Shape, RowsInv
  <2>2. ASSUME ended PROVE HasNewLine
    <3>1. PICK i \in (startRow + 1)..(At - 1) : ~Wraps(i) BY <2>1, <2>2
    <3>2. i - 1 \in startRow..(Len(back) + cursor - 2) BY <2>1, <3>1 DEF At
    <3>3. (i - 1) + 1 - Len(back) = i - Len(back) BY <2>1, <3>1 DEF At
    <3>4. i - 1 < Len(back) \/ ~screen[(i - 1) + 1 - Len(back)].wrapped
      BY <2>1, <3>1, <3>3 DEF Wraps, WrapsIn, RowIn, At
    <3> QED BY <3>2, <3>4 DEF HasNewLine
  <2>3. ASSUME ~ended, HasNewLine PROVE \E r \in (startRow + 1)..Len(back) : back[r].wrapped
    <3>1. PICK r \in startRow..(Len(back) + cursor - 2) :
            r < Len(back) \/ ~screen[r + 1 - Len(back)].wrapped
      BY <1>2, <2>3 DEF HasNewLine
    <3>2. r + 1 \in (startRow + 1)..(At - 1) BY <2>1, <3>1 DEF At
    <3>3. Wraps(r + 1) BY <2>1, <2>3, <3>2
    <3>4. r + 1 <= Len(back) BY <2>1, <3>1, <3>3 DEF Wraps, WrapsIn, RowIn
    <3> QED BY <2>1, <3>2, <3>3, <3>4 DEF Wraps, WrapsIn, RowIn
  <2> QED BY <1>2, <2>2, <2>3 DEF NewLineCounts
<1> QED BY <1>1, <1>2

\* A screen that scrolls into a scrollback with room: no row gets another number.
LEMMA ScrollKeepsNumbers ==
  ASSUME NewTextAssumption, NEW b \in Seq(Row), NEW s \in Seq(Row), Len(s) = Rows,
         NEW row \in Row
  PROVE  LET b2 == Append(b, Head(s))
             s2 == Append(Tail(s), row)
         IN  /\ b2 \in Seq(Row) /\ Len(b2) = Len(b) + 1
             /\ s2 \in Seq(Row) /\ Len(s2) = Rows /\ s2[Rows] = row
             /\ \A r \in 1..(Rows - 1) : s2[r] = s[r + 1]
             /\ \A i \in 1..(Len(b) + Rows) : RowIn(b2, s2, i) = RowIn(b, s, i)
<1> USE NewTextAssumption DEF NewTextAssumption
<1> DEFINE b2 == Append(b, Head(s))
           s2 == Append(Tail(s), row)
<1>1. s # <<>> /\ Rows \in Nat /\ Rows > 1 /\ Len(b) \in Nat OBVIOUS
<1>2. Head(s) = s[1] /\ s[1] \in Row /\ Tail(s) \in Seq(Row) /\ Len(Tail(s)) = Rows - 1
      /\ \A r \in 1..(Rows - 1) : Tail(s)[r] = s[r + 1]
  BY <1>1, HeadTailProperties
<1>3. b2 \in Seq(Row) /\ Len(b2) = Len(b) + 1 /\ b2[Len(b) + 1] = s[1]
      /\ \A i \in 1..Len(b) : b2[i] = b[i]
  BY <1>2, AppendProperties
<1>4. s2 \in Seq(Row) /\ Len(s2) = Rows /\ s2[Rows] = row
      /\ \A r \in 1..(Rows - 1) : s2[r] = s[r + 1]
  BY <1>1, <1>2, AppendProperties
<1> HIDE DEF b2, s2
<1>5. ASSUME NEW i \in 1..(Len(b) + Rows) PROVE RowIn(b2, s2, i) = RowIn(b, s, i)
  <2>1. CASE i <= Len(b) BY <1>1, <1>3, <2>1 DEF RowIn
  <2>2. CASE i = Len(b) + 1 BY <1>1, <1>3, <2>2 DEF RowIn
  <2>3. CASE i > Len(b) + 1
    <3>1. i - Len(b2) \in 1..(Rows - 1) /\ (i - Len(b2)) + 1 = i - Len(b)
          /\ ~(i <= Len(b)) /\ ~(i <= Len(b2))
      BY <1>1, <1>3, <2>3
    <3>2. s2[i - Len(b2)] = s[i - Len(b)] BY <1>4, <3>1
    <3> QED BY <3>1, <3>2 DEF RowIn
  <2> QED BY <1>1, <2>1, <2>2, <2>3
<1> QED BY <1>3, <1>4, <1>5 DEF b2, s2

\* A full scrollback drops a row for each it gets.
LEMMA FullStaysFull ==
  ASSUME NewTextAssumption, NEW b \in Seq(Row), Len(b) = Scrollback, NEW row \in Row
  PROVE  Append(Tail(b), row) \in Seq(Row) /\ Len(Append(Tail(b), row)) = Scrollback
<1>1. b # <<>> /\ Len(b) \in Nat BY DEF NewTextAssumption
<1>2. Tail(b) \in Seq(Row) /\ Len(Tail(b)) = Len(b) - 1 BY <1>1, HeadTailProperties
<1> QED BY <1>1, <1>2, AppendProperties
-----------------------------------------------------------------------------
(* The steps                                                               *)

LEMMA BlankTyped == Blank \in Row /\ ~Blank.wrapped
BY DEF Blank, RowOf, Row, Lines

LEMMA OneCharacter == ASSUME NEW c \in Nat PROVE RowOf(<<c>>) \in Row /\ ~RowOf(<<c>>).wrapped
<1>1. <<c>> \in Seq(Nat) OBVIOUS
<1> QED BY <1>1 DEF RowOf, Row, Lines

\* The rows keep their numbers and the cursor its row, or there is no room.
LEMMA SameNumbers ==
  ASSUME LineInv, Shape', BelowInv',
         UNCHANGED <<startRow, earlier, ended, unseen>>,
         Full => Full',
         ~Full => At' = At /\ \A i \in 1..(At - 1) : Wraps(i)' = Wraps(i)
  PROVE  LineInv'
<1>1. SUFFICES ASSUME ~unseen /\ ~Full' /\ earlier = <<>>
               PROVE  /\ startRow < At'
                      /\ ended => \E i \in (startRow + 1)..(At' - 1) : ~Wraps(i)'
                      /\ ~ended => \A i \in (startRow + 1)..(At' - 1) : Wraps(i)'
  BY DEF LineInv, RowsInv
<1>2. /\ ~Full /\ startRow \in Nat /\ At \in Nat /\ At' = At
      /\ \A i \in 1..(At - 1) : Wraps(i)' = Wraps(i)
  BY <1>1 DEF LineInv, Shape, At
<1>3. /\ startRow < At
      /\ ended => \E i \in (startRow + 1)..(At - 1) : ~Wraps(i)
      /\ ~ended => \A i \in (startRow + 1)..(At - 1) : Wraps(i)
  BY <1>1, <1>2 DEF LineInv, RowsInv
<1>4. (startRow + 1)..(At - 1) \subseteq 1..(At - 1) BY <1>2
<1> QED BY <1>2, <1>3, <1>4

LEMMA DownKeepsLines ==
  ASSUME LineInv, NewTextAssumption,
         NEW rows \in Seq(Row), Len(rows) = Rows, NEW row \in Row, ~row.wrapped,
         \A r \in 1..Rows : r # cursor => rows[r].wrapped = screen[r].wrapped,
         Down(rows, row),
         UNCHANGED <<startRow, earlier, unseen>>, printed' \in Nat,
         \/ ended' = TRUE /\ ~rows[cursor].wrapped
         \/ ended' = ended /\ rows[cursor].wrapped
  PROVE  LineInv'
<1> USE NewTextAssumption DEF NewTextAssumption
<1>1. /\ back \in Seq(Row) /\ Len(back) \in Nat /\ Len(back) <= Scrollback
      /\ screen \in Seq(Row) /\ Len(screen) = Rows /\ cursor \in 1..Rows /\ Rows \in Nat
      /\ startRow \in Nat /\ At = Len(back) + cursor /\ At \in Nat
  BY DEF LineInv, Shape, At
<1>2. /\ Shape' /\ BelowInv' /\ (Full => Full')
      /\ ~Full => /\ At' = At + 1
                  /\ \A i \in 1..At : Wraps(i)' = WrapsIn(back, rows, i)
  <2>1. CASE cursor < Rows
    <3>1. screen' = [rows EXCEPT ![cursor + 1] = row] /\ cursor' = cursor + 1 /\ back' = back
      BY <2>1 DEF Down
    <3>2. /\ screen' \in Seq(Row) /\ Len(screen') = Rows /\ screen'[cursor + 1] = row
          /\ \A r \in 1..Rows : r # cursor + 1 => screen'[r] = rows[r]
      BY <1>1, <2>1, <3>1
    <3>3. Shape'
      <4>1. ended' \in BOOLEAN /\ unseen' \in BOOLEAN BY DEF LineInv, Shape
      <4> QED BY <1>1, <2>1, <3>1, <3>2, <4>1 DEF Shape
    <3>4. BelowInv'
      <4> SUFFICES ASSUME NEW r \in (cursor + 1)..Rows PROVE ~screen'[r].wrapped
        BY <3>1 DEF BelowInv
      <4>1. r \in cursor..Rows /\ r \in 1..Rows /\ r # cursor BY <1>1
      <4>2. ~screen[r].wrapped BY <4>1 DEF LineInv, BelowInv
      <4>3. CASE r = cursor + 1 BY <3>2, <4>3
      <4>4. CASE r # cursor + 1 BY <3>2, <4>1, <4>2, <4>4
      <4> QED BY <4>3, <4>4
    <3>5. ASSUME NEW i \in 1..At PROVE Wraps(i)' = WrapsIn(back, rows, i)
      <4>1. CASE i <= Len(back) BY <1>1, <3>1, <4>1 DEF Wraps, WrapsIn, RowIn
      <4>2. CASE ~(i <= Len(back))
        <5>1. i - Len(back) \in 1..Rows /\ i - Len(back) # cursor + 1 BY <1>1, <4>2
        <5>2. screen'[i - Len(back)] = rows[i - Len(back)] BY <3>2, <5>1
        <5> QED BY <3>1, <4>2, <5>2 DEF Wraps, WrapsIn, RowIn
      <4> QED BY <4>1, <4>2
    <3> QED BY <1>1, <3>1, <3>3, <3>4, <3>5 DEF Full, At
  <2>2. CASE cursor = Rows
    <3>1. /\ screen' = Append(Tail(rows), row) /\ cursor' = cursor
          /\ back' = Append(IF Full THEN Tail(back) ELSE back, Head(rows))
      BY <1>1, <2>2 DEF Down, Scrolls
    <3>2. /\ screen' \in Seq(Row) /\ Len(screen') = Rows /\ screen'[Rows] = row
          /\ Head(rows) \in Row
      BY <1>1, <3>1, ScrollKeepsNumbers, HeadTailProperties
    <3>3. back' \in Seq(Row) /\ Len(back') <= Scrollback /\ (Full => Full')
      <4>1. CASE Full BY <1>1, <3>1, <3>2, <4>1, FullStaysFull DEF Full
      <4>2. CASE ~Full
        <5>1. back' = Append(back, Head(rows)) /\ Len(back) < Scrollback
          BY <1>1, <3>1, <4>2 DEF Full
        <5> QED BY <1>1, <3>2, <4>2, <5>1, AppendProperties
      <4> QED BY <4>1, <4>2
    <3>4. Shape'
      <4>1. ended' \in BOOLEAN /\ unseen' \in BOOLEAN BY DEF LineInv, Shape
      <4> QED BY <1>1, <2>2, <3>1, <3>2, <3>3, <4>1 DEF Shape
    <3>5. BelowInv' BY <1>1, <2>2, <3>1, <3>2 DEF BelowInv
    <3>6. ASSUME ~Full
          PROVE  /\ At' = At + 1
                 /\ \A i \in 1..At : Wraps(i)' = WrapsIn(back, rows, i)
      <4>1. back' = Append(back, Head(rows)) BY <3>1, <3>6
      <4>2. Len(back') = Len(back) + 1
            /\ \A i \in 1..(Len(back) + Rows) : WrapsIn(back', screen', i) = WrapsIn(back, rows, i)
        <5> DEFINE b2 == Append(back, Head(rows))
                   s2 == Append(Tail(rows), row)
        <5>1. Len(b2) = Len(back) + 1
              /\ \A i \in 1..(Len(back) + Rows) : WrapsIn(b2, s2, i) = WrapsIn(back, rows, i)
          BY <1>1, ScrollKeepsNumbers DEF WrapsIn
        <5>2. back' = b2 /\ screen' = s2 BY <3>1, <4>1
        <5> HIDE DEF b2, s2
        <5> QED BY <5>1, <5>2
      <4> QED BY <1>1, <2>2, <3>1, <4>2 DEF Wraps, At
    <3> QED BY <3>3, <3>4, <3>5, <3>6
  <2> QED BY <1>1, <2>1, <2>2
<1>3. RowsInv'
  <2>1. SUFFICES ASSUME ~unseen /\ ~Full' /\ earlier = <<>>
                 PROVE  /\ startRow < At'
                        /\ ended' => \E i \in (startRow + 1)..(At' - 1) : ~Wraps(i)'
                        /\ ~ended' => \A i \in (startRow + 1)..(At' - 1) : Wraps(i)'
    BY DEF RowsInv
  <2>2. ~Full /\ At' = At + 1 /\ \A i \in 1..At : Wraps(i)' = WrapsIn(back, rows, i)
    BY <1>2, <2>1
  <2>3. /\ startRow < At
        /\ ended => \E i \in (startRow + 1)..(At - 1) : ~Wraps(i)
        /\ ~ended => \A i \in (startRow + 1)..(At - 1) : Wraps(i)
    BY <2>1, <2>2 DEF LineInv, RowsInv
  <2>4. WrapsIn(back, rows, At) = rows[cursor].wrapped
    <3>1. ~(At <= Len(back)) /\ At - Len(back) = cursor BY <1>1
    <3> QED BY <3>1 DEF WrapsIn, RowIn
  <2>5. ASSUME NEW i \in 1..(At - 1) PROVE WrapsIn(back, rows, i) = Wraps(i)
    <3>1. CASE i <= Len(back) BY <3>1 DEF Wraps, WrapsIn, RowIn
    <3>2. CASE ~(i <= Len(back))
      <4>1. i - Len(back) \in 1..Rows /\ i - Len(back) # cursor BY <1>1, <3>2
      <4> QED BY <3>2, <4>1 DEF Wraps, WrapsIn, RowIn
    <3> QED BY <3>1, <3>2
  <2>6. At \in (startRow + 1)..(At' - 1) BY <1>1, <2>2, <2>3
  <2>7. ended' => \E i \in (startRow + 1)..(At' - 1) : ~Wraps(i)'
    <3>1. CASE ~rows[cursor].wrapped BY <1>1, <2>2, <2>4, <2>6, <3>1
    <3>2. CASE ended' = ended /\ rows[cursor].wrapped
      <4> SUFFICES ASSUME ended PROVE \E i \in (startRow + 1)..(At' - 1) : ~Wraps(i)'
        BY <3>2
      <4>1. PICK i \in (startRow + 1)..(At - 1) : ~Wraps(i) BY <2>3
      <4>2. i \in (startRow + 1)..(At' - 1) /\ i \in 1..(At - 1) /\ i \in 1..At
        BY <1>1, <2>2, <4>1
      <4> QED BY <2>2, <2>5, <4>1, <4>2
    <3> QED BY <3>1, <3>2
  <2>8. ~ended' => \A i \in (startRow + 1)..(At' - 1) : Wraps(i)'
    <3> SUFFICES ASSUME ~ended', NEW i \in (startRow + 1)..(At' - 1) PROVE Wraps(i)'
      OBVIOUS
    <3>1. ~ended /\ rows[cursor].wrapped OBVIOUS
    <3>2. CASE i = At
      <4>1. i \in 1..At BY <1>1, <3>2
      <4>2. Wraps(i)' = WrapsIn(back, rows, i) BY <2>2, <4>1
      <4>3. WrapsIn(back, rows, i) BY <2>4, <3>1, <3>2
      <4> QED BY <4>2, <4>3
    <3>3. CASE i # At
      <4>1. i \in (startRow + 1)..(At - 1) /\ i \in 1..(At - 1) /\ i \in 1..At
        BY <1>1, <2>2, <3>3
      <4> QED BY <2>2, <2>3, <2>5, <3>1, <4>1
    <3> QED BY <3>2, <3>3
  <2> QED BY <1>1, <2>2, <2>3, <2>7, <2>8
<1> QED BY <1>2, <1>3 DEF LineInv

LEMMA PutKeepsLines ==
  ASSUME LineInv, NewTextAssumption, Put
  PROVE  LineInv'
<1> USE NewTextAssumption DEF NewTextAssumption
<1>1. /\ screen \in Seq(Row) /\ Len(screen) = Rows /\ cursor \in 1..Rows
      /\ back \in Seq(Row) /\ Len(back) \in Nat /\ Len(back) <= Scrollback
      /\ printed \in Nat /\ startRow \in Nat /\ ended \in BOOLEAN /\ unseen \in BOOLEAN
      /\ screen[cursor] \in Row /\ ~screen[cursor].wrapped
  BY DEF LineInv, Shape, BelowInv
<1>2. printed' \in Nat /\ UNCHANGED <<startRow, earlier, ended, unseen>>
  BY <1>1 DEF Put, start
<1>3. CASE Len(screen[cursor].text) < Cols
  <2>1. /\ screen' = [screen EXCEPT ![cursor].text = Append(@, printed')]
        /\ back' = back /\ cursor' = cursor
    BY <1>3 DEF Put
  <2>2. [screen[cursor] EXCEPT !.text = Append(@, printed')] \in Row
    BY <1>1, <1>2, AppendProperties DEF Row, Lines
  <2>3. /\ screen' \in Seq(Row) /\ Len(screen') = Rows
        /\ \A r \in 1..Rows : screen'[r].wrapped = screen[r].wrapped
    BY <1>1, <2>1, <2>2 DEF Row
  <2>4. Shape' BY <1>1, <1>2, <2>1, <2>3 DEF Shape
  <2>5. BelowInv' BY <1>1, <2>1, <2>3 DEF BelowInv, LineInv
  <2>6. ASSUME NEW i \in 1..(At - 1) PROVE Wraps(i)' = Wraps(i)
    <3>1. CASE i <= Len(back) BY <2>1, <3>1 DEF Wraps, WrapsIn, RowIn
    <3>2. CASE ~(i <= Len(back))
      <4>1. i - Len(back) \in 1..Rows BY <1>1, <3>2 DEF At
      <4> QED BY <2>1, <2>3, <3>2, <4>1 DEF Wraps, WrapsIn, RowIn
    <3> QED BY <3>1, <3>2
  <2> QED BY <1>2, <2>1, <2>4, <2>5, <2>6, SameNumbers DEF At, Full
<1>4. CASE ~(Len(screen[cursor].text) < Cols)
  <2> DEFINE rows == [screen EXCEPT ![cursor].wrapped = TRUE]
             row == RowOf(<<printed'>>)
  <2>1. Down(rows, row) BY <1>4 DEF Put
  <2>2. row \in Row /\ ~row.wrapped BY <1>2, OneCharacter
  <2>3. [screen[cursor] EXCEPT !.wrapped = TRUE] \in Row BY <1>1 DEF Row
  <2>4. /\ rows \in Seq(Row) /\ Len(rows) = Rows /\ rows[cursor].wrapped
        /\ \A r \in 1..Rows : r # cursor => rows[r].wrapped = screen[r].wrapped
    BY <1>1, <2>3 DEF Row
  <2> HIDE DEF rows, row
  <2> QED BY <1>2, <2>1, <2>2, <2>4, DownKeepsLines
<1> QED BY <1>3, <1>4

LEMMA NewLineKeepsLines ==
  ASSUME LineInv, NewTextAssumption, NewLine
  PROVE  LineInv'
<1>1. /\ screen \in Seq(Row) /\ Len(screen) = Rows /\ printed \in Nat
      /\ ~screen[cursor].wrapped
  BY NewTextAssumption DEF LineInv, Shape, BelowInv, NewTextAssumption
<1>2. /\ Down(screen, Blank) /\ ended' = TRUE /\ printed' = printed
      /\ UNCHANGED <<startRow, earlier, unseen>>
  BY DEF NewLine, start
<1> QED BY <1>1, <1>2, BlankTyped, DownKeepsLines

LEMMA StepBelowKeepsLines ==
  ASSUME LineInv, NewTextAssumption, StepBelow
  PROVE  LineInv'
<1> USE NewTextAssumption DEF NewTextAssumption
<1>1. /\ screen \in Seq(Row) /\ Len(screen) = Rows /\ cursor = Rows /\ cursor' = Rows - 1
      /\ back \in Seq(Row) /\ Len(back) \in Nat /\ Len(back) <= Scrollback
      /\ printed' \in Nat /\ startRow' \in Nat /\ ended' \in BOOLEAN /\ unseen' \in BOOLEAN
      /\ UNCHANGED <<startRow, earlier, ended, unseen>>
  BY DEF LineInv, Shape, StepBelow, start
<1> DEFINE b2 == Append(back, Head(screen))
           s2 == Append(Tail(screen), Blank)
<1>2. /\ screen' = s2 /\ (~Full => back' = b2)
      /\ (Full => back' = Append(Tail(back), Head(screen)))
  BY DEF StepBelow, Scrolls
<1>3. /\ b2 \in Seq(Row) /\ Len(b2) = Len(back) + 1
      /\ s2 \in Seq(Row) /\ Len(s2) = Rows /\ s2[Rows] = Blank
      /\ \A r \in 1..(Rows - 1) : s2[r] = screen[r + 1]
      /\ \A i \in 1..(Len(back) + Rows) : WrapsIn(b2, s2, i) = WrapsIn(back, screen, i)
  BY <1>1, BlankTyped, ScrollKeepsNumbers DEF WrapsIn
<1>4. Head(screen) \in Row BY <1>1, HeadTailProperties
<1> HIDE DEF b2, s2
<1>5. back' \in Seq(Row) /\ Len(back') <= Scrollback /\ (Full => Full')
  <2>1. CASE Full BY <1>1, <1>2, <1>4, <2>1, FullStaysFull DEF Full
  <2>2. CASE ~Full
    <3>1. Len(back) < Scrollback BY <1>1, <2>2 DEF Full
    <3> QED BY <1>1, <1>2, <1>3, <2>2, <3>1
  <2> QED BY <2>1, <2>2
<1>6. Shape' BY <1>1, <1>2, <1>3, <1>5 DEF Shape
<1>7. BelowInv'
  <2> SUFFICES ASSUME NEW r \in (Rows - 1)..Rows PROVE ~s2[r].wrapped
    BY <1>1, <1>2 DEF BelowInv
  <2>1. ~screen[Rows].wrapped BY <1>1 DEF LineInv, BelowInv
  <2>2. r = Rows \/ (r = Rows - 1 /\ s2[r] = screen[Rows]) BY <1>3
  <2> QED BY <1>3, <2>1, <2>2, BlankTyped
<1>8. ~Full => At' = At /\ \A i \in 1..(At - 1) : Wraps(i)' = Wraps(i)
  <2> SUFFICES ASSUME ~Full
               PROVE  At' = At /\ \A i \in 1..(At - 1) : Wraps(i)' = Wraps(i)
    OBVIOUS
  <2>1. back' = b2 /\ screen' = s2 BY <1>2
  <2>2. At' = At
    <3>1. Len(back') = Len(back) + 1 BY <1>3, <2>1
    <3> QED BY <1>1, <3>1 DEF At
  <2>3. \A i \in 1..(At - 1) : i \in 1..(Len(back) + Rows) BY <1>1 DEF At
  <2> QED BY <1>3, <2>1, <2>2, <2>3 DEF Wraps
<1> QED BY <1>1, <1>5, <1>6, <1>7, <1>8, SameNumbers

LEMMA ErasedTyped ==
  ASSUME LineInv, NewTextAssumption, Erased
  PROVE  /\ back' \in Seq(Row) /\ Len(back') <= Scrollback
         /\ screen' \in Seq(Row) /\ Len(screen') = Rows /\ cursor' \in 1..Rows
         /\ BelowInv'
<1> USE NewTextAssumption DEF NewTextAssumption
<1>1. back' = back /\ cursor' = 1 /\ screen' = [r \in 1..Rows |-> Blank] BY DEF Erased
<1>2. screen' \in Seq(Row) /\ Len(screen') = Rows /\ \A r \in 1..Rows : screen'[r] = Blank
  BY <1>1, BlankTyped
<1>3. BelowInv' BY <1>1, <1>2, BlankTyped DEF BelowInv
<1> QED BY <1>1, <1>2, <1>3 DEF LineInv, Shape

LEMMA LineStep ==
  ASSUME LineInv, NewTextAssumption, [Next]_vars
  PROVE  LineInv'
<1>1. CASE Put BY <1>1, PutKeepsLines
<1>2. CASE NewLine BY <1>2, NewLineKeepsLines
<1>3. CASE StepBelow BY <1>3, StepBelowKeepsLines
<1>4. CASE Clear
  <2>1. /\ Erased /\ startRow' = Len(back) /\ ended' = FALSE
        /\ printed' = printed /\ unseen' = unseen
    BY <1>4 DEF Clear
  <2>2. Len(back) \in Nat /\ back' = back /\ cursor' = 1 BY <2>1 DEF LineInv, Shape, Erased
  <2>3. Shape' BY <2>1, <2>2, ErasedTyped DEF LineInv, Shape
  <2>4. At' = Len(back) + 1 BY <2>2 DEF At
  <2>5. (startRow' + 1)..(At' - 1) = {} /\ startRow' < At' BY <2>1, <2>2, <2>4
  <2>6. RowsInv' BY <2>1, <2>5 DEF RowsInv
  <2> QED BY <2>1, <2>3, <2>6, ErasedTyped DEF LineInv
<1>5. CASE ClearUnseen
  <2>1. /\ Erased /\ unseen' = TRUE /\ printed' = printed /\ startRow' = startRow
        /\ ended' = ended
    BY <1>5 DEF ClearUnseen, start
  <2>2. Shape' BY <2>1, ErasedTyped DEF LineInv, Shape
  <2>3. RowsInv' BY <2>1 DEF RowsInv
  <2> QED BY <2>1, <2>2, <2>3, ErasedTyped DEF LineInv
<1>6. CASE Miss
  <2>1. /\ UNCHANGED <<back, screen, cursor, startRow, earlier, ended, unseen>>
        /\ printed' \in Nat
    BY <1>6 DEF Miss, emulator, start, LineInv, Shape
  <2> QED BY <2>1 DEF LineInv, Shape, BelowInv, RowsInv, At, Wraps, Full
<1>7. CASE Take
  <2>1. /\ back' = <<>> /\ startRow' = cursor - 1 /\ ended' = FALSE /\ unseen' = FALSE
        /\ UNCHANGED <<screen, cursor, printed>>
    BY <1>7 DEF Take
  <2>2. cursor \in 1..Rows /\ Rows \in Nat /\ cursor - 1 \in Nat
    BY NewTextAssumption DEF LineInv, Shape, NewTextAssumption
  <2>3. back' \in Seq(Row) /\ Len(back') = 0 /\ Len(back') <= Scrollback
    BY <2>1, NewTextAssumption DEF NewTextAssumption
  <2>4. Shape' BY <2>1, <2>2, <2>3 DEF LineInv, Shape
  <2>5. At' = cursor BY <2>1, <2>2, <2>3 DEF At
  <2>6. (startRow' + 1)..(At' - 1) = {} /\ startRow' < At' BY <2>1, <2>2, <2>5
  <2>7. RowsInv' BY <2>1, <2>6 DEF RowsInv
  <2> QED BY <2>1, <2>4, <2>7 DEF LineInv, BelowInv
<1>8. CASE UNCHANGED vars
  BY <1>8 DEF vars, emulator, start, LineInv, Shape, BelowInv, RowsInv, At, Wraps, Full
<1> QED BY <1>1, <1>2, <1>3, <1>4, <1>5, <1>6, <1>7, <1>8 DEF Next

LEMMA LineInit ==
  ASSUME Init, NewTextAssumption
  PROVE  LineInv
<1> USE NewTextAssumption DEF NewTextAssumption
<1>1. back = <<>> /\ cursor = 1 /\ startRow = 0 /\ printed = 1 /\ ended = FALSE
      /\ unseen = FALSE
  BY DEF Init
<1>2. back \in Seq(Row) /\ Len(back) = 0 BY <1>1
<1>3. RowOf(<<1>>) \in Row /\ ~RowOf(<<1>>).wrapped
  BY OneCharacter
<1>4. screen \in Seq(Row) /\ Len(screen) = Rows /\ \A r \in 1..Rows : ~screen[r].wrapped
  BY <1>3, BlankTyped DEF Init
<1>5. At = 1 BY <1>1, <1>2 DEF At
<1>6. (startRow + 1)..(At - 1) = {} BY <1>1, <1>5
<1>7. Shape
  <2>1. cursor \in 1..Rows /\ Len(back) <= Scrollback BY <1>1, <1>2
  <2> QED BY <1>1, <1>2, <1>4, <2>1 DEF Shape
<1>8. RowsInv BY <1>1, <1>5, <1>6 DEF RowsInv
<1> QED BY <1>1, <1>4, <1>7, <1>8 DEF LineInv, BelowInv

\* For every terminal and scrollback: a line that was ended is noticed before
\* the next text, and a wrapped line or a step below the cursor is not, as long as
\* the rows of the line are on the screen.
THEOREM LinesAreNoticed == Spec => []NewLineCounts
<1>1. Init => LineInv BY LineInit, NewTextAssumption
<1>2. LineInv /\ [Next]_vars => LineInv' BY LineStep, NewTextAssumption
<1>3. LineInv => NewLineCounts BY NoticedByRows, NewTextAssumption
<1> QED BY <1>1, <1>2, <1>3, PTL DEF Spec
=============================================================================
