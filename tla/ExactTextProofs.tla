-------------------------- MODULE ExactTextProofs --------------------------
(***************************************************************************)
(* The text of an event is exact unless it is marked, and its newest part  *)
(* is told in any case: proved for every size of the terminal and of the   *)
(* scrollback.  The lines that have text are selected by a recursive       *)
(* function, about which the first lemmas say what is needed.              *)
(***************************************************************************)
EXTENDS NewTextProofs, WellFoundedInduction

TextLines == Lines \ {<<>>}

-----------------------------------------------------------------------------
(* Induction: from the least number of a set of numbers, as the induction  *)
(* theorems of the library are about operators.                            *)

LEMMA SmallerIsWellFounded ==
  IsWellFoundedOn({ss \in Nat \X Nat : ss[1] < ss[2]}, Nat)
BY NatLessThanWellFounded DEF OpToRel

LEMMA LeastOf ==
  ASSUME NEW S \in SUBSET Nat, S # {}
  PROVE  \E n \in S : \A m \in S : n <= m
<1> DEFINE Smaller == {ss \in Nat \X Nat : ss[1] < ss[2]}
<1>1. IsWellFoundedOn(Smaller, Nat) BY SmallerIsWellFounded
<1>2. \A m, n \in Nat : <<m, n>> \notin Smaller => n <= m OBVIOUS
<1> HIDE DEF Smaller
<1>3. \E n \in S : \A m \in S : <<m, n>> \notin Smaller BY <1>1, WFMin
<1> QED BY <1>2, <1>3

LEMMA Induction ==
  ASSUME NEW m \in Nat, NEW S, 0 \in S, \A n \in 1..m : n - 1 \in S => n \in S
  PROVE  0..m \subseteq S
<1> DEFINE Others == {n \in 0..m : n \notin S}
<1>1. SUFFICES ASSUME Others # {} PROVE FALSE OBVIOUS
<1>2. PICK n \in Others : \A k \in Others : n <= k
  <2>1. Others \in SUBSET Nat OBVIOUS
  <2> HIDE DEF Others
  <2> QED BY <1>1, <2>1, LeastOf
<1>3. n \in 1..m /\ n - 1 \in 0..m /\ ~(n <= n - 1) BY <1>2
<1>4. n - 1 \in S BY <1>2, <1>3
<1> QED BY <1>2, <1>3, <1>4

-----------------------------------------------------------------------------
(* The lines with text                                                     *)

\* f[n] is the selection from the first n lines, up to m.
Selects(f, lines, m) ==
  /\ f[0] = <<>>
  /\ \A n \in 1..m :
       f[n] = IF HasText(lines[n]) THEN Append(f[n - 1], lines[n]) ELSE f[n - 1]

LEMMA SelectsUnique ==
  ASSUME NEW lines, NEW m \in Nat, NEW f, NEW g, Selects(f, lines, m), Selects(g, lines, m)
  PROVE  \A n \in 0..m : f[n] = g[n]
<1> DEFINE S == {n \in 0..m : f[n] = g[n]}
<1>1. 0 \in S BY DEF Selects
<1>2. ASSUME NEW n \in 1..m, n - 1 \in S PROVE n \in S
  <2>1. f[n - 1] = g[n - 1] BY <1>2
  <2> QED BY <2>1 DEF Selects
<1> HIDE DEF S
<1>3. 0..m \subseteq S BY <1>1, <1>2, Induction
<1> QED BY <1>3 DEF S

LEMMA SelectsExists ==
  ASSUME NEW lines \in Seq(Lines), NEW m \in 0..Len(lines)
  PROVE  \E f \in [0..m -> Seq(TextLines)] : Selects(f, lines, m)
<1> DEFINE S == {n \in 0..m : \E f \in [0..n -> Seq(TextLines)] : Selects(f, lines, n)}
<1>1. 0 \in S
  <2> DEFINE f == [n \in 0..0 |-> <<>>]
  <2>1. <<>> \in Seq(TextLines) BY EmptySeq
  <2>2. f \in [0..0 -> Seq(TextLines)] BY <2>1
  <2>3. f[0] = <<>> /\ 1..0 = {} OBVIOUS
  <2> HIDE DEF f
  <2>4. Selects(f, lines, 0) BY <2>3 DEF Selects
  <2>5. 0 \in 0..m OBVIOUS
  <2> QED BY <2>2, <2>4, <2>5
<1>2. ASSUME NEW n \in 1..m, n - 1 \in S PROVE n \in S
  <2>1. PICK f \in [0..(n - 1) -> Seq(TextLines)] : Selects(f, lines, n - 1) BY <1>2
  <2> DEFINE last == IF HasText(lines[n]) THEN Append(f[n - 1], lines[n]) ELSE f[n - 1]
             g == [k \in 0..n |-> IF k = n THEN last ELSE f[k]]
  <2>2. last \in Seq(TextLines)
    <3>1. f[n - 1] \in Seq(TextLines) /\ lines[n] \in Lines OBVIOUS
    <3>2. HasText(lines[n]) => lines[n] \in TextLines BY <3>1 DEF HasText, TextLines
    <3> QED BY <3>1, <3>2, AppendProperties
  <2>3. g \in [0..n -> Seq(TextLines)] BY <2>2
  <2>4. Selects(g, lines, n)
    <3>1. g[0] = <<>> BY <2>1 DEF Selects
    <3>2. ASSUME NEW k \in 1..n
          PROVE  g[k] = IF HasText(lines[k]) THEN Append(g[k - 1], lines[k]) ELSE g[k - 1]
      <4>1. g[k - 1] = f[k - 1] OBVIOUS
      <4>2. CASE k = n BY <4>1, <4>2
      <4>3. CASE k # n
        <5>1. k \in 1..(n - 1) /\ g[k] = f[k] BY <4>3
        <5> QED BY <2>1, <4>1, <5>1 DEF Selects
      <4> QED BY <4>2, <4>3
    <3> HIDE DEF g
    <3> QED BY <3>1, <3>2 DEF Selects
  <2> HIDE DEF g
  <2> QED BY <2>3, <2>4
<1> HIDE DEF S
<1>3. 0..m \subseteq S BY <1>1, <1>2, Induction
<1> QED BY <1>3 DEF S

\* WithText is what such a function gives, and every such function gives it.
LEMMA WithTextSelects ==
  ASSUME NEW lines \in Seq(Lines)
  PROVE  /\ WithText(lines) \in Seq(TextLines)
         /\ \A f : Selects(f, lines, Len(lines)) => WithText(lines) = f[Len(lines)]
<1> DEFINE D == 0..Len(lines)
           Def(f) == [n \in D |->
             IF n = 0 THEN <<>>
             ELSE IF HasText(lines[n]) THEN Append(f[n - 1], lines[n]) ELSE f[n - 1]]
           first == CHOOSE f : f = Def(f)
<1>1. Len(lines) \in Nat OBVIOUS
<1>2. PICK f \in [D -> Seq(TextLines)] : Selects(f, lines, Len(lines)) BY <1>1, SelectsExists
<1>3. f = Def(f)
  <2>1. ASSUME NEW n \in D
        PROVE  f[n] = IF n = 0 THEN <<>>
                      ELSE IF HasText(lines[n]) THEN Append(f[n - 1], lines[n]) ELSE f[n - 1]
    <3>1. n = 0 \/ n \in 1..Len(lines) BY <1>1
    <3> QED BY <1>1, <1>2, <3>1 DEF Selects
  <2>2. f = [n \in D |-> f[n]] BY <1>2
  <2> QED BY <2>1, <2>2
<1>4. first = Def(first)
  <2> HIDE DEF Def
  <2> QED BY <1>3
<1>5. Selects(first, lines, Len(lines))
  <2>1. \A n \in D : first[n] = Def(first)[n] BY <1>4
  <2> HIDE DEF first
  <2> QED BY <1>1, <2>1 DEF Selects
<1>6. WithText(lines) = first[Len(lines)] BY DEF WithText
<1> HIDE DEF first, Def
<1>7. ASSUME NEW g, Selects(g, lines, Len(lines)) PROVE first[Len(lines)] = g[Len(lines)]
  BY <1>1, <1>5, <1>7, SelectsUnique
<1> QED BY <1>1, <1>2, <1>6, <1>7

LEMMA WithTextEmpty == WithText(<<>>) = <<>>
<1>1. <<>> \in Seq(Lines) /\ Len(<<>>) = 0 BY EmptySeq
<1> DEFINE f == [n \in {0} |-> <<>>]
<1>2. f[0] = <<>> /\ 1..0 = {} OBVIOUS
<1> HIDE DEF f
<1>3. Selects(f, <<>>, 0) BY <1>2 DEF Selects
<1> QED BY <1>1, <1>2, <1>3, WithTextSelects

LEMMA WithTextAppend ==
  ASSUME NEW lines \in Seq(Lines), NEW line \in Lines
  PROVE  WithText(Append(lines, line)) =
           IF HasText(line) THEN Append(WithText(lines), line) ELSE WithText(lines)
<1> DEFINE more == Append(lines, line)
           m == Len(lines)
<1>1. /\ more \in Seq(Lines) /\ Len(more) = m + 1 /\ m \in Nat
      /\ more[m + 1] = line /\ \A n \in 1..m : more[n] = lines[n]
  BY AppendProperties
<1> HIDE DEF more, m
<1>2. PICK f : Selects(f, more, m + 1)
  <2>1. m + 1 \in 0..Len(more) BY <1>1
  <2> QED BY <1>1, <2>1, SelectsExists
<1>3. WithText(more) = f[m + 1] BY <1>1, <1>2, WithTextSelects
<1>4. Selects(f, lines, m)
  <2>1. ASSUME NEW n \in 1..m
        PROVE  f[n] = IF HasText(lines[n]) THEN Append(f[n - 1], lines[n]) ELSE f[n - 1]
    <3>1. n \in 1..(m + 1) /\ more[n] = lines[n] BY <1>1
    <3> QED BY <1>2, <3>1 DEF Selects
  <2> QED BY <1>2, <2>1 DEF Selects
<1>5. WithText(lines) = f[m] BY <1>4, WithTextSelects DEF m
<1>6. f[m + 1] = IF HasText(line) THEN Append(f[m], line) ELSE f[m]
  <2>1. m + 1 \in 1..(m + 1) /\ (m + 1) - 1 = m BY <1>1
  <2> QED BY <1>1, <1>2, <2>1 DEF Selects
<1> QED BY <1>3, <1>5, <1>6 DEF more

LEMMA WithTextAll ==
  ASSUME NEW lines \in Seq(TextLines)
  PROVE  WithText(lines) = lines
<1> DEFINE m == Len(lines)
           f == [n \in 0..m |-> SubSeq(lines, 1, n)]
<1>1. lines \in Seq(Lines) /\ m \in Nat
  <2>1. TextLines \subseteq Lines BY DEF TextLines
  <2> QED BY <2>1, SeqMonotonic
<1>2. f[0] = <<>> /\ f[m] = lines
  <2>1. SubSeq(lines, 1, 0) = <<>> BY SubSeqEmpty
  <2>2. SubSeq(lines, 1, m) = lines BY SubSeqFull
  <2> QED BY <1>1, <2>1, <2>2
<1>3. ASSUME NEW n \in 1..m
      PROVE  f[n] = IF HasText(lines[n]) THEN Append(f[n - 1], lines[n]) ELSE f[n - 1]
  <2>1. lines[n] \in TextLines /\ HasText(lines[n]) BY <1>1 DEF TextLines, HasText
  <2>2. f[n] = SubSeq(lines, 1, n) /\ f[n - 1] = SubSeq(lines, 1, n - 1) BY <1>1
  <2>3. SubSeq(lines, 1, n - 1) \in Seq(TextLines)
    <3>1. \A i \in 1..(n - 1) : lines[i] \in TextLines BY <1>1
    <3> QED BY <1>1, <3>1, SubSeqProperties
  <2>4. SubSeq(lines, 1, n) = SubSeq(lines, 1, n - 1) \o <<lines[n]>>
    <3>1. 1 \in 1..Len(lines) /\ n \in 1..Len(lines) BY <1>1
    <3> QED BY <3>1, SubSeqRecursiveSecond
  <2>5. SubSeq(lines, 1, n) = Append(SubSeq(lines, 1, n - 1), lines[n])
    BY <2>1, <2>3, <2>4, AppendIsConcat
  <2> QED BY <2>1, <2>2, <2>5
<1>4. Selects(f, lines, m)
  <2> HIDE DEF f
  <2> QED BY <1>2, <1>3 DEF Selects
<1> HIDE DEF f
<1> QED BY <1>1, <1>2, <1>4, WithTextSelects

\* No line with text is left out.
LEMMA WithTextMembers ==
  ASSUME NEW lines \in Seq(Lines), NEW i \in 1..Len(lines), HasText(lines[i])
  PROVE  \E j \in 1..Len(WithText(lines)) : WithText(lines)[j] = lines[i]
<1> DEFINE m == Len(lines)
<1>1. m \in Nat OBVIOUS
<1>2. PICK f \in [0..m -> Seq(TextLines)] : Selects(f, lines, m)
  <2>1. m \in 0..Len(lines) BY <1>1
  <2> QED BY <2>1, SelectsExists
<1> DEFINE S == {n \in 0..m : i <= n => \E j \in 1..Len(f[n]) : f[n][j] = lines[i]}
<1>3. 0 \in S OBVIOUS
<1>4. ASSUME NEW n \in 1..m, n - 1 \in S PROVE n \in S
  <2> SUFFICES ASSUME i <= n PROVE \E j \in 1..Len(f[n]) : f[n][j] = lines[i] OBVIOUS
  <2>1. /\ f[n] = IF HasText(lines[n]) THEN Append(f[n - 1], lines[n]) ELSE f[n - 1]
        /\ f[n - 1] \in Seq(TextLines) /\ Len(f[n - 1]) \in Nat /\ lines[n] \in Lines
    <3>1. n - 1 \in 0..m /\ n \in 1..Len(lines) BY <1>1
    <3>2. f[n - 1] \in Seq(TextLines) /\ lines[n] \in Lines BY <1>2, <3>1
    <3> QED BY <1>2, <3>2 DEF Selects
  <2>2. HasText(lines[n]) =>
          /\ Len(f[n]) = Len(f[n - 1]) + 1
          /\ \A j \in 1..Len(f[n - 1]) : f[n][j] = f[n - 1][j]
          /\ f[n][Len(f[n - 1]) + 1] = lines[n]
    <3>1. HasText(lines[n]) => lines[n] \in TextLines BY <2>1 DEF TextLines, HasText
    <3> QED BY <2>1, <3>1, AppendProperties
  <2>3. CASE i = n
    <3>1. Len(f[n - 1]) + 1 \in 1..Len(f[n]) BY <2>1, <2>2, <2>3
    <3> QED BY <2>2, <2>3, <3>1
  <2>4. CASE i # n
    <3>1. i <= n - 1 BY <2>4
    <3>2. PICK j \in 1..Len(f[n - 1]) : f[n - 1][j] = lines[i] BY <1>4, <3>1
    <3>3. CASE HasText(lines[n])
      <4>1. j \in 1..Len(f[n]) BY <2>1, <2>2, <3>2, <3>3
      <4> QED BY <2>2, <3>2, <3>3, <4>1
    <3>4. CASE ~HasText(lines[n]) BY <2>1, <3>2, <3>4
    <3> QED BY <3>3, <3>4
  <2> QED BY <2>3, <2>4
<1> HIDE DEF S
<1>5. m \in S
  <2>1. 0..m \subseteq S BY <1>1, <1>3, <1>4, Induction
  <2> QED BY <1>1, <2>1
<1>6. WithText(lines) = f[m] BY <1>2, WithTextSelects
<1> QED BY <1>1, <1>5, <1>6 DEF S

LEMMA ReplaceLast ==
  ASSUME NEW S, NEW s \in Seq(S), NEW x \in S, NEW y \in S, NEW t, t = Append(s, x)
  PROVE  [t EXCEPT ![Len(t)] = y] = Append(s, y)
<1> DEFINE u == Append(s, y)
           n == Len(s) + 1
<1>1. /\ t \in Seq(S) /\ Len(t) = n /\ \A i \in 1..Len(s) : t[i] = s[i]
      /\ u \in Seq(S) /\ Len(u) = n /\ \A i \in 1..Len(s) : u[i] = s[i]
      /\ u[n] = y /\ Len(s) \in Nat
  BY AppendProperties
<1> HIDE DEF u
<1>2. t \in [1..n -> S] /\ u \in [1..n -> S] BY <1>1, LenProperties
<1>3. [t EXCEPT ![n] = y] = u
  <2>1. \A i \in 1..n : i = n \/ i \in 1..Len(s) BY <1>1
  <2>2. \A i \in 1..n : [t EXCEPT ![n] = y][i] = u[i] BY <1>1, <1>2, <2>1
  <2>3. [t EXCEPT ![n] = y] \in [1..n -> S] BY <1>1, <1>2
  <2> HIDE DEF n
  <2> QED BY <1>2, <2>2, <2>3
<1> QED BY <1>1, <1>3 DEF u

LEMMA LongerLine ==
  ASSUME NEW line \in Lines, NEW c \in Nat
  PROVE  /\ Append(line, c) \in TextLines /\ Append(line, c) \in Lines /\ HasText(Append(line, c))
         /\ Len(Append(line, c)) = Len(line) + 1
<1>1. line \in Seq(Nat) BY DEF Lines
<1>2. /\ Append(line, c) \in Seq(Nat) /\ Append(line, c) # <<>>
      /\ Len(Append(line, c)) = Len(line) + 1
  BY <1>1, AppendProperties
<1> QED BY <1>2 DEF TextLines, Lines, HasText

LEMMA LastOfAppend ==
  ASSUME NEW S, NEW s \in Seq(S), NEW x \in S
  PROVE  Append(s, x) # <<>> /\ Last(Append(s, x)) = x
BY AppendProperties DEF Last

\* The last line gets one more character.
Extended(lines, c) == [lines EXCEPT ![Len(lines)] = Append(@, c)]

LEMMA ExtendedAppend ==
  ASSUME NEW lines \in Seq(Lines), NEW line \in Lines, NEW c \in Nat
  PROVE  Extended(Append(lines, line), c) = Append(lines, Append(line, c))
<1> DEFINE t == Append(lines, line)
<1>1. Append(line, c) \in Lines BY LongerLine
<1>2. t[Len(t)] = line /\ Len(t) \in 1..Len(t)
  BY AppendProperties
<1>3. t \in Seq(Lines) BY AppendProperties
<1>4. t = Append(lines, line) OBVIOUS
<1> HIDE DEF t
<1>5. Extended(t, c) = [t EXCEPT ![Len(t)] = Append(line, c)]
  BY <1>2, <1>3 DEF Extended
<1>6. [t EXCEPT ![Len(t)] = Append(line, c)] = Append(lines, Append(line, c))
  <2> DEFINE more == Append(line, c)
  <2>1. more \in Lines BY <1>1
  <2> HIDE DEF more
  <2>2. [t EXCEPT ![Len(t)] = more] = Append(lines, more) BY <1>4, <2>1, ReplaceLast
  <2> QED BY <2>2 DEF more
<1> QED BY <1>4, <1>5, <1>6

LEMMA WithTextExtend ==
  ASSUME NEW lines \in Seq(Lines), lines # <<>>, NEW c \in Nat
  PROVE  /\ HasText(Last(lines)) =>
              /\ WithText(lines) # <<>> /\ Last(WithText(lines)) = Last(lines)
              /\ WithText(Extended(lines, c)) = Extended(WithText(lines), c)
         /\ ~HasText(Last(lines)) =>
              WithText(Extended(lines, c)) = Append(WithText(lines), <<c>>)
<1>1. PICK front \in Seq(Lines), last \in Lines : lines = Append(front, last)
  BY SequenceEmptyOrAppend
<1>2. Append(last, c) \in Lines /\ HasText(Append(last, c)) BY LongerLine
<1>3. Last(lines) = last BY <1>1, LastOfAppend
<1>4. Extended(lines, c) = Append(front, Append(last, c)) BY <1>1, ExtendedAppend
<1> DEFINE f == WithText(front)
<1>5. f \in Seq(TextLines) /\ f \in Seq(Lines)
  <2>1. TextLines \subseteq Lines BY DEF TextLines
  <2> QED BY <2>1, WithTextSelects, SeqMonotonic
<1>6. WithText(Extended(lines, c)) = Append(f, Append(last, c)) BY <1>2, <1>4, WithTextAppend
<1>7. WithText(lines) = IF HasText(last) THEN Append(f, last) ELSE f BY <1>1, WithTextAppend
<1> HIDE DEF f
<1>8. CASE HasText(last)
  <2>1. Extended(Append(f, last), c) = Append(f, Append(last, c)) BY <1>5, ExtendedAppend
  <2>2. Append(f, last) # <<>> /\ Last(Append(f, last)) = last BY <1>5, LastOfAppend
  <2> QED BY <1>3, <1>6, <1>7, <1>8, <2>1, <2>2
<1>9. CASE ~HasText(last)
  <2>1. Append(last, c) = <<c>> BY <1>9 DEF HasText
  <2> QED BY <1>3, <1>6, <1>7, <1>9, <2>1
<1> QED BY <1>8, <1>9

-----------------------------------------------------------------------------
(* The rows that are shown                                                 *)

LEMMA FromTyped ==
  ASSUME NEW line \in Lines, NEW n \in Nat
  PROVE  /\ From(line, n) \in Lines
         /\ Len(From(line, n)) = IF n <= Len(line) THEN Len(line) - n ELSE 0
         /\ \A i \in 1..(Len(line) - n) : From(line, n)[i] = line[n + i]
<1>1. Len(line) \in Nat /\ \A i \in (n + 1)..Len(line) : line[i] \in Nat BY DEF Lines
<1>2. /\ SubSeq(line, n + 1, Len(line)) \in Seq(Nat)
      /\ Len(SubSeq(line, n + 1, Len(line))) =
           IF n + 1 <= Len(line) THEN Len(line) - (n + 1) + 1 ELSE 0
      /\ \A i \in 1..(Len(line) - (n + 1) + 1) :
           SubSeq(line, n + 1, Len(line))[i] = line[(n + 1) + i - 1]
  BY <1>1, SubSeqProperties
<1> QED BY <1>1, <1>2 DEF From, Lines

LEMMA FromAppend ==
  ASSUME NEW line \in Lines, NEW n \in 0..Len(line), NEW c \in Nat
  PROVE  From(Append(line, c), n) = Append(From(line, n), c)
<1> DEFINE a == From(Append(line, c), n)
           b == Append(From(line, n), c)
           l == Len(line)
<1>1. /\ Append(line, c) \in Lines /\ Len(Append(line, c)) = l + 1 /\ l \in Nat
      /\ Append(line, c)[l + 1] = c /\ \A i \in 1..l : Append(line, c)[i] = line[i]
  BY AppendProperties DEF Lines
<1>2. /\ a \in Lines /\ Len(a) = l + 1 - n
      /\ \A i \in 1..(l + 1 - n) : a[i] = Append(line, c)[n + i]
  <2> DEFINE more == Append(line, c)
  <2>1. more \in Lines /\ Len(more) = l + 1 /\ n \in Nat BY <1>1
  <2> HIDE DEF more
  <2>2. /\ From(more, n) \in Lines
        /\ Len(From(more, n)) = IF n <= Len(more) THEN Len(more) - n ELSE 0
        /\ \A i \in 1..(Len(more) - n) : From(more, n)[i] = more[n + i]
    BY <2>1, FromTyped
  <2>3. n <= Len(more) /\ Len(more) - n = l + 1 - n BY <1>1, <2>1
  <2> HIDE DEF l
  <2>4. a = From(more, n) BY DEF more
  <2> HIDE DEF a
  <2> QED BY <2>1, <2>2, <2>3, <2>4 DEF more
<1>3. /\ From(line, n) \in Lines /\ Len(From(line, n)) = l - n
      /\ \A i \in 1..(l - n) : From(line, n)[i] = line[n + i]
  BY <1>1, FromTyped
<1>4. /\ b \in Lines /\ Len(b) = l - n + 1 /\ b[l - n + 1] = c
      /\ \A i \in 1..(l - n) : b[i] = From(line, n)[i]
  BY <1>3, AppendProperties DEF Lines
<1> HIDE DEF a, b, l
<1>5. ASSUME NEW i \in 1..Len(a) PROVE a[i] = b[i]
  <2>1. i \in 1..(l + 1 - n) BY <1>1, <1>2
  <2>2. CASE i = l + 1 - n BY <1>1, <1>2, <1>4, <2>1, <2>2
  <2>3. CASE i # l + 1 - n
    <3>1. i \in 1..(l - n) /\ n + i \in 1..l BY <1>1, <2>1, <2>3 DEF l
    <3> QED BY <1>1, <1>2, <1>3, <1>4, <2>1, <3>1
  <2> QED BY <2>2, <2>3
<1>6. Len(a) = Len(b) BY <1>1, <1>2, <1>4
<1>7. a = b BY <1>2, <1>4, <1>5, <1>6, SeqEqual DEF Lines
<1> QED BY <1>7 DEF a, b

LEMMA ShownTyped ==
  ASSUME NEW rows \in Seq(Lines), NEW r \in Nat, NEW c \in Nat
  PROVE  /\ Shown(rows, r, c) \in Seq(Lines)
         /\ r < Len(rows) =>
              /\ Len(Shown(rows, r, c)) = Len(rows) - r
              /\ \A i \in 1..(Len(rows) - r) :
                   Shown(rows, r, c)[i] = IF i = 1 THEN From(rows[r + 1], c) ELSE rows[r + i]
<1>1. Len(rows) \in Nat OBVIOUS
<1>2. CASE r >= Len(rows) BY <1>1, <1>2, EmptySeq DEF Shown
<1>3. CASE r < Len(rows)
  <2> DEFINE e(i) == IF i = 1 THEN From(rows[r + 1], c) ELSE rows[r + i]
  <2>1. ASSUME NEW i \in 1..(Len(rows) - r) PROVE e(i) \in Lines
    <3>1. r + i \in 1..Len(rows) /\ r + 1 \in 1..Len(rows) BY <1>1, <1>3
    <3>2. rows[r + i] \in Lines /\ rows[r + 1] \in Lines BY <3>1
    <3> QED BY <3>2, FromTyped
  <2>2. Shown(rows, r, c) = [i \in 1..(Len(rows) - r) |-> e(i)]
    BY <1>1, <1>3 DEF Shown
  <2>3. Len(rows) - r \in Nat BY <1>1, <1>3
  <2> HIDE DEF e
  <2>4. [i \in 1..(Len(rows) - r) |-> e(i)] \in Seq(Lines) BY <2>1, <2>3
  <2>5. Len([i \in 1..(Len(rows) - r) |-> e(i)]) = Len(rows) - r BY <2>3
  <2> QED BY <2>2, <2>3, <2>4, <2>5 DEF e
<1> QED BY <1>1, <1>2, <1>3

LEMMA ShownAppend ==
  ASSUME NEW rows \in Seq(Lines), NEW r \in Nat, NEW c \in Nat, r < Len(rows),
         NEW line \in Lines
  PROVE  Shown(Append(rows, line), r, c) = Append(Shown(rows, r, c), line)
<1> DEFINE more == Append(rows, line)
           a == Shown(more, r, c)
           s == Shown(rows, r, c)
           b == Append(s, line)
           n == Len(rows) - r
<1>1. /\ more \in Seq(Lines) /\ Len(more) = Len(rows) + 1 /\ Len(rows) \in Nat
      /\ more[Len(rows) + 1] = line /\ \A i \in 1..Len(rows) : more[i] = rows[i]
  BY AppendProperties
<1> HIDE DEF more
<1>2. n \in Nat /\ n > 0 /\ Len(more) - r = n + 1 /\ r < Len(more) BY <1>1
<1>3. /\ s \in Seq(Lines) /\ Len(s) = n
      /\ \A i \in 1..n : s[i] = IF i = 1 THEN From(rows[r + 1], c) ELSE rows[r + i]
  BY ShownTyped
<1>4. /\ a \in Seq(Lines) /\ Len(a) = Len(more) - r
      /\ \A i \in 1..(Len(more) - r) :
           a[i] = IF i = 1 THEN From(more[r + 1], c) ELSE more[r + i]
  <2>1. more \in Seq(Lines) /\ r < Len(more) BY <1>1, <1>2
  <2> HIDE DEF n
  <2> QED BY <2>1, ShownTyped
<1> HIDE DEF a, s
<1>5. /\ b \in Seq(Lines) /\ Len(b) = n + 1 /\ b[n + 1] = line
      /\ \A i \in 1..n : b[i] = s[i]
  <2>1. s \in Seq(Lines) /\ Len(s) = n BY <1>3
  <2>2. /\ b \in Seq(Lines) /\ Len(b) = Len(s) + 1 /\ b[Len(s) + 1] = line
        /\ \A i \in 1..Len(s) : b[i] = s[i]
    BY <2>1, AppendProperties
  <2> QED BY <2>1, <2>2
<1> HIDE DEF b
<1>6. ASSUME NEW i \in 1..Len(a) PROVE a[i] = b[i]
  <2>1. i \in 1..(n + 1) BY <1>2, <1>4
  <2>2. CASE i = n + 1
    <3>1. i # 1 /\ r + i = Len(rows) + 1 BY <1>1, <1>2, <2>2
    <3> QED BY <1>1, <1>2, <1>4, <1>5, <2>1, <2>2, <3>1
  <2>3. CASE i # n + 1
    <3>1. i \in 1..n /\ r + i \in 1..Len(rows) /\ r + 1 \in 1..Len(rows)
      BY <1>1, <1>2, <2>1, <2>3
    <3> QED BY <1>1, <1>2, <1>3, <1>4, <1>5, <2>1, <3>1
  <2> QED BY <2>2, <2>3
<1>7. a = b
  <2>1. Len(a) = Len(b) BY <1>2, <1>4, <1>5
  <2> QED BY <1>4, <1>5, <1>6, <2>1, SeqEqual
<1> QED BY <1>7 DEF a, b, s, more

LEMMA ExtendedTyped ==
  ASSUME NEW lines \in Seq(Lines), lines # <<>>, NEW c \in Nat
  PROVE  /\ Extended(lines, c) \in Seq(Lines) /\ Len(Extended(lines, c)) = Len(lines)
         /\ Len(lines) \in Nat \ {0}
         /\ \A i \in 1..Len(lines) :
              Extended(lines, c)[i] = IF i = Len(lines) THEN Append(lines[i], c) ELSE lines[i]
<1>1. Len(lines) \in 1..Len(lines) /\ Len(lines) \in Nat \ {0} BY EmptySeq
<1> DEFINE last == Append(lines[Len(lines)], c)
<1>2. last \in Lines
  <2>1. lines[Len(lines)] \in Lines BY <1>1
  <2> QED BY <2>1, AppendProperties DEF Lines
<1>3. Extended(lines, c) = [lines EXCEPT ![Len(lines)] = last] BY <1>1 DEF Extended
<1> HIDE DEF last
<1>4. /\ [lines EXCEPT ![Len(lines)] = last] \in Seq(Lines)
      /\ Len([lines EXCEPT ![Len(lines)] = last]) = Len(lines)
      /\ \A i \in 1..Len(lines) :
           [lines EXCEPT ![Len(lines)] = last][i] = IF i = Len(lines) THEN last ELSE lines[i]
  BY <1>1, <1>2, ExceptSeq
<1> QED BY <1>1, <1>3, <1>4 DEF last

LEMMA ShownExtend ==
  ASSUME NEW rows \in Seq(Lines), NEW r \in Nat, NEW c \in Nat, r < Len(rows),
         c <= Len(rows[r + 1]), NEW ch \in Nat
  PROVE  Shown(Extended(rows, ch), r, c) = Extended(Shown(rows, r, c), ch)
<1> DEFINE more == Extended(rows, ch)
           a == Shown(more, r, c)
           s == Shown(rows, r, c)
           b == Extended(s, ch)
           n == Len(rows) - r
<1>1. rows # <<>> /\ Len(rows) \in Nat \ {0} /\ n \in Nat \ {0} OBVIOUS
<1>2. /\ more \in Seq(Lines) /\ Len(more) = Len(rows)
      /\ \A i \in 1..Len(rows) :
           more[i] = IF i = Len(rows) THEN Append(rows[i], ch) ELSE rows[i]
  BY <1>1, ExtendedTyped
<1>3. /\ s \in Seq(Lines) /\ Len(s) = n
      /\ \A i \in 1..n : s[i] = IF i = 1 THEN From(rows[r + 1], c) ELSE rows[r + i]
  BY ShownTyped
<1> HIDE DEF more, s
<1>4. /\ a \in Seq(Lines) /\ Len(a) = n
      /\ \A i \in 1..n : a[i] = IF i = 1 THEN From(more[r + 1], c) ELSE more[r + i]
  <2>1. /\ a \in Seq(Lines) /\ Len(a) = Len(more) - r
        /\ \A i \in 1..(Len(more) - r) :
             a[i] = IF i = 1 THEN From(more[r + 1], c) ELSE more[r + i]
    BY <1>2, ShownTyped
  <2> QED BY <1>2, <2>1
<1>5. s # <<>> BY <1>1, <1>3
<1>6. /\ b \in Seq(Lines) /\ Len(b) = n
      /\ \A i \in 1..n : b[i] = IF i = n THEN Append(s[i], ch) ELSE s[i]
  <2>1. /\ b \in Seq(Lines) /\ Len(b) = Len(s)
        /\ \A i \in 1..Len(s) : b[i] = IF i = Len(s) THEN Append(s[i], ch) ELSE s[i]
    BY <1>3, <1>5, ExtendedTyped
  <2> QED BY <1>3, <2>1
<1> HIDE DEF a, b
<1>7. ASSUME NEW i \in 1..n PROVE a[i] = b[i]
  <2>1. r + i \in 1..Len(rows) /\ r + 1 \in 1..Len(rows) /\ (r + i = Len(rows) <=> i = n)
    BY <1>1
  <2>2. CASE i = n /\ i = 1
    <3>1. r + 1 = Len(rows) /\ rows[r + 1] \in Lines
      <4>1. r + 1 = Len(rows) BY <2>1, <2>2
      <4> QED BY <2>1, <4>1
    <3>2. a[i] = From(Append(rows[r + 1], ch), c) BY <1>2, <1>4, <2>1, <2>2, <3>1
    <3>3. b[i] = Append(From(rows[r + 1], c), ch) BY <1>3, <1>6, <2>2
    <3>4. c \in 0..Len(rows[r + 1]) BY <3>1 DEF Lines
    <3>5. From(Append(rows[r + 1], ch), c) = Append(From(rows[r + 1], c), ch)
      BY <3>1, <3>4, FromAppend
    <3> QED BY <3>2, <3>3, <3>5
  <2>3. CASE i = n /\ i # 1
    <3>1. r + i = Len(rows) BY <2>1, <2>3
    <3>2. a[i] = Append(rows[r + i], ch) BY <1>2, <1>4, <2>1, <2>3, <3>1
    <3>3. b[i] = Append(s[i], ch) /\ s[i] = rows[r + i] BY <1>3, <1>6, <2>3
    <3> QED BY <3>2, <3>3
  <2>4. CASE i # n /\ i = 1
    <3>1. r + 1 # Len(rows) BY <2>1, <2>4
    <3> QED BY <1>2, <1>3, <1>4, <1>6, <2>1, <2>4, <3>1
  <2>5. CASE i # n /\ i # 1 BY <1>2, <1>3, <1>4, <1>6, <2>1, <2>5
  <2> QED BY <2>2, <2>3, <2>4, <2>5
<1>8. a = b BY <1>4, <1>6, <1>7, SeqEqual
<1> QED BY <1>8 DEF a, b, s, more

-----------------------------------------------------------------------------
(* Rows, where the text starts, and the lines that are due                 *)

\* With e taken out before, the text after column c of row r is what is due, and
\* its last row has text if and only if its line goes on.
ExactOf(rows, r, c, e, d, o) ==
  /\ r < Len(rows) /\ c <= Len(rows[r + 1])
  /\ e \o WithText(Shown(rows, r, c)) = d
  /\ o <=> HasText(Last(Shown(rows, r, c)))

LEMMA ConcatAppend ==
  ASSUME NEW S, NEW s \in Seq(S), NEW t \in Seq(S), NEW x \in S
  PROVE  s \o Append(t, x) = Append(s \o t, x)
<1>1. <<x>> \in Seq(S) OBVIOUS
<1>2. Append(t, x) = t \o <<x>> BY AppendIsConcat
<1>3. s \o t \in Seq(S) BY ConcatProperties
<1>4. Append(s \o t, x) = (s \o t) \o <<x>> BY <1>3, AppendIsConcat
<1>5. (s \o t) \o <<x>> = s \o (t \o <<x>>) BY <1>1, ConcatAssociative
<1> QED BY <1>2, <1>4, <1>5

LEMMA TextLinesAreLines == ASSUME NEW s \in Seq(TextLines) PROVE s \in Seq(Lines)
<1>1. TextLines \subseteq Lines BY DEF TextLines
<1> QED BY <1>1, SeqMonotonic

LEMMA ExactAppend ==
  ASSUME NEW rows \in Seq(Lines), NEW r \in Nat, NEW c \in Nat, NEW e \in Seq(TextLines),
         NEW d, NEW o, ExactOf(rows, r, c, e, d, o), NEW line \in Lines
  PROVE  ExactOf(Append(rows, line), r, c, e,
                 IF HasText(line) THEN Append(d, line) ELSE d, HasText(line))
<1> DEFINE more == Append(rows, line)
           s == Shown(rows, r, c)
<1>1. r < Len(rows) /\ c <= Len(rows[r + 1]) /\ e \o WithText(s) = d BY DEF ExactOf
<1>2. /\ more \in Seq(Lines) /\ Len(more) = Len(rows) + 1 /\ Len(rows) \in Nat
      /\ \A i \in 1..Len(rows) : more[i] = rows[i]
  BY AppendProperties
<1>3. Shown(more, r, c) = Append(s, line) BY <1>1, ShownAppend
<1>4. s \in Seq(Lines) BY ShownTyped
<1> HIDE DEF more, s
<1>5. Last(Shown(more, r, c)) = line BY <1>3, <1>4, LastOfAppend
<1>6. WithText(Shown(more, r, c)) =
        IF HasText(line) THEN Append(WithText(s), line) ELSE WithText(s)
  BY <1>3, <1>4, WithTextAppend
<1>7. e \o WithText(Shown(more, r, c)) = IF HasText(line) THEN Append(d, line) ELSE d
  <2>1. WithText(s) \in Seq(TextLines) BY <1>4, WithTextSelects
  <2>2. HasText(line) => line \in TextLines BY DEF HasText, TextLines
  <2>3. HasText(line) => e \o Append(WithText(s), line) = Append(e \o WithText(s), line)
    BY <2>1, <2>2, ConcatAppend
  <2> QED BY <1>1, <1>6, <2>3
<1>8. r < Len(more) /\ c <= Len(more[r + 1])
  <2>1. r + 1 \in 1..Len(rows) BY <1>1, <1>2
  <2> QED BY <1>1, <1>2, <2>1
<1>9. ExactOf(more, r, c, e, IF HasText(line) THEN Append(d, line) ELSE d, HasText(line))
  BY <1>5, <1>7, <1>8 DEF ExactOf
<1> QED BY <1>9 DEF more

LEMMA ExactExtend ==
  ASSUME NEW rows \in Seq(Lines), NEW r \in Nat, NEW c \in Nat, NEW e \in Seq(TextLines),
         NEW d, NEW o \in BOOLEAN, ExactOf(rows, r, c, e, d, o), NEW ch \in Nat
  PROVE  ExactOf(Extended(rows, ch), r, c, e,
                 IF o THEN Extended(d, ch) ELSE Append(d, <<ch>>), TRUE)
<1> DEFINE more == Extended(rows, ch)
           s == Shown(rows, r, c)
           w == WithText(s)
           d2 == IF o THEN Extended(d, ch) ELSE Append(d, <<ch>>)
<1>1. /\ r < Len(rows) /\ c <= Len(rows[r + 1])
      /\ e \o w = d /\ (o <=> HasText(Last(s)))
  BY DEF ExactOf
<1>2. /\ rows # <<>> /\ Len(rows) \in Nat /\ r + 1 \in 1..Len(rows) BY <1>1
<1>3. /\ more \in Seq(Lines) /\ Len(more) = Len(rows)
      /\ \A i \in 1..Len(rows) :
           more[i] = IF i = Len(rows) THEN Append(rows[i], ch) ELSE rows[i]
  BY <1>2, ExtendedTyped
<1>4. Shown(more, r, c) = Extended(s, ch) BY <1>1, ShownExtend
<1>5. s \in Seq(Lines) /\ Len(s) = Len(rows) - r BY <1>1, ShownTyped
<1>6. s # <<>> /\ Len(s) \in 1..Len(s) BY <1>1, <1>2, <1>5
<1>7. w \in Seq(TextLines) BY <1>5, WithTextSelects
<1> HIDE DEF more, s
<1>8. /\ o => w # <<>> /\ Last(w) = Last(s) /\ WithText(Extended(s, ch)) = Extended(w, ch)
      /\ ~o => WithText(Extended(s, ch)) = Append(w, <<ch>>)
  BY <1>1, <1>5, <1>6, WithTextExtend
<1> HIDE DEF w
<1>9. HasText(Last(Shown(more, r, c)))
  <2>1. Len(Extended(s, ch)) = Len(s) /\ Extended(s, ch)[Len(s)] = Append(s[Len(s)], ch)
    BY <1>5, <1>6, ExtendedTyped
  <2>2. s[Len(s)] \in Lines BY <1>5, <1>6
  <2>3. Append(s[Len(s)], ch) # <<>> BY <2>2, LongerLine DEF HasText
  <2> QED BY <1>4, <2>1, <2>3 DEF HasText, Last
<1>10. e \o WithText(Shown(more, r, c)) = d2
  <2>1. CASE o
    <3>1. PICK f \in Seq(TextLines), l \in TextLines : w = Append(f, l)
      BY <1>7, <1>8, <2>1, SequenceEmptyOrAppend
    <3>2. f \in Seq(Lines) /\ l \in Lines /\ e \in Seq(Lines)
      BY TextLinesAreLines DEF TextLines
    <3>3. Append(l, ch) \in Lines BY <3>2, AppendProperties DEF Lines
    <3>4. Extended(w, ch) = Append(f, Append(l, ch)) BY <3>1, <3>2, ExtendedAppend
    <3>5. e \o Append(f, Append(l, ch)) = Append(e \o f, Append(l, ch))
      BY <3>2, <3>3, ConcatAppend
    <3>6. d = Append(e \o f, l)
      <4>1. e \o Append(f, l) = Append(e \o f, l) BY <3>2, ConcatAppend
      <4> QED BY <1>1, <3>1, <4>1
    <3>7. e \o f \in Seq(Lines) BY <3>2, ConcatProperties
    <3>8. Extended(d, ch) = Append(e \o f, Append(l, ch)) BY <3>2, <3>6, <3>7, ExtendedAppend
    <3>9. e \o WithText(Shown(more, r, c)) = Append(e \o f, Append(l, ch))
      BY <1>4, <1>8, <2>1, <3>4, <3>5
    <3> QED BY <2>1, <3>8, <3>9
  <2>2. CASE ~o
    <3>1. <<ch>> \in TextLines BY DEF TextLines, Lines
    <3>2. e \o Append(w, <<ch>>) = Append(e \o w, <<ch>>) BY <1>7, <3>1, ConcatAppend
    <3> QED BY <1>1, <1>4, <1>8, <2>2, <3>2
  <2> QED BY <2>1, <2>2
<1>11. r < Len(more) /\ c <= Len(more[r + 1])
  <2>1. rows[r + 1] \in Lines BY <1>2
  <2>2. Len(Append(rows[r + 1], ch)) = Len(rows[r + 1]) + 1 /\ Len(rows[r + 1]) \in Nat
    BY <2>1, AppendProperties DEF Lines
  <2>3. more[r + 1] = rows[r + 1] \/ more[r + 1] = Append(rows[r + 1], ch)
    BY <1>2, <1>3
  <2>4. c <= Len(more[r + 1])
    <3>1. CASE more[r + 1] = rows[r + 1] BY <1>1, <3>1
    <3>2. CASE more[r + 1] = Append(rows[r + 1], ch) BY <1>1, <2>2, <3>2
    <3> QED BY <2>3, <3>1, <3>2
  <2> QED BY <1>1, <1>3, <2>4
<1> HIDE DEF d2
<1>12. ExactOf(more, r, c, e, d2, TRUE) BY <1>9, <1>10, <1>11 DEF ExactOf
<1> QED BY <1>12 DEF more, d2

\* Where nothing has been printed since.
LEMMA ExactFresh ==
  ASSUME NEW rows \in Seq(Lines), NEW r \in Nat, Len(rows) = r + 1, NEW e \in Seq(TextLines)
  PROVE  ExactOf(rows, r, Len(rows[r + 1]), e, e, FALSE)
<1> DEFINE c == Len(rows[r + 1])
           s == Shown(rows, r, c)
<1>1. rows[r + 1] \in Lines OBVIOUS
<1>2. c \in Nat BY <1>1 DEF Lines
<1>3. From(rows[r + 1], c) \in Lines /\ Len(From(rows[r + 1], c)) = 0
  BY <1>1, <1>2, FromTyped
<1>4. From(rows[r + 1], c) = <<>> BY <1>3 DEF Lines
<1>5. s \in Seq(Lines) /\ Len(s) = 1 /\ s[1] = <<>>
  <2>1. r < Len(rows) /\ Len(rows) - r = 1 OBVIOUS
  <2> HIDE DEF c
  <2>2. /\ s \in Seq(Lines) /\ Len(s) = Len(rows) - r
        /\ \A i \in 1..(Len(rows) - r) :
             s[i] = IF i = 1 THEN From(rows[r + 1], c) ELSE rows[r + i]
    BY <1>2, <2>1, ShownTyped
  <2>3. 1 \in 1..(Len(rows) - r) BY <2>1
  <2> QED BY <1>4, <2>1, <2>2, <2>3
<1> HIDE DEF s
<1>6. Last(s) = <<>> BY <1>5 DEF Last
<1>7. WithText(s) = <<>>
  <2>1. <<>> \in Seq(Lines) /\ <<>> \in Lines BY EmptySeq DEF Lines
  <2>2. s = Append(<<>>, <<>>) BY <1>5
  <2>3. WithText(Append(<<>>, <<>>)) = WithText(<<>>) BY <2>1, WithTextAppend DEF HasText
  <2> QED BY <2>2, <2>3, WithTextEmpty
<1>8. e \o WithText(s) = e BY <1>7, ConcatEmptySeq
<1> QED BY <1>2, <1>6, <1>8 DEF ExactOf, HasText, s

-----------------------------------------------------------------------------
(* The steps                                                               *)

TextTypes ==
  /\ \A r \in 1..Rows : Len(screen[r].text) <= Cols
  /\ startCol \in 0..Cols
  /\ earlier \in Seq(TextLines) /\ due \in Seq(TextLines)
  /\ truncated \in BOOLEAN /\ open \in BOOLEAN

\* The row of the cursor ends with the line that goes on.
EndsWith(row, line) == \E k \in 0..Len(row) : line = From(row, k)

OpenInv == open => due # <<>> /\ EndsWith(screen[cursor].text, Last(due))

ExactInv ==
  ~unseen /\ ~Full => ExactOf(Collected, startRow, startCol, earlier, due, open)

TextInv == LineInv /\ TextTypes /\ OpenInv /\ ExactInv

\* Collected, of any scrollback and screen.
TextsOf(b, s, c) == [i \in 1..(Len(b) + c) |-> RowIn(b, s, i).text]

LEMMA CollectedTexts == Collected = TextsOf(back, screen, cursor)
BY DEF Collected, TextsOf, RowIn

\* t has the texts of the rows, down to the row c of the screen.
IsTexts(t, b, s, c) ==
  /\ t \in Seq(Lines) /\ Len(t) = Len(b) + c
  /\ \A i \in 1..(Len(b) + c) : t[i] = RowIn(b, s, i).text
  /\ t[Len(b) + c] = s[c].text

LEMMA TextsTyped ==
  ASSUME NewTextAssumption, NEW b \in Seq(Row), NEW s \in Seq(Row), Len(s) = Rows,
         NEW c \in 1..Rows
  PROVE  IsTexts(TextsOf(b, s, c), b, s, c)
<1> USE NewTextAssumption DEF NewTextAssumption
<1>1. Len(b) \in Nat /\ c \in Nat \ {0} /\ Len(b) + c \in Nat \ {0} OBVIOUS
<1>2. ASSUME NEW i \in 1..(Len(b) + c) PROVE RowIn(b, s, i).text \in Lines
  <2>1. CASE i <= Len(b)
    <3>1. b[i] \in Row BY <1>1, <2>1
    <3> QED BY <2>1, <3>1 DEF RowIn, Row
  <2>2. CASE ~(i <= Len(b))
    <3>1. i - Len(b) \in 1..Rows BY <1>1, <2>2
    <3>2. s[i - Len(b)] \in Row BY <3>1
    <3> QED BY <2>2, <3>2 DEF RowIn, Row
  <2> QED BY <2>1, <2>2
<1> DEFINE e(i) == RowIn(b, s, i).text
           n == Len(b) + c
<1>3. ~(n <= Len(b)) /\ n - Len(b) = c /\ n \in 1..n BY <1>1
<1>4. e(n) = s[c].text BY <1>3 DEF RowIn
<1>5. TextsOf(b, s, c) = [i \in 1..n |-> e(i)] BY DEF TextsOf
<1>6. n \in Nat /\ \A i \in 1..n : e(i) \in Lines BY <1>1, <1>2
<1> HIDE DEF e, n
<1>7. [i \in 1..n |-> e(i)] \in Seq(Lines) /\ Len([i \in 1..n |-> e(i)]) = n BY <1>6
<1>8. [i \in 1..n |-> e(i)][n] = e(n) BY <1>3
<1> QED BY <1>4, <1>5, <1>7, <1>8 DEF e, n, IsTexts

\* The first m rows have the texts they had.
SameTexts(b, s, b2, s2, m) == \A i \in 1..m : RowIn(b2, s2, i).text = RowIn(b, s, i).text

LEMMA TextsSame ==
  ASSUME NEW t, NEW b, NEW s, NEW c, IsTexts(t, b, s, c),
         NEW t2, NEW b2, NEW s2, NEW c2, IsTexts(t2, b2, s2, c2),
         Len(b2) + c2 = Len(b) + c, SameTexts(b, s, b2, s2, Len(b) + c)
  PROVE  t2 = t
<1> DEFINE m == Len(b) + c
<1>1. t \in Seq(Lines) /\ Len(t) = m /\ \A i \in 1..m : t[i] = RowIn(b, s, i).text
  BY DEF IsTexts
<1>2. t2 \in Seq(Lines) /\ Len(t2) = m /\ \A i \in 1..m : t2[i] = RowIn(b2, s2, i).text
  BY DEF IsTexts
<1>3. \A i \in 1..m : t2[i] = t[i] BY <1>1, <1>2 DEF SameTexts
<1> HIDE DEF m
<1> QED BY <1>1, <1>2, <1>3, SeqEqual

\* There is one row more.
LEMMA TextsAppend ==
  ASSUME NEW t, NEW b, NEW s, NEW c, IsTexts(t, b, s, c),
         NEW t2, NEW b2, NEW s2, NEW c2, IsTexts(t2, b2, s2, c2),
         Len(b2) + c2 = Len(b) + c + 1, SameTexts(b, s, b2, s2, Len(b) + c)
  PROVE  t2 = Append(t, s2[c2].text)
<1> DEFINE m == Len(b) + c
           l == s2[c2].text
           u == Append(t, l)
<1>1. t \in Seq(Lines) /\ Len(t) = m /\ \A i \in 1..m : t[i] = RowIn(b, s, i).text
  BY DEF IsTexts
<1>2. /\ t2 \in Seq(Lines) /\ Len(t2) = m + 1 /\ t2[m + 1] = l
      /\ \A i \in 1..(m + 1) : t2[i] = RowIn(b2, s2, i).text
  BY DEF IsTexts
<1>3. \A i \in 1..m : RowIn(b2, s2, i).text = RowIn(b, s, i).text BY DEF SameTexts
<1>4. m \in Nat BY <1>1, LenProperties
<1> HIDE DEF m, l
<1>5. m + 1 \in 1..(m + 1) /\ \A i \in 1..m : i \in 1..(m + 1) BY <1>4
<1>6. l \in Lines BY <1>2, <1>5, ElementOfSeq
<1>7. \A i \in 1..m : t2[i] = t[i] BY <1>1, <1>2, <1>3, <1>5
<1>8. /\ u \in Seq(Lines) /\ Len(u) = m + 1 /\ u[m + 1] = l
      /\ \A i \in 1..m : u[i] = t[i]
  BY <1>1, <1>6, AppendProperties
<1> HIDE DEF u
<1>9. \A i \in 1..Len(t2) : t2[i] = u[i]
  <2> SUFFICES ASSUME NEW i \in 1..(m + 1) PROVE t2[i] = u[i] BY <1>2
  <2>1. i = m + 1 \/ i \in 1..m BY <1>4
  <2> QED BY <1>2, <1>7, <1>8, <2>1
<1>10. t2 = u BY <1>2, <1>8, <1>9, SeqEqual
<1> QED BY <1>10 DEF u, l

\* The cursor goes down to a new row.
LEMMA DownAppends ==
  ASSUME LineInv, NewTextAssumption, \A r \in 1..Rows : Len(screen[r].text) <= Cols,
         NEW rows \in Seq(Row), Len(rows) = Rows, NEW row \in Row, Len(row.text) <= Cols,
         \A r \in 1..Rows : rows[r].text = screen[r].text,
         Down(rows, row)
  PROVE  /\ screen'[cursor'] = row /\ cursor' \in 1..Rows
         /\ \A r \in 1..Rows : Len(screen'[r].text) <= Cols
         /\ Full => Full'
         /\ ~Full => Collected' = Append(Collected, row.text)
<1> USE NewTextAssumption DEF NewTextAssumption
<1>1. /\ back \in Seq(Row) /\ Len(back) \in Nat /\ Len(back) <= Scrollback
      /\ screen \in Seq(Row) /\ Len(screen) = Rows /\ cursor \in 1..Rows /\ Rows \in Nat
  BY DEF LineInv, Shape
<1>2. ASSUME NEW i \in 1..(Len(back) + Rows)
      PROVE  RowIn(back, rows, i).text = RowIn(back, screen, i).text
  <2>1. CASE i <= Len(back) BY <2>1 DEF RowIn
  <2>2. CASE ~(i <= Len(back))
    <3>1. i - Len(back) \in 1..Rows BY <1>1, <2>2
    <3> QED BY <2>2, <3>1 DEF RowIn
  <2> QED BY <2>1, <2>2
<1>3. CASE cursor < Rows
  <2>1. screen' = [rows EXCEPT ![cursor + 1] = row] /\ cursor' = cursor + 1 /\ back' = back
    BY <1>3 DEF Down
  <2>2. /\ screen' \in Seq(Row) /\ Len(screen') = Rows /\ screen'[cursor + 1] = row
        /\ \A r \in 1..Rows : r # cursor + 1 => screen'[r] = rows[r]
        /\ cursor' \in 1..Rows
    BY <1>1, <1>3, <2>1
  <2>3. \A r \in 1..Rows : Len(screen'[r].text) <= Cols
    <3> SUFFICES ASSUME NEW r \in 1..Rows PROVE Len(screen'[r].text) <= Cols OBVIOUS
    <3>1. CASE r = cursor + 1 BY <2>2, <3>1
    <3>2. CASE r # cursor + 1
      <4>1. screen'[r].text = screen[r].text BY <2>2, <3>2
      <4> QED BY <4>1
    <3> QED BY <3>1, <3>2
  <2>4. ASSUME NEW i \in 1..(Len(back) + cursor)
        PROVE  RowIn(back', screen', i).text = RowIn(back, screen, i).text
    <3>1. CASE i <= Len(back) BY <2>1, <3>1 DEF RowIn
    <3>2. CASE ~(i <= Len(back))
      <4>1. i - Len(back) \in 1..Rows /\ i - Len(back) # cursor + 1 BY <1>1, <3>2
      <4>2. screen'[i - Len(back)] = rows[i - Len(back)] BY <2>2, <4>1
      <4>3. rows[i - Len(back)].text = screen[i - Len(back)].text BY <4>1
      <4> QED BY <2>1, <3>2, <4>2, <4>3 DEF RowIn
    <3> QED BY <3>1, <3>2
  <2>5. Len(back') + cursor' = Len(back) + cursor + 1 /\ back' \in Seq(Row) BY <1>1, <2>1
  <2>6. TextsOf(back', screen', cursor') =
          Append(TextsOf(back, screen, cursor), screen'[cursor'].text)
    <3> DEFINE b2 == back'
               s2 == screen'
               c2 == cursor'
    <3>1. /\ b2 \in Seq(Row) /\ s2 \in Seq(Row) /\ Len(s2) = Rows /\ c2 \in 1..Rows
          /\ Len(b2) + c2 = Len(back) + cursor + 1
          /\ \A i \in 1..(Len(back) + cursor) :
               RowIn(b2, s2, i).text = RowIn(back, screen, i).text
      BY <2>2, <2>4, <2>5
    <3> HIDE DEF b2, s2, c2
    <3>2. IsTexts(TextsOf(back, screen, cursor), back, screen, cursor) BY <1>1, TextsTyped
    <3>3. IsTexts(TextsOf(b2, s2, c2), b2, s2, c2) BY <3>1, TextsTyped
    <3>4. SameTexts(back, screen, b2, s2, Len(back) + cursor) BY <3>1 DEF SameTexts
    <3>5. TextsOf(b2, s2, c2) = Append(TextsOf(back, screen, cursor), s2[c2].text)
      BY <3>1, <3>2, <3>3, <3>4, TextsAppend
    <3> QED BY <3>5 DEF b2, s2, c2
  <2>7. Collected' = TextsOf(back', screen', cursor') BY DEF Collected, TextsOf, RowIn
  <2> QED BY <2>1, <2>2, <2>3, <2>6, <2>7, CollectedTexts DEF Full
<1>4. CASE cursor = Rows
  <2>1. /\ screen' = Append(Tail(rows), row) /\ cursor' = cursor
        /\ back' = Append(IF Full THEN Tail(back) ELSE back, Head(rows))
    BY <1>1, <1>4 DEF Down, Scrolls
  <2> DEFINE b2 == Append(back, Head(rows))
             s2 == Append(Tail(rows), row)
  <2>2. /\ b2 \in Seq(Row) /\ Len(b2) = Len(back) + 1
        /\ s2 \in Seq(Row) /\ Len(s2) = Rows /\ s2[Rows] = row
        /\ \A r \in 1..(Rows - 1) : s2[r] = rows[r + 1]
        /\ \A i \in 1..(Len(back) + Rows) : RowIn(b2, s2, i) = RowIn(back, rows, i)
    BY <1>1, ScrollKeepsNumbers
  <2>3. ~Full => back' = b2 BY <2>1
  <2>4. screen' = s2 BY <2>1
  <2> HIDE DEF b2, s2
  <2>5. \A r \in 1..Rows : Len(screen'[r].text) <= Cols
    <3> SUFFICES ASSUME NEW r \in 1..Rows PROVE Len(s2[r].text) <= Cols BY <2>4
    <3>1. CASE r = Rows BY <2>2, <3>1
    <3>2. CASE r # Rows
      <4>1. r \in 1..(Rows - 1) /\ r + 1 \in 1..Rows BY <1>1, <3>2
      <4>2. s2[r].text = screen[r + 1].text BY <2>2, <4>1
      <4> QED BY <4>1, <4>2
    <3> QED BY <3>1, <3>2
  <2>6. Full => Full'
    <3> SUFFICES ASSUME Full PROVE Full' OBVIOUS
    <3>1. back' = Append(Tail(back), Head(rows)) BY <2>1
    <3>2. Head(rows) \in Row BY <1>1, HeadTailProperties
    <3> QED BY <1>1, <3>1, <3>2, FullStaysFull DEF Full
  <2>7. ASSUME ~Full PROVE Collected' = Append(Collected, row.text)
    <3>1. back' = b2 BY <2>3, <2>7
    <3>2. Len(b2) + cursor = Len(back) + cursor + 1 BY <1>1, <2>2
    <3>3. SameTexts(back, screen, b2, s2, Len(back) + cursor)
      BY <1>2, <1>4, <2>2 DEF SameTexts
    <3>4. TextsOf(b2, s2, cursor) = Append(TextsOf(back, screen, cursor), s2[cursor].text)
      <4>1. b2 \in Seq(Row) /\ s2 \in Seq(Row) /\ Len(s2) = Rows BY <2>2
      <4>2. IsTexts(TextsOf(back, screen, cursor), back, screen, cursor) BY <1>1, TextsTyped
      <4>3. IsTexts(TextsOf(b2, s2, cursor), b2, s2, cursor) BY <1>1, <4>1, TextsTyped
      <4> QED BY <3>2, <3>3, <4>2, <4>3, TextsAppend
    <3>5. Collected' = TextsOf(back', screen', cursor') BY DEF Collected, TextsOf, RowIn
    <3> QED BY <1>4, <2>1, <2>2, <2>4, <3>1, <3>4, <3>5, CollectedTexts
  <2> QED BY <1>1, <1>4, <2>1, <2>2, <2>4, <2>5, <2>6, <2>7
<1> QED BY <1>1, <1>3, <1>4

LEMMA CharacterIsText ==
  ASSUME NEW c \in Nat
  PROVE  /\ <<c>> \in TextLines /\ <<c>> \in Lines /\ HasText(<<c>>) /\ Len(<<c>>) = 1
         /\ RowOf(<<c>>) \in Row /\ RowOf(<<c>>).text = <<c>>
         /\ Blank \in Row /\ Blank.text = <<>> /\ <<>> \in Lines /\ Len(<<>>) = 0
<1>1. <<c>> \in Seq(Nat) /\ <<c>> # <<>> /\ Len(<<c>>) = 1 OBVIOUS
<1>2. <<>> \in Seq(Nat) /\ Len(<<>>) = 0 BY EmptySeq
<1> QED BY <1>1, <1>2, OneCharacter, BlankTyped DEF TextLines, Lines, HasText, RowOf, Blank

LEMMA EndsWithExtended ==
  ASSUME NEW row \in Lines, NEW c \in Nat
  PROVE  /\ \A line : EndsWith(row, line) => EndsWith(Append(row, c), Append(line, c))
         /\ EndsWith(Append(row, c), <<c>>)
<1>1. Len(row) \in Nat /\ Len(Append(row, c)) = Len(row) + 1 BY AppendProperties DEF Lines
<1>2. ASSUME NEW line, EndsWith(row, line) PROVE EndsWith(Append(row, c), Append(line, c))
  <2>1. PICK k \in 0..Len(row) : line = From(row, k) BY <1>2 DEF EndsWith
  <2>2. From(Append(row, c), k) = Append(line, c) BY <2>1, FromAppend
  <2>3. k \in 0..Len(Append(row, c)) BY <1>1
  <2> QED BY <2>2, <2>3 DEF EndsWith
<1>3. EndsWith(Append(row, c), <<c>>)
  <2>1. From(row, Len(row)) \in Lines /\ Len(From(row, Len(row))) = 0 BY <1>1, FromTyped
  <2>2. From(row, Len(row)) = <<>> BY <2>1 DEF Lines
  <2>3. EndsWith(row, <<>>)
    <3>1. Len(row) \in 0..Len(row) BY <1>1
    <3> QED BY <2>2, <3>1 DEF EndsWith
  <2>4. Append(<<>>, c) = <<c>> OBVIOUS
  <2> QED BY <1>2, <2>3, <2>4
<1> QED BY <1>2, <1>3

\* What Put makes of the lines that are due.
LEMMA DueExtended ==
  ASSUME NEW d \in Seq(TextLines), d # <<>>, NEW c \in Nat
  PROVE  /\ Extended(d, c) \in Seq(TextLines) /\ Extended(d, c) # <<>>
         /\ Last(Extended(d, c)) = Append(Last(d), c)
<1>1. PICK f \in Seq(TextLines), l \in TextLines : d = Append(f, l)
  BY SequenceEmptyOrAppend
<1>2. f \in Seq(Lines) /\ l \in Lines BY TextLinesAreLines DEF TextLines
<1>3. Append(l, c) \in TextLines BY <1>2, LongerLine
<1>4. Extended(d, c) = Append(f, Append(l, c)) BY <1>1, <1>2, ExtendedAppend
<1>5. Last(d) = l BY <1>1, LastOfAppend
<1>6. /\ Append(f, Append(l, c)) \in Seq(TextLines) /\ Append(f, Append(l, c)) # <<>>
      /\ Last(Append(f, Append(l, c))) = Append(l, c)
  <2> DEFINE more == Append(l, c)
  <2>1. more \in TextLines BY <1>3
  <2> HIDE DEF more
  <2>2. Append(f, more) \in Seq(TextLines) BY <2>1, AppendProperties
  <2>3. Append(f, more) # <<>> /\ Last(Append(f, more)) = more BY <2>1, LastOfAppend
  <2> QED BY <2>2, <2>3 DEF more
<1> QED BY <1>4, <1>5, <1>6

\* What the steps use of the invariant.
LEMMA TextFacts ==
  ASSUME TextInv, NewTextAssumption
  PROVE  /\ back \in Seq(Row) /\ Len(back) \in Nat /\ Len(back) <= Scrollback
         /\ screen \in Seq(Row) /\ Len(screen) = Rows
         /\ cursor \in 1..Rows /\ Rows \in Nat /\ Rows > 1
         /\ screen[cursor] \in Row /\ screen[cursor].text \in Lines
         /\ \A r \in 1..Rows : Len(screen[r].text) <= Cols
         /\ startRow \in Nat /\ startCol \in Nat /\ startCol \in 0..Cols
         /\ Cols \in Nat \ {0} /\ printed \in Nat
         /\ earlier \in Seq(TextLines) /\ due \in Seq(TextLines)
         /\ Collected \in Seq(Lines) /\ Len(Collected) = Len(back) + cursor
         /\ Collected[Len(back) + cursor] = screen[cursor].text
         /\ \A i \in 1..(Len(back) + cursor) : Collected[i] = RowIn(back, screen, i).text
<1> USE NewTextAssumption DEF NewTextAssumption
<1>1. /\ back \in Seq(Row) /\ Len(back) <= Scrollback
      /\ screen \in Seq(Row) /\ Len(screen) = Rows /\ cursor \in 1..Rows
      /\ startRow \in Nat /\ printed \in Nat
  BY DEF TextInv, LineInv, Shape
<1>2. /\ startCol \in 0..Cols
      /\ earlier \in Seq(TextLines) /\ due \in Seq(TextLines)
      /\ \A r \in 1..Rows : Len(screen[r].text) <= Cols
  BY DEF TextInv, TextTypes
<1>3. screen[cursor] \in Row BY <1>1
<1>4. screen[cursor].text \in Lines BY <1>3 DEF Row
<1>5. /\ Collected \in Seq(Lines) /\ Len(Collected) = Len(back) + cursor
      /\ Collected[Len(back) + cursor] = screen[cursor].text
      /\ \A i \in 1..(Len(back) + cursor) : Collected[i] = RowIn(back, screen, i).text
  <2>1. IsTexts(Collected, back, screen, cursor) BY <1>1, CollectedTexts, TextsTyped
  <2> QED BY <2>1 DEF IsTexts
<1> QED BY <1>1, <1>2, <1>3, <1>4, <1>5

LEMMA PutKeepsText ==
  ASSUME TextInv, NewTextAssumption, Put
  PROVE  TextTypes' /\ OpenInv' /\ ExactInv'
<1> USE NewTextAssumption DEF NewTextAssumption
<1> DEFINE c == printed'
<1>1. /\ back \in Seq(Row) /\ Len(back) \in Nat /\ Len(back) <= Scrollback
      /\ screen \in Seq(Row) /\ Len(screen) = Rows /\ cursor \in 1..Rows /\ Rows \in Nat
      /\ screen[cursor] \in Row /\ screen[cursor].text \in Lines
      /\ startRow \in Nat /\ startCol \in Nat /\ c \in Nat
      /\ earlier \in Seq(TextLines) /\ due \in Seq(TextLines) /\ open \in BOOLEAN
      /\ \A r \in 1..Rows : Len(screen[r].text) <= Cols
      /\ Cols \in Nat
  <2>1. open \in BOOLEAN BY DEF TextInv, TextTypes
  <2>2. c \in Nat
    <3>1. printed \in Nat BY TextFacts
    <3> QED BY <3>1 DEF Put
  <2> QED BY <2>1, <2>2, TextFacts
<1>2. /\ UNCHANGED <<startRow, startCol, earlier, truncated, ended, unseen>> /\ open' = TRUE
  BY DEF Put, start
<1> HIDE DEF c
<1>3. /\ <<c>> \in TextLines /\ <<c>> \in Lines /\ HasText(<<c>>) /\ Len(<<c>>) = 1
      /\ RowOf(<<c>>) \in Row /\ RowOf(<<c>>).text = <<c>>
  BY <1>1, CharacterIsText
<1>4. Append(due, <<c>>) \in Seq(TextLines) /\ Append(due, <<c>>) # <<>>
      /\ Last(Append(due, <<c>>)) = <<c>>
  <2> DEFINE l == <<c>>
  <2>1. l \in TextLines /\ due \in Seq(TextLines) BY <1>1, <1>3
  <2> HIDE DEF l
  <2>2. Append(due, l) \in Seq(TextLines) BY <2>1, AppendProperties
  <2>3. Append(due, l) # <<>> /\ Last(Append(due, l)) = l BY <2>1, LastOfAppend
  <2> QED BY <2>2, <2>3 DEF l
<1>5. CASE Len(screen[cursor].text) < Cols
  <2>1. /\ screen' = [screen EXCEPT ![cursor].text = Append(@, c)]
        /\ due' = IF open THEN [due EXCEPT ![Len(due)] = Append(@, c)]
                  ELSE Append(due, <<c>>)
        /\ back' = back /\ cursor' = cursor
    BY <1>5 DEF Put, c
  <2> DEFINE row == [screen[cursor] EXCEPT !.text = Append(@, c)]
  <2>2. /\ row \in Row /\ row.text = Append(screen[cursor].text, c)
        /\ Len(row.text) = Len(screen[cursor].text) + 1
    <3> DEFINE more == Append(screen[cursor].text, c)
    <3>1. more \in Lines /\ Len(more) = Len(screen[cursor].text) + 1
      BY <1>1, AppendProperties DEF Lines
    <3>2. row = [screen[cursor] EXCEPT !.text = more] BY <1>1 DEF Row
    <3> HIDE DEF more
    <3>3. row \in Row /\ row.text = more BY <1>1, <3>1, <3>2 DEF Row
    <3> QED BY <3>1, <3>3 DEF more
  <2>3. screen' = [screen EXCEPT ![cursor] = row] BY <2>1
  <2> HIDE DEF row
  <2>4. /\ screen' \in Seq(Row) /\ Len(screen') = Rows /\ screen'[cursor] = row
        /\ \A r \in 1..Rows : r # cursor => screen'[r] = screen[r]
    BY <1>1, <2>2, <2>3
  <2>5. open => due # <<>> /\ EndsWith(screen[cursor].text, Last(due))
    BY DEF TextInv, OpenInv
  <2>6. due' = IF open THEN Extended(due, c) ELSE Append(due, <<c>>) BY <2>1 DEF Extended
  <2>7. open => /\ Extended(due, c) \in Seq(TextLines) /\ Extended(due, c) # <<>>
                /\ Last(Extended(due, c)) = Append(Last(due), c)
    BY <1>1, <2>5, DueExtended
  <2>8. TextTypes'
    <3>1. due' \in Seq(TextLines) BY <1>4, <2>6, <2>7
    <3>2. \A r \in 1..Rows : Len(screen'[r].text) <= Cols
      <4> SUFFICES ASSUME NEW r \in 1..Rows PROVE Len(screen'[r].text) <= Cols OBVIOUS
      <4>1. CASE r = cursor
        <5>1. Len(screen[cursor].text) \in Nat BY <1>1 DEF Lines
        <5> QED BY <1>1, <1>5, <2>2, <2>4, <4>1, <5>1
      <4>2. CASE r # cursor BY <1>1, <2>4, <4>2
      <4> QED BY <4>1, <4>2
    <3> QED BY <1>2, <3>1, <3>2 DEF TextInv, TextTypes
  <2>9. OpenInv'
    <3>1. due' # <<>> BY <1>4, <2>6, <2>7
    <3>2. EndsWith(row.text, Last(due'))
      <4>1. CASE open
        <5>1. EndsWith(Append(screen[cursor].text, c), Append(Last(due), c))
          BY <1>1, <2>5, <4>1, EndsWithExtended
        <5> QED BY <2>2, <2>6, <2>7, <4>1, <5>1
      <4>2. CASE ~open
        <5>1. EndsWith(Append(screen[cursor].text, c), <<c>>) BY <1>1, EndsWithExtended
        <5> QED BY <1>4, <2>2, <2>6, <4>2, <5>1
      <4> QED BY <1>1, <4>1, <4>2
    <3> QED BY <2>1, <2>4, <3>1, <3>2 DEF OpenInv
  <2>10. ExactInv'
    <3> SUFFICES ASSUME ~unseen, ~Full
                 PROVE  ExactOf(Collected', startRow, startCol, earlier, due', TRUE)
      BY <1>2, <2>1 DEF ExactInv, Full
    <3>1. ExactOf(Collected, startRow, startCol, earlier, due, open) BY DEF TextInv, ExactInv
    <3>2. Collected \in Seq(Lines) /\ Len(Collected) = Len(back) + cursor
          /\ \A k \in 1..(Len(back) + cursor) : Collected[k] = RowIn(back, screen, k).text
          /\ Collected[Len(back) + cursor] = screen[cursor].text
      BY TextFacts
    <3>3. Collected' = Extended(Collected, c)
      <4> DEFINE s2 == screen'
                 t == TextsOf(back, s2, cursor)
                 n == Len(back) + cursor
      <4>1. s2 \in Seq(Row) /\ Len(s2) = Rows /\ s2[cursor] = row
            /\ \A r \in 1..Rows : r # cursor => s2[r] = screen[r]
        BY <2>4
      <4>2. Collected' = t BY <2>1 DEF Collected, TextsOf, RowIn
      <4> HIDE DEF s2
      <4>3. /\ t \in Seq(Lines) /\ Len(t) = n
            /\ \A k \in 1..n : t[k] = RowIn(back, s2, k).text
            /\ t[n] = s2[cursor].text
        <5>1. IsTexts(t, back, s2, cursor) BY <1>1, <4>1, TextsTyped
        <5> QED BY <5>1 DEF IsTexts
      <4>4. n \in Nat \ {0} BY <1>1
      <4>5. Collected # <<>> BY <3>2, <4>4
      <4>6. /\ Extended(Collected, c) \in Seq(Lines) /\ Len(Extended(Collected, c)) = n
            /\ \A k \in 1..n :
                 Extended(Collected, c)[k] =
                   IF k = n THEN Append(Collected[k], c) ELSE Collected[k]
        <5>1. Collected \in Seq(Lines) /\ c \in Nat /\ Len(Collected) = n BY <1>1, <3>2
        <5> HIDE DEF n
        <5> QED BY <4>5, <5>1, ExtendedTyped
      <4> HIDE DEF t
      <4>7. ASSUME NEW k \in 1..n PROVE t[k] = Extended(Collected, c)[k]
        <5>1. CASE k = n BY <2>2, <3>2, <4>1, <4>3, <4>6, <5>1
        <5>2. CASE k # n
          <6>1. RowIn(back, s2, k) = RowIn(back, screen, k)
            <7>1. CASE k <= Len(back) BY <7>1 DEF RowIn
            <7>2. CASE ~(k <= Len(back))
              <8>1. k - Len(back) \in 1..Rows /\ k - Len(back) # cursor
                BY <1>1, <5>2, <7>2
              <8> QED BY <4>1, <7>2, <8>1 DEF RowIn
            <7> QED BY <7>1, <7>2
          <6> QED BY <3>2, <4>3, <4>6, <5>2, <6>1
        <5> QED BY <5>1, <5>2
      <4>8. t = Extended(Collected, c) BY <4>3, <4>6, <4>7, SeqEqual
      <4> QED BY <4>2, <4>8
    <3>4. ExactOf(Extended(Collected, c), startRow, startCol, earlier,
                  IF open THEN Extended(due, c) ELSE Append(due, <<c>>), TRUE)
      BY <1>1, <3>1, <3>2, ExactExtend
    <3> QED BY <2>6, <3>3, <3>4
  <2> QED BY <2>8, <2>9, <2>10
<1>6. CASE ~(Len(screen[cursor].text) < Cols)
  <2> DEFINE rows == [screen EXCEPT ![cursor].wrapped = TRUE]
             row == RowOf(<<c>>)
  <2>1. Down(rows, row) /\ due' = Append(due, <<c>>) BY <1>6 DEF Put, c
  <2>2. [screen[cursor] EXCEPT !.wrapped = TRUE] \in Row BY <1>1 DEF Row
  <2>3. /\ rows \in Seq(Row) /\ Len(rows) = Rows
        /\ \A r \in 1..Rows : rows[r].text = screen[r].text
    BY <1>1, <2>2 DEF Row
  <2>4. row \in Row /\ row.text = <<c>> /\ Len(row.text) <= Cols
    <3>1. row \in Row /\ row.text = <<c>> BY <1>3
    <3> HIDE DEF row
    <3> QED BY <1>3, <3>1
  <2> HIDE DEF rows, row
  <2>5. /\ screen'[cursor'] = row /\ cursor' \in 1..Rows
        /\ \A r \in 1..Rows : Len(screen'[r].text) <= Cols
        /\ Full => Full'
        /\ ~Full => Collected' = Append(Collected, row.text)
    BY <1>1, <2>1, <2>3, <2>4, DownAppends DEF TextInv
  <2>6. TextTypes' BY <1>2, <1>4, <2>1, <2>5 DEF TextInv, TextTypes
  <2>7. OpenInv'
    <3>1. From(<<c>>, 0) = <<c>>
      <4> DEFINE l == <<c>>
      <4>1. l \in Seq(Nat) BY <1>1
      <4> HIDE DEF l
      <4>2. SubSeq(l, 1, Len(l)) = l BY <4>1, SubSeqFull
      <4>3. From(l, 0) = l BY <4>2 DEF From
      <4> QED BY <4>3 DEF l
    <3>2. 0 \in 0..Len(<<c>>) BY <1>3
    <3>3. EndsWith(<<c>>, <<c>>) BY <3>1, <3>2 DEF EndsWith
    <3> QED BY <1>4, <2>1, <2>4, <2>5, <3>3 DEF OpenInv
  <2>8. ExactInv'
    <3> SUFFICES ASSUME ~unseen, ~Full
                 PROVE  ExactOf(Collected', startRow, startCol, earlier, due', TRUE)
      BY <1>2, <2>5 DEF ExactInv
    <3>1. ExactOf(Collected, startRow, startCol, earlier, due, open) BY DEF TextInv, ExactInv
    <3>2. Collected \in Seq(Lines) BY TextFacts
    <3>3. ExactOf(Append(Collected, <<c>>), startRow, startCol, earlier,
                  IF HasText(<<c>>) THEN Append(due, <<c>>) ELSE due, HasText(<<c>>))
      BY <1>1, <1>3, <3>1, <3>2, ExactAppend
    <3>4. Collected' = Append(Collected, <<c>>) BY <2>4, <2>5
    <3>5. HasText(<<c>>) = TRUE BY <1>3 DEF HasText
    <3> QED BY <2>1, <3>3, <3>4, <3>5
  <2> QED BY <2>6, <2>7, <2>8
<1> QED BY <1>5, <1>6

LEMMA NewLineKeepsText ==
  ASSUME TextInv, NewTextAssumption, NewLine
  PROVE  TextTypes' /\ OpenInv' /\ ExactInv'
<1> USE NewTextAssumption DEF NewTextAssumption
<1>1. /\ Down(screen, Blank) /\ open' = FALSE
      /\ UNCHANGED <<startRow, startCol, earlier, truncated, due, unseen>>
  BY DEF NewLine, start
<1>2. Blank \in Row /\ Blank.text = <<>> /\ <<>> \in Lines /\ Len(<<>>) = 0
  BY CharacterIsText, TextFacts
<1>3. Len(Blank.text) <= Cols BY <1>2
<1>4. /\ \A r \in 1..Rows : Len(screen'[r].text) <= Cols
      /\ Full => Full'
      /\ ~Full => Collected' = Append(Collected, Blank.text)
  BY <1>1, <1>2, <1>3, TextFacts, DownAppends DEF TextInv
<1>5. TextTypes' BY <1>1, <1>4 DEF TextInv, TextTypes
<1>6. OpenInv' BY <1>1 DEF OpenInv
<1>7. ExactInv'
  <2> SUFFICES ASSUME ~unseen, ~Full
               PROVE  ExactOf(Collected', startRow, startCol, earlier, due, FALSE)
    BY <1>1, <1>4 DEF ExactInv
  <2>1. ExactOf(Collected, startRow, startCol, earlier, due, open) BY DEF TextInv, ExactInv
  <2>2. ~HasText(<<>>) BY DEF HasText
  <2>3. ExactOf(Append(Collected, <<>>), startRow, startCol, earlier,
                IF HasText(<<>>) THEN Append(due, <<>>) ELSE due, HasText(<<>>))
    BY <1>2, <2>1, TextFacts, ExactAppend
  <2>4. ExactOf(Append(Collected, <<>>), startRow, startCol, earlier, due, HasText(<<>>))
    BY <2>2, <2>3
  <2> QED BY <1>2, <1>4, <2>2, <2>4 DEF ExactOf
<1> QED BY <1>5, <1>6, <1>7

LEMMA StepBelowKeepsText ==
  ASSUME TextInv, NewTextAssumption, StepBelow
  PROVE  TextTypes' /\ OpenInv' /\ ExactInv'
<1> USE NewTextAssumption DEF NewTextAssumption
<1>1. /\ cursor = Rows /\ cursor' = Rows - 1 /\ Scrolls(screen, Blank)
      /\ UNCHANGED <<startRow, startCol, earlier, truncated, due, open, unseen>>
  BY DEF StepBelow, start
<1> DEFINE b2 == Append(back, Head(screen))
           s2 == Append(Tail(screen), Blank)
<1>2. /\ screen' = s2 /\ (~Full => back' = b2)
      /\ (Full => back' = Append(Tail(back), Head(screen)))
  BY <1>1 DEF Scrolls
<1>3. Blank \in Row /\ Blank.text = <<>> /\ Len(<<>>) = 0 BY CharacterIsText, TextFacts
<1>4. /\ b2 \in Seq(Row) /\ Len(b2) = Len(back) + 1
      /\ s2 \in Seq(Row) /\ Len(s2) = Rows /\ s2[Rows] = Blank
      /\ \A r \in 1..(Rows - 1) : s2[r] = screen[r + 1]
      /\ \A i \in 1..(Len(back) + Rows) : RowIn(b2, s2, i) = RowIn(back, screen, i)
  <2>1. back \in Seq(Row) /\ screen \in Seq(Row) /\ Len(screen) = Rows BY TextFacts
  <2> QED BY <1>3, <2>1, ScrollKeepsNumbers
<1>5. Head(screen) \in Row BY TextFacts, HeadTailProperties
<1> HIDE DEF b2, s2
<1>6. Full => Full' BY <1>2, <1>5, TextFacts, FullStaysFull DEF Full
<1>7. TextTypes'
  <2>1. ASSUME NEW r \in 1..Rows PROVE Len(s2[r].text) <= Cols
    <3>1. CASE r = Rows
      <4>1. Len(s2[r].text) = 0 BY <1>3, <1>4, <3>1
      <4> QED BY <4>1
    <3>2. CASE r # Rows
      <4>1. r \in 1..(Rows - 1) /\ r + 1 \in 1..Rows BY <3>2
      <4> QED BY <1>4, <4>1, TextFacts
    <3> QED BY <3>1, <3>2
  <2> QED BY <1>1, <1>2, <2>1 DEF TextInv, TextTypes
<1>8. OpenInv'
  <2>1. screen'[cursor'] = screen[cursor]
    <3>1. Rows - 1 \in 1..(Rows - 1) /\ (Rows - 1) + 1 = Rows OBVIOUS
    <3> QED BY <1>1, <1>2, <1>4, <3>1
  <2> QED BY <1>1, <2>1 DEF TextInv, OpenInv
<1>9. ExactInv'
  <2> SUFFICES ASSUME ~unseen, ~Full PROVE Collected' = Collected
    BY <1>1, <1>6 DEF TextInv, ExactInv
  <2>1. back' = b2 /\ screen' = s2 BY <1>2
  <2>2. Collected' = TextsOf(b2, s2, Rows - 1)
    BY <1>1, <2>1 DEF Collected, TextsOf, RowIn
  <2> DEFINE above == Rows - 1
  <2>3. above \in 1..Rows /\ Len(b2) + above = Len(back) + Rows
    BY <1>4, TextFacts
  <2> HIDE DEF above
  <2>4. TextsOf(b2, s2, above) = TextsOf(back, screen, Rows)
    <3>1. SameTexts(back, screen, b2, s2, Len(back) + Rows) BY <1>4 DEF SameTexts
    <3>2. /\ Rows \in 1..Rows /\ back \in Seq(Row) /\ screen \in Seq(Row)
          /\ Len(screen) = Rows
      BY TextFacts
    <3>3. b2 \in Seq(Row) /\ s2 \in Seq(Row) /\ Len(s2) = Rows BY <1>4
    <3>4. IsTexts(TextsOf(back, screen, Rows), back, screen, Rows) BY <3>2, TextsTyped
    <3>5. IsTexts(TextsOf(b2, s2, above), b2, s2, above) BY <2>3, <3>3, TextsTyped
    <3> QED BY <2>3, <3>1, <3>4, <3>5, TextsSame
  <2> QED BY <1>1, <2>2, <2>4, CollectedTexts DEF above
<1> QED BY <1>7, <1>8, <1>9

\* What Clear keeps has text in every line.
LEMMA LinesOfTyped ==
  ASSUME TextInv, NewTextAssumption
  PROVE  LinesOf(FALSE) \in Seq(TextLines)
<1>1. ASSUME NEW r \in Nat, NEW c \in Nat PROVE LinesFrom(r, c, FALSE) \in Seq(TextLines)
  <2>1. Shown(Collected, r, c) \in Seq(Lines) BY TextFacts, ShownTyped
  <2>2. WithText(Shown(Collected, r, c)) \in Seq(TextLines) BY <2>1, WithTextSelects
  <2> QED BY <2>2 DEF LinesFrom
<1> QED BY <1>1, TextFacts DEF LinesOf

LEMMA ErasedText ==
  ASSUME TextInv, NewTextAssumption, Erased
  PROVE  /\ \A r \in 1..Rows : Len(screen'[r].text) <= Cols
         /\ Full' <=> Full
         /\ Collected' \in Seq(Lines) /\ Len(Collected') = Len(back) + 1
         /\ Collected'[Len(back) + 1] = <<>>
<1> USE NewTextAssumption DEF NewTextAssumption
<1> DEFINE s2 == [r \in 1..Rows |-> Blank]
<1>1. screen' = s2 /\ cursor' = 1 /\ back' = back BY DEF Erased
<1>2. Blank \in Row /\ Blank.text = <<>> /\ Len(<<>>) = 0 BY CharacterIsText, TextFacts
<1>3. s2 \in Seq(Row) /\ Len(s2) = Rows /\ \A r \in 1..Rows : s2[r] = Blank BY <1>2
<1> HIDE DEF s2
<1>4. \A r \in 1..Rows : Len(screen'[r].text) <= Cols
  <2> SUFFICES ASSUME NEW r \in 1..Rows PROVE Len(s2[r].text) <= Cols BY <1>1
  <2>1. Len(s2[r].text) = 0 BY <1>2, <1>3
  <2> QED BY <2>1
<1>5. Collected' = TextsOf(back, s2, 1) BY <1>1 DEF Collected, TextsOf, RowIn
<1>6. 1 \in 1..Rows OBVIOUS
<1>7. /\ TextsOf(back, s2, 1) \in Seq(Lines) /\ Len(TextsOf(back, s2, 1)) = Len(back) + 1
      /\ TextsOf(back, s2, 1)[Len(back) + 1] = s2[1].text
  <2>1. IsTexts(TextsOf(back, s2, 1), back, s2, 1)
    <3>1. back \in Seq(Row) BY TextFacts
    <3> QED BY <1>3, <1>6, <3>1, TextsTyped
  <2> QED BY <2>1 DEF IsTexts
<1> QED BY <1>1, <1>2, <1>3, <1>4, <1>5, <1>6, <1>7 DEF Full

LEMMA ClearKeepsText ==
  ASSUME TextInv, NewTextAssumption, Clear
  PROVE  TextTypes' /\ OpenInv' /\ ExactInv'
<1> USE NewTextAssumption DEF NewTextAssumption
<1>1. /\ Erased /\ earlier' = earlier \o LinesOf(FALSE) /\ truncated' = Marked
      /\ startRow' = Len(back) /\ startCol' = 0 /\ open' = FALSE
      /\ due' = due /\ unseen' = unseen
  BY DEF Clear
<1>2. earlier' \in Seq(TextLines) BY <1>1, TextFacts, LinesOfTyped, ConcatProperties
<1>3. TextTypes'
  <2>1. truncated' \in BOOLEAN BY <1>1 DEF Marked, TextInv, TextTypes
  <2>2. due \in Seq(TextLines) /\ Cols \in Nat BY TextFacts
  <2>3. startCol' = 0 /\ open' = FALSE /\ due' = due BY <1>1
  <2>4. startCol' \in 0..Cols BY <2>2, <2>3
  <2>5. open' \in BOOLEAN /\ due' \in Seq(TextLines) BY <2>2, <2>3, Zenon
  <2> QED BY <1>1, <1>2, <2>1, <2>4, <2>5, ErasedText DEF TextTypes
<1>4. OpenInv' BY <1>1 DEF OpenInv
<1>5. ExactInv'
  <2> SUFFICES ASSUME ~unseen, ~Full
               PROVE  ExactOf(Collected', startRow', startCol', earlier', due', open')
    BY <1>1, ErasedText DEF ExactInv
  <2>1. ExactOf(Collected, startRow, startCol, earlier, due, open) BY DEF TextInv, ExactInv
  <2>2. earlier' = due
    <3>1. LinesOf(FALSE) = WithText(Shown(Collected, startRow, startCol))
      BY DEF LinesOf, LinesFrom
    <3> QED BY <1>1, <2>1, <3>1 DEF ExactOf
  <2> DEFINE rows == Collected'
             r == Len(back)
  <2>3. rows \in Seq(Lines) /\ Len(rows) = r + 1 /\ rows[r + 1] = <<>> /\ r \in Nat
    BY <1>1, ErasedText, TextFacts
  <2> HIDE DEF rows, r
  <2>4. ExactOf(rows, r, Len(rows[r + 1]), due, due, FALSE) BY <2>3, TextFacts, ExactFresh
  <2>5. Len(rows[r + 1]) = 0 BY <2>3
  <2> QED BY <1>1, <2>2, <2>4, <2>5 DEF rows, r
<1> QED BY <1>3, <1>4, <1>5

LEMMA TakeKeepsText ==
  ASSUME TextInv, NewTextAssumption, Take
  PROVE  TextTypes' /\ OpenInv' /\ ExactInv'
<1> USE NewTextAssumption DEF NewTextAssumption
<1>1. /\ back' = <<>> /\ startRow' = cursor - 1 /\ startCol' = Len(screen[cursor].text)
      /\ earlier' = <<>> /\ truncated' = FALSE /\ due' = <<>> /\ open' = FALSE
      /\ screen' = screen /\ cursor' = cursor
  BY DEF Take
<1>2. <<>> \in Seq(TextLines) /\ <<>> \in Seq(Row) /\ Len(<<>>) = 0 BY EmptySeq
<1>3. TextTypes'
  <2>1. startCol' \in 0..Cols
    <3>1. Len(screen[cursor].text) \in Nat BY TextFacts DEF Lines
    <3> QED BY <1>1, <3>1, TextFacts
  <2> QED BY <1>1, <1>2, <2>1, TextFacts DEF TextTypes
<1>4. OpenInv' BY <1>1 DEF OpenInv
<1>5. ExactInv'
  <2> DEFINE t == TextsOf(<<>>, screen, cursor)
             r == cursor - 1
  <2>1. Collected' = t BY <1>1 DEF Collected, TextsOf, RowIn
  <2>2. /\ t \in Seq(Lines) /\ Len(t) = Len(<<>>) + cursor
        /\ t[Len(<<>>) + cursor] = screen[cursor].text
    <3>1. screen \in Seq(Row) /\ Len(screen) = Rows /\ cursor \in 1..Rows BY TextFacts
    <3>2. IsTexts(t, <<>>, screen, cursor) BY <1>2, <3>1, TextsTyped
    <3> QED BY <3>2 DEF IsTexts
  <2>3. Len(t) = r + 1 /\ t[r + 1] = screen[cursor].text /\ r \in Nat
    <3>1. Len(<<>>) + cursor = r + 1 /\ r \in Nat BY <1>2, TextFacts
    <3> HIDE DEF t, r
    <3> QED BY <2>2, <3>1
  <2> HIDE DEF t, r
  <2>4. ExactOf(t, r, Len(t[r + 1]), <<>>, <<>>, FALSE) BY <1>2, <2>2, <2>3, ExactFresh
  <2>5. ExactOf(Collected', startRow', startCol', earlier', due', open')
    BY <1>1, <2>1, <2>3, <2>4 DEF r
  <2> QED BY <2>5 DEF ExactInv
<1> QED BY <1>3, <1>4, <1>5

LEMMA TextStep ==
  ASSUME TextInv, NewTextAssumption, [Next]_vars
  PROVE  TextInv'
<1>1. LineInv' BY LineStep DEF TextInv
<1>2. TextTypes' /\ OpenInv' /\ ExactInv'
  <2>1. CASE Put BY <2>1, PutKeepsText
  <2>2. CASE NewLine BY <2>2, NewLineKeepsText
  <2>3. CASE StepBelow BY <2>3, StepBelowKeepsText
  <2>4. CASE Clear BY <2>4, ClearKeepsText
  <2>5. CASE ClearUnseen
    <3>1. /\ Erased /\ unseen' = TRUE /\ open' = FALSE
          /\ UNCHANGED <<startCol, earlier, truncated, due>>
      BY <2>5 DEF ClearUnseen, start
    <3>2. TextTypes' BY <3>1, ErasedText DEF TextInv, TextTypes
    <3> QED BY <3>1, <3>2 DEF OpenInv, ExactInv
  <2>6. CASE Miss
    <3>1. /\ UNCHANGED <<back, screen, cursor, startRow, startCol, earlier, due, open, unseen>>
          /\ truncated' \in BOOLEAN
      BY <2>6 DEF Miss, emulator, start
    <3> QED BY <3>1 DEF TextInv, TextTypes, OpenInv, ExactInv, Collected, Full
  <2>7. CASE Take BY <2>7, TakeKeepsText
  <2>8. CASE UNCHANGED vars
    BY <2>8 DEF vars, emulator, start, TextInv, TextTypes, OpenInv, ExactInv, Collected, Full
  <2> QED BY <2>1, <2>2, <2>3, <2>4, <2>5, <2>6, <2>7, <2>8 DEF Next
<1> QED BY <1>1, <1>2 DEF TextInv

LEMMA TextInit ==
  ASSUME Init, NewTextAssumption
  PROVE  TextInv
<1> USE NewTextAssumption DEF NewTextAssumption
<1>1. /\ back = <<>> /\ cursor = 1 /\ startRow = 0 /\ startCol = 1
      /\ screen = [r \in 1..Rows |-> IF r = 1 THEN RowOf(<<1>>) ELSE Blank]
      /\ earlier = <<>> /\ due = <<>>
  BY DEF Init
<1>2. open = FALSE /\ truncated = FALSE BY DEF Init
<1>3. /\ RowOf(<<1>>) \in Row /\ RowOf(<<1>>).text = <<1>> /\ Len(<<1>>) = 1
      /\ Blank \in Row /\ Blank.text = <<>> /\ Len(<<>>) = 0
  BY CharacterIsText
<1>4. /\ screen \in Seq(Row) /\ Len(screen) = Rows /\ screen[1].text = <<1>>
      /\ \A r \in 1..Rows : screen[r].text = <<1>> \/ screen[r].text = <<>>
  <2> DEFINE s == [r \in 1..Rows |-> IF r = 1 THEN RowOf(<<1>>) ELSE Blank]
  <2>1. s \in Seq(Row) /\ Len(s) = Rows BY <1>3
  <2>2. \A r \in 1..Rows : s[r] = IF r = 1 THEN RowOf(<<1>>) ELSE Blank OBVIOUS
  <2>3. 1 \in 1..Rows OBVIOUS
  <2>4. screen = s BY <1>1
  <2> HIDE DEF s
  <2> QED BY <1>3, <2>1, <2>2, <2>3, <2>4
<1>5. <<>> \in Seq(TextLines) /\ <<>> \in Seq(Row) BY EmptySeq
<1>6. TextTypes
  <2>1. \A r \in 1..Rows : Len(screen[r].text) <= Cols
    <3> SUFFICES ASSUME NEW r \in 1..Rows PROVE Len(screen[r].text) <= Cols OBVIOUS
    <3>1. CASE screen[r].text = <<1>> BY <1>3, <3>1
    <3>2. CASE screen[r].text = <<>> BY <1>3, <3>2
    <3> QED BY <1>4, <3>1, <3>2
  <2>2. startCol \in 0..Cols BY <1>1
  <2>3. truncated \in BOOLEAN /\ open \in BOOLEAN BY <1>2
  <2> QED BY <1>1, <1>5, <2>1, <2>2, <2>3 DEF TextTypes
<1>7. OpenInv BY <1>2 DEF OpenInv
<1>8. ExactInv
  <2> DEFINE t == TextsOf(<<>>, screen, 1)
  <2>1. Collected = t BY <1>1, CollectedTexts
  <2>2. /\ t \in Seq(Lines) /\ Len(t) = Len(<<>>) + 1
        /\ t[Len(<<>>) + 1] = screen[1].text
    <3>1. 1 \in 1..Rows OBVIOUS
    <3>2. IsTexts(t, <<>>, screen, 1) BY <1>4, <1>5, <3>1, TextsTyped
    <3> QED BY <3>2 DEF IsTexts
  <2> HIDE DEF t
  <2>3. Len(t) = 0 + 1 /\ t[0 + 1] = <<1>>
    <3>1. Len(<<>>) + 1 = 0 + 1 /\ 0 + 1 = 1 BY <1>3
    <3> QED BY <1>4, <2>2, <3>1
  <2>4. ExactOf(t, 0, Len(t[0 + 1]), <<>>, <<>>, FALSE) BY <1>5, <2>2, <2>3, ExactFresh
  <2>5. ExactOf(Collected, startRow, startCol, earlier, due, open)
    BY <1>1, <1>2, <1>3, <2>1, <2>3, <2>4
  <2> QED BY <2>5 DEF ExactInv
<1> QED BY <1>6, <1>7, <1>8, LineInit DEF TextInv

\* The rows, the starting point and what was taken out before always add up to the
\* lines that are due, as long as the scrollback has room and no clear was missed.
THEOREM TextInvariant == Spec => []TextInv
<1>1. Init => TextInv BY TextInit, NewTextAssumption
<1>2. TextInv /\ [Next]_vars => TextInv' BY TextStep, NewTextAssumption
<1> QED BY <1>1, <1>2, PTL DEF Spec

-----------------------------------------------------------------------------
(* What a text says                                                        *)

\* The rows that a text is made of.
Told == IF Full THEN Shown(Collected, 0, 0) ELSE Shown(Collected, startRow, startCol)

\* The lines of a text, but for a last line without text.
Base == earlier \o WithText(Told)

LEMMA TextIsBase ==
  ASSUME TextInv, NewTextAssumption
  PROVE  /\ Told \in Seq(Lines) /\ Base \in Seq(TextLines) /\ WithText(Told) \in Seq(TextLines)
         /\ Text = Base \/ Text = Append(Base, <<>>)
         /\ HasText(Last(Told)) => Text = Base
<1>1. earlier \in Seq(TextLines) /\ Collected \in Seq(Lines) /\ startRow \in Nat /\ startCol \in Nat
  BY TextFacts
<1>2. Told \in Seq(Lines) BY <1>1, ShownTyped DEF Told
<1>3. WithText(Told) \in Seq(TextLines) BY <1>2, WithTextSelects
<1>4. Base \in Seq(TextLines) BY <1>1, <1>3, ConcatProperties DEF Base
<1>5. /\ LinesOf(TRUE) = WithText(Told) \/ LinesOf(TRUE) = Append(WithText(Told), <<>>)
      /\ HasText(Last(Told)) => LinesOf(TRUE) = WithText(Told)
  BY DEF LinesOf, LinesFrom, Told
<1>6. earlier \o Append(WithText(Told), <<>>) = Append(Base, <<>>)
  <2> DEFINE w == WithText(Told)
  <2>1. w \in Seq(Lines) /\ earlier \in Seq(Lines) /\ <<>> \in Lines
    BY <1>1, <1>3, TextLinesAreLines, EmptySeq DEF Lines
  <2> HIDE DEF w
  <2>2. earlier \o Append(w, <<>>) = Append(earlier \o w, <<>>) BY <2>1, ConcatAppend
  <2> QED BY <2>2 DEF w, Base
<1> QED BY <1>2, <1>3, <1>4, <1>5, <1>6 DEF Text, Base

LEMMA BaseIsDue ==
  ASSUME TextInv, ~unseen, ~Full
  PROVE  Base = due /\ (open <=> HasText(Last(Told)))
BY DEF TextInv, ExactInv, ExactOf, Base, Told

LEMMA InChars ==
  ASSUME NEW lines \in Seq(Lines), NEW x
  PROVE  x \in CharsOf(lines) <=>
           \E i \in 1..Len(lines) : \E k \in 1..Len(lines[i]) : x = lines[i][k]
<1>1. DOMAIN lines = 1..Len(lines) OBVIOUS
<1>2. ASSUME NEW i \in 1..Len(lines) PROVE DOMAIN lines[i] = 1..Len(lines[i])
  BY DEF Lines
<1>3. x \in CharsOf(lines) <=> \E i \in DOMAIN lines : \E k \in DOMAIN lines[i] : x = lines[i][k]
  BY DEF CharsOf, ToSet
<1> QED BY <1>1, <1>2, <1>3

LEMMA CharsOfAppend ==
  ASSUME NEW lines \in Seq(Lines)
  PROVE  CharsOf(lines) \subseteq CharsOf(Append(lines, <<>>))
<1> DEFINE more == Append(lines, <<>>)
<1>1. /\ more \in Seq(Lines) /\ Len(more) = Len(lines) + 1 /\ Len(lines) \in Nat
      /\ \A i \in 1..Len(lines) : more[i] = lines[i]
  <2>1. <<>> \in Lines BY EmptySeq DEF Lines
  <2> QED BY <2>1, AppendProperties
<1> HIDE DEF more
<1>2. ASSUME NEW x \in CharsOf(lines) PROVE x \in CharsOf(more)
  <2>1. PICK i \in 1..Len(lines) : \E k \in 1..Len(lines[i]) : x = lines[i][k] BY InChars
  <2>2. i \in 1..Len(more) /\ more[i] = lines[i] BY <1>1
  <2>3. \E k \in 1..Len(more[i]) : x = more[i][k] BY <2>1, <2>2
  <2> QED BY <1>1, <2>2, <2>3, InChars
<1> QED BY <1>2 DEF more

LEMMA SuffixOf ==
  ASSUME NEW row \in Lines, NEW line, EndsWith(row, line)
  PROVE  IsSuffix(line, row)
<1>1. PICK k \in 0..Len(row) : line = From(row, k) BY DEF EndsWith
<1> DEFINE n == Len(row)
           l == Len(line)
           a == Reverse(line)
           b == Reverse(row)
<1>2. n \in Nat /\ k \in 0..n BY <1>1 DEF Lines
<1>3. line \in Lines /\ l = n - k /\ \A i \in 1..(n - k) : line[i] = row[k + i]
  <2>1. /\ From(row, k) \in Lines
        /\ Len(From(row, k)) = IF k <= Len(row) THEN Len(row) - k ELSE 0
        /\ \A i \in 1..(Len(row) - k) : From(row, k)[i] = row[k + i]
    BY <1>2, FromTyped
  <2> QED BY <1>1, <1>2, <2>1
<1>4. a \in Seq(Nat) /\ Len(a) = l /\ \A i \in 1..l : a[i] = line[(l - i) + 1]
  <2>1. l \in Nat /\ \A i \in 1..l : line[(l - i) + 1] \in Nat
    <3>1. l \in Nat /\ \A i \in 1..l : (l - i) + 1 \in 1..l BY <1>2, <1>3
    <3> QED BY <1>3, <3>1 DEF Lines
  <2>2. a = [i \in 1..l |-> line[(l - i) + 1]] BY DEF Reverse
  <2> HIDE DEF a, l
  <2> QED BY <2>1, <2>2
<1>5. b \in Seq(Nat) /\ Len(b) = n /\ \A i \in 1..n : b[i] = row[(n - i) + 1]
  <2>1. n \in Nat /\ \A i \in 1..n : row[(n - i) + 1] \in Nat
    <3>1. \A i \in 1..n : (n - i) + 1 \in 1..n BY <1>2
    <3> QED BY <1>2, <3>1 DEF Lines
  <2>2. b = [i \in 1..n |-> row[(n - i) + 1]] BY DEF Reverse
  <2> HIDE DEF b, n
  <2> QED BY <2>1, <2>2
<1> HIDE DEF a, b, l, n
<1>6. ASSUME NEW i \in 1..l PROVE a[i] = b[i]
  <2>1. (l - i) + 1 \in 1..(n - k) /\ i \in 1..n /\ k + ((l - i) + 1) = (n - i) + 1
    BY <1>2, <1>3
  <2>2. line[(l - i) + 1] = row[k + ((l - i) + 1)] BY <1>3, <2>1
  <2> QED BY <1>4, <1>5, <2>1, <2>2
<1>7. Len(a) <= Len(b) /\ l \in Nat /\ l <= n BY <1>2, <1>3, <1>4, <1>5
<1>8. SubSeq(a, 1, l) = SubSeq(b, 1, l)
  <2>1. ASSUME NEW t \in Seq(Nat), l <= Len(t)
        PROVE  /\ SubSeq(t, 1, l) \in Seq(Nat) /\ Len(SubSeq(t, 1, l)) = l
               /\ \A i \in 1..l : SubSeq(t, 1, l)[i] = t[i]
    <3>1. \A i \in 1..l : t[i] \in Nat
      <4>1. Len(t) \in Nat /\ \A i \in 1..l : i \in 1..Len(t) BY <1>2, <1>7, <2>1
      <4> QED BY <4>1, ElementOfSeq
    <3> QED BY <1>7, <3>1, SubSeqProperties
  <2>2. /\ SubSeq(a, 1, l) \in Seq(Nat) /\ Len(SubSeq(a, 1, l)) = l
        /\ \A i \in 1..l : SubSeq(a, 1, l)[i] = a[i]
    BY <1>4, <1>7, <2>1
  <2>3. /\ SubSeq(b, 1, l) \in Seq(Nat) /\ Len(SubSeq(b, 1, l)) = l
        /\ \A i \in 1..l : SubSeq(b, 1, l)[i] = b[i]
    BY <1>5, <1>7, <2>1
  <2> QED BY <1>6, <2>2, <2>3, SeqEqual
<1>9. IsPrefix(a, b) BY <1>4, <1>7, <1>8 DEF IsPrefix
<1> QED BY <1>9 DEF IsSuffix, a, b

LEMMA WholeLine == ASSUME NEW line \in Lines PROVE From(line, 0) = line /\ EndsWith(line, line)
<1>1. line \in Seq(Nat) /\ Len(line) \in Nat BY DEF Lines
<1>2. SubSeq(line, 1, Len(line)) = line BY <1>1, SubSeqFull
<1>3. From(line, 0) = line BY <1>2 DEF From
<1>4. 0 \in 0..Len(line) BY <1>1
<1> QED BY <1>3, <1>4 DEF EndsWith

\* From the first column of the first row, everything is shown.
LEMMA ShownWhole ==
  ASSUME NEW rows \in Seq(Lines), rows # <<>>
  PROVE  Shown(rows, 0, 0) = rows
<1> DEFINE s == Shown(rows, 0, 0)
           n == Len(rows)
<1>1. n \in Nat \ {0} /\ 0 < n /\ n - 0 = n /\ 0 + 1 = 1 OBVIOUS
<1>2. /\ s \in Seq(Lines) /\ Len(s) = n
      /\ \A i \in 1..n : s[i] = IF i = 1 THEN From(rows[1], 0) ELSE rows[0 + i]
  <2> DEFINE z == 0
  <2>1. z \in Nat /\ z < Len(rows) /\ Len(rows) - z = n /\ z + 1 = 1 /\ n \in Nat BY <1>1
  <2>2. s = Shown(rows, z, z) OBVIOUS
  <2> HIDE DEF z, s, n
  <2>3. /\ s \in Seq(Lines) /\ Len(s) = Len(rows) - z
        /\ \A i \in 1..(Len(rows) - z) :
             s[i] = IF i = 1 THEN From(rows[z + 1], z) ELSE rows[z + i]
    <3>1. z \in Nat /\ z < Len(rows) BY <2>1
    <3> QED BY <2>2, <3>1, ShownTyped
  <2>4. /\ s \in Seq(Lines) /\ Len(s) = n
        /\ \A i \in 1..n : s[i] = IF i = 1 THEN From(rows[1], z) ELSE rows[z + i]
    BY <2>1, <2>3
  <2> QED BY <2>4 DEF z
<1> HIDE DEF s
<1>3. From(rows[1], 0) = rows[1]
  <2>1. rows[1] \in Lines BY <1>1
  <2> QED BY <2>1, WholeLine
<1>4. \A i \in 1..n : s[i] = rows[i]
  <2>1. \A i \in 1..n : 0 + i = i OBVIOUS
  <2> QED BY <1>2, <1>3, <2>1
<1>5. s = rows BY <1>2, <1>4, SeqEqual
<1> QED BY <1>5 DEF s

LEMMA ExactFromInv ==
  ASSUME TextInv, NewTextAssumption
  PROVE  TextIsExact
<1> SUFFICES ASSUME ~Marked, ~unseen PROVE WithText(Text) = due BY DEF TextIsExact
<1>1. Base = due BY BaseIsDue DEF Marked
<1>2. due \in Seq(TextLines) /\ due \in Seq(Lines) BY TextFacts, TextLinesAreLines
<1>3. WithText(due) = due BY <1>2, WithTextAll
<1>4. WithText(Append(due, <<>>)) = WithText(due)
  <2>1. <<>> \in Lines BY EmptySeq DEF Lines
  <2> QED BY <1>2, <2>1, WithTextAppend DEF HasText
<1> QED BY <1>1, <1>3, <1>4, TextIsBase

\* What the scrollback and the screen have is in a text that is marked for a
\* full scrollback.
LEMMA FullTellsAll ==
  ASSUME TextInv, NewTextAssumption, Full
  PROVE  Told = Collected /\ CharsOf(Collected) \subseteq CharsOf(Base)
<1>1. /\ Collected \in Seq(Lines) /\ Len(Collected) = Len(back) + cursor
      /\ Len(back) \in Nat /\ cursor \in 1..Rows /\ Rows \in Nat /\ earlier \in Seq(TextLines)
  BY TextFacts
<1>2. Collected # <<>>
  <2>1. Len(Collected) # 0 BY <1>1
  <2>2. Len(<<>>) = 0 BY EmptySeq
  <2> QED BY <2>1, <2>2
<1>3. Told = Collected BY <1>1, <1>2, ShownWhole DEF Told
<1> DEFINE w == WithText(Collected)
<1>4. /\ w \in Seq(TextLines) /\ w \in Seq(Lines) /\ earlier \in Seq(Lines)
  BY <1>1, WithTextSelects, TextLinesAreLines
<1>5. ASSUME NEW x \in CharsOf(Collected) PROVE x \in CharsOf(earlier \o w)
  <2>1. PICK i \in 1..Len(Collected) : \E k \in 1..Len(Collected[i]) : x = Collected[i][k]
    BY <1>1, InChars
  <2>2. HasText(Collected[i])
    <3>1. Len(<<>>) = 0 BY EmptySeq
    <3>2. Collected[i] = <<>> => 1..Len(Collected[i]) = {} BY <3>1
    <3> QED BY <2>1, <3>2 DEF HasText
  <2>3. PICK j \in 1..Len(w) : w[j] = Collected[i] BY <1>1, <2>2, WithTextMembers
  <2> HIDE DEF w
  <2>4. /\ earlier \o w \in Seq(Lines) /\ Len(earlier \o w) = Len(earlier) + Len(w)
        /\ Len(earlier) \in Nat /\ Len(w) \in Nat
        /\ \A m \in 1..(Len(earlier) + Len(w)) :
             (earlier \o w)[m] = IF m <= Len(earlier) THEN earlier[m] ELSE w[m - Len(earlier)]
    BY <1>4, ConcatProperties
  <2> DEFINE n == Len(earlier) + j
             t == earlier \o w
  <2>5. n \in 1..Len(t) /\ t[n] = Collected[i]
    <3>1. n \in 1..(Len(earlier) + Len(w)) /\ ~(n <= Len(earlier)) /\ n - Len(earlier) = j
      BY <2>3, <2>4
    <3>2. t[n] = w[n - Len(earlier)] BY <2>4, <3>1
    <3>3. n \in 1..Len(t) BY <2>4, <3>1
    <3>4. w[n - Len(earlier)] = w[j] BY <3>1
    <3> QED BY <2>3, <3>2, <3>3, <3>4
  <2> HIDE DEF n, t
  <2>6. \E q \in 1..Len(t[n]) : x = t[n][q] BY <2>1, <2>5
  <2>7. t \in Seq(Lines) BY <2>4 DEF t
  <2>8. x \in CharsOf(t) BY <2>5, <2>6, <2>7, InChars
  <2> QED BY <2>8 DEF t
<1> QED BY <1>3, <1>5 DEF Base

LEMMA NewestFromInv ==
  ASSUME TextInv, NewTextAssumption
  PROVE  NewestIsTold
<1> SUFFICES ASSUME ~unseen
             PROVE  /\ CharsOf(due) \cap CharsOf(Collected) \subseteq CharsOf(Text)
                    /\ open => IsSuffix(Last(due), Last(Text))
  BY DEF NewestIsTold
<1>1. Base \in Seq(Lines) BY TextIsBase, TextLinesAreLines
<1>2. CharsOf(Base) \subseteq CharsOf(Text) BY <1>1, TextIsBase, CharsOfAppend
<1>3. CASE ~Full
  <2>1. Base = due /\ (open <=> HasText(Last(Told))) BY <1>3, BaseIsDue
  <2>2. ASSUME open PROVE IsSuffix(Last(due), Last(Text))
    <3>1. Text = due BY <2>1, <2>2, TextIsBase
    <3>2. due # <<>> /\ due \in Seq(Lines) BY <1>1, <2>1, <2>2 DEF TextInv, OpenInv
    <3>3. Last(due) \in Lines
      <4>1. Len(due) \in 1..Len(due) BY <3>2
      <4> QED BY <3>2, <4>1 DEF Last
    <3>4. IsSuffix(Last(due), Last(due)) BY <3>3, WholeLine, SuffixOf
    <3> QED BY <3>1, <3>4
  <2> QED BY <1>2, <2>1, <2>2
<1>4. CASE Full
  <2>1. Told = Collected /\ CharsOf(Collected) \subseteq CharsOf(Base) BY <1>4, FullTellsAll
  <2>2. ASSUME open PROVE IsSuffix(Last(due), Last(Text))
    <3> DEFINE row == screen[cursor].text
    <3>1. due # <<>> /\ EndsWith(row, Last(due)) BY <2>2 DEF TextInv, OpenInv
    <3>2. /\ row \in Lines /\ due \in Seq(TextLines) /\ Collected \in Seq(Lines)
          /\ Len(Collected) = Len(back) + cursor /\ Len(back) \in Nat /\ cursor \in Nat \ {0}
          /\ Collected[Len(back) + cursor] = row /\ earlier \in Seq(TextLines)
      BY TextFacts
    <3> HIDE DEF row
    <3>3. Last(Collected) = row /\ Collected # <<>>
      <4>1. Len(Collected) # 0 BY <3>2
      <4>2. Len(<<>>) = 0 BY EmptySeq
      <4> QED BY <3>2, <4>1, <4>2 DEF Last
    <3>4. HasText(row)
      <4>1. Last(due) # <<>>
        <5>1. Len(due) \in 1..Len(due) BY <3>1, <3>2
        <5>2. due[Len(due)] \in TextLines BY <3>2, <5>1
        <5> QED BY <5>2 DEF Last, TextLines
      <4>2. PICK k \in 0..Len(row) : Last(due) = From(row, k) BY <3>1 DEF EndsWith
      <4>3. row = <<>> => From(row, k) = <<>>
        <5> SUFFICES ASSUME row = <<>> PROVE From(row, k) = <<>> OBVIOUS
        <5>1. k \in Nat /\ From(row, k) \in Lines BY <3>2, FromTyped DEF Lines
        <5>2. Len(row) = 0 /\ k = 0 BY EmptySeq
        <5>3. Len(From(row, k)) = 0 BY <3>2, <5>1, <5>2, FromTyped
        <5> QED BY <5>1, <5>3 DEF Lines
      <4> QED BY <4>1, <4>2, <4>3 DEF HasText
    <3>5. Text = Base BY <2>1, <3>3, <3>4, TextIsBase
    <3> DEFINE w == WithText(Collected)
    <3>6. w \in Seq(TextLines) /\ w # <<>> /\ Last(w) = row
      BY <3>2, <3>3, <3>4, WithTextSelects, WithTextExtend
    <3> HIDE DEF w
    <3>7. Base = earlier \o w BY <2>1 DEF Base, w
    <3>8. PICK f \in Seq(TextLines), l \in TextLines : w = Append(f, l)
      BY <3>6, SequenceEmptyOrAppend
    <3>9. Last(w) = l BY <3>8, LastOfAppend
    <3>10. earlier \o w = Append(earlier \o f, l) BY <3>2, <3>8, ConcatAppend
    <3>11. earlier \o f \in Seq(TextLines) BY <3>2, ConcatProperties
    <3>12. Last(Base) = l BY <3>7, <3>10, <3>11, LastOfAppend
    <3>13. IsSuffix(Last(due), row) BY <3>1, <3>2, SuffixOf
    <3> QED BY <3>5, <3>6, <3>9, <3>12, <3>13
  <2> QED BY <1>2, <2>1, <2>2
<1> QED BY <1>3, <1>4

LEMMA TypesFromInv ==
  ASSUME TextInv, NewTextAssumption
  PROVE  TypeOK
<1>1. earlier \in Seq(Lines) /\ due \in Seq(Lines) BY TextFacts, TextLinesAreLines
<1>2. TextTypes /\ LineInv BY DEF TextInv
<1> QED BY <1>1, <1>2, TextFacts DEF TypeOK, TextTypes, LineInv, Shape

\* For every terminal and scrollback: the variables have their types, the rows
\* keep to the width of the terminal and the scrollback to its limit.
THEOREM TextTypeCorrect == Spec => []TypeOK
<1>1. TextInv => TypeOK BY TypesFromInv, NewTextAssumption
<1> QED BY <1>1, TextInvariant, PTL

\* For every terminal and scrollback: a text that is not marked has every line
\* printed since the last one, whole, once and in order, however they were wrapped,
\* scrolled away or cleared, as long as no clear has gone unnoticed.
THEOREM TextIsAlwaysExact == Spec => []TextIsExact
<1>1. TextInv => TextIsExact BY ExactFromInv, NewTextAssumption
<1> QED BY <1>1, TextInvariant, PTL

\* For every terminal and scrollback: marked or not, a text has all that is due and
\* still there, and ends with the line the cursor is on.
THEOREM NewestAlwaysTold == Spec => []NewestIsTold
<1>1. TextInv => NewestIsTold BY NewestFromInv, NewTextAssumption
<1> QED BY <1>1, TextInvariant, PTL
=============================================================================
