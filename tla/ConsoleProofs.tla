---------------------------- MODULE ConsoleProofs ----------------------------
(***************************************************************************)
(* The screen and the shell, for a screen of any size, any number of tasks *)
(* and any texts: the layout of the screen, the line that the prompt       *)
(* shows, what reaches the terminal, and the two windows.                  *)
(***************************************************************************)
EXTENDS Console, FiniteSetTheorems, SequenceTheorems, WellFoundedInduction, TLAPS

Cells == [Rows -> [Columns -> AnyChar]]
Screen == [cell : Cells, x : Columns, y : Rows]
LowerRows == Half + 1 .. SCREEN_HEIGHT - 2
Blanks == [j \in Columns |-> "SP"]
Dashes == [j \in Columns |-> "-"]

\* Numbers that the proofs need again and again.
LEMMA Sizes ==
  /\ SCREEN_WIDTH \in Nat /\ SCREEN_WIDTH > 1 /\ SCREEN_HEIGHT \in Nat
  /\ Half \in Nat /\ Half >= 3 /\ Half + 2 <= SCREEN_HEIGHT - 1
  /\ Len(prefix) \in Nat /\ Len(prefix) < SCREEN_WIDTH /\ Capacity < SCREEN_WIDTH
  /\ Capacity \in Nat /\ Len(prefix) + Capacity = SCREEN_WIDTH
<1>1. SCREEN_HEIGHT \in Nat /\ SCREEN_HEIGHT > 5 /\ SCREEN_WIDTH \in Nat
  BY ConsoleAssumption
<1>2. Half \in Nat /\ Half >= 3 /\ Half + 2 <= SCREEN_HEIGHT - 1
  BY <1>1 DEF Half
<1>3. Len(prefix) \in Nat /\ Len(prefix) > 0 /\ Capacity > 0
  BY TextsAssumption
<1> QED BY <1>1, <1>2, <1>3 DEF Capacity

\* Every nonempty set of natural numbers has a least element: the induction
\* over the characters of a text is an argument about the first bad one.
LEMMA LeastNat ==
  ASSUME NEW T, T \subseteq Nat, T # {}
  PROVE  \E x \in T : \A y \in T : x <= y
<1> DEFINE R == {ss \in Nat \X Nat : ss[1] < ss[2]}
<1>1. IsWellFoundedOn(R, Nat)
  BY NatLessThanWellFounded DEF OpToRel
<1>2. \A x, y \in Nat : x < y => <<x, y>> \in R
  OBVIOUS
<1> HIDE DEF R
<1>3. PICK x \in T : \A y \in T : ~ (<<y, x>> \in R)
  BY <1>1, WFMin
<1>4. ASSUME NEW y \in T PROVE x <= y
  <2>1. x \in Nat /\ y \in Nat
    OBVIOUS
  <2>2. ~ y < x
    BY <1>2, <1>3, <2>1
  <2> QED BY <2>1, <2>2
<1> QED BY <1>4

-----------------------------------------------------------------------------
\* One character.

Set(cell, i, j, ch) == [cell EXCEPT ![i][j] = ch]

LEMMA SetFacts ==
  ASSUME NEW cell \in Cells, NEW i \in Rows, NEW j \in Columns, NEW ch \in AnyChar
  PROVE  /\ Set(cell, i, j, ch) \in Cells
         /\ \A k \in Rows : k # i => Set(cell, i, j, ch)[k] = cell[k]
         /\ \A c \in Columns : Set(cell, i, j, ch)[i][c] = IF c = j THEN ch ELSE cell[i][c]
BY DEF Set, Cells

\* The screen before screen_write_ch looks whether it must scroll.
Moved(s, ch) ==
  IF ch = "LF" THEN [cell |-> s.cell, x |-> 0, y |-> s.y + 1]
  ELSE IF ch = "BS"
  THEN IF s.x > 0 THEN [cell |-> Set(s.cell, s.y, s.x - 1, "SP"), x |-> s.x - 1, y |-> s.y]
       ELSE s
  ELSE IF s.x + 1 = SCREEN_WIDTH
  THEN [cell |-> Set(s.cell, s.y, s.x, ch), x |-> 0, y |-> s.y + 1]
  ELSE [cell |-> Set(s.cell, s.y, s.x, ch), x |-> s.x + 1, y |-> s.y]

LEMMA ChMoved ==
  ASSUME NEW s \in Screen, NEW ch \in AnyChar
  PROVE  screen_write_ch(s, ch) = KeepLastLine(Moved(s, ch))
<1>1. /\ s = [cell |-> s.cell, x |-> s.x, y |-> s.y]
      /\ s.x \in Columns /\ s.y \in Rows /\ s.cell \in Cells
  BY DEF Screen
<1>2. s.x \in Nat /\ s.y \in Nat /\ s.x < SCREEN_WIDTH
  BY <1>1, Sizes DEF Rows, Columns
<1>3. Wrap(Put(s, ch)) = Moved(s, ch)
  <2>1. CASE ch = "LF"
    <3>1. Put(s, ch) = [cell |-> s.cell, x |-> 0, y |-> s.y + 1]
      BY <1>1, <2>1 DEF Put
    <3> QED BY <3>1, <2>1, Sizes DEF Wrap, Moved
  <2>2. CASE ch = "BS" /\ s.x > 0
    <3> DEFINE a == [cell |-> Set(s.cell, s.y, s.x - 1, "SP"), x |-> s.x - 1, y |-> s.y]
    <3>1. Put(s, ch) = a
      BY <1>1, <2>2 DEF Put, Set
    <3>2. Moved(s, ch) = a
      BY <2>2 DEF Moved
    <3>3. a.x # SCREEN_WIDTH
      BY <1>2, Sizes
    <3> HIDE DEF a
    <3> QED BY <3>1, <3>2, <3>3 DEF Wrap
  <2>3. CASE ch = "BS" /\ ~ s.x > 0
    <3>1. Put(s, ch) = s
      BY <2>3 DEF Put
    <3>2. Moved(s, ch) = s
      BY <2>3 DEF Moved
    <3>3. s.x # SCREEN_WIDTH
      BY <1>2, Sizes
    <3> QED BY <3>1, <3>2, <3>3 DEF Wrap
  <2>4. CASE ch # "LF" /\ ch # "BS"
    <3> DEFINE c2 == Set(s.cell, s.y, s.x, ch)
    <3>1. Put(s, ch) = [cell |-> c2, x |-> s.x + 1, y |-> s.y]
      BY <1>1, <2>4 DEF Put, Set
    <3>2. Moved(s, ch) = IF s.x + 1 = SCREEN_WIDTH THEN [cell |-> c2, x |-> 0, y |-> s.y + 1]
                         ELSE [cell |-> c2, x |-> s.x + 1, y |-> s.y]
      BY <2>4 DEF Moved
    <3> HIDE DEF c2
    <3>3. CASE s.x + 1 = SCREEN_WIDTH
      BY <3>1, <3>2, <3>3 DEF Wrap
    <3>4. CASE s.x + 1 # SCREEN_WIDTH
      BY <3>1, <3>2, <3>4 DEF Wrap
    <3> QED BY <3>3, <3>4
  <2> QED BY <2>1, <2>2, <2>3, <2>4
<1> QED BY <1>3 DEF screen_write_ch

LEMMA MovedFacts ==
  ASSUME NEW s \in Screen, NEW ch \in AnyChar, NEW a, a = Moved(s, ch)
  PROVE  /\ a \in [cell : Cells, x : Columns, y : 0 .. SCREEN_HEIGHT]
         /\ a.y = s.y \/ (a.y = s.y + 1 /\ a.x = 0)
         /\ \A i \in Rows : i # s.y => a.cell[i] = s.cell[i]
         /\ \A j \in Columns : s.cell[s.y][j] # a.cell[s.y][j] =>
              a.cell[s.y][j] = "SP" \/ (j = s.x /\ (a.y = s.y + 1 \/ j < a.x))
         /\ a.y = s.y /\ a.x < s.x => a.x = s.x - 1 /\ a.cell[s.y][s.x - 1] = "SP"
<1>1. s.x \in Columns /\ s.y \in Rows /\ s.cell \in Cells
  BY DEF Screen
<1>2. /\ s.x \in Nat /\ s.y \in Nat /\ s.x < SCREEN_WIDTH /\ s.y < SCREEN_HEIGHT
      /\ s.y \in 0 .. SCREEN_HEIGHT /\ s.y + 1 \in 0 .. SCREEN_HEIGHT
  BY <1>1, Sizes DEF Rows, Columns
<1>3. 0 \in Columns /\ "SP" \in AnyChar
  BY Sizes, TextsAssumption DEF Columns, AnyChar
<1>4. CASE ch = "LF"
  <2>1. a = [cell |-> s.cell, x |-> 0, y |-> s.y + 1]
    BY <1>4 DEF Moved
  <2> QED BY <1>1, <1>2, <1>3, <2>1
<1>5. CASE ch = "BS" /\ s.x > 0
  <2> DEFINE c2 == Set(s.cell, s.y, s.x - 1, "SP")
  <2>1. a = [cell |-> c2, x |-> s.x - 1, y |-> s.y]
    BY <1>5 DEF Moved
  <2>2. s.x - 1 \in Columns
    BY <1>2, <1>5, Sizes DEF Columns
  <2>3. /\ c2 \in Cells
        /\ \A k \in Rows : k # s.y => c2[k] = s.cell[k]
        /\ \A c \in Columns : c2[s.y][c] = IF c = s.x - 1 THEN "SP" ELSE s.cell[s.y][c]
    <3> HIDE DEF c2
    <3>1. PICK j \in Columns : j = s.x - 1
      BY <2>2
    <3>2. c2 = Set(s.cell, s.y, j, "SP")
      BY <3>1 DEF c2
    <3>3. /\ c2 \in Cells
          /\ \A k \in Rows : k # s.y => c2[k] = s.cell[k]
          /\ \A c \in Columns : c2[s.y][c] = IF c = j THEN "SP" ELSE s.cell[s.y][c]
      <4>1. s.cell \in Cells /\ s.y \in Rows /\ "SP" \in AnyChar
        BY <1>1, <1>3
      <4> QED BY <3>2, <4>1, SetFacts
    <3> QED BY <3>1, <3>3
  <2> HIDE DEF c2
  <2>4. a.cell = c2 /\ a.x = s.x - 1 /\ a.y = s.y
    BY <2>1
  <2>5. a \in [cell : Cells, x : Columns, y : 0 .. SCREEN_HEIGHT]
    BY <1>2, <2>1, <2>2, <2>3
  <2>6. \A j \in Columns : s.cell[s.y][j] # a.cell[s.y][j] => a.cell[s.y][j] = "SP"
    BY <2>3, <2>4
  <2>7. a.cell[s.y][s.x - 1] = "SP"
    BY <2>2, <2>3, <2>4
  <2> QED BY <2>3, <2>4, <2>5, <2>6, <2>7, <1>2
<1>6. CASE ch = "BS" /\ ~ s.x > 0
  <2>1. a = s
    BY <1>6 DEF Moved
  <2>2. a \in [cell : Cells, x : Columns, y : 0 .. SCREEN_HEIGHT]
    BY <1>1, <1>2, <2>1 DEF Screen
  <2>3. ~ a.x < s.x
    BY <1>2, <2>1
  <2> QED BY <2>1, <2>2, <2>3, <1>2
<1>7. CASE ch # "LF" /\ ch # "BS"
  <2> DEFINE c2 == Set(s.cell, s.y, s.x, ch)
  <2>1. a = IF s.x + 1 = SCREEN_WIDTH THEN [cell |-> c2, x |-> 0, y |-> s.y + 1]
            ELSE [cell |-> c2, x |-> s.x + 1, y |-> s.y]
    BY <1>7 DEF Moved
  <2>2. /\ c2 \in Cells
        /\ \A k \in Rows : k # s.y => c2[k] = s.cell[k]
        /\ \A c \in Columns : c2[s.y][c] = IF c = s.x THEN ch ELSE s.cell[s.y][c]
    BY <1>1, SetFacts
  <2> HIDE DEF c2
  <2>3. CASE s.x + 1 = SCREEN_WIDTH
    <3>1. a.cell = c2 /\ a.x = 0 /\ a.y = s.y + 1
      BY <2>1, <2>3
    <3>2. a \in [cell : Cells, x : Columns, y : 0 .. SCREEN_HEIGHT]
      BY <1>2, <1>3, <2>1, <2>2, <2>3
    <3> QED BY <1>2, <2>2, <3>1, <3>2
  <2>4. CASE s.x + 1 # SCREEN_WIDTH
    <3>1. s.x + 1 \in Columns
      BY <1>2, <2>4, Sizes DEF Columns
    <3>2. a.cell = c2 /\ a.x = s.x + 1 /\ a.y = s.y
      BY <2>1, <2>4
    <3>3. a \in [cell : Cells, x : Columns, y : 0 .. SCREEN_HEIGHT]
      BY <1>2, <2>1, <2>2, <2>4, <3>1
    <3>4. ~ a.x < s.x /\ s.x < a.x
      BY <1>2, <3>2
    <3>5. \A j \in Columns : s.cell[s.y][j] # a.cell[s.y][j] => j = s.x
      BY <2>2, <3>2
    <3> QED BY <2>2, <3>2, <3>3, <3>4, <3>5, <1>2
  <2> QED BY <2>3, <2>4
<1> QED BY <1>4, <1>5, <1>6, <1>7

LEMMA ScrollFacts ==
  ASSUME NEW cell \in Cells, NEW c, c = screen_scroll(cell, Half + 1, SCREEN_HEIGHT - 2)
  PROVE  /\ c \in Cells
         /\ c[SCREEN_HEIGHT - 2] = Blanks
         /\ \A i \in Rows : i <= Half \/ i = SCREEN_HEIGHT - 1 => c[i] = cell[i]
         /\ \A i \in Half + 1 .. SCREEN_HEIGHT - 3 : c[i] = cell[i + 1]
<1>1. Blanks \in [Columns -> AnyChar]
  BY TextsAssumption DEF Blanks, AnyChar
<1> DEFINE f(i) == CASE i = SCREEN_HEIGHT - 2 -> Blanks
                     [] i \in Half + 1 .. (SCREEN_HEIGHT - 2) - 1 -> cell[i + 1]
                     [] OTHER -> cell[i]
<1>2. c = [i \in Rows |-> f(i)]
  BY DEF screen_scroll, Blanks
<1>3. \A i \in Rows : i = SCREEN_HEIGHT - 2 => f(i) = Blanks
  OBVIOUS
<1>4. \A i \in Half + 1 .. SCREEN_HEIGHT - 3 : i \in Rows /\ i + 1 \in Rows /\ f(i) = cell[i + 1]
  BY Sizes DEF Rows
<1>5. \A i \in Rows : i <= Half \/ i = SCREEN_HEIGHT - 1 => f(i) = cell[i]
  BY Sizes DEF Rows
<1>6. \A i \in Rows : \/ i = SCREEN_HEIGHT - 2 \/ i \in Half + 1 .. SCREEN_HEIGHT - 3
                      \/ i <= Half \/ i = SCREEN_HEIGHT - 1
  BY Sizes DEF Rows
<1>7. SCREEN_HEIGHT - 2 \in Rows
  BY Sizes DEF Rows
<1> HIDE DEF f
<1>8. \A i \in Rows : f(i) \in [Columns -> AnyChar]
  BY <1>1, <1>3, <1>4, <1>5, <1>6 DEF Cells
<1> QED BY <1>2, <1>3, <1>4, <1>5, <1>7, <1>8 DEF Cells

\* In the lower half nothing has been written behind the cursor.
Fresh(s) ==
  \A i \in LowerRows, j \in Columns :
    i > s.y \/ (i = s.y /\ j >= s.x) => s.cell[i][j] = "SP"

\* A character below the line of dashes: the cursor stays there, the other
\* half and the last line are not touched.
LEMMA ChLower ==
  ASSUME NEW s \in Screen, s.y \in LowerRows, NEW ch \in AnyChar,
         NEW r, r = screen_write_ch(s, ch)
  PROVE  /\ r \in Screen /\ r.y \in LowerRows
         /\ \A i \in Rows : i <= Half \/ i = SCREEN_HEIGHT - 1 => r.cell[i] = s.cell[i]
         /\ Fresh(s) => Fresh(r)
         /\ ch = "LF" => r.x = 0
<1> DEFINE a == Moved(s, ch)
<1>1. /\ s.x \in Columns /\ s.y \in Rows /\ s.x \in Nat /\ s.y \in Nat
      /\ s.y > Half /\ s.y <= SCREEN_HEIGHT - 2
  BY Sizes DEF Screen, LowerRows, Rows, Columns
<1>2. /\ a \in [cell : Cells, x : Columns, y : 0 .. SCREEN_HEIGHT]
      /\ a.y = s.y \/ (a.y = s.y + 1 /\ a.x = 0)
      /\ \A i \in Rows : i # s.y => a.cell[i] = s.cell[i]
      /\ \A j \in Columns : s.cell[s.y][j] # a.cell[s.y][j] =>
           a.cell[s.y][j] = "SP" \/ (j = s.x /\ (a.y = s.y + 1 \/ j < a.x))
      /\ a.y = s.y /\ a.x < s.x => a.x = s.x - 1 /\ a.cell[s.y][s.x - 1] = "SP"
  BY MovedFacts
<1>3. ch = "LF" => a.x = 0
  BY DEF Moved
<1>4. r = KeepLastLine(a)
  BY ChMoved
<1>5. a.cell \in Cells /\ a.x \in Columns /\ a.y \in Nat /\ a.x \in Nat
  BY <1>1, <1>2, Sizes DEF Columns
<1> HIDE DEF a
<1>6. CASE a.y # SCREEN_HEIGHT - 1
  <2>1. r = a
    BY <1>4, <1>6 DEF KeepLastLine
  <2>2. a.y \in Rows /\ a.y \in LowerRows
    <3>1. a.y \in Nat /\ s.y \in Nat /\ (a.y = s.y \/ a.y = s.y + 1)
      BY <1>1, <1>2, <1>5
    <3>2. a.y > Half /\ a.y <= SCREEN_HEIGHT - 2
      BY <1>1, <1>6, <3>1, Sizes
    <3> QED BY <3>1, <3>2, Sizes DEF Rows, LowerRows
  <2>3. r \in Screen
    BY <1>2, <2>1, <2>2 DEF Screen
  <2>4. \A i \in Rows : i <= Half \/ i = SCREEN_HEIGHT - 1 => r.cell[i] = s.cell[i]
    <3>1. \A i \in Rows : i <= Half \/ i = SCREEN_HEIGHT - 1 => i # s.y
      BY <1>1, Sizes DEF Rows
    <3> QED BY <1>2, <2>1, <3>1
  <2>5. ASSUME Fresh(s) PROVE Fresh(r)
    <3> SUFFICES ASSUME NEW i \in LowerRows, NEW j \in Columns, i > a.y \/ (i = a.y /\ j >= a.x)
                 PROVE  a.cell[i][j] = "SP"
      BY <2>1 DEF Fresh
    <3>1. i \in Rows /\ i \in Nat /\ j \in Nat
      BY Sizes DEF LowerRows, Rows, Columns
    <3>2. CASE i > s.y
      <4>1. a.cell[i] = s.cell[i]
        BY <1>1, <1>2, <3>1, <3>2
      <4> QED BY <2>5, <3>2, <4>1 DEF Fresh
    <3>3. CASE ~ i > s.y
      <4>1. i = s.y /\ a.y = s.y /\ j >= a.x
        BY <1>1, <1>2, <1>5, <3>1, <3>3
      <4>2. CASE s.cell[s.y][j] # a.cell[s.y][j]
        BY <1>1, <1>2, <1>5, <3>1, <4>1, <4>2
      <4>3. CASE s.cell[s.y][j] = a.cell[s.y][j] /\ j >= s.x
        BY <2>5, <4>1, <4>3 DEF Fresh
      <4>4. CASE s.cell[s.y][j] = a.cell[s.y][j] /\ j < s.x
        <5>1. a.x = s.x - 1 /\ a.cell[s.y][s.x - 1] = "SP"
          BY <1>1, <1>2, <1>5, <3>1, <4>1, <4>4
        <5>2. j = s.x - 1
          BY <1>1, <3>1, <4>1, <4>4, <5>1
        <5> QED BY <4>1, <5>1, <5>2
      <4> QED BY <1>1, <3>1, <4>2, <4>3, <4>4
    <3> QED BY <3>2, <3>3
  <2> QED BY <1>3, <2>1, <2>2, <2>3, <2>4, <2>5
<1>7. CASE a.y = SCREEN_HEIGHT - 1
  <2> DEFINE c == screen_scroll(a.cell, Half + 1, SCREEN_HEIGHT - 2)
  <2>1. r = [cell |-> c, x |-> 0, y |-> SCREEN_HEIGHT - 2]
    BY <1>4, <1>7 DEF KeepLastLine
  <2>2. /\ c \in Cells /\ c[SCREEN_HEIGHT - 2] = Blanks
        /\ \A i \in Rows : i <= Half \/ i = SCREEN_HEIGHT - 1 => c[i] = a.cell[i]
    BY <1>5, ScrollFacts
  <2> HIDE DEF c
  <2>3. r.cell = c /\ r.x = 0 /\ r.y = SCREEN_HEIGHT - 2
    BY <2>1
  <2>4. 0 \in Columns /\ SCREEN_HEIGHT - 2 \in Rows /\ SCREEN_HEIGHT - 2 \in LowerRows
    BY Sizes DEF Columns, Rows, LowerRows
  <2>5. r \in Screen
    BY <2>1, <2>2, <2>4 DEF Screen
  <2>6. \A i \in Rows : i <= Half \/ i = SCREEN_HEIGHT - 1 => r.cell[i] = s.cell[i]
    <3>1. \A i \in Rows : i <= Half \/ i = SCREEN_HEIGHT - 1 => i # s.y
      BY <1>1, Sizes DEF Rows
    <3> QED BY <1>2, <2>2, <2>3, <3>1
  <2>7. Fresh(r)
    <3> SUFFICES ASSUME NEW i \in LowerRows, NEW j \in Columns, i > r.y \/ (i = r.y /\ j >= r.x)
                 PROVE  r.cell[i][j] = "SP"
      BY DEF Fresh
    <3>1. i = SCREEN_HEIGHT - 2
      BY <2>3, Sizes DEF LowerRows
    <3> QED BY <2>2, <2>3, <3>1 DEF Blanks
  <2> QED BY <2>3, <2>4, <2>5, <2>6, <2>7
<1> QED BY <1>6, <1>7

\* A character in the upper half: the rest of the screen is not touched.
LEMMA ChUpper ==
  ASSUME NEW s \in Screen, s.y < Half, NEW ch \in AnyChar, NEW r, r = screen_write_ch(s, ch)
  PROVE  /\ r = Moved(s, ch) /\ r \in Screen /\ r.y <= Half
         /\ \A i \in Rows : i >= Half => r.cell[i] = s.cell[i]
<1> DEFINE a == Moved(s, ch)
<1>1. s.x \in Columns /\ s.y \in Rows /\ s.y \in Nat
  BY Sizes DEF Screen, Rows, Columns
<1>2. /\ a \in [cell : Cells, x : Columns, y : 0 .. SCREEN_HEIGHT]
      /\ a.y = s.y \/ (a.y = s.y + 1 /\ a.x = 0)
      /\ \A i \in Rows : i # s.y => a.cell[i] = s.cell[i]
  BY MovedFacts
<1>3. r = KeepLastLine(a)
  BY ChMoved
<1> HIDE DEF a
<1>4. a.y # SCREEN_HEIGHT - 1 /\ a.y \in Rows /\ a.y <= Half
  BY <1>1, <1>2, Sizes DEF Rows
<1>5. r = a
  BY <1>3, <1>4 DEF KeepLastLine
<1>6. r \in Screen
  BY <1>2, <1>4, <1>5 DEF Screen
<1>7. \A i \in Rows : i >= Half => i # s.y
  BY <1>1, Sizes DEF Rows
<1> QED BY <1>2, <1>4, <1>5, <1>6, <1>7 DEF a

-----------------------------------------------------------------------------
\* Texts: the loops over their characters, here and in Windows.

\* One turn of each of the three loops.
Turn(kind, v, ch) ==
  CASE kind = "screen" -> screen_write_ch(v, ch)
    [] kind = "window" -> W!Type(v, ch)
    [] OTHER -> W!Scrolled(W!Type(v, ch), LowerHeight)

IsLoop(kind, f, n, v, text) ==
  f = [i \in 0 .. n |-> IF i = 0 THEN v ELSE Turn(kind, f[i - 1], text[i])]

\* Each loop has a history of any length.
LEMMA LoopExists ==
  ASSUME NEW kind, NEW v, NEW text, NEW n \in Nat
  PROVE  \E f : IsLoop(kind, f, n, v, text)
<1> DEFINE T == {i \in Nat : ~ \E f : IsLoop(kind, f, i, v, text)}
<1> SUFFICES ASSUME T # {} PROVE FALSE
  OBVIOUS
<1>1. PICK m \in T : \A y \in T : m <= y
  <2>1. T \subseteq Nat
    OBVIOUS
  <2> HIDE DEF T
  <2> QED BY <2>1, LeastNat
<1>2. CASE m = 0
  <2> DEFINE f == [i \in 0 .. 0 |-> v]
  <2>1. f = [i \in 0 .. 0 |-> IF i = 0 THEN v ELSE Turn(kind, f[i - 1], text[i])]
    OBVIOUS
  <2>2. IsLoop(kind, f, 0, v, text)
    BY <2>1, Zenon DEF IsLoop
  <2> QED BY <1>2, <2>2
<1>3. CASE m # 0
  <2>1. m \in Nat /\ m - 1 \in Nat /\ m - 1 \notin T
    BY <1>1, <1>3
  <2>2. PICK f : IsLoop(kind, f, m - 1, v, text)
    BY <2>1
  <2> DEFINE last == Turn(kind, f[m - 1], text[m])
             g == [i \in 0 .. m |-> IF i = m THEN last ELSE f[i]]
             step(i) == Turn(kind, g[i - 1], text[i])
             h == [i \in 0 .. m |-> IF i = 0 THEN v ELSE step(i)]
  <2>3. ASSUME NEW i \in 0 .. m PROVE g[i] = IF i = 0 THEN v ELSE step(i)
    <3>1. CASE i = 0
      <4>1. f[0] = v
        BY <2>1, <2>2 DEF IsLoop
      <4> QED BY <1>3, <2>1, <3>1, <4>1
    <3>2. CASE i # 0 /\ i # m
      <4>1. f[i] = Turn(kind, f[i - 1], text[i])
        <5>1. i \in 0 .. m - 1
          BY <2>1, <3>2
        <5> QED BY <2>2, <3>2, <5>1 DEF IsLoop
      <4>2. g[i] = f[i] /\ g[i - 1] = f[i - 1]
        BY <2>1, <3>2
      <4> QED BY <3>2, <4>1, <4>2
    <3>3. CASE i = m
      <4>1. g[m] = last /\ g[m - 1] = f[m - 1]
        BY <2>1
      <4> QED BY <1>3, <3>3, <4>1
    <3> QED BY <3>1, <3>2, <3>3
  <2>4. g = h
    BY <2>3
  <2>5. IsLoop(kind, g, m, v, text)
    BY <2>4, Zenon DEF IsLoop
  <2> QED BY <2>5
<1> QED BY <1>2, <1>3

\* screen_write, turn by turn ...
LEMMA WrittenTurns ==
  ASSUME NEW s, NEW C, NEW text \in Seq(C)
  PROVE  /\ Written(s, text)[0] = s
         /\ \A n \in 1 .. Len(text) :
              Written(s, text)[n] = screen_write_ch(Written(s, text)[n - 1], text[n])
<1> DEFINE w == CHOOSE f : f = [n \in 0 .. Len(text) |->
                             IF n = 0 THEN s ELSE screen_write_ch(f[n - 1], text[n])]
<1>1. Written(s, text) = w
  BY DEF Written
<1>2. Len(text) \in Nat
  OBVIOUS
<1>3. PICK f : IsLoop("screen", f, Len(text), s, text)
  BY <1>2, LoopExists
<1>4. f = [n \in 0 .. Len(text) |-> IF n = 0 THEN s ELSE screen_write_ch(f[n - 1], text[n])]
  BY <1>3, Zenon DEF IsLoop, Turn
<1>5. w = [n \in 0 .. Len(text) |-> IF n = 0 THEN s ELSE screen_write_ch(w[n - 1], text[n])]
  BY <1>4, Zenon
<1> HIDE DEF w
<1> QED BY <1>1, <1>2, <1>5

\* ... and the two loops of Windows.
LEMMA TypedTurns ==
  ASSUME NEW v, NEW C, NEW text \in Seq(C)
  PROVE  /\ W!Typed(v, text)[0] = v
         /\ \A n \in 1 .. Len(text) :
              W!Typed(v, text)[n] = W!Type(W!Typed(v, text)[n - 1], text[n])
<1> DEFINE w == CHOOSE f : f = [n \in 0 .. Len(text) |->
                             IF n = 0 THEN v ELSE W!Type(f[n - 1], text[n])]
<1>1. W!Typed(v, text) = w
  BY DEF W!Typed
<1>2. Len(text) \in Nat
  OBVIOUS
<1>3. PICK f : IsLoop("window", f, Len(text), v, text)
  BY <1>2, LoopExists
<1>4. f = [n \in 0 .. Len(text) |-> IF n = 0 THEN v ELSE W!Type(f[n - 1], text[n])]
  <2>1. \A u, ch : Turn("window", u, ch) = W!Type(u, ch)
    BY DEF Turn
  <2> QED BY <1>3, <2>1 DEF IsLoop
<1>5. w = [n \in 0 .. Len(text) |-> IF n = 0 THEN v ELSE W!Type(w[n - 1], text[n])]
  BY <1>4, Zenon
<1> HIDE DEF w
<1> QED BY <1>1, <1>2, <1>5

LEMMA ScrollingTurns ==
  ASSUME NEW v, NEW C, NEW text \in Seq(C)
  PROVE  /\ W!TypedScrolling(v, text, LowerHeight)[0] = v
         /\ \A n \in 1 .. Len(text) :
              W!TypedScrolling(v, text, LowerHeight)[n] =
                W!Scrolled(W!Type(W!TypedScrolling(v, text, LowerHeight)[n - 1], text[n]), LowerHeight)
<1> DEFINE w == CHOOSE f : f = [n \in 0 .. Len(text) |->
                  IF n = 0 THEN v ELSE W!Scrolled(W!Type(f[n - 1], text[n]), LowerHeight)]
<1>1. W!TypedScrolling(v, text, LowerHeight) = w
  BY DEF W!TypedScrolling
<1>2. Len(text) \in Nat
  OBVIOUS
<1>3. PICK f : IsLoop("scrolling", f, Len(text), v, text)
  BY <1>2, LoopExists
<1>4. f = [n \in 0 .. Len(text) |->
             IF n = 0 THEN v ELSE W!Scrolled(W!Type(f[n - 1], text[n]), LowerHeight)]
  <2>1. \A u, ch : Turn("scrolling", u, ch) = W!Scrolled(W!Type(u, ch), LowerHeight)
    BY DEF Turn
  <2> QED BY <1>3, <2>1 DEF IsLoop
<1>5. w = [n \in 0 .. Len(text) |->
             IF n = 0 THEN v ELSE W!Scrolled(W!Type(w[n - 1], text[n]), LowerHeight)]
  BY <1>4, Zenon
<1> HIDE DEF w
<1> QED BY <1>1, <1>2, <1>5

\* Induction over the turns of a loop; T is the set of those that are right.
LEMMA Turns ==
  ASSUME NEW N \in Nat, NEW T, 0 \in T, \A n \in 1 .. N : n - 1 \in T => n \in T
  PROVE  \A n \in 0 .. N : n \in T
<1> DEFINE B == {n \in 0 .. N : n \notin T}
<1> SUFFICES ASSUME B # {} PROVE FALSE
  OBVIOUS
<1>1. PICK m \in B : \A y \in B : m <= y
  <2>1. B \subseteq Nat
    OBVIOUS
  <2> HIDE DEF B
  <2> QED BY <2>1, LeastNat
<1>2. m \in 1 .. N /\ m - 1 \in 0 .. N
  BY <1>1
<1>3. m - 1 \notin B
  BY <1>1, <1>2
<1> QED BY <1>1, <1>2, <1>3

-----------------------------------------------------------------------------
\* Windows: h rows of a screen from row `top`, with its cursor.
View(s, top, h) == [rows |-> RowsOf(s.cell, top, h), at |-> <<s.x, s.y - top>>]

LEMMA SetView ==
  ASSUME NEW cell \in Cells, NEW top \in Nat, NEW h \in Nat, top + h <= SCREEN_HEIGHT,
         NEW y \in top .. top + h - 1, NEW x \in Columns, NEW ch \in AnyChar
  PROVE  Set(RowsOf(cell, top, h), y - top, x, ch) = RowsOf(Set(cell, y, x, ch), top, h)
<1> DEFINE f == RowsOf(cell, top, h)
           g == RowsOf(Set(cell, y, x, ch), top, h)
           d == Set(f, y - top, x, ch)
<1>1. y \in Rows /\ y - top \in 0 .. h - 1 /\ top + (y - top) = y
  BY Sizes DEF Rows
<1>2. \A i \in 0 .. h - 1 : top + i \in Rows /\ (top + i = y => i = y - top)
  BY Sizes, <1>1 DEF Rows
<1>3. /\ \A k \in Rows : k # y => Set(cell, y, x, ch)[k] = cell[k]
      /\ Set(cell, y, x, ch)[y] = [cell[y] EXCEPT ![x] = ch]
  BY <1>1 DEF Set, Cells
<1>4. ASSUME NEW i \in 0 .. h - 1 PROVE d[i] = g[i]
  <2>1. CASE i = y - top
    <3>1. d[i] = [cell[y] EXCEPT ![x] = ch]
      BY <1>1, <2>1 DEF RowsOf, Set
    <3>2. g[i] = Set(cell, y, x, ch)[y]
      BY <1>1, <2>1 DEF RowsOf
    <3> QED BY <1>3, <3>1, <3>2
  <2>2. CASE i # y - top
    <3>1. d[i] = cell[top + i]
      BY <2>2 DEF RowsOf, Set
    <3>2. g[i] = Set(cell, y, x, ch)[top + i]
      BY DEF RowsOf
    <3> QED BY <1>2, <1>3, <2>2, <3>1, <3>2
  <2> QED BY <2>1, <2>2
<1>5. d = [i \in 0 .. h - 1 |-> d[i]] /\ g = [i \in 0 .. h - 1 |-> g[i]]
  <2>1. f = [i \in 0 .. h - 1 |-> f[i]] /\ g = [i \in 0 .. h - 1 |-> g[i]]
    BY DEF RowsOf
  <2> HIDE DEF f
  <2>2. d = [i \in 0 .. h - 1 |-> d[i]]
    BY <2>1 DEF Set
  <2> QED BY <2>1, <2>2
<1> HIDE DEF d, g
<1>6. d = g
  BY <1>4, <1>5
<1> QED BY <1>6 DEF d, g

LEMMA TypeView ==
  ASSUME NEW s \in Screen, NEW top \in Nat, NEW h \in Nat, top + h <= SCREEN_HEIGHT,
         s.y \in top .. top + h - 1, NEW ch \in AnyChar
  PROVE  W!Type(View(s, top, h), ch) = View(Moved(s, ch), top, h)
<1> DEFINE v == View(s, top, h)
           rows == RowsOf(s.cell, top, h)
           q == s.y - top
<1>1. v.rows = rows /\ v.at[1] = s.x /\ v.at[2] = q
  BY DEF View
<1>2. s.cell \in Cells /\ s.x \in Columns /\ s.x \in Nat /\ s.y \in Nat
  BY Sizes DEF Screen, Columns, Rows
<1>3. "SP" \in AnyChar
  BY TextsAssumption DEF AnyChar
<1>4. s.y + 1 - top = q + 1
  BY <1>2
<1>5. CASE ch = "LF"
  <2>1. Moved(s, ch) = [cell |-> s.cell, x |-> 0, y |-> s.y + 1]
    BY <1>5 DEF Moved
  <2>2. View(Moved(s, ch), top, h) = [rows |-> rows, at |-> <<0, s.y + 1 - top>>]
    BY <2>1 DEF View
  <2>3. W!Type(v, ch) = [rows |-> v.rows, at |-> <<0, v.at[2] + 1>>]
    BY <1>5 DEF W!Type
  <2> HIDE DEF v, rows, q
  <2>4. W!Type(v, ch) = View(Moved(s, ch), top, h)
    BY <1>1, <1>4, <2>2, <2>3
  <2> QED BY <2>4 DEF v
<1>6. CASE ch = "BS" /\ s.x = 0
  <2>1. Moved(s, ch) = s
    BY <1>6 DEF Moved
  <2>2. W!Type(v, ch) = v
    BY <1>1, <1>6 DEF W!Type
  <2> QED BY <2>1, <2>2
<1>7. CASE ch = "BS" /\ s.x # 0
  <2> DEFINE x == s.x - 1
  <2>1. s.x > 0 /\ x \in Columns
    BY <1>2, <1>7, Sizes DEF Columns
  <2>2. Moved(s, ch) = [cell |-> Set(s.cell, s.y, x, "SP"), x |-> x, y |-> s.y]
    BY <1>7, <2>1 DEF Moved
  <2>3. View(Moved(s, ch), top, h) = [rows |-> RowsOf(Set(s.cell, s.y, x, "SP"), top, h),
                                      at |-> <<x, q>>]
    BY <2>2 DEF View
  <2>4. W!Type(v, ch) = [rows |-> Set(v.rows, v.at[2], v.at[1] - 1, "SP"),
                         at |-> <<v.at[1] - 1, v.at[2]>>]
    BY <1>1, <1>7 DEF W!Type, Set
  <2> HIDE DEF x
  <2>5. Set(rows, q, x, "SP") = RowsOf(Set(s.cell, s.y, x, "SP"), top, h)
    BY <1>2, <1>3, <2>1, SetView
  <2>6. x = s.x - 1
    BY DEF x
  <2> HIDE DEF v, rows, q
  <2>7. W!Type(v, ch) = View(Moved(s, ch), top, h)
    BY <1>1, <2>3, <2>4, <2>5, <2>6
  <2> QED BY <2>7 DEF v
<1>8. CASE ch # "LF" /\ ch # "BS"
  <2> DEFINE c2 == Set(s.cell, s.y, s.x, ch)
             rows2 == RowsOf(c2, top, h)
  <2>1. Set(rows, q, s.x, ch) = rows2
    BY <1>2, SetView
  <2>2. W!Type(v, ch) = [rows |-> Set(v.rows, v.at[2], v.at[1], ch),
                         at |-> IF v.at[1] + 1 = SCREEN_WIDTH THEN <<0, v.at[2] + 1>>
                                ELSE <<v.at[1] + 1, v.at[2]>>]
    BY <1>8 DEF W!Type, Set
  <2>3. Moved(s, ch) = IF s.x + 1 = SCREEN_WIDTH THEN [cell |-> c2, x |-> 0, y |-> s.y + 1]
                       ELSE [cell |-> c2, x |-> s.x + 1, y |-> s.y]
    BY <1>8 DEF Moved
  <2> HIDE DEF c2
  <2>4. View(Moved(s, ch), top, h) =
          IF s.x + 1 = SCREEN_WIDTH THEN [rows |-> rows2, at |-> <<0, s.y + 1 - top>>]
          ELSE [rows |-> rows2, at |-> <<s.x + 1, q>>]
    BY <2>3 DEF View
  <2> HIDE DEF v, rows, rows2, q
  <2>5. W!Type(v, ch) = [rows |-> rows2,
                         at |-> IF s.x + 1 = SCREEN_WIDTH THEN <<0, q + 1>> ELSE <<s.x + 1, q>>]
    BY <1>1, <2>1, <2>2
  <2>6. W!Type(v, ch) = View(Moved(s, ch), top, h)
    BY <1>4, <2>4, <2>5
  <2> QED BY <2>6 DEF v
<1> QED BY <1>5, <1>6, <1>7, <1>8

\* Scrolling is the same in the window.
LEMMA ScrolledView ==
  ASSUME NEW s \in Screen, s.y \in LowerRows, NEW ch \in AnyChar
  PROVE  W!Scrolled(W!Type(View(s, Half + 1, LowerHeight), ch), LowerHeight)
           = View(screen_write_ch(s, ch), Half + 1, LowerHeight)
<1> DEFINE top == Half + 1
           h == LowerHeight
           a == Moved(s, ch)
           v == View(a, top, h)
<1>1. /\ top \in Nat /\ h \in Nat /\ top + h = SCREEN_HEIGHT - 1 /\ h > 0
      /\ top + h <= SCREEN_HEIGHT /\ s.y \in top .. top + h - 1
  BY Sizes DEF LowerHeight, LowerRows
<1>2. W!Type(View(s, top, h), ch) = v
  <2> HIDE DEF top, h, a
  <2> QED BY <1>1, TypeView DEF a
<1>3. /\ a \in [cell : Cells, x : Columns, y : 0 .. SCREEN_HEIGHT]
      /\ a.y = s.y \/ (a.y = s.y + 1 /\ a.x = 0)
  BY MovedFacts
<1>4. screen_write_ch(s, ch) = KeepLastLine(a)
  BY ChMoved
<1>5. v.at[2] = a.y - top /\ v.rows = [i \in 0 .. h - 1 |-> a.cell[top + i]]
  BY DEF View, RowsOf
<1>6. a.cell \in Cells /\ a.y \in Nat /\ a.y <= SCREEN_HEIGHT - 1
  BY <1>1, <1>3, Sizes
<1>7. CASE a.y # SCREEN_HEIGHT - 1
  <2>1. KeepLastLine(a) = a
    BY <1>7 DEF KeepLastLine
  <2>2. v.at[2] < h
    <3> HIDE DEF v, a, top, h
    <3>1. a.y < top + h /\ top \in Nat /\ h \in Nat /\ a.y \in Nat
      BY <1>1, <1>6, <1>7, Sizes
    <3>2. a.y - top < h
      BY <3>1
    <3> QED BY <1>5, <3>2
  <2>3. W!Scrolled(v, h) = v
    BY <2>2 DEF W!Scrolled
  <2> QED BY <1>2, <1>4, <2>1, <2>3
<1>8. CASE a.y = SCREEN_HEIGHT - 1
  <2> DEFINE c == screen_scroll(a.cell, Half + 1, SCREEN_HEIGHT - 2)
             r == [i \in 0 .. h - 1 |-> IF i < h - 1 THEN v.rows[i + 1] ELSE W!BlankRow]
  <2>1. KeepLastLine(a) = [cell |-> c, x |-> 0, y |-> SCREEN_HEIGHT - 2]
    BY <1>8 DEF KeepLastLine
  <2>2. /\ c[SCREEN_HEIGHT - 2] = Blanks
        /\ \A i \in Half + 1 .. SCREEN_HEIGHT - 3 : c[i] = a.cell[i + 1]
    BY <1>6, ScrollFacts
  <2>3. ~ v.at[2] < h /\ (SCREEN_HEIGHT - 2) - top = h - 1
    <3> HIDE DEF v, a, top, h
    <3> QED BY <1>1, <1>5, <1>8, Sizes
  <2>4. W!Scrolled(v, h) = [rows |-> r, at |-> <<0, h - 1>>]
    BY <2>3 DEF W!Scrolled
  <2>5. View(KeepLastLine(a), top, h)
          = [rows |-> RowsOf(c, top, h), at |-> <<0, (SCREEN_HEIGHT - 2) - top>>]
    BY <2>1 DEF View
  <2>6. ASSUME NEW i \in 0 .. h - 1 PROVE r[i] = c[top + i]
    <3>1. CASE i < h - 1
      <4>1. i + 1 \in 0 .. h - 1 /\ top + i \in Half + 1 .. SCREEN_HEIGHT - 3
        BY <1>1, <3>1, Sizes
      <4>2. r[i] = a.cell[top + (i + 1)]
        BY <1>5, <3>1, <4>1
      <4>3. top + (i + 1) = (top + i) + 1
        BY <1>1
      <4> QED BY <2>2, <4>1, <4>2, <4>3
    <3>2. CASE ~ i < h - 1
      <4>1. top + i = SCREEN_HEIGHT - 2
        BY <1>1, <3>2, Sizes
      <4>2. W!BlankRow = Blanks
        BY DEF W!BlankRow, Blanks, Columns
      <4>3. r[i] = W!BlankRow
        BY <3>2
      <4> QED BY <2>2, <4>1, <4>2, <4>3
    <3> QED BY <3>1, <3>2
  <2>7. r = RowsOf(c, top, h)
    <3>1. r = [i \in 0 .. h - 1 |-> r[i]]
      OBVIOUS
    <3> HIDE DEF r, c
    <3> QED BY <2>6, <3>1 DEF RowsOf
  <2> HIDE DEF r, c, v, top, h, a
  <2>8. W!Scrolled(v, h) = View(KeepLastLine(a), top, h)
    BY <2>3, <2>4, <2>5, <2>7
  <2> QED BY <1>2, <1>4, <2>8 DEF top, h
<1> QED BY <1>7, <1>8, <1>6

-----------------------------------------------------------------------------
\* Whole texts.

\* Below the line of dashes.
LEMMA WriteLower ==
  ASSUME NEW s \in Screen, s.y \in LowerRows, Fresh(s), NEW text \in Seq(AnyChar),
         NEW r, r = screen_write(s, text)
  PROVE  /\ r \in Screen /\ r.y \in LowerRows /\ Fresh(r)
         /\ \A i \in Rows : i <= Half \/ i = SCREEN_HEIGHT - 1 => r.cell[i] = s.cell[i]
         /\ EndsLine(text) /\ (text = <<>> => s.x = 0) => r.x = 0
         /\ W!TypedScrolling(View(s, Half + 1, LowerHeight), text, LowerHeight)[Len(text)]
              = View(r, Half + 1, LowerHeight)
<1> DEFINE w == Written(s, text)
           v == W!TypedScrolling(View(s, Half + 1, LowerHeight), text, LowerHeight)
           Good(n) == /\ w[n] \in Screen /\ w[n].y \in LowerRows /\ Fresh(w[n])
                      /\ \A i \in Rows : i <= Half \/ i = SCREEN_HEIGHT - 1 =>
                           w[n].cell[i] = s.cell[i]
                      /\ v[n] = View(w[n], Half + 1, LowerHeight)
           T == {n \in 0 .. Len(text) : Good(n)}
<1>1. Len(text) \in Nat /\ \A n \in 1 .. Len(text) : text[n] \in AnyChar
  OBVIOUS
<1>2. w[0] = s /\ \A n \in 1 .. Len(text) : w[n] = screen_write_ch(w[n - 1], text[n])
  BY WrittenTurns
<1>3. /\ v[0] = View(s, Half + 1, LowerHeight)
      /\ \A n \in 1 .. Len(text) : v[n] = W!Scrolled(W!Type(v[n - 1], text[n]), LowerHeight)
  BY ScrollingTurns
<1>4. r = w[Len(text)]
  BY DEF screen_write
<1> HIDE DEF w, v
<1>5. 0 \in T
  BY <1>1, <1>2, <1>3
<1>6. ASSUME NEW n \in 1 .. Len(text), n - 1 \in T PROVE n \in T
  <2> DEFINE a == w[n - 1]
             b == w[n]
             ch == text[n]
  <2>1. a \in Screen /\ a.y \in LowerRows /\ Fresh(a) /\ ch \in AnyChar
        /\ v[n - 1] = View(a, Half + 1, LowerHeight)
        /\ \A i \in Rows : i <= Half \/ i = SCREEN_HEIGHT - 1 => a.cell[i] = s.cell[i]
    BY <1>1, <1>6
  <2>2. b = screen_write_ch(a, ch) /\ v[n] = W!Scrolled(W!Type(v[n - 1], ch), LowerHeight)
    BY <1>2, <1>3
  <2> HIDE DEF a, b, ch
  <2>3. /\ b \in Screen /\ b.y \in LowerRows /\ Fresh(b)
        /\ \A i \in Rows : i <= Half \/ i = SCREEN_HEIGHT - 1 => b.cell[i] = a.cell[i]
    BY <2>1, <2>2, ChLower
  <2>4. v[n] = View(b, Half + 1, LowerHeight)
    BY <2>1, <2>2, ScrolledView
  <2>5. \A i \in Rows : i <= Half \/ i = SCREEN_HEIGHT - 1 => b.cell[i] = s.cell[i]
    BY <2>1, <2>3
  <2>6. Good(n)
    BY <2>3, <2>4, <2>5 DEF b
  <2>7. n \in 0 .. Len(text)
    BY <1>1
  <2> QED BY <2>6, <2>7
<1>7. \A n \in 0 .. Len(text) : n \in T
  <2> HIDE DEF T
  <2> QED BY <1>1, <1>5, <1>6, Turns
<1>8. Good(Len(text)) /\ Len(text) \in 0 .. Len(text)
  BY <1>1, <1>7
<1>9. ASSUME EndsLine(text), text = <<>> => s.x = 0 PROVE r.x = 0
  <2>1. CASE text = <<>>
    BY <1>2, <1>4, <1>9, <2>1
  <2>2. CASE text # <<>>
    <3> DEFINE n == Len(text)
               a == w[n - 1]
    <3>1. n \in 1 .. Len(text) /\ n - 1 \in 0 .. Len(text) /\ text[n] = "LF"
      BY <1>1, <1>9, <2>2 DEF EndsLine, Last
    <3>2. a \in Screen /\ a.y \in LowerRows
      BY <1>7, <3>1
    <3>3. r = screen_write_ch(a, text[n]) /\ text[n] \in AnyChar
      BY <1>1, <1>2, <1>4, <3>1
    <3> HIDE DEF a, n
    <3> QED BY <3>1, <3>2, <3>3, ChLower
  <2> QED BY <2>1, <2>2
<1> QED BY <1>4, <1>8, <1>9 DEF v

\* A text of a task, as long as its characters are in the upper half.
LEMMA WriteUpper ==
  ASSUME NEW s \in Screen, s.y <= Half, NEW text \in Seq(AnyChar),
         \A n \in 0 .. Len(text) - 1 : Written(s, text)[n].y < Half,
         NEW r, r = screen_write(s, text)
  PROVE  /\ r \in Screen /\ r.y <= Half
         /\ \A i \in Rows : i >= Half => r.cell[i] = s.cell[i]
         /\ \A n \in 0 .. Len(text) - 1 : W!Typed(View(s, 0, Half), text)[n].at[2] < Half
         /\ W!Typed(View(s, 0, Half), text)[Len(text)] = View(r, 0, Half)
<1> DEFINE w == Written(s, text)
           v == W!Typed(View(s, 0, Half), text)
           Good(n) == /\ w[n] \in Screen /\ w[n].y <= Half
                      /\ \A i \in Rows : i >= Half => w[n].cell[i] = s.cell[i]
                      /\ v[n] = View(w[n], 0, Half)
           T == {n \in 0 .. Len(text) : Good(n)}
<1>1. Len(text) \in Nat /\ \A n \in 1 .. Len(text) : text[n] \in AnyChar
  OBVIOUS
<1>2. w[0] = s /\ \A n \in 1 .. Len(text) : w[n] = screen_write_ch(w[n - 1], text[n])
  BY WrittenTurns
<1>3. /\ v[0] = View(s, 0, Half)
      /\ \A n \in 1 .. Len(text) : v[n] = W!Type(v[n - 1], text[n])
  BY TypedTurns
<1>4. r = w[Len(text)] /\ \A n \in 0 .. Len(text) - 1 : w[n].y < Half
  BY DEF screen_write
<1> HIDE DEF w, v
<1>5. 0 \in T
  BY <1>1, <1>2, <1>3
<1>6. ASSUME NEW n \in 1 .. Len(text), n - 1 \in T PROVE n \in T
  <2> DEFINE a == w[n - 1]
             b == w[n]
             ch == text[n]
  <2>1. /\ a \in Screen /\ a.y < Half /\ ch \in AnyChar
        /\ v[n - 1] = View(a, 0, Half)
        /\ \A i \in Rows : i >= Half => a.cell[i] = s.cell[i]
    BY <1>1, <1>4, <1>6
  <2>2. b = screen_write_ch(a, ch) /\ v[n] = W!Type(v[n - 1], ch)
    BY <1>2, <1>3
  <2> HIDE DEF a, b, ch
  <2>3. /\ b \in Screen /\ b.y <= Half /\ b = Moved(a, ch)
        /\ \A i \in Rows : i >= Half => b.cell[i] = a.cell[i]
    BY <2>1, <2>2, ChUpper
  <2>4. v[n] = View(b, 0, Half)
    <3>1. 0 \in Nat /\ Half \in Nat /\ 0 + Half <= SCREEN_HEIGHT
      BY Sizes
    <3>2. a.y \in 0 .. 0 + Half - 1
      BY <2>1, Sizes DEF Screen, Rows
    <3>3. W!Type(View(a, 0, Half), ch) = View(Moved(a, ch), 0, Half)
      BY <2>1, <3>1, <3>2, TypeView
    <3> QED BY <2>1, <2>2, <2>3, <3>3
  <2>5. \A i \in Rows : i >= Half => b.cell[i] = s.cell[i]
    BY <2>1, <2>3
  <2>6. Good(n)
    BY <2>3, <2>4, <2>5 DEF b
  <2>7. n \in 0 .. Len(text)
    BY <1>1
  <2> QED BY <2>6, <2>7
<1>7. \A n \in 0 .. Len(text) : n \in T
  <2> HIDE DEF T
  <2> QED BY <1>1, <1>5, <1>6, Turns
<1>8. Good(Len(text))
  BY <1>1, <1>7
<1>9. ASSUME NEW n \in 0 .. Len(text) - 1 PROVE v[n].at[2] < Half
  <2>1. v[n] = View(w[n], 0, Half) /\ w[n] \in Screen /\ w[n].y < Half
    BY <1>1, <1>4, <1>7
  <2>2. v[n].at[2] = w[n].y - 0 /\ w[n].y \in Nat
    BY <2>1, Sizes DEF View, Screen, Rows
  <2> QED BY <2>1, <2>2
<1> QED BY <1>4, <1>8, <1>9 DEF v

\* A row that shows a text and otherwise blanks.
Shows(row, text) ==
  \A j \in Columns : row[j] = IF j < Len(text) THEN text[j + 1] ELSE "SP"

\* The echo of a character and of a backspace in the lower half.
LEMMA ChEcho ==
  ASSUME NEW s \in Screen, s.y \in LowerRows, NEW c \in Char, s.x + 1 < SCREEN_WIDTH,
         NEW r, r = screen_write_ch(s, c)
  PROVE  /\ r.y = s.y /\ r.x = s.x + 1
         /\ \A j \in Columns : r.cell[s.y][j] = IF j = s.x THEN c ELSE s.cell[s.y][j]
<1>1. c \in AnyChar /\ c # "LF" /\ c # "BS"
  BY TextsAssumption DEF AnyChar
<1>2. s.cell \in Cells /\ s.x \in Columns /\ s.x \in Nat /\ s.y \in Rows /\ s.y # SCREEN_HEIGHT - 1
  BY Sizes DEF Screen, LowerRows, Columns, Rows
<1>3. Moved(s, c) = [cell |-> Set(s.cell, s.y, s.x, c), x |-> s.x + 1, y |-> s.y]
  BY <1>1, <1>2, Sizes DEF Moved
<1>4. r = [cell |-> Set(s.cell, s.y, s.x, c), x |-> s.x + 1, y |-> s.y]
  BY <1>1, <1>2, <1>3, ChMoved DEF KeepLastLine
<1>5. \A j \in Columns : Set(s.cell, s.y, s.x, c)[s.y][j] = IF j = s.x THEN c ELSE s.cell[s.y][j]
  BY <1>1, <1>2, SetFacts
<1> QED BY <1>4, <1>5

LEMMA ChErase ==
  ASSUME NEW s \in Screen, s.y \in LowerRows, s.x > 0, NEW r, r = screen_write_ch(s, "BS")
  PROVE  /\ r.y = s.y /\ r.x = s.x - 1
         /\ \A j \in Columns : r.cell[s.y][j] = IF j = s.x - 1 THEN "SP" ELSE s.cell[s.y][j]
<1> DEFINE x == s.x - 1
<1>1. "BS" \in AnyChar /\ "SP" \in AnyChar
  BY TextsAssumption DEF AnyChar
<1>2. /\ s.cell \in Cells /\ x \in Columns /\ s.y \in Rows /\ s.y # SCREEN_HEIGHT - 1
  BY Sizes DEF Screen, LowerRows, Columns, Rows
<1>3. Moved(s, "BS") = [cell |-> Set(s.cell, s.y, x, "SP"), x |-> x, y |-> s.y]
  BY <1>1, <1>2, Sizes DEF Moved
<1>4. r = [cell |-> Set(s.cell, s.y, x, "SP"), x |-> x, y |-> s.y]
  BY <1>1, <1>2, <1>3, ChMoved DEF KeepLastLine
<1> HIDE DEF x
<1>5. \A j \in Columns : Set(s.cell, s.y, x, "SP")[s.y][j] = IF j = x THEN "SP" ELSE s.cell[s.y][j]
  BY <1>1, <1>2, SetFacts
<1>6. x = s.x - 1
  BY DEF x
<1> QED BY <1>4, <1>5, <1>6

LEMMA WriteOne ==
  ASSUME NEW s, NEW c
  PROVE  screen_write(s, <<c>>) = screen_write_ch(s, c)
<1> DEFINE t == <<c>>
<1>1. t \in Seq({c}) /\ Len(t) = 1 /\ t[1] = c
  OBVIOUS
<1> HIDE DEF t
<1>2. /\ Written(s, t)[0] = s
      /\ \A n \in 1 .. Len(t) : Written(s, t)[n] = screen_write_ch(Written(s, t)[n - 1], t[n])
  BY <1>1, WrittenTurns
<1>3. 1 \in 1 .. Len(t) /\ 1 - 1 = 0
  BY <1>1
<1>4. Written(s, t)[1] = screen_write_ch(s, c)
  BY <1>1, <1>2, <1>3
<1>5. screen_write(s, t) = screen_write_ch(s, c)
  BY <1>1, <1>4 DEF screen_write
<1> QED BY <1>5 DEF t

\* The prompt at the beginning of a fresh line.
LEMMA WritePrompt ==
  ASSUME NEW s \in Screen, s.y \in LowerRows, Fresh(s), s.x = 0,
         NEW r, r = screen_write(s, prefix)
  PROVE  r.x = Len(prefix) /\ Shows(r.cell[r.y], prefix)
<1> DEFINE w == Written(s, prefix)
           Good(n) == /\ w[n] \in Screen /\ w[n].y = s.y /\ w[n].x = n
                      /\ \A j \in Columns :
                           w[n].cell[s.y][j] = IF j < n THEN prefix[j + 1] ELSE "SP"
           T == {n \in 0 .. Len(prefix) : Good(n)}
<1>1. /\ Len(prefix) \in Nat /\ prefix \in Seq(Char)
      /\ \A n \in 1 .. Len(prefix) : prefix[n] \in Char
  BY TextsAssumption
<1>2. w[0] = s /\ \A n \in 1 .. Len(prefix) : w[n] = screen_write_ch(w[n - 1], prefix[n])
  BY <1>1, WrittenTurns
<1>3. r = w[Len(prefix)]
  BY DEF screen_write
<1> HIDE DEF w
<1>4. 0 \in T
  <2>1. \A j \in Columns : s.cell[s.y][j] = "SP" /\ ~ j < 0
    BY Sizes DEF Fresh, Columns
  <2> QED BY <1>1, <1>2, <2>1
<1>5. ASSUME NEW n \in 1 .. Len(prefix), n - 1 \in T PROVE n \in T
  <2> DEFINE a == w[n - 1]
             b == w[n]
             c == prefix[n]
  <2>1. /\ a \in Screen /\ a.y = s.y /\ a.x = n - 1 /\ c \in Char /\ n \in Nat
        /\ \A j \in Columns : a.cell[s.y][j] = IF j < n - 1 THEN prefix[j + 1] ELSE "SP"
    BY <1>1, <1>5
  <2>2. b = screen_write_ch(a, c)
    BY <1>2
  <2>3. c = prefix[(n - 1) + 1]
    OBVIOUS
  <2> HIDE DEF a, b, c
  <2>4. a.x + 1 < SCREEN_WIDTH /\ a.y \in LowerRows /\ c \in AnyChar
    BY <2>1, Sizes DEF AnyChar
  <2>5. /\ b.y = a.y /\ b.x = a.x + 1
        /\ \A j \in Columns : b.cell[a.y][j] = IF j = a.x THEN c ELSE a.cell[a.y][j]
    BY <2>1, <2>2, <2>4, ChEcho
  <2>6. b \in Screen
    BY <2>1, <2>2, <2>4, ChLower
  <2>7. b.y = s.y /\ b.x = n
    BY <2>1, <2>5
  <2>8. ASSUME NEW j \in Columns
        PROVE  b.cell[s.y][j] = IF j < n THEN prefix[j + 1] ELSE "SP"
    <3>1. b.cell[s.y][j] = IF j = n - 1 THEN c ELSE a.cell[s.y][j]
      BY <2>1, <2>5
    <3>2. a.cell[s.y][j] = IF j < n - 1 THEN prefix[j + 1] ELSE "SP"
      BY <2>1
    <3>3. j \in Nat
      BY Sizes DEF Columns
    <3>4. CASE j = n - 1
      <4>1. j < n
        BY <2>1, <3>3, <3>4
      <4> QED BY <2>3, <3>1, <3>4, <4>1
    <3>5. CASE j # n - 1
      <4>1. j < n <=> j < n - 1
        BY <2>1, <3>3, <3>5
      <4> QED BY <3>1, <3>2, <3>5, <4>1
    <3> QED BY <3>4, <3>5
  <2>9. Good(n)
    BY <2>6, <2>7, <2>8 DEF b
  <2>10. n \in 0 .. Len(prefix)
    BY <1>1
  <2> QED BY <2>9, <2>10
<1>6. \A n \in 0 .. Len(prefix) : n \in T
  <2> HIDE DEF T
  <2> QED BY <1>1, <1>4, <1>5, Turns
<1>7. Good(Len(prefix))
  BY <1>1, <1>6
<1> QED BY <1>3, <1>7 DEF Shows

-----------------------------------------------------------------------------
\* The invariant.

\* The calls of the shell once its window is there.
LowerClear == Clear(Half + 1, SCREEN_HEIGHT - 1)
UpperClear == Clear(0, Half - 1)
ToHome == Cursor(0, Half + 1)

ArgInt(line) ==
  LET position == separate(line, "SP")
  IN  IF position # Len(line) THEN atoi(SubSeq(line, position + 2, Len(line))) ELSE 0

Calls ==
  {Write(t) : t \in ShellTexts} \cup {LowerClear, UpperClear, ToHome, <<"show">>, <<"spawn">>}
  \cup {<<"kill", ArgInt(l)>> : l \in Seq(Char)}

\* The screen with the cursor of the shell, whoever is running.
ShellView == [cell |-> screen.cell, x |-> CursorOf(Shell)[1], y |-> CursorOf(Shell)[2]]

LowerBlank(cell) == \A i \in LowerRows, j \in Columns : cell[i][j] = "SP"

\* The shell moves its cursor up only when the lower half has been cleared.
HomesOK(s, c) ==
  \A i \in DOMAIN c : c[i] = ToHome => IF i = 1 THEN LowerBlank(s.cell) ELSE c[i - 1] = LowerClear

\* The shell's window, with the calls c to be made.
Open(s, c) ==
  /\ s.y \in LowerRows /\ s.cell[Half] = Dashes /\ Fresh(s)
  /\ c \in Seq(Calls) /\ HomesOK(s, c)

ShownAt(s, text) == s.x = Len(text) /\ Shows(s.cell[s.y], text)

Tidy(c) == c[1] = "write" => EndsLine(c[2])

\* What the calls c have still to do until the line shows the input b: the echo
\* of a character, of a backspace, or the output of a command and the prompt.
EchoChar(s, c, b) ==
  \E ch \in Char, b0 \in Seq(Char) :
    /\ c = <<Write(<<ch>>)>> /\ b = Append(b0, ch) /\ Len(b) < Capacity
    /\ ShownAt(s, prefix \o b0)

EchoErase(s, c, b) ==
  \E ch \in Char : c = <<Write(<<"BS">>)>> /\ ShownAt(s, prefix \o Append(b, ch))

EchoLine(s, c, b) ==
  /\ b = <<>> /\ c # <<>> /\ Last(c) = Write(prefix)
  /\ \A i \in 1 .. Len(c) - 1 : Tidy(c[i])
  /\ s.x = 0 \/ (Len(c) > 1 /\ c[1] = Write(<<"LF">>))

Echo(s, c, b) ==
  \/ c = <<>> /\ ShownAt(s, prefix \o b)
  \/ EchoChar(s, c, b) \/ EchoErase(s, c, b) \/ EchoLine(s, c, b)

\* Before: the shell draws the line of dashes, of which n are left, and prompts.
Rest(n) == [i \in 1 .. n + 1 |-> IF i <= n THEN Write(<<"-">>) ELSE Write(prefix)]

Greeting(s, c) ==
  /\ LowerBlank(s.cell)
  /\ \/ c = Welcome /\ s.x = 0 /\ s.y = 0
     \/ \E n \in 1 .. SCREEN_WIDTH :
          /\ c = Rest(n) /\ s.x = SCREEN_WIDTH - n /\ s.y = Half
          /\ \A j \in Columns : j < SCREEN_WIDTH - n => s.cell[Half][j] = "-"

Types ==
  /\ screen \in Screen
  /\ live \subseteq Tasks /\ current_running \in live \cup {Boot, Shell}
  /\ cursor \in [{Boot, Shell} \cup Tasks -> Columns \X Rows]
  /\ input_buffer \in Seq(Char) /\ Len(input_buffer) <= Capacity
  /\ askew \in BOOLEAN

Phase ==
  \/ live = {} /\ input_buffer = <<>> /\ ~ askew /\ Greeting(ShellView, calls)
  \/ Open(ShellView, calls) /\ (~ askew => Echo(ShellView, calls, input_buffer))

IInv ==
  /\ Types
  /\ screen.cell[SCREEN_HEIGHT - 1] = Blanks
  /\ \A t \in live : CursorOf(t) \in Columns \X (0 .. Half)
  /\ Phase

-----------------------------------------------------------------------------
\* The calls.

LEMMA Joined ==
  ASSUME NEW S, NEW a \in Seq(S), NEW b \in Seq(S)
  PROVE  /\ a \o b \in Seq(S) /\ Len(a \o b) = Len(a) + Len(b)
         /\ Len(a) \in Nat /\ Len(b) \in Nat
         /\ \A i \in 1 .. Len(a) + Len(b) :
              (a \o b)[i] = IF i <= Len(a) THEN a[i] ELSE b[i - Len(a)]
BY ConcatProperties

LEMMA ErrorTexts == Error \in Seq(AnyChar) /\ NoSuchCommend \in Seq(AnyChar) /\ EndsLine(Error)
                    /\ EndsLine(NoSuchCommend)
<1>1. "error" \in AnyChar /\ "nosuch" \in AnyChar /\ "LF" \in AnyChar
  BY TextsAssumption DEF AnyChar
<1> QED BY <1>1 DEF Error, NoSuchCommend, EndsLine, Last

LEMMA TableText ==
  ASSUME NEW tasks \in SUBSET Tasks
  PROVE  /\ ProcessTable(tasks) \in Seq(AnyChar) /\ ProcessTable(tasks) # <<>>
         /\ EndsLine(ProcessTable(tasks))
<1> DEFINE n == 4 + Cardinality(tasks)
           t == ProcessTable(tasks)
<1>1. n \in Nat /\ n > 0
  <2>1. IsFiniteSet(tasks)
    BY ConsoleAssumption, FS_Subset
  <2> QED BY <2>1, FS_CardinalityType
<1>2. "pid" \in AnyChar /\ "LF" \in AnyChar
  BY TextsAssumption DEF AnyChar
<1>3. t = [i \in 1 .. 2 * n |-> IF i % 2 = 1 THEN "pid" ELSE "LF"]
  BY DEF ProcessTable
<1> HIDE DEF n, t
<1>4. t \in Seq(AnyChar) /\ Len(t) = 2 * n
  BY <1>1, <1>2, <1>3
<1>5. (2 * n) % 2 = 0 /\ 2 * n \in 1 .. 2 * n
  BY <1>1
<1>6. t[2 * n] = "LF"
  BY <1>3, <1>5
<1>7. t # <<>> /\ Last(t) = "LF"
  BY <1>1, <1>4, <1>6 DEF Last
<1> QED BY <1>4, <1>7 DEF t, EndsLine

LEMMA LineChar ==
  ASSUME NEW l \in Lines, NEW i \in DOMAIN l
  PROVE  l[i] \in Char /\ l[i] \in AnyChar
<1>1. l \in Seq(Char)
  BY TextsAssumption
<1> QED BY <1>1 DEF AnyChar

LEMMA ShellTextType == ShellTexts \subseteq Seq(AnyChar)
<1> SUFFICES ASSUME NEW t \in ShellTexts PROVE t \in Seq(AnyChar)
  OBVIOUS
<1>1. "LF" \in AnyChar /\ "BS" \in AnyChar
  BY DEF AnyChar
<1>2. ASSUME NEW c \in {"LF", "BS"} \cup UNION {ToSet(l) : l \in Lines} PROVE c \in AnyChar
  <2>1. CASE c \in {"LF", "BS"}
    BY <1>1, <2>1
  <2>2. CASE c \in UNION {ToSet(l) : l \in Lines}
    BY <2>2, LineChar DEF ToSet
  <2> QED BY <2>1, <2>2
<1>3. CASE \E c \in {"LF", "BS"} \cup UNION {ToSet(l) : l \in Lines} : t = <<c>>
  BY <1>2, <1>3
<1>4. CASE t \in Replies
  BY <1>4, TextsAssumption
<1>5. CASE t \in {prefix, NoSuchCommend, Error}
  <2>1. prefix \in Seq(AnyChar)
    BY TextsAssumption DEF AnyChar
  <2> QED BY <1>5, <2>1, ErrorTexts
<1>6. CASE \E x \in SUBSET Tasks : t = ProcessTable(x)
  BY <1>6, TableText
<1> QED BY <1>3, <1>4, <1>5, <1>6 DEF ShellTexts

\* What a call is can be seen from its name.
LEMMA CallNames ==
  ASSUME NEW c \in Calls
  PROVE  /\ c[1] = "write" => c = Write(c[2]) /\ c[2] \in ShellTexts
         /\ c[1] = "cursor" => c = ToHome
         /\ c[1] = "clear" => c \in {LowerClear, UpperClear}
<1>1. CASE \E t \in ShellTexts : c = Write(t)
  BY <1>1 DEF Write
<1>2. CASE c \in {LowerClear, UpperClear, ToHome, <<"show">>, <<"spawn">>}
  BY <1>2 DEF LowerClear, UpperClear, ToHome, Clear, Cursor
<1>3. CASE \E l \in Seq(Char) : c = <<"kill", ArgInt(l)>>
  BY <1>3
<1> QED BY <1>1, <1>2, <1>3 DEF Calls

LEMMA NamesDiffer ==
  /\ \A t : Write(t)[1] = "write" /\ Write(t)[2] = t /\ Write(t) # ToHome /\ Write(t) # LowerClear
  /\ ToHome[1] = "cursor" /\ ToHome[2] = 0 /\ ToHome[3] = Half + 1
  /\ LowerClear[1] = "clear" /\ LowerClear[2] = Half + 1 /\ LowerClear[3] = SCREEN_HEIGHT - 1
  /\ UpperClear[1] = "clear" /\ UpperClear[2] = 0 /\ UpperClear[3] = Half - 1
  /\ ToHome # LowerClear /\ UpperClear # LowerClear /\ UpperClear # ToHome
<1>1. \A t : Write(t)[1] = "write" /\ Write(t)[2] = t
  BY DEF Write
<1>2. ToHome[1] = "cursor" /\ ToHome[2] = 0 /\ ToHome[3] = Half + 1
  BY DEF ToHome, Cursor
<1>3. LowerClear[1] = "clear" /\ LowerClear[2] = Half + 1 /\ LowerClear[3] = SCREEN_HEIGHT - 1
  BY DEF LowerClear, Clear
<1>4. UpperClear[1] = "clear" /\ UpperClear[2] = 0 /\ UpperClear[3] = Half - 1
  BY DEF UpperClear, Clear
<1>5. UpperClear # LowerClear
  BY <1>3, <1>4, Sizes
<1> QED BY <1>1, <1>2, <1>3, <1>4, <1>5

LEMMA WriteCalls ==
  /\ \A t \in ShellTexts : Write(t) \in Calls
  /\ <<"LF">> \in ShellTexts /\ <<"BS">> \in ShellTexts /\ prefix \in ShellTexts
  /\ NoSuchCommend \in ShellTexts /\ Error \in ShellTexts
  /\ \A r \in Replies : r \in ShellTexts
  /\ \A l \in Lines : \A i \in DOMAIN l : <<l[i]>> \in ShellTexts
<1>1. \A t \in ShellTexts : Write(t) \in Calls
  BY DEF Calls
<1>2. \A c \in {"LF", "BS"} \cup UNION {ToSet(l) : l \in Lines} : <<c>> \in ShellTexts
  BY DEF ShellTexts
<1>3. \A l \in Lines : \A i \in DOMAIN l : l[i] \in UNION {ToSet(x) : x \in Lines}
  BY DEF ToSet
<1>4. \A l \in Lines : \A i \in DOMAIN l : <<l[i]>> \in ShellTexts
  BY <1>2, <1>3
<1>5. <<"LF">> \in ShellTexts /\ <<"BS">> \in ShellTexts
  BY <1>2
<1> QED BY <1>1, <1>4, <1>5 DEF ShellTexts

\* The calls for a command: each move of the cursor follows a clear.
LEMMA ParseCalls ==
  ASSUME NEW line \in Seq(Char), NEW r \in Replies, NEW todo, todo = parse_commend(line, r)
  PROVE  /\ todo \in Seq(Calls)
         /\ \A i \in DOMAIN todo : todo[i] = ToHome => i # 1 /\ todo[i - 1] = LowerClear
<1> DEFINE n == ArgInt(line)
           Below == <<LowerClear, ToHome>>
           Above == <<UpperClear>>
<1>1. /\ <<"show">> \in Calls /\ <<"spawn">> \in Calls /\ <<"kill", n>> \in Calls
      /\ LowerClear \in Calls /\ UpperClear \in Calls /\ ToHome \in Calls
  BY DEF Calls
<1>2. Write(Error) \in Calls /\ Write(NoSuchCommend) \in Calls /\ Write(r) \in Calls
  BY WriteCalls
<1>3. <<"show">> # ToHome /\ <<"spawn">> # ToHome /\ <<"kill", n>> # ToHome
  BY DEF ToHome, Cursor
<1>4. todo \in {<<<<"show">>>>, Below, Above, Above \o Below, <<Write(Error)>>, <<<<"spawn">>>>,
                <<<<"kill", n>>>>, <<Write(r)>>, <<Write(NoSuchCommend)>>, <<>>}
  BY DEF parse_commend, ArgInt, LowerClear, UpperClear, ToHome
<1> HIDE DEF n
<1>5. /\ Below \in Seq(Calls) /\ Len(Below) = 2 /\ Below[1] = LowerClear /\ Below[2] = ToHome
      /\ Above \in Seq(Calls) /\ Len(Above) = 1 /\ Above[1] = UpperClear
  BY <1>1
<1>6. CASE todo = Below
  BY <1>5, <1>6, NamesDiffer
<1>7. CASE todo = Above
  BY <1>5, <1>7, NamesDiffer
<1> HIDE DEF Above, Below
<1>8. CASE todo = Above \o Below
  <2>1. /\ todo \in Seq(Calls) /\ Len(todo) = 3
        /\ todo[1] = UpperClear /\ todo[2] = LowerClear /\ todo[3] = ToHome
    <3>1. /\ todo \in Seq(Calls) /\ Len(todo) = 3
          /\ \A i \in 1 .. 3 : todo[i] = IF i <= 1 THEN Above[i] ELSE Below[i - 1]
      <4>1. Above \in Seq(Calls) /\ Below \in Seq(Calls)
        BY <1>5
      <4>2. /\ Above \o Below \in Seq(Calls) /\ Len(Above \o Below) = Len(Above) + Len(Below)
            /\ \A i \in 1 .. Len(Above) + Len(Below) : (Above \o Below)[i] =
                 IF i <= Len(Above) THEN Above[i] ELSE Below[i - Len(Above)]
        BY <4>1, Joined
      <4>3. Len(Above) + Len(Below) = 3
        BY <1>5
      <4> QED BY <1>5, <1>8, <4>2, <4>3
    <3> QED BY <1>5, <3>1
  <2>2. DOMAIN todo = 1 .. 3
    BY <2>1
  <2> QED BY <2>1, <2>2, NamesDiffer
<1>9. CASE todo = <<>>
  BY <1>9
<1>10. ASSUME NEW c \in Calls, c # ToHome, todo = <<c>>
       PROVE  /\ todo \in Seq(Calls)
              /\ \A i \in DOMAIN todo : todo[i] = ToHome => i # 1 /\ todo[i - 1] = LowerClear
  BY <1>10
<1> QED BY <1>1, <1>2, <1>3, <1>4, <1>6, <1>7, <1>8, <1>9, <1>10, NamesDiffer

\* The calls that are left after the first one, or after it has failed.
LEMMA CallsLeft ==
  ASSUME NEW S, NEW c \in Seq(S), c # <<>>
  PROVE  /\ Len(c) \in Nat /\ Len(c) > 0 /\ DOMAIN c = 1 .. Len(c)
         /\ Head(c) = c[1] /\ Head(c) \in S
         /\ Tail(c) \in Seq(S) /\ Len(Tail(c)) = Len(c) - 1 /\ DOMAIN Tail(c) = 1 .. Len(c) - 1
         /\ \A i \in 1 .. Len(c) - 1 : Tail(c)[i] = c[i + 1]
<1>1. Len(c) \in Nat \ {0} /\ DOMAIN c = 1 .. Len(c) /\ Head(c) = c[1]
  BY EmptySeq, LenProperties
<1>2. /\ Head(c) \in S /\ Tail(c) \in Seq(S) /\ Len(Tail(c)) = Len(c) - 1
      /\ \A i \in 1 .. Len(Tail(c)) : Tail(c)[i] = c[i + 1]
  BY HeadTailProperties
<1>3. DOMAIN Tail(c) = 1 .. Len(Tail(c))
  BY <1>2, LenProperties
<1> QED BY <1>1, <1>2, <1>3

\* The calls after one that has failed: an error is written first.
Failed(c) == <<Write(Error)>> \o Tail(c)

LEMMA CallsFailed ==
  ASSUME NEW c \in Seq(Calls), c # <<>>
  PROVE  /\ Failed(c) \in Seq(Calls) /\ Len(Failed(c)) = Len(c) /\ Failed(c) # <<>>
         /\ DOMAIN Failed(c) = 1 .. Len(c)
         /\ Failed(c)[1] = Write(Error) /\ Len(c) \in Nat
         /\ \A i \in 2 .. Len(c) : Failed(c)[i] = c[i]
<1> DEFINE e == <<Write(Error)>>
           t == Tail(c)
<1>1. /\ t \in Seq(Calls) /\ Len(t) = Len(c) - 1 /\ Len(c) \in Nat /\ Len(c) > 0
      /\ \A i \in 1 .. Len(c) - 1 : t[i] = c[i + 1]
  BY CallsLeft
<1>2. e \in Seq(Calls) /\ Len(e) = 1 /\ e[1] = Write(Error)
  BY WriteCalls
<1>3. Failed(c) = e \o t
  BY DEF Failed
<1> HIDE DEF e, t
<1>4. /\ e \o t \in Seq(Calls) /\ Len(e \o t) = Len(e) + Len(t)
      /\ \A i \in 1 .. Len(e) + Len(t) : (e \o t)[i] = IF i <= Len(e) THEN e[i] ELSE t[i - Len(e)]
  <2>1. e \in Seq(Calls) /\ t \in Seq(Calls)
    BY <1>1, <1>2
  <2> QED BY <2>1, Joined
<1>5. Len(e \o t) = Len(c)
  BY <1>1, <1>2, <1>4
<1>6. ASSUME NEW i \in 2 .. Len(c) PROVE (e \o t)[i] = c[i]
  <2>1. i \in 1 .. Len(e) + Len(t) /\ ~ i <= Len(e) /\ i - 1 \in 1 .. Len(c) - 1 /\ (i - 1) + 1 = i
    BY <1>1, <1>2
  <2>2. (e \o t)[i] = t[i - 1]
    BY <1>2, <1>4, <2>1
  <2> QED BY <1>1, <2>1, <2>2
<1>7. (e \o t)[1] = Write(Error)
  BY <1>1, <1>2, <1>4
<1>8. DOMAIN (e \o t) = 1 .. Len(e \o t)
  BY <1>4, LenProperties
<1> QED BY <1>1, <1>3, <1>4, <1>5, <1>6, <1>7, <1>8

LEMMA HomesLeft ==
  ASSUME NEW s, NEW s2, NEW c \in Seq(Calls), c # <<>>, HomesOK(s, c),
         Head(c) = LowerClear => LowerBlank(s2.cell)
  PROVE  HomesOK(s2, Tail(c))
<1> SUFFICES ASSUME NEW i \in DOMAIN Tail(c), Tail(c)[i] = ToHome
             PROVE  IF i = 1 THEN LowerBlank(s2.cell) ELSE Tail(c)[i - 1] = LowerClear
  BY DEF HomesOK
<1>1. /\ Len(c) \in Nat /\ Len(c) > 0 /\ DOMAIN c = 1 .. Len(c) /\ Head(c) = c[1]
      /\ DOMAIN Tail(c) = 1 .. Len(c) - 1
      /\ \A k \in 1 .. Len(c) - 1 : Tail(c)[k] = c[k + 1]
  BY CallsLeft
<1>2. i \in 1 .. Len(c) - 1 /\ i + 1 \in DOMAIN c /\ i + 1 # 1 /\ (i + 1) - 1 = i
  BY <1>1
<1>3. c[i] = LowerClear
  BY <1>1, <1>2 DEF HomesOK
<1>4. CASE i = 1
  BY <1>1, <1>3, <1>4
<1>5. CASE i # 1
  <2>1. i - 1 \in 1 .. Len(c) - 1 /\ (i - 1) + 1 = i
    BY <1>1, <1>2, <1>5
  <2> QED BY <1>1, <1>3, <1>5, <2>1
<1> QED BY <1>4, <1>5

LEMMA HomesFailed ==
  ASSUME NEW s, NEW s2, NEW c \in Seq(Calls), c # <<>>, HomesOK(s, c), Head(c) # LowerClear
  PROVE  HomesOK(s2, Failed(c))
<1> DEFINE f == Failed(c)
<1> SUFFICES ASSUME NEW i \in DOMAIN f, f[i] = ToHome
             PROVE  IF i = 1 THEN LowerBlank(s2.cell) ELSE f[i - 1] = LowerClear
  BY DEF HomesOK
<1>1. /\ Len(c) \in Nat /\ DOMAIN f = 1 .. Len(c) /\ f[1] = Write(Error)
      /\ \A k \in 2 .. Len(c) : f[k] = c[k]
  BY CallsFailed
<1>2. DOMAIN c = 1 .. Len(c) /\ Head(c) = c[1]
  BY CallsLeft
<1> HIDE DEF f
<1>3. i # 1
  BY <1>1, NamesDiffer
<1>4. i \in 2 .. Len(c) /\ i - 1 \in 1 .. Len(c) /\ i \in 1 .. Len(c)
  BY <1>1, <1>3
<1>5. c[i] = ToHome
  BY <1>1, <1>4
<1>6. c[i - 1] = LowerClear
  BY <1>2, <1>3, <1>4, <1>5 DEF HomesOK
<1>7. i - 1 # 1
  BY <1>2, <1>6
<1>8. f[i - 1] = c[i - 1]
  BY <1>1, <1>4, <1>7
<1> QED BY <1>3, <1>6, <1>8

LEMMA LineLeft ==
  ASSUME NEW s, NEW s2, NEW b, NEW c \in Seq(Calls), EchoLine(s, c, b), Len(c) > 1, s2.x = 0
  PROVE  EchoLine(s2, Tail(c), b)
<1>1. b = <<>> /\ c # <<>> /\ c[Len(c)] = Write(prefix) /\ \A i \in 1 .. Len(c) - 1 : Tidy(c[i])
  BY DEF EchoLine, Last
<1>2. /\ Len(c) \in Nat /\ Len(Tail(c)) = Len(c) - 1 /\ Tail(c) \in Seq(Calls)
      /\ \A k \in 1 .. Len(c) - 1 : Tail(c)[k] = c[k + 1]
  BY <1>1, CallsLeft
<1>3. Tail(c) # <<>>
  BY <1>2
<1>4. Tail(c)[Len(Tail(c))] = Write(prefix)
  BY <1>1, <1>2
<1>5. \A i \in 1 .. Len(Tail(c)) - 1 : Tidy(Tail(c)[i])
  <2> SUFFICES ASSUME NEW i \in 1 .. Len(Tail(c)) - 1 PROVE Tidy(Tail(c)[i])
    OBVIOUS
  <2>1. i \in 1 .. Len(c) - 1 /\ i + 1 \in 1 .. Len(c) - 1
    BY <1>2
  <2>2. Tail(c)[i] = c[i + 1]
    BY <1>2, <2>1
  <2> QED BY <1>1, <2>1, <2>2
<1> QED BY <1>1, <1>3, <1>4, <1>5 DEF EchoLine, Last

LEMMA LineFailed ==
  ASSUME NEW s, NEW s2, NEW b, NEW c \in Seq(Calls), EchoLine(s, c, b), Len(c) > 1, s2.x = 0
  PROVE  EchoLine(s2, Failed(c), b)
<1> DEFINE f == Failed(c)
<1>1. b = <<>> /\ c # <<>> /\ c[Len(c)] = Write(prefix) /\ \A i \in 1 .. Len(c) - 1 : Tidy(c[i])
  BY DEF EchoLine, Last
<1>2. /\ Len(c) \in Nat /\ Len(f) = Len(c) /\ f # <<>> /\ f[1] = Write(Error)
      /\ \A k \in 2 .. Len(c) : f[k] = c[k]
  BY <1>1, CallsFailed
<1> HIDE DEF f
<1>3. Tidy(f[1])
  BY <1>2, ErrorTexts, NamesDiffer DEF Tidy
<1>4. \A i \in 1 .. Len(f) - 1 : i = 1 \/ (i \in 2 .. Len(c) /\ i \in 1 .. Len(c) - 1)
  BY <1>2
<1>5. \A i \in 1 .. Len(f) - 1 : Tidy(f[i])
  BY <1>1, <1>2, <1>3, <1>4
<1>6. f[Len(f)] = Write(prefix)
  BY <1>1, <1>2
<1>7. EchoLine(s2, f, b)
  BY <1>1, <1>2, <1>5, <1>6 DEF EchoLine, Last
<1> QED BY <1>7 DEF f

\* The calls of the greeting.
LEMMA RestFacts ==
  ASSUME NEW n \in Nat
  PROVE  /\ Rest(n) # <<>>
         /\ Head(Rest(n)) = IF n = 0 THEN Write(prefix) ELSE Write(<<"-">>)
         /\ n > 0 => Tail(Rest(n)) = Rest(n - 1)
<1> DEFINE S == {Write(prefix), Write(<<"-">>)}
           r == Rest(n)
<1>1. /\ r \in Seq(S) /\ Len(r) = n + 1
      /\ \A i \in 1 .. n + 1 : r[i] = IF i <= n THEN Write(<<"-">>) ELSE Write(prefix)
  BY DEF Rest
<1> HIDE DEF r, S
<1>2. r # <<>>
  BY <1>1
<1>3. /\ Head(r) = r[1] /\ Tail(r) \in Seq(S) /\ Len(Tail(r)) = n
      /\ \A i \in 1 .. n : Tail(r)[i] = r[i + 1]
  BY <1>1, <1>2, CallsLeft
<1>4. Head(r) = IF n = 0 THEN Write(prefix) ELSE Write(<<"-">>)
  BY <1>1, <1>3
<1>5. ASSUME n > 0 PROVE Tail(r) = Rest(n - 1)
  <2> DEFINE q == Rest(n - 1)
  <2>1. Tail(r) = [i \in 1 .. n |-> Tail(r)[i]]
    BY <1>3, LenProperties
  <2>2. q = [i \in 1 .. n |-> IF i <= n - 1 THEN Write(<<"-">>) ELSE Write(prefix)]
    BY DEF Rest
  <2>3. \A i \in 1 .. n : Tail(r)[i] = IF i <= n - 1 THEN Write(<<"-">>) ELSE Write(prefix)
    BY <1>1, <1>3
  <2> QED BY <2>1, <2>2, <2>3
<1> QED BY <1>2, <1>4, <1>5 DEF r

LEMMA WelcomeFacts ==
  Welcome # <<>> /\ Head(Welcome) = Cursor(0, Half) /\ Tail(Welcome) = Rest(SCREEN_WIDTH)
<1> DEFINE n == SCREEN_WIDTH
           S == {Cursor(0, Half), Write(prefix), Write(<<"-">>)}
           a == <<Cursor(0, Half)>>
           d == [i \in 1 .. n |-> Write(<<"-">>)]
           e == <<Write(prefix)>>
           w == (a \o d) \o e
<1>1. /\ a \in Seq(S) /\ Len(a) = 1 /\ a[1] = Cursor(0, Half)
      /\ e \in Seq(S) /\ Len(e) = 1 /\ e[1] = Write(prefix)
  OBVIOUS
<1>2. n \in Nat
  BY Sizes
<1>3. d \in Seq(S) /\ Len(d) = n /\ \A i \in 1 .. n : d[i] = Write(<<"-">>)
  BY <1>2
<1>4. Welcome = w
  BY DEF Welcome
<1> HIDE DEF n, S, a, d, e
<1>5. /\ a \o d \in Seq(S) /\ Len(a \o d) = 1 + n
      /\ \A i \in 1 .. 1 + n : (a \o d)[i] = IF i <= 1 THEN a[i] ELSE d[i - 1]
  <2>1. a \in Seq(S) /\ d \in Seq(S)
    BY <1>1, <1>3
  <2>2. /\ a \o d \in Seq(S) /\ Len(a \o d) = Len(a) + Len(d)
        /\ \A i \in 1 .. Len(a) + Len(d) : (a \o d)[i] = IF i <= Len(a) THEN a[i] ELSE d[i - Len(a)]
    BY <2>1, Joined
  <2> QED BY <1>1, <1>3, <2>2
<1>6. /\ w \in Seq(S) /\ Len(w) = (1 + n) + 1
      /\ \A i \in 1 .. (1 + n) + 1 : w[i] = IF i <= 1 + n THEN (a \o d)[i] ELSE e[i - (1 + n)]
  <2> DEFINE q == a \o d
  <2>1. q \in Seq(S) /\ e \in Seq(S) /\ Len(q) = 1 + n
    BY <1>1, <1>5
  <2> HIDE DEF q
  <2>2. /\ q \o e \in Seq(S) /\ Len(q \o e) = Len(q) + Len(e)
        /\ \A i \in 1 .. Len(q) + Len(e) : (q \o e)[i] = IF i <= Len(q) THEN q[i] ELSE e[i - Len(q)]
    BY <2>1, Joined
  <2>3. w = q \o e
    BY DEF q
  <2> HIDE DEF w
  <2>4. \A i \in 1 .. (1 + n) + 1 : w[i] = IF i <= 1 + n THEN q[i] ELSE e[i - (1 + n)]
    BY <1>1, <2>1, <2>2, <2>3
  <2> QED BY <1>1, <2>1, <2>2, <2>3, <2>4 DEF q
<1> HIDE DEF w
<1>7. w # <<>>
  BY <1>2, <1>6
<1>8. /\ Head(w) = w[1] /\ Tail(w) \in Seq(S) /\ Len(Tail(w)) = 1 + n
      /\ \A i \in 1 .. 1 + n : Tail(w)[i] = w[i + 1]
  BY <1>2, <1>6, <1>7, CallsLeft
<1>9. Head(w) = Cursor(0, Half)
  <2>1. 1 \in 1 .. 1 + n /\ 1 \in 1 .. (1 + n) + 1 /\ 1 <= 1 + n /\ 1 <= 1
    BY <1>2
  <2>2. w[1] = (a \o d)[1] /\ (a \o d)[1] = a[1]
    BY <1>5, <1>6, <2>1
  <2> QED BY <1>1, <1>8, <2>2
<1>10. ASSUME NEW i \in 1 .. n + 1
       PROVE  Tail(w)[i] = IF i <= n THEN Write(<<"-">>) ELSE Write(prefix)
  <2>1. i + 1 \in 1 .. (1 + n) + 1 /\ i \in 1 .. 1 + n /\ Tail(w)[i] = w[i + 1]
    BY <1>2, <1>8
  <2>2. CASE i <= n
    <3>1. i + 1 <= 1 + n /\ i + 1 \in 1 .. 1 + n /\ ~ i + 1 <= 1 /\ (i + 1) - 1 = i /\ i \in 1 .. n
      BY <1>2, <2>2
    <3>2. w[i + 1] = (a \o d)[i + 1] /\ (a \o d)[i + 1] = d[i]
      BY <1>5, <1>6, <2>1, <3>1
    <3> QED BY <1>3, <2>1, <2>2, <3>1, <3>2
  <2>3. CASE ~ i <= n
    <3>1. ~ i + 1 <= 1 + n /\ (i + 1) - (1 + n) = 1
      BY <1>2, <2>3
    <3> QED BY <1>1, <1>6, <2>1, <2>3, <3>1
  <2> QED BY <2>2, <2>3
<1>11. Tail(w) = Rest(n)
  <2>1. n + 1 = 1 + n
    BY <1>2
  <2>2. Tail(w) = [i \in 1 .. n + 1 |-> Tail(w)[i]]
    BY <1>8, <2>1, LenProperties
  <2>3. Rest(n) = [i \in 1 .. n + 1 |-> IF i <= n THEN Write(<<"-">>) ELSE Write(prefix)]
    BY DEF Rest
  <2> QED BY <1>10, <2>2, <2>3
<1> QED BY <1>4, <1>7, <1>9, <1>11 DEF n

-----------------------------------------------------------------------------
\* The cursors.

LEMMA ViewType ==
  ASSUME Types
  PROVE  /\ ShellView \in Screen
         /\ current_running = Shell => ShellView = screen
         /\ \A p \in Tasks \cup {Shell} : CursorOf(p) \in Columns \X Rows
<1>1. /\ screen.cell \in Cells /\ screen.x \in Columns /\ screen.y \in Rows
      /\ screen = [cell |-> screen.cell, x |-> screen.x, y |-> screen.y]
  BY DEF Types, Screen
<1>2. \A p \in Tasks \cup {Shell} : cursor[p] \in Columns \X Rows
  BY DEF Types
<1>3. \A p \in Tasks \cup {Shell} : CursorOf(p) \in Columns \X Rows
  BY <1>1, <1>2 DEF CursorOf
<1>4. CursorOf(Shell)[1] \in Columns /\ CursorOf(Shell)[2] \in Rows
  BY <1>3
<1>5. ShellView \in Screen
  BY <1>1, <1>4 DEF ShellView, Screen
<1>6. ASSUME current_running = Shell PROVE ShellView = screen
  <2>1. CursorOf(Shell)[1] = screen.x /\ CursorOf(Shell)[2] = screen.y
    BY <1>6 DEF CursorOf
  <2> QED BY <1>1, <2>1 DEF ShellView
<1> QED BY <1>3, <1>5, <1>6

\* scheduler() moves the cursor, but every task finds its own.
LEMMA SwitchKeeps ==
  ASSUME Types, NEW p \in Tasks \cup {Shell}, SwitchTo(p)
  PROVE  /\ screen' \in Screen /\ screen'.cell = screen.cell /\ current_running' = p
         /\ cursor' \in [{Boot, Shell} \cup Tasks -> Columns \X Rows]
         /\ \A q \in Tasks \cup {Shell} : CursorOf(q)' = CursorOf(q)
<1> DEFINE P == {Boot, Shell} \cup Tasks
           saved == [cursor EXCEPT ![current_running] = <<screen.x, screen.y>>]
<1>1. /\ current_running' = p
      /\ screen' = [cell |-> screen.cell, x |-> saved[p][1], y |-> saved[p][2]]
      /\ cursor' = [saved EXCEPT ![p] = Home]
  BY DEF SwitchTo, screen_move_cursor
<1>2. /\ cursor \in [P -> Columns \X Rows] /\ current_running \in P /\ p \in P
      /\ screen.cell \in Cells /\ <<screen.x, screen.y>> \in Columns \X Rows
  BY DEF Types, Screen
<1>3. /\ saved \in [P -> Columns \X Rows]
      /\ \A q \in P : saved[q] = IF q = current_running THEN <<screen.x, screen.y>> ELSE cursor[q]
  BY <1>2
<1>4. \A q \in Tasks \cup {Shell} : saved[q] = CursorOf(q)
  BY <1>3 DEF CursorOf
<1> HIDE DEF saved
<1>5. Home \in Columns \X Rows
  BY Sizes DEF Home, Columns, Rows
<1>6. /\ cursor' \in [P -> Columns \X Rows]
      /\ \A q \in P : q # p => cursor'[q] = saved[q]
  BY <1>1, <1>2, <1>3, <1>5
<1>7. saved[p] \in Columns \X Rows
  BY <1>2, <1>3
<1>8. /\ saved[p][1] \in Columns /\ saved[p][2] \in Rows /\ saved[p] = <<saved[p][1], saved[p][2]>>
  BY <1>7
<1>9. screen' \in Screen /\ screen'.cell = screen.cell /\ <<screen'.x, screen'.y>> = saved[p]
  BY <1>1, <1>2, <1>8 DEF Screen
<1>10. ASSUME NEW q \in Tasks \cup {Shell} PROVE CursorOf(q)' = saved[q]
  <2>1. CursorOf(q)' = IF q = p THEN <<screen'.x, screen'.y>> ELSE cursor'[q]
    BY <1>1 DEF CursorOf
  <2> QED BY <1>6, <1>9, <2>1
<1> QED BY <1>1, <1>4, <1>6, <1>9, <1>10

-----------------------------------------------------------------------------
\* Steps of the scheduler and of the tasks.

\* What the invariant says of the shell is about its cursor and the lower half.
LEMMA PhaseKept ==
  ASSUME NEW s, NEW s2, NEW c, NEW b, s2.x = s.x, s2.y = s.y,
         \A i \in Rows : i >= Half => s2.cell[i] = s.cell[i]
  PROVE  /\ Greeting(s, c) => Greeting(s2, c)
         /\ Open(s, c) => Open(s2, c)
         /\ Open(s, c) /\ Echo(s, c, b) => Echo(s2, c, b)
<1>1. Half \in Rows /\ s2.cell[Half] = s.cell[Half]
  BY Sizes DEF Rows
<1>2. \A i \in LowerRows : i \in Rows /\ i >= Half /\ s2.cell[i] = s.cell[i]
  BY Sizes DEF LowerRows, Rows
<1>3. LowerBlank(s.cell) => LowerBlank(s2.cell)
  BY <1>2 DEF LowerBlank
<1>4. Greeting(s, c) => Greeting(s2, c)
  BY <1>1, <1>3 DEF Greeting
<1>5. Fresh(s) => Fresh(s2)
  BY <1>2 DEF Fresh
<1>6. HomesOK(s, c) => HomesOK(s2, c)
  BY <1>3 DEF HomesOK
<1>7. Open(s, c) => Open(s2, c)
  BY <1>1, <1>5, <1>6 DEF Open
<1>8. ASSUME Open(s, c), Echo(s, c, b) PROVE Echo(s2, c, b)
  <2>1. s2.cell[s2.y] = s.cell[s.y]
    BY <1>2, <1>8 DEF Open
  <2>2. \A text : ShownAt(s, text) => ShownAt(s2, text)
    BY <2>1 DEF ShownAt
  <2>3. EchoChar(s, c, b) => EchoChar(s2, c, b)
    BY <2>2 DEF EchoChar
  <2>4. EchoErase(s, c, b) => EchoErase(s2, c, b)
    BY <2>2 DEF EchoErase
  <2>5. EchoLine(s, c, b) => EchoLine(s2, c, b)
    BY DEF EchoLine
  <2> QED BY <1>8, <2>2, <2>3, <2>4, <2>5 DEF Echo
<1> QED BY <1>4, <1>7, <1>8

LEMMA StepKept ==
  ASSUME IInv, Types', UNCHANGED shellVars, live = {} => live' = {},
         CursorOf(Shell)' = CursorOf(Shell),
         \A i \in Rows : i >= Half => screen'.cell[i] = screen.cell[i],
         \A t \in live' : CursorOf(t)' \in Columns \X (0 .. Half)
  PROVE  IInv'
<1> DEFINE s == ShellView
           s2 == ShellView'
<1>1. s2.x = s.x /\ s2.y = s.y /\ s2.cell = screen'.cell /\ s.cell = screen.cell
  BY DEF ShellView
<1>2. calls' = calls /\ input_buffer' = input_buffer /\ askew' = askew
  BY DEF shellVars
<1>3. SCREEN_HEIGHT - 1 \in Rows /\ SCREEN_HEIGHT - 1 >= Half
  BY Sizes DEF Rows
<1>4. screen'.cell[SCREEN_HEIGHT - 1] = Blanks
  BY <1>3 DEF IInv
<1>5. \/ live = {} /\ input_buffer = <<>> /\ ~ askew /\ Greeting(s, calls)
      \/ Open(s, calls) /\ (~ askew => Echo(s, calls, input_buffer))
  BY DEF IInv, Phase
<1> HIDE DEF s, s2
<1>6. /\ Greeting(s, calls) => Greeting(s2, calls)
      /\ Open(s, calls) => Open(s2, calls)
      /\ Open(s, calls) /\ Echo(s, calls, input_buffer) => Echo(s2, calls, input_buffer)
  BY <1>1, PhaseKept
<1>7. \/ live' = {} /\ input_buffer' = <<>> /\ ~ askew' /\ Greeting(s2, calls')
      \/ Open(s2, calls') /\ (~ askew' => Echo(s2, calls', input_buffer'))
  BY <1>2, <1>5, <1>6
<1>8. Phase'
  BY <1>7 DEF Phase, s2
<1> QED BY <1>4, <1>8 DEF IInv

LEMMA TickKeeps ==
  ASSUME IInv, Tick
  PROVE  IInv'
<1>1. PICK p \in live \cup {Shell} : SwitchTo(p)
  BY DEF Tick
<1>2. Types /\ p \in Tasks \cup {Shell} /\ UNCHANGED <<live, shellVars>>
  BY DEF IInv, Types, Tick
<1>3. /\ screen' \in Screen /\ screen'.cell = screen.cell /\ current_running' = p
      /\ cursor' \in [{Boot, Shell} \cup Tasks -> Columns \X Rows]
      /\ \A q \in Tasks \cup {Shell} : CursorOf(q)' = CursorOf(q)
  BY <1>1, <1>2, SwitchKeeps
<1>4. Types'
  BY <1>1, <1>2, <1>3 DEF Types, shellVars
<1>5. \A t \in live' : CursorOf(t)' \in Columns \X (0 .. Half)
  BY <1>2, <1>3 DEF IInv, Types
<1> QED BY <1>2, <1>3, <1>4, <1>5, StepKept

LEMMA TaskExitKeeps ==
  ASSUME IInv, TaskExit
  PROVE  IInv'
<1>1. PICK p \in live' \cup {Shell} : SwitchTo(p)
  BY DEF TaskExit
<1>2. /\ Types /\ live' = live \ {current_running} /\ p \in Tasks \cup {Shell}
      /\ UNCHANGED shellVars
  BY DEF IInv, Types, TaskExit
<1>3. /\ screen' \in Screen /\ screen'.cell = screen.cell /\ current_running' = p
      /\ cursor' \in [{Boot, Shell} \cup Tasks -> Columns \X Rows]
      /\ \A q \in Tasks \cup {Shell} : CursorOf(q)' = CursorOf(q)
  BY <1>1, <1>2, SwitchKeeps
<1>4. Types'
  BY <1>1, <1>2, <1>3 DEF Types, shellVars
<1>5. \A t \in live' : CursorOf(t)' \in Columns \X (0 .. Half)
  BY <1>2, <1>3 DEF IInv, Types
<1> QED BY <1>2, <1>3, <1>4, <1>5, StepKept

\* The task that is running is one of the live ones and its cursor is above
\* the lower half.
LEMMA TaskRuns ==
  ASSUME IInv, current_running \in Tasks
  PROVE  /\ current_running \in live /\ current_running # Shell
         /\ screen \in Screen /\ screen.y <= Half
         /\ CursorOf(Shell) = cursor[Shell]
<1>1. current_running # Boot /\ current_running # Shell
  BY ConsoleAssumption
<1>2. current_running \in live /\ screen \in Screen
  BY <1>1 DEF IInv, Types
<1>3. <<screen.x, screen.y>> \in Columns \X (0 .. Half)
  BY <1>2 DEF IInv, CursorOf
<1>4. screen.y <= Half
  BY <1>3
<1> QED BY <1>1, <1>2, <1>4 DEF CursorOf

\* A task leaves the rows from the line of dashes on, and its cursor above it.
LEMMA TaskStep ==
  ASSUME IInv, current_running \in Tasks, UNCHANGED <<current_running, live, cursor, shellVars>>,
         screen' \in Screen, screen'.y <= Half,
         \A i \in Rows : i >= Half => screen'.cell[i] = screen.cell[i]
  PROVE  IInv'
<1>1. current_running \in live /\ current_running # Shell
  BY TaskRuns
<1>2. Types'
  BY DEF IInv, Types, shellVars
<1>3. CursorOf(Shell)' = CursorOf(Shell)
  BY <1>1 DEF CursorOf
<1>4. ASSUME NEW t \in live' PROVE CursorOf(t)' \in Columns \X (0 .. Half)
  <2>1. CASE t = current_running
    <3>1. screen'.x \in Columns /\ screen'.y \in 0 .. Half
      BY Sizes DEF Screen, Rows
    <3> QED BY <2>1, <3>1 DEF CursorOf
  <2>2. CASE t # current_running
    <3>1. CursorOf(t)' = CursorOf(t)
      BY <2>2 DEF CursorOf
    <3> QED BY <3>1 DEF IInv
  <2> QED BY <2>1, <2>2
<1> QED BY <1>2, <1>3, <1>4, StepKept

LEMMA TaskWriteKeeps ==
  ASSUME IInv, NEW text \in TaskTexts, TaskWrite(text)
  PROVE  IInv'
<1>1. /\ current_running \in Tasks /\ UNCHANGED <<current_running, live, cursor, shellVars>>
      /\ screen' = screen_write(screen, text)
      /\ \A n \in 0 .. Len(text) - 1 : Written(screen, text)[n].y < Half
  BY DEF TaskWrite, Fits
<1>2. screen \in Screen /\ screen.y <= Half /\ text \in Seq(AnyChar)
  BY <1>1, TaskRuns, TextsAssumption
<1>3. /\ screen' \in Screen /\ screen'.y <= Half
      /\ \A i \in Rows : i >= Half => screen'.cell[i] = screen.cell[i]
  BY <1>1, <1>2, WriteUpper
<1> QED BY <1>1, <1>3, TaskStep

LEMMA TaskMoveKeeps ==
  ASSUME IInv, TaskMove
  PROVE  IInv'
<1>1. current_running \in Tasks /\ UNCHANGED <<current_running, live, cursor, shellVars>>
  BY DEF TaskMove
<1>2. PICK i \in {0, 1} : screen' = [cell |-> screen.cell, x |-> 0, y |-> i]
  BY DEF TaskMove, screen_move_cursor
<1>3. 0 \in Columns /\ i \in Rows /\ i <= Half /\ screen.cell \in Cells
  BY Sizes DEF Columns, Rows, IInv, Types, Screen
<1>4. screen' \in Screen /\ screen'.y <= Half /\ screen'.cell = screen.cell
  BY <1>2, <1>3 DEF Screen
<1> QED BY <1>1, <1>4, TaskStep

-----------------------------------------------------------------------------
\* Steps of the shell.

\* A step after which the shell still runs.
LEMMA ShellStep ==
  ASSUME IInv, current_running = Shell, current_running' = Shell,
         screen' \in Screen, screen'.cell[SCREEN_HEIGHT - 1] = screen.cell[SCREEN_HEIGHT - 1],
         live' \subseteq Tasks, cursor' \in [{Boot, Shell} \cup Tasks -> Columns \X Rows],
         \A t \in live' : cursor'[t] \in Columns \X (0 .. Half),
         input_buffer' \in Seq(Char), Len(input_buffer') <= Capacity, askew' \in BOOLEAN,
         \/ live' = {} /\ input_buffer' = <<>> /\ ~ askew' /\ Greeting(screen', calls')
         \/ Open(screen', calls') /\ (~ askew' => Echo(screen', calls', input_buffer'))
  PROVE  IInv'
<1>1. Types'
  BY DEF Types
<1>2. screen' = [cell |-> screen'.cell, x |-> screen'.x, y |-> screen'.y]
  BY DEF Screen
<1>3. ShellView' = screen'
  <2>1. CursorOf(Shell)' = <<screen'.x, screen'.y>>
    BY DEF CursorOf
  <2> QED BY <1>2, <2>1 DEF ShellView
<1>4. Phase'
  BY <1>3 DEF Phase
<1>5. \A t \in live' : t # Shell
  BY ConsoleAssumption
<1>6. \A t \in live' : CursorOf(t)' \in Columns \X (0 .. Half)
  BY <1>5 DEF CursorOf
<1>7. screen'.cell[SCREEN_HEIGHT - 1] = Blanks
  BY DEF IInv
<1> QED BY <1>1, <1>4, <1>6, <1>7 DEF IInv

\* What there is when the shell runs.
LEMMA ShellRuns ==
  ASSUME IInv, current_running = Shell
  PROVE  /\ screen \in Screen /\ live \subseteq Tasks
         /\ cursor \in [{Boot, Shell} \cup Tasks -> Columns \X Rows]
         /\ \A t \in live : cursor[t] \in Columns \X (0 .. Half)
         /\ input_buffer \in Seq(Char) /\ Len(input_buffer) <= Capacity /\ askew \in BOOLEAN
         /\ \/ live = {} /\ input_buffer = <<>> /\ ~ askew /\ Greeting(screen, calls)
            \/ Open(screen, calls) /\ (~ askew => Echo(screen, calls, input_buffer))
<1>1. Types /\ Phase
  BY DEF IInv
<1>2. ShellView = screen
  BY <1>1, ViewType
<1>3. \A t \in live : t # Shell
  BY <1>1, ConsoleAssumption DEF Types
<1>4. \A t \in live : cursor[t] \in Columns \X (0 .. Half)
  BY <1>3 DEF IInv, CursorOf
<1> QED BY <1>1, <1>2, <1>4 DEF Types, Phase

LEMMA GreetingCalls ==
  ASSUME NEW s, NEW c, Greeting(s, c)
  PROVE  c # <<>> /\ Head(c)[1] \in {"write", "cursor"}
<1>1. CASE c = Welcome
  BY <1>1, WelcomeFacts DEF Cursor
<1>2. CASE \E n \in 1 .. SCREEN_WIDTH : c = Rest(n)
  <2>1. PICK n \in 1 .. SCREEN_WIDTH : c = Rest(n)
    BY <1>2
  <2>2. n \in Nat /\ n # 0
    BY Sizes
  <2>3. c # <<>> /\ Head(c) = Write(<<"-">>)
    BY <2>1, <2>2, RestFacts
  <2> QED BY <2>3, NamesDiffer
<1> QED BY <1>1, <1>2 DEF Greeting

\* The shell's window is there when the shell makes another call, or reads.
LEMMA OpenRuns ==
  ASSUME IInv, current_running = Shell,
         calls = <<>> \/ (calls # <<>> /\ Head(calls)[1] \notin {"write", "cursor"})
  PROVE  Open(screen, calls) /\ (~ askew => Echo(screen, calls, input_buffer))
BY ShellRuns, GreetingCalls

\* A call that is not a write belongs to the output of a command.
LEMMA EchoOther ==
  ASSUME NEW s, NEW b, NEW c \in Seq(Calls), c # <<>>, Head(c)[1] # "write", Echo(s, c, b)
  PROVE  EchoLine(s, c, b) /\ Len(c) > 1 /\ s.x = 0
<1>1. Head(c) = c[1] /\ Len(c) \in Nat /\ Len(c) > 0
  BY CallsLeft
<1>2. ~ EchoChar(s, c, b)
  <2>1. \A t : c = <<t>> => c[1] = t
    OBVIOUS
  <2>2. EchoChar(s, c, b) => \E t : c = <<Write(t)>>
    BY DEF EchoChar
  <2> QED BY <1>1, <2>1, <2>2, NamesDiffer
<1>3. ~ EchoErase(s, c, b)
  BY <1>1, NamesDiffer DEF EchoErase
<1>4. EchoLine(s, c, b)
  BY <1>2, <1>3 DEF Echo
<1>5. Len(c) # 1
  BY <1>1, <1>4, NamesDiffer DEF EchoLine, Last
<1>6. s.x = 0
  BY <1>1, <1>4, NamesDiffer DEF EchoLine
<1>7. Len(c) > 1
  <2> DEFINE n == Len(c)
  <2>1. n \in Nat /\ n > 0 /\ n # 1
    BY <1>1, <1>5
  <2> HIDE DEF n
  <2>2. n > 1
    BY <2>1
  <2> QED BY <2>2 DEF n
<1> QED BY <1>4, <1>6, <1>7

\* The shell's window after a call of that kind, which has succeeded or failed.
LEMMA OtherOpen ==
  ASSUME NEW s, NEW s2, NEW b, NEW c, Open(s, c), c # <<>>, Head(c)[1] # "write",
         s2.y \in LowerRows, s2.cell[Half] = Dashes, Fresh(s2),
         Head(c) = LowerClear => LowerBlank(s2.cell),
         s.x = 0 => s2.x = 0, NEW a \in BOOLEAN, ~ a => Echo(s, c, b)
  PROVE  /\ Open(s2, Tail(c)) /\ (~ a => Echo(s2, Tail(c), b))
         /\ Head(c)[1] # "clear" => Open(s2, Failed(c)) /\ (~ a => Echo(s2, Failed(c), b))
<1>1. c \in Seq(Calls) /\ HomesOK(s, c)
  BY DEF Open
<1>2. Tail(c) \in Seq(Calls) /\ HomesOK(s2, Tail(c))
  BY <1>1, CallsLeft, HomesLeft
<1>3. ~ a => EchoLine(s, c, b) /\ Len(c) > 1 /\ s2.x = 0
  BY <1>1, EchoOther
<1>4. ~ a => EchoLine(s2, Tail(c), b)
  BY <1>1, <1>3, LineLeft
<1>5. ASSUME Head(c)[1] # "clear"
      PROVE  Open(s2, Failed(c)) /\ (~ a => Echo(s2, Failed(c), b))
  <2>1. Head(c) # LowerClear
    BY <1>5, NamesDiffer
  <2>2. Failed(c) \in Seq(Calls) /\ HomesOK(s2, Failed(c))
    BY <1>1, <2>1, CallsFailed, HomesFailed
  <2>3. ~ a => EchoLine(s2, Failed(c), b)
    BY <1>1, <1>3, LineFailed
  <2> QED BY <2>2, <2>3 DEF Open, Echo
<1> QED BY <1>2, <1>4, <1>5 DEF Open, Echo

LEMMA ShellSpawnKeeps ==
  ASSUME IInv, ShellSpawn
  PROVE  IInv'
<1> DEFINE P == {Boot, Shell} \cup Tasks
<1>1. /\ current_running = Shell /\ calls # <<>> /\ Head(calls)[1] = "spawn"
      /\ UNCHANGED <<screen, current_running, input_buffer, askew>>
      /\ calls' = IF live # Tasks THEN Tail(calls) ELSE Failed(calls)
  BY DEF ShellSpawn, ShellCalls, Proceed, Failed
<1>2. /\ screen \in Screen /\ live \subseteq Tasks /\ cursor \in [P -> Columns \X Rows]
      /\ \A t \in live : cursor[t] \in Columns \X (0 .. Half)
      /\ input_buffer \in Seq(Char) /\ Len(input_buffer) <= Capacity /\ askew \in BOOLEAN
  BY <1>1, ShellRuns
<1>3. Open(screen, calls) /\ (~ askew => Echo(screen, calls, input_buffer))
  BY <1>1, OpenRuns
<1>4. Head(calls) # LowerClear
  BY <1>1, NamesDiffer
<1>5. /\ Open(screen, Tail(calls)) /\ (~ askew => Echo(screen, Tail(calls), input_buffer))
      /\ Open(screen, Failed(calls)) /\ (~ askew => Echo(screen, Failed(calls), input_buffer))
  <2>1. screen.y \in LowerRows /\ screen.cell[Half] = Dashes /\ Fresh(screen)
    BY <1>3 DEF Open
  <2> QED BY <1>1, <1>2, <1>3, <1>4, <2>1, OtherOpen
<1>6. /\ live' \subseteq Tasks /\ cursor' \in [P -> Columns \X Rows]
      /\ \A t \in live' : cursor'[t] \in Columns \X (0 .. Half)
  <2>1. CASE live' = live /\ cursor' = cursor
    BY <1>2, <2>1
  <2>2. CASE \E t \in Tasks \ live : live' = live \cup {t} /\ cursor' = PcbCursor(t)
    <3>1. PICK t \in Tasks \ live : live' = live \cup {t} /\ cursor' = [cursor EXCEPT ![t] = Home]
      BY <2>2 DEF PcbCursor
    <3>2. Home \in Columns \X Rows /\ Home \in Columns \X (0 .. Half)
      BY Sizes DEF Home, Columns, Rows
    <3> QED BY <1>2, <3>1, <3>2
  <2> QED BY <2>1, <2>2 DEF ShellSpawn
<1>7. Open(screen', calls') /\ (~ askew' => Echo(screen', calls', input_buffer'))
  BY <1>1, <1>5
<1> QED BY <1>1, <1>2, <1>6, <1>7, ShellStep

LEMMA ShellKillKeeps ==
  ASSUME IInv, ShellKill
  PROVE  IInv'
<1> DEFINE P == {Boot, Shell} \cup Tasks
<1>1. /\ current_running = Shell /\ calls # <<>> /\ Head(calls)[1] = "kill"
      /\ UNCHANGED <<screen, current_running, cursor, input_buffer, askew>>
      /\ live' = live \ {Head(calls)[2]}
      /\ calls' = Tail(calls) \/ calls' = Failed(calls)
  BY DEF ShellKill, ShellCalls, Proceed, Failed
<1>2. /\ screen \in Screen /\ live \subseteq Tasks /\ cursor \in [P -> Columns \X Rows]
      /\ \A t \in live : cursor[t] \in Columns \X (0 .. Half)
      /\ input_buffer \in Seq(Char) /\ Len(input_buffer) <= Capacity /\ askew \in BOOLEAN
  BY <1>1, ShellRuns
<1>3. Open(screen, calls) /\ (~ askew => Echo(screen, calls, input_buffer))
  BY <1>1, OpenRuns
<1>4. Head(calls) # LowerClear
  BY <1>1, NamesDiffer
<1>5. /\ Open(screen, Tail(calls)) /\ (~ askew => Echo(screen, Tail(calls), input_buffer))
      /\ Open(screen, Failed(calls)) /\ (~ askew => Echo(screen, Failed(calls), input_buffer))
  <2>1. screen.y \in LowerRows /\ screen.cell[Half] = Dashes /\ Fresh(screen)
    BY <1>3 DEF Open
  <2> QED BY <1>1, <1>2, <1>3, <1>4, <2>1, OtherOpen
<1>6. live' \subseteq Tasks /\ \A t \in live' : t \in live
  BY <1>1, <1>2
<1>7. Open(screen', calls') /\ (~ askew' => Echo(screen', calls', input_buffer'))
  BY <1>1, <1>5
<1> QED BY <1>1, <1>2, <1>6, <1>7, ShellStep

LEMMA show_processKeeps ==
  ASSUME IInv, show_process
  PROVE  IInv'
<1> DEFINE t == ProcessTable(live)
           r == screen_write(screen, t)
<1>1. /\ current_running = Shell /\ calls # <<>> /\ Head(calls)[1] = "show"
      /\ UNCHANGED <<current_running, live, cursor, input_buffer, askew>>
      /\ screen' = r /\ calls' = Tail(calls)
  BY DEF show_process, ShellCalls, Proceed
<1>2. /\ screen \in Screen /\ live \subseteq Tasks
      /\ cursor \in [{Boot, Shell} \cup Tasks -> Columns \X Rows]
      /\ \A q \in live : cursor[q] \in Columns \X (0 .. Half)
      /\ input_buffer \in Seq(Char) /\ Len(input_buffer) <= Capacity /\ askew \in BOOLEAN
  BY <1>1, ShellRuns
<1>3. Open(screen, calls) /\ (~ askew => Echo(screen, calls, input_buffer))
  BY <1>1, OpenRuns
<1>4. screen.y \in LowerRows /\ screen.cell[Half] = Dashes /\ Fresh(screen)
  BY <1>3 DEF Open
<1>5. t \in Seq(AnyChar) /\ t # <<>> /\ EndsLine(t)
  BY <1>2, TableText
<1>6. /\ r \in Screen /\ r.y \in LowerRows /\ Fresh(r) /\ r.x = 0
      /\ \A i \in Rows : i <= Half \/ i = SCREEN_HEIGHT - 1 => r.cell[i] = screen.cell[i]
  BY <1>2, <1>4, <1>5, WriteLower
<1> HIDE DEF r
<1>7. Half \in Rows /\ SCREEN_HEIGHT - 1 \in Rows /\ Half <= Half
  BY Sizes DEF Rows
<1>8. r.cell[Half] = Dashes /\ r.cell[SCREEN_HEIGHT - 1] = screen.cell[SCREEN_HEIGHT - 1]
  BY <1>4, <1>6, <1>7
<1>9. Head(calls) # LowerClear
  BY <1>1, NamesDiffer
<1>10. Open(r, Tail(calls)) /\ (~ askew => Echo(r, Tail(calls), input_buffer))
  BY <1>1, <1>2, <1>3, <1>6, <1>8, <1>9, OtherOpen
<1> QED BY <1>1, <1>2, <1>6, <1>8, <1>10, ShellStep

LEMMA ShellClearKeeps ==
  ASSUME IInv, ShellClear
  PROVE  IInv'
<1> DEFINE a == Head(calls)[2]
           b == Head(calls)[3]
           cell == [i \in Rows |-> IF i \in a .. b THEN Blanks ELSE screen.cell[i]]
           r == [cell |-> cell, x |-> screen.x, y |-> screen.y]
<1>1. /\ current_running = Shell /\ calls # <<>> /\ Head(calls)[1] = "clear"
      /\ UNCHANGED <<current_running, live, cursor, input_buffer, askew>>
      /\ screen' = screen_clear(screen, a, b) /\ calls' = Tail(calls)
  BY DEF ShellClear, ShellCalls, Proceed
<1>2. /\ screen \in Screen /\ live \subseteq Tasks
      /\ cursor \in [{Boot, Shell} \cup Tasks -> Columns \X Rows]
      /\ \A q \in live : cursor[q] \in Columns \X (0 .. Half)
      /\ input_buffer \in Seq(Char) /\ Len(input_buffer) <= Capacity /\ askew \in BOOLEAN
  BY <1>1, ShellRuns
<1>3. Open(screen, calls) /\ (~ askew => Echo(screen, calls, input_buffer))
  BY <1>1, OpenRuns
<1>4. screen' = r
  BY <1>1, <1>2 DEF screen_clear, Screen, Blanks
<1>5. Head(calls) \in {LowerClear, UpperClear}
  <2>1. calls \in Seq(Calls)
    BY <1>3 DEF Open
  <2>2. Head(calls) \in Calls
    BY <1>1, <2>1, CallsLeft
  <2> QED BY <1>1, <2>2, CallNames
<1>6. \/ Head(calls) = LowerClear /\ a = Half + 1 /\ b = SCREEN_HEIGHT - 1
      \/ Head(calls) = UpperClear /\ a = 0 /\ b = Half - 1
  BY <1>5, NamesDiffer
<1> HIDE DEF a, b
<1>7. Half \in Rows /\ SCREEN_HEIGHT - 1 \in Rows /\ Half \notin a .. b
  BY <1>6, Sizes DEF Rows
<1>8. Blanks \in [Columns -> AnyChar]
  BY TextsAssumption DEF Blanks, AnyChar
<1>9. cell \in Cells /\ r \in Screen
  BY <1>2, <1>8 DEF Cells, Screen
<1>10. \A i \in LowerRows : i \in Rows
  BY Sizes DEF LowerRows, Rows
<1>11. \A i \in LowerRows, j \in Columns : cell[i][j] = screen.cell[i][j] \/ cell[i][j] = "SP"
  BY <1>10 DEF Blanks
<1>12. r.y \in LowerRows /\ r.cell[Half] = Dashes /\ Fresh(r)
  <2>1. screen.y \in LowerRows /\ screen.cell[Half] = Dashes /\ Fresh(screen)
    BY <1>3 DEF Open
  <2>2. cell[Half] = screen.cell[Half]
    BY <1>7
  <2> HIDE DEF cell
  <2> QED BY <1>11, <2>1, <2>2 DEF Fresh
<1>13. Head(calls) = LowerClear => LowerBlank(r.cell)
  <2> SUFFICES ASSUME a = Half + 1, b = SCREEN_HEIGHT - 1 PROVE LowerBlank(cell)
    BY <1>6, NamesDiffer
  <2>1. \A i \in LowerRows : i \in a .. b
    BY Sizes DEF LowerRows
  <2> QED BY <1>10, <2>1 DEF LowerBlank, Blanks
<1>14. cell[SCREEN_HEIGHT - 1] = screen.cell[SCREEN_HEIGHT - 1]
  <2>1. screen.cell[SCREEN_HEIGHT - 1] = Blanks
    BY DEF IInv
  <2> QED BY <1>7, <2>1
<1> HIDE DEF cell
<1>15. Open(r, Tail(calls)) /\ (~ askew => Echo(r, Tail(calls), input_buffer))
  <2>1. screen.x = 0 => r.x = 0
    OBVIOUS
  <2> HIDE DEF r
  <2> QED BY <1>1, <1>2, <1>3, <1>12, <1>13, <2>1, OtherOpen
<1>16. r.cell = cell
  OBVIOUS
<1> HIDE DEF r
<1> QED BY <1>1, <1>2, <1>4, <1>9, <1>14, <1>15, <1>16, ShellStep

\* The echo of the calls.
LEMMA JoinedShown ==
  ASSUME NEW b \in Seq(Char), NEW ch \in Char
  PROVE  /\ prefix \o b \in Seq(Char) /\ prefix \o Append(b, ch) \in Seq(Char)
         /\ Len(b) \in Nat /\ Len(prefix) \in Nat
         /\ Len(prefix \o b) = Len(prefix) + Len(b)
         /\ Len(prefix \o Append(b, ch)) = Len(prefix) + Len(b) + 1
         /\ \A i \in 1 .. Len(prefix) + Len(b) : (prefix \o Append(b, ch))[i] = (prefix \o b)[i]
         /\ (prefix \o Append(b, ch))[Len(prefix) + Len(b) + 1] = ch
<1> DEFINE p == Len(prefix)
           n == Len(b)
           d == Append(b, ch)
<1>1. prefix \in Seq(Char) /\ p \in Nat
  BY TextsAssumption
<1>2. d \in Seq(Char) /\ Len(d) = n + 1 /\ n \in Nat /\ d[n + 1] = ch
  OBVIOUS
<1>3. \A i \in 1 .. n : d[i] = b[i]
  OBVIOUS
<1> HIDE DEF d
<1>4. /\ prefix \o d \in Seq(Char) /\ Len(prefix \o d) = p + Len(d)
      /\ \A i \in 1 .. p + Len(d) : (prefix \o d)[i] = IF i <= p THEN prefix[i] ELSE d[i - p]
  BY <1>1, <1>2, Joined
<1>5. /\ prefix \o b \in Seq(Char) /\ Len(prefix \o b) = p + n
      /\ \A i \in 1 .. p + n : (prefix \o b)[i] = IF i <= p THEN prefix[i] ELSE b[i - p]
  BY <1>1, Joined
<1> HIDE DEF n, p
<1>6. ASSUME NEW i \in 1 .. p + n PROVE (prefix \o d)[i] = (prefix \o b)[i]
  <2>1. i \in 1 .. p + Len(d) /\ (~ i <= p => i - p \in 1 .. n)
    BY <1>1, <1>2
  <2> QED BY <1>3, <1>4, <1>5, <2>1
<1>7. (prefix \o d)[p + n + 1] = ch
  <2>1. p + n + 1 \in 1 .. p + Len(d) /\ ~ p + n + 1 <= p /\ (p + n + 1) - p = n + 1
    BY <1>1, <1>2
  <2> QED BY <1>2, <1>4, <2>1
<1>8. Len(prefix \o d) = p + n + 1
  BY <1>1, <1>2, <1>4
<1> QED BY <1>1, <1>2, <1>4, <1>5, <1>6, <1>7, <1>8 DEF d, n, p

LEMMA EchoCharDone ==
  ASSUME NEW s \in Screen, s.y \in LowerRows, NEW b0 \in Seq(Char), NEW ch \in Char,
         Len(b0) + 1 < Capacity, ShownAt(s, prefix \o b0),
         NEW r, r = screen_write(s, <<ch>>)
  PROVE  ShownAt(r, prefix \o Append(b0, ch))
<1> DEFINE t == prefix \o b0
           t2 == prefix \o Append(b0, ch)
           m == Len(prefix) + Len(b0)
<1>1. /\ Len(t) = m /\ Len(t2) = m + 1 /\ m \in Nat /\ Len(b0) \in Nat
      /\ \A i \in 1 .. m : t2[i] = t[i]
      /\ t2[m + 1] = ch
  BY JoinedShown
<1>2. m + 1 < SCREEN_WIDTH
  BY <1>1, Sizes
<1>3. s.x = m /\ \A j \in Columns : s.cell[s.y][j] = IF j < m THEN t[j + 1] ELSE "SP"
  BY <1>1 DEF ShownAt, Shows
<1> HIDE DEF m, t, t2
<1>4. r = screen_write_ch(s, ch)
  BY WriteOne
<1>5. /\ r.y = s.y /\ r.x = s.x + 1
      /\ \A j \in Columns : r.cell[s.y][j] = IF j = s.x THEN ch ELSE s.cell[s.y][j]
  <2>1. s.x + 1 < SCREEN_WIDTH
    BY <1>2, <1>3
  <2>2. \A q : q = screen_write_ch(s, ch) =>
          /\ q.y = s.y /\ q.x = s.x + 1
          /\ \A j \in Columns : q.cell[s.y][j] = IF j = s.x THEN ch ELSE s.cell[s.y][j]
    BY <2>1, ChEcho
  <2> QED BY <1>4, <2>2
<1>6. ASSUME NEW j \in Columns PROVE r.cell[r.y][j] = IF j < m + 1 THEN t2[j + 1] ELSE "SP"
  <2>1. j \in Nat /\ r.cell[r.y][j] = IF j = m THEN ch ELSE s.cell[s.y][j]
    BY <1>3, <1>5, Sizes DEF Columns
  <2>2. CASE j = m
    <3>1. j < m + 1
      BY <1>1, <2>2
    <3> QED BY <1>1, <2>1, <2>2, <3>1
  <2>3. CASE j # m
    <3>1. r.cell[r.y][j] = IF j < m THEN t[j + 1] ELSE "SP"
      BY <1>3, <2>1, <2>3
    <3>2. /\ j < m + 1 <=> j < m
          /\ j < m => j + 1 \in 1 .. m
      BY <1>1, <2>1, <2>3
    <3> QED BY <1>1, <3>1, <3>2
  <2> QED BY <2>2, <2>3
<1>7. ShownAt(r, t2)
  BY <1>1, <1>3, <1>5, <1>6 DEF ShownAt, Shows
<1> QED BY <1>7 DEF t2

LEMMA EchoEraseDone ==
  ASSUME NEW s \in Screen, s.y \in LowerRows, NEW b \in Seq(Char), NEW ch \in Char,
         ShownAt(s, prefix \o Append(b, ch)), NEW r, r = screen_write(s, <<"BS">>)
  PROVE  ShownAt(r, prefix \o b)
<1> DEFINE t == prefix \o b
           t2 == prefix \o Append(b, ch)
           m == Len(prefix) + Len(b)
<1>1. /\ Len(t) = m /\ Len(t2) = m + 1 /\ m \in Nat
      /\ \A i \in 1 .. m : t2[i] = t[i]
  BY JoinedShown
<1>2. s.x = m + 1 /\ \A j \in Columns : s.cell[s.y][j] = IF j < m + 1 THEN t2[j + 1] ELSE "SP"
  BY <1>1 DEF ShownAt, Shows
<1> HIDE DEF m, t, t2
<1>3. r = screen_write_ch(s, "BS")
  BY WriteOne
<1>4. s.x > 0 /\ s.x - 1 = m
  BY <1>1, <1>2
<1>5. /\ r.y = s.y /\ r.x = s.x - 1
      /\ \A j \in Columns : r.cell[s.y][j] = IF j = s.x - 1 THEN "SP" ELSE s.cell[s.y][j]
  BY <1>3, <1>4, ChErase
<1>6. ASSUME NEW j \in Columns PROVE r.cell[r.y][j] = IF j < m THEN t[j + 1] ELSE "SP"
  <2>1. j \in Nat /\ r.cell[r.y][j] = IF j = m THEN "SP" ELSE s.cell[s.y][j]
    BY <1>4, <1>5, Sizes DEF Columns
  <2>2. CASE j = m
    <3>1. ~ j < m
      BY <1>1, <2>2
    <3> QED BY <2>1, <2>2, <3>1
  <2>3. CASE j # m
    <3>1. r.cell[r.y][j] = IF j < m + 1 THEN t2[j + 1] ELSE "SP"
      BY <1>2, <2>1, <2>3
    <3>2. /\ j < m + 1 <=> j < m
          /\ j < m => j + 1 \in 1 .. m
      BY <1>1, <2>1, <2>3
    <3> QED BY <1>1, <3>1, <3>2
  <2> QED BY <2>2, <2>3
<1>7. ShownAt(r, t)
  BY <1>1, <1>4, <1>5, <1>6 DEF ShownAt, Shows
<1> QED BY <1>7 DEF t

\* What is still to be echoed after a write.
LEMMA EchoWrite ==
  ASSUME NEW s \in Screen, NEW c, c # <<>>, NEW b \in Seq(Char), Open(s, c), Echo(s, c, b),
         NEW text \in Seq(AnyChar), Head(c) = Write(text), NEW r, r = screen_write(s, text)
  PROVE  Echo(r, Tail(c), b)
<1>1. s.y \in LowerRows /\ Fresh(s) /\ c \in Seq(Calls)
  BY DEF Open
<1>2. /\ Head(c) = c[1] /\ Len(c) \in Nat /\ Len(c) > 0
      /\ Tail(c) \in Seq(Calls) /\ Len(Tail(c)) = Len(c) - 1
  BY <1>1, CallsLeft
<1>3. Len(c) = 1 => Tail(c) = <<>>
  <2> DEFINE t == Tail(c)
  <2>1. t \in Seq(Calls) /\ (Len(c) = 1 => Len(t) = 0)
    BY <1>2
  <2> HIDE DEF t
  <2>2. Len(c) = 1 => t = <<>>
    BY <2>1
  <2> QED BY <2>2 DEF t
<1>4. CASE EchoChar(s, c, b)
  <2>1. PICK ch \in Char, b0 \in Seq(Char) :
          /\ c = <<Write(<<ch>>)>> /\ b = Append(b0, ch) /\ Len(b) < Capacity
          /\ ShownAt(s, prefix \o b0)
    BY <1>4 DEF EchoChar
  <2>2. c[1] = Write(<<ch>>) /\ Len(c) = 1
    BY <2>1
  <2>3. text = <<ch>>
    BY <1>2, <2>2, NamesDiffer
  <2>4. Len(b0) + 1 < Capacity
    BY <2>1
  <2>5. ShownAt(r, prefix \o b)
    BY <1>1, <2>1, <2>3, <2>4, EchoCharDone
  <2> QED BY <1>3, <2>2, <2>5 DEF Echo
<1>5. CASE EchoErase(s, c, b)
  <2>1. PICK ch \in Char : c = <<Write(<<"BS">>)>> /\ ShownAt(s, prefix \o Append(b, ch))
    BY <1>5 DEF EchoErase
  <2>2. c[1] = Write(<<"BS">>) /\ Len(c) = 1
    BY <2>1
  <2>3. text = <<"BS">>
    BY <1>2, <2>2, NamesDiffer
  <2>4. ShownAt(r, prefix \o b)
    BY <1>1, <2>1, <2>3, EchoEraseDone
  <2> QED BY <1>3, <2>2, <2>4 DEF Echo
<1>6. CASE EchoLine(s, c, b)
  <2>1. /\ b = <<>> /\ c[Len(c)] = Write(prefix)
        /\ \A i \in 1 .. Len(c) - 1 : Tidy(c[i])
        /\ s.x = 0 \/ (Len(c) > 1 /\ c[1] = Write(<<"LF">>))
    BY <1>6 DEF EchoLine, Last
  <2>2. CASE Len(c) = 1
    <3>1. text = prefix /\ s.x = 0
      BY <1>2, <2>1, <2>2, NamesDiffer
    <3>2. ShownAt(r, prefix)
      BY <1>1, <3>1, WritePrompt DEF ShownAt
    <3>3. prefix \o b = prefix
      BY <2>1, TextsAssumption, ConcatEmptySeq
    <3> QED BY <1>3, <2>2, <3>2, <3>3 DEF Echo
  <2>3. CASE Len(c) > 1
    <3>1. 1 \in 1 .. Len(c) - 1
      BY <1>2, <2>3
    <3>2. Tidy(Write(text))
      BY <1>2, <2>1, <3>1
    <3>3. EndsLine(text)
      BY <3>2, NamesDiffer DEF Tidy
    <3>4. text = <<>> => s.x = 0
      <4>1. c[1] = Write(<<"LF">>) => text = <<"LF">>
        <5>1. \A t : Write(t)[2] = t
          BY NamesDiffer
        <5>2. Write(text)[2] = text /\ Write(<<"LF">>)[2] = <<"LF">>
          BY <5>1
        <5> QED BY <1>2, <5>2
      <4>2. <<"LF">> # <<>>
        OBVIOUS
      <4> QED BY <2>1, <4>1, <4>2
    <3>5. r.x = 0
      BY <1>1, <3>3, <3>4, WriteLower
    <3> QED BY <1>1, <1>6, <2>3, <3>5, LineLeft DEF Echo
  <2>4. Len(c) = 1 \/ Len(c) > 1
    BY <1>2
  <2> QED BY <2>2, <2>3, <2>4
<1> QED BY <1>4, <1>5, <1>6 DEF Echo

\* A dash of the greeting.
LEMMA WriteDash ==
  ASSUME NEW s \in Screen, s.y = Half, LowerBlank(s.cell),
         \A j \in Columns : j < s.x => s.cell[Half][j] = "-",
         NEW r, r = screen_write(s, <<"-">>)
  PROVE  /\ r \in Screen /\ LowerBlank(r.cell)
         /\ \A j \in Columns : j <= s.x => r.cell[Half][j] = "-"
         /\ r.cell[SCREEN_HEIGHT - 1] = s.cell[SCREEN_HEIGHT - 1]
         /\ IF s.x + 1 = SCREEN_WIDTH THEN r.x = 0 /\ r.y = Half + 1
            ELSE r.x = s.x + 1 /\ r.y = Half
         /\ \A i \in Rows : i # Half => r.cell[i] = s.cell[i]
<1> DEFINE d == Set(s.cell, Half, s.x, "-")
<1>1. "-" \in AnyChar /\ "-" # "LF" /\ "-" # "BS"
  BY TextsAssumption DEF AnyChar
<1>2. /\ s.cell \in Cells /\ s.x \in Columns /\ s.x \in Nat /\ s.x < SCREEN_WIDTH
      /\ Half \in Rows /\ Half + 1 \in Rows /\ Half # SCREEN_HEIGHT - 1 /\ Half + 1 # SCREEN_HEIGHT - 1
      /\ SCREEN_HEIGHT - 1 \in Rows /\ 0 \in Columns
  BY Sizes DEF Screen, Rows, Columns
<1>3. /\ d \in Cells /\ \A k \in Rows : k # Half => d[k] = s.cell[k]
      /\ \A j \in Columns : d[Half][j] = IF j = s.x THEN "-" ELSE s.cell[Half][j]
  BY <1>1, <1>2, SetFacts
<1>4. Moved(s, "-") = IF s.x + 1 = SCREEN_WIDTH THEN [cell |-> d, x |-> 0, y |-> Half + 1]
                      ELSE [cell |-> d, x |-> s.x + 1, y |-> Half]
  BY <1>1 DEF Moved
<1> HIDE DEF d
<1>5. r = KeepLastLine(Moved(s, "-"))
  BY <1>1, ChMoved, WriteOne
<1>6. r = IF s.x + 1 = SCREEN_WIDTH THEN [cell |-> d, x |-> 0, y |-> Half + 1]
          ELSE [cell |-> d, x |-> s.x + 1, y |-> Half]
  <2>1. CASE s.x + 1 = SCREEN_WIDTH
    BY <1>2, <1>4, <1>5, <2>1 DEF KeepLastLine
  <2>2. CASE s.x + 1 # SCREEN_WIDTH
    BY <1>2, <1>4, <1>5, <2>2 DEF KeepLastLine
  <2> QED BY <2>1, <2>2
<1>7. s.x + 1 # SCREEN_WIDTH => s.x + 1 \in Columns
  <2>1. s.x \in Nat /\ s.x < SCREEN_WIDTH /\ SCREEN_WIDTH \in Nat
    BY <1>2, Sizes
  <2>2. s.x + 1 # SCREEN_WIDTH => s.x + 1 \in 0 .. SCREEN_WIDTH - 1
    BY <2>1
  <2> QED BY <2>2 DEF Columns
<1>8. r \in Screen /\ r.cell = d
  BY <1>2, <1>3, <1>6, <1>7 DEF Screen
<1>9. LowerBlank(d)
  <2>1. \A i \in LowerRows : i \in Rows /\ i # Half
    BY Sizes DEF LowerRows, Rows
  <2> QED BY <1>3, <2>1 DEF LowerBlank
<1>10. ASSUME NEW j \in Columns, j <= s.x PROVE d[Half][j] = "-"
  <2>1. j = s.x \/ j < s.x
    BY <1>2, <1>10, Sizes DEF Columns
  <2> QED BY <1>3, <2>1
<1> QED BY <1>2, <1>3, <1>6, <1>8, <1>9, <1>10

LEMMA RestZero ==
  /\ Rest(0) \in Seq(Calls) /\ \A s : HomesOK(s, Rest(0))
  /\ \A s : s.x = 0 => EchoLine(s, Rest(0), <<>>)
<1> DEFINE c == Rest(0)
<1>1. c = [i \in 1 .. 1 |-> Write(prefix)]
  BY DEF Rest
<1>2. Write(prefix) \in Calls /\ Write(prefix) # ToHome
  BY WriteCalls, NamesDiffer
<1> HIDE DEF c
<1>3. c \in Seq(Calls) /\ Len(c) = 1 /\ c[1] = Write(prefix) /\ DOMAIN c = 1 .. 1
  BY <1>1, <1>2
<1>4. \A s : HomesOK(s, c)
  BY <1>2, <1>3 DEF HomesOK
<1>5. ASSUME NEW s, s.x = 0 PROVE EchoLine(s, c, <<>>)
  <2>1. c # <<>> /\ c[Len(c)] = Write(prefix) /\ 1 .. Len(c) - 1 = {}
    BY <1>3
  <2> QED BY <1>5, <2>1 DEF EchoLine, Last
<1> QED BY <1>3, <1>4, <1>5 DEF c

\* A call of the greeting.
LEMMA GreetingStep ==
  ASSUME IInv, current_running = Shell, current_running' = Shell, Greeting(screen, calls),
         live = {}, input_buffer = <<>>, ~ askew,
         UNCHANGED <<live, cursor, input_buffer, askew>>, calls' = Tail(calls),
         \/ /\ Head(calls)[1] = "cursor"
            /\ screen' = screen_move_cursor(screen, Head(calls)[2], Head(calls)[3])
         \/ Head(calls)[1] = "write" /\ screen' = screen_write(screen, Head(calls)[2])
  PROVE  /\ IInv'
         /\ \A i \in Rows : i # Half => screen'.cell[i] = screen.cell[i]
         /\ screen'.y <= Half \/ (screen'.x = 0 /\ screen'.y = Half + 1)
<1>1. /\ screen \in Screen /\ cursor \in [{Boot, Shell} \cup Tasks -> Columns \X Rows]
      /\ LowerBlank(screen.cell)
      /\ input_buffer \in Seq(Char) /\ Len(input_buffer) <= Capacity /\ askew \in BOOLEAN
  BY ShellRuns DEF Greeting
<1>2. live' \subseteq Tasks /\ \A t \in live' : cursor'[t] \in Columns \X (0 .. Half)
  OBVIOUS
<1>3. CASE calls = Welcome
  <2>1. Head(calls) = Cursor(0, Half) /\ calls' = Rest(SCREEN_WIDTH)
    BY <1>3, WelcomeFacts
  <2>2. screen' = [cell |-> screen.cell, x |-> 0, y |-> Half]
    BY <2>1, NamesDiffer DEF Cursor, screen_move_cursor
  <2>3. screen.cell \in Cells /\ 0 \in Columns /\ Half \in Rows
    BY <1>1, Sizes DEF Screen, Columns, Rows
  <2>4. screen' \in Screen /\ screen'.cell = screen.cell /\ screen'.x = 0 /\ screen'.y = Half
    BY <2>2, <2>3 DEF Screen
  <2>5. /\ SCREEN_WIDTH \in 1 .. SCREEN_WIDTH /\ SCREEN_WIDTH - SCREEN_WIDTH = 0
        /\ \A j \in Columns : ~ j < SCREEN_WIDTH - SCREEN_WIDTH
    BY Sizes DEF Columns
  <2>6. Greeting(screen', calls')
    BY <1>1, <2>1, <2>4, <2>5 DEF Greeting
  <2>7. IInv'
    BY <1>1, <1>2, <2>4, <2>6, ShellStep
  <2> QED BY <2>4, <2>7, Sizes
<1>4. ASSUME NEW n \in 1 .. SCREEN_WIDTH, calls = Rest(n), screen.x = SCREEN_WIDTH - n,
             screen.y = Half,
             \A j \in Columns : j < SCREEN_WIDTH - n => screen.cell[Half][j] = "-"
      PROVE  /\ IInv'
             /\ \A i \in Rows : i # Half => screen'.cell[i] = screen.cell[i]
             /\ screen'.y <= Half \/ (screen'.x = 0 /\ screen'.y = Half + 1)
  <2>1. n \in Nat /\ n # 0 /\ n > 0 /\ n <= SCREEN_WIDTH
    BY Sizes
  <2>2. Head(calls) = Write(<<"-">>) /\ calls' = Rest(n - 1)
    BY <1>4, <2>1, RestFacts
  <2>3. Head(calls)[1] = "write" /\ Head(calls)[2] = <<"-">>
    BY <2>2 DEF Write
  <2>4. screen' = screen_write(screen, <<"-">>)
    BY <2>3
  <2>5. \A j \in Columns : j < screen.x => screen.cell[Half][j] = "-"
    BY <1>4
  <2>6. /\ screen' \in Screen /\ LowerBlank(screen'.cell)
        /\ \A j \in Columns : j <= screen.x => screen'.cell[Half][j] = "-"
        /\ screen'.cell[SCREEN_HEIGHT - 1] = screen.cell[SCREEN_HEIGHT - 1]
        /\ IF screen.x + 1 = SCREEN_WIDTH THEN screen'.x = 0 /\ screen'.y = Half + 1
           ELSE screen'.x = screen.x + 1 /\ screen'.y = Half
        /\ \A i \in Rows : i # Half => screen'.cell[i] = screen.cell[i]
    BY <1>1, <1>4, <2>4, <2>5, WriteDash
  <2>7. CASE n = 1
    <3>1. screen.x + 1 = SCREEN_WIDTH /\ n - 1 = 0
      BY <1>4, <2>7, Sizes
    <3>2. screen'.x = 0 /\ screen'.y = Half + 1 /\ calls' = Rest(0)
      BY <2>2, <2>6, <3>1
    <3>3. Half + 1 \in LowerRows
      BY Sizes DEF LowerRows
    <3>4. Fresh(screen')
      BY <2>6 DEF Fresh, LowerBlank
    <3>5. screen'.cell[Half] = Dashes
      <4>1. \A j \in Columns : j <= screen.x
        BY <1>4, <2>7, Sizes DEF Columns
      <4>2. \A j \in Columns : screen'.cell[Half][j] = "-"
        BY <2>6, <4>1
      <4>3. screen'.cell[Half] \in [Columns -> AnyChar]
        BY <2>6, Sizes DEF Screen, Cells, Rows
      <4> QED BY <4>2, <4>3 DEF Dashes
    <3>6. Open(screen', calls')
      BY <3>2, <3>3, <3>4, <3>5, RestZero DEF Open
    <3>7. Echo(screen', calls', input_buffer')
      BY <3>2, RestZero DEF Echo
    <3>8. IInv'
      BY <1>1, <1>2, <2>6, <3>6, <3>7, ShellStep
    <3> QED BY <2>6, <3>2, <3>8
  <2>8. CASE n # 1
    <3>1. /\ n - 1 \in 1 .. SCREEN_WIDTH /\ screen.x + 1 # SCREEN_WIDTH
          /\ screen.x + 1 = SCREEN_WIDTH - (n - 1)
          /\ \A j \in Columns : j < SCREEN_WIDTH - (n - 1) => j <= screen.x
      BY <1>4, <2>1, <2>8, Sizes DEF Columns
    <3>2. screen'.x = SCREEN_WIDTH - (n - 1) /\ screen'.y = Half
      BY <2>6, <3>1
    <3>3. Greeting(screen', calls')
      BY <2>2, <2>6, <3>1, <3>2 DEF Greeting
    <3>4. IInv'
      BY <1>1, <1>2, <2>6, <3>3, ShellStep
    <3>5. screen'.y <= Half
      BY <3>2, Sizes
    <3> QED BY <2>6, <3>4, <3>5
  <2> QED BY <2>7, <2>8
<1> QED BY <1>3, <1>4 DEF Greeting

LEMMA ShellWriteKeeps ==
  ASSUME IInv, ShellWrite
  PROVE  IInv'
<1> DEFINE text == Head(calls)[2]
<1>1. /\ current_running = Shell /\ calls # <<>> /\ Head(calls)[1] = "write"
      /\ UNCHANGED <<current_running, live, cursor, input_buffer, askew>>
      /\ screen' = screen_write(screen, text) /\ calls' = Tail(calls)
  BY DEF ShellWrite, ShellCalls, Proceed
<1>2. /\ screen \in Screen /\ live \subseteq Tasks
      /\ cursor \in [{Boot, Shell} \cup Tasks -> Columns \X Rows]
      /\ \A q \in live : cursor[q] \in Columns \X (0 .. Half)
      /\ input_buffer \in Seq(Char) /\ Len(input_buffer) <= Capacity /\ askew \in BOOLEAN
      /\ \/ live = {} /\ input_buffer = <<>> /\ ~ askew /\ Greeting(screen, calls)
         \/ Open(screen, calls) /\ (~ askew => Echo(screen, calls, input_buffer))
  BY <1>1, ShellRuns
<1>3. CASE live = {} /\ input_buffer = <<>> /\ ~ askew /\ Greeting(screen, calls)
  BY <1>1, <1>3, GreetingStep
<1>4. CASE Open(screen, calls) /\ (~ askew => Echo(screen, calls, input_buffer))
  <2>1. /\ screen.y \in LowerRows /\ screen.cell[Half] = Dashes /\ Fresh(screen)
        /\ calls \in Seq(Calls) /\ HomesOK(screen, calls)
    BY <1>4 DEF Open
  <2>2. Head(calls) \in Calls /\ Tail(calls) \in Seq(Calls)
    BY <1>1, <2>1, CallsLeft
  <2>3. Head(calls) = Write(text) /\ text \in Seq(AnyChar)
    BY <1>1, <2>2, CallNames, ShellTextType
  <2> HIDE DEF text
  <2>4. /\ screen' \in Screen /\ screen'.y \in LowerRows /\ Fresh(screen')
        /\ \A i \in Rows : i <= Half \/ i = SCREEN_HEIGHT - 1 => screen'.cell[i] = screen.cell[i]
    BY <1>1, <1>2, <2>1, <2>3, WriteLower
  <2>5. Half \in Rows /\ SCREEN_HEIGHT - 1 \in Rows /\ Half <= Half
    BY Sizes DEF Rows
  <2>6. /\ screen'.cell[Half] = Dashes
        /\ screen'.cell[SCREEN_HEIGHT - 1] = screen.cell[SCREEN_HEIGHT - 1]
    BY <2>1, <2>4, <2>5
  <2>7. HomesOK(screen', Tail(calls))
    BY <1>1, <2>1, <2>3, HomesLeft, NamesDiffer
  <2>8. Open(screen', calls')
    BY <1>1, <2>2, <2>4, <2>6, <2>7 DEF Open
  <2>9. ~ askew => Echo(screen', Tail(calls), input_buffer)
    BY <1>1, <1>2, <1>4, <2>3, EchoWrite
  <2>10. ~ askew' => Echo(screen', calls', input_buffer')
    BY <1>1, <2>9
  <2> QED BY <1>1, <1>2, <2>4, <2>6, <2>8, <2>10, ShellStep
<1> QED BY <1>2, <1>3, <1>4

LEMMA ShellCursorKeeps ==
  ASSUME IInv, ShellCursor
  PROVE  IInv'
<1>1. /\ current_running = Shell /\ calls # <<>> /\ Head(calls)[1] = "cursor"
      /\ UNCHANGED <<current_running, live, cursor, input_buffer, askew>>
      /\ screen' = screen_move_cursor(screen, Head(calls)[2], Head(calls)[3])
      /\ calls' = Tail(calls)
  BY DEF ShellCursor, ShellCalls, Proceed
<1>2. /\ screen \in Screen /\ live \subseteq Tasks
      /\ cursor \in [{Boot, Shell} \cup Tasks -> Columns \X Rows]
      /\ \A q \in live : cursor[q] \in Columns \X (0 .. Half)
      /\ input_buffer \in Seq(Char) /\ Len(input_buffer) <= Capacity /\ askew \in BOOLEAN
      /\ \/ live = {} /\ input_buffer = <<>> /\ ~ askew /\ Greeting(screen, calls)
         \/ Open(screen, calls) /\ (~ askew => Echo(screen, calls, input_buffer))
  BY <1>1, ShellRuns
<1>3. CASE live = {} /\ input_buffer = <<>> /\ ~ askew /\ Greeting(screen, calls)
  BY <1>1, <1>3, GreetingStep
<1>4. CASE Open(screen, calls) /\ (~ askew => Echo(screen, calls, input_buffer))
  <2>1. /\ screen.cell[Half] = Dashes /\ calls \in Seq(Calls) /\ HomesOK(screen, calls)
    BY <1>4 DEF Open
  <2>2. Head(calls) = calls[1] /\ Head(calls) \in Calls /\ 1 \in DOMAIN calls
    BY <1>1, <2>1, CallsLeft
  <2>3. Head(calls) = ToHome
    BY <1>1, <2>2, CallNames
  <2>4. screen' = [cell |-> screen.cell, x |-> 0, y |-> Half + 1]
    BY <1>1, <2>3, NamesDiffer DEF screen_move_cursor
  <2>5. LowerBlank(screen.cell)
    BY <2>1, <2>2, <2>3 DEF HomesOK
  <2>6. /\ 0 \in Columns /\ Half + 1 \in Rows /\ Half + 1 \in LowerRows /\ screen.cell \in Cells
    BY <1>2, Sizes DEF Columns, Rows, LowerRows, Screen
  <2>7. /\ screen' \in Screen /\ screen'.cell = screen.cell
        /\ screen'.x = 0 /\ screen'.y \in LowerRows
    BY <2>4, <2>6 DEF Screen
  <2>8. Fresh(screen')
    BY <2>5, <2>7 DEF Fresh, LowerBlank
  <2>9. Head(calls) # LowerClear
    BY <2>3, NamesDiffer
  <2>10. Open(screen', Tail(calls)) /\ (~ askew => Echo(screen', Tail(calls), input_buffer))
    BY <1>1, <1>2, <1>4, <2>1, <2>7, <2>8, <2>9, OtherOpen
  <2>11. Open(screen', calls') /\ (~ askew' => Echo(screen', calls', input_buffer'))
    BY <1>1, <2>10
  <2> QED BY <1>1, <1>2, <2>7, <2>11, ShellStep
<1> QED BY <1>2, <1>3, <1>4

-----------------------------------------------------------------------------
\* The keys.

LEMMA KeyEnterKeeps ==
  ASSUME IInv, KeyEnter
  PROVE  IInv'
<1>1. /\ current_running = Shell /\ calls = <<>> /\ input_buffer' = <<>>
      /\ UNCHANGED <<screen, current_running, live, cursor>>
  BY DEF KeyEnter, Reading
<1>2. PICK r \in Replies :
        LET todo == parse_commend(input_buffer, r)
        IN  /\ calls' = <<Write(<<"LF">>)>> \o todo \o <<Write(prefix)>>
            /\ askew' = \E i \in DOMAIN todo : todo[i][1] = "write" /\ ~ EndsLine(todo[i][2])
  BY DEF KeyEnter
<1> DEFINE todo == parse_commend(input_buffer, r)
           a == <<Write(<<"LF">>)>>
           e == <<Write(prefix)>>
           m == Len(todo)
<1>3. /\ screen \in Screen /\ live \subseteq Tasks
      /\ cursor \in [{Boot, Shell} \cup Tasks -> Columns \X Rows]
      /\ \A q \in live : cursor[q] \in Columns \X (0 .. Half)
      /\ input_buffer \in Seq(Char)
  BY <1>1, ShellRuns
<1>4. Open(screen, calls)
  BY <1>1, OpenRuns
<1>5. /\ todo \in Seq(Calls)
      /\ \A i \in DOMAIN todo : todo[i] = ToHome => i # 1 /\ todo[i - 1] = LowerClear
  BY <1>3, ParseCalls
<1>6. /\ calls' = (a \o todo) \o e
      /\ askew' = \E i \in DOMAIN todo : todo[i][1] = "write" /\ ~ EndsLine(todo[i][2])
  BY <1>2
<1>7. /\ a \in Seq(Calls) /\ Len(a) = 1 /\ a[1] = Write(<<"LF">>)
      /\ e \in Seq(Calls) /\ Len(e) = 1 /\ e[1] = Write(prefix)
  BY WriteCalls
<1> HIDE DEF todo, a, e
<1>8. m \in Nat /\ DOMAIN todo = 1 .. m
  BY <1>5, LenProperties
<1>9. /\ a \o todo \in Seq(Calls) /\ Len(a \o todo) = 1 + m
      /\ \A i \in 1 .. 1 + m : (a \o todo)[i] = IF i <= 1 THEN a[i] ELSE todo[i - 1]
  <2>1. /\ a \o todo \in Seq(Calls) /\ Len(a \o todo) = Len(a) + Len(todo)
        /\ \A i \in 1 .. Len(a) + Len(todo) :
             (a \o todo)[i] = IF i <= Len(a) THEN a[i] ELSE todo[i - Len(a)]
    <3>1. a \in Seq(Calls) /\ todo \in Seq(Calls)
      BY <1>5, <1>7
    <3> QED BY <3>1, Joined
  <2> QED BY <1>7, <2>1
<1> HIDE DEF m
<1> DEFINE q == a \o todo
           c == q \o e
           n == m + 2
<1>10. /\ c \in Seq(Calls) /\ Len(c) = n /\ n \in Nat
       /\ \A i \in 1 .. n : c[i] = IF i <= 1 + m THEN q[i] ELSE e[i - (1 + m)]
  <2>1. q \in Seq(Calls) /\ Len(q) = 1 + m
    BY <1>9
  <2> HIDE DEF q
  <2>2. /\ q \o e \in Seq(Calls) /\ Len(q \o e) = Len(q) + Len(e)
        /\ \A i \in 1 .. Len(q) + Len(e) : (q \o e)[i] = IF i <= Len(q) THEN q[i] ELSE e[i - Len(q)]
    <3>1. q \in Seq(Calls) /\ e \in Seq(Calls)
      BY <1>7, <2>1
    <3> QED BY <3>1, Joined
  <2>3. Len(q) + Len(e) = n /\ n \in Nat
    BY <1>7, <1>8, <2>1
  <2> QED BY <2>1, <2>2, <2>3
<1>11. c[1] = Write(<<"LF">>)
  <2>1. 1 \in 1 .. n /\ 1 <= 1 + m /\ 1 \in 1 .. 1 + m /\ 1 <= 1
    BY <1>8
  <2>2. c[1] = q[1] /\ q[1] = a[1]
    BY <1>9, <1>10, <2>1
  <2> QED BY <1>7, <2>2
<1>12. c[n] = Write(prefix)
  <2>1. n \in 1 .. n /\ ~ n <= 1 + m /\ n - (1 + m) = 1
    BY <1>8
  <2> QED BY <1>7, <1>10, <2>1
<1>13. ASSUME NEW i \in 2 .. n - 1 PROVE c[i] = todo[i - 1] /\ i - 1 \in DOMAIN todo
  <2>1. i \in 1 .. n /\ i <= 1 + m /\ i \in 1 .. 1 + m /\ ~ i <= 1 /\ i - 1 \in 1 .. m
    BY <1>8
  <2>2. c[i] = q[i] /\ q[i] = todo[i - 1]
    BY <1>9, <1>10, <2>1
  <2> QED BY <1>8, <2>1, <2>2
<1> HIDE DEF c, q
<1>14. HomesOK(screen, c)
  <2> SUFFICES ASSUME NEW i \in DOMAIN c, c[i] = ToHome
               PROVE  IF i = 1 THEN LowerBlank(screen.cell) ELSE c[i - 1] = LowerClear
    BY DEF HomesOK
  <2>1. i \in 1 .. n
    BY <1>10, LenProperties
  <2>2. i # 1 /\ i # n
    BY <1>11, <1>12, NamesDiffer
  <2>3. i \in 2 .. n - 1 /\ n \in Nat
    BY <1>8, <2>1, <2>2
  <2>4. i - 1 \in DOMAIN todo /\ todo[i - 1] = ToHome
    BY <1>13, <2>3
  <2>5. i - 1 # 1 /\ todo[(i - 1) - 1] = LowerClear
    BY <1>5, <2>4
  <2>6. i - 1 \in 2 .. n - 1
    BY <2>3, <2>5
  <2>7. c[i - 1] = todo[(i - 1) - 1]
    BY <1>13, <2>6
  <2> QED BY <2>2, <2>5, <2>7
<1>15. Open(screen, c)
  BY <1>4, <1>10, <1>14 DEF Open
<1>16. ASSUME ~ askew' PROVE EchoLine(screen, c, <<>>)
  <2>1. \A i \in DOMAIN todo : Tidy(todo[i])
    BY <1>6, <1>16 DEF Tidy
  <2>2. Tidy(c[1])
    <3>1. EndsLine(<<"LF">>)
      BY DEF EndsLine, Last
    <3> QED BY <1>11, <3>1, NamesDiffer DEF Tidy
  <2>3. ASSUME NEW i \in 1 .. Len(c) - 1 PROVE Tidy(c[i])
    <3>1. CASE i = 1
      BY <2>2, <3>1
    <3>2. CASE i # 1
      <4>1. i \in 2 .. n - 1
        BY <1>8, <1>10, <3>2
      <4> QED BY <1>13, <2>1, <4>1
    <3> QED BY <3>1, <3>2
  <2>4. Len(c) > 1 /\ c # <<>>
    BY <1>8, <1>10
  <2> QED BY <1>10, <1>11, <1>12, <2>3, <2>4 DEF EchoLine, Last
<1>17. calls' = c
  BY <1>6 DEF c, q
<1>18. Open(screen', calls') /\ (~ askew' => Echo(screen', calls', input_buffer'))
  BY <1>1, <1>15, <1>16, <1>17 DEF Echo
<1>19. input_buffer' \in Seq(Char) /\ Len(input_buffer') <= Capacity /\ askew' \in BOOLEAN
  BY <1>1, <1>6, Sizes
<1> QED BY <1>1, <1>3, <1>18, <1>19, ShellStep

LEMMA KeyBackspaceKeeps ==
  ASSUME IInv, KeyBackspace
  PROVE  IInv'
<1> DEFINE b == input_buffer
           n == Len(b)
<1>1. /\ current_running = Shell /\ calls = <<>>
      /\ UNCHANGED <<screen, current_running, live, cursor, askew>>
  BY DEF KeyBackspace, Reading
<1>2. /\ screen \in Screen /\ live \subseteq Tasks
      /\ cursor \in [{Boot, Shell} \cup Tasks -> Columns \X Rows]
      /\ \A q \in live : cursor[q] \in Columns \X (0 .. Half)
      /\ b \in Seq(Char) /\ n <= Capacity /\ askew \in BOOLEAN
  BY <1>1, ShellRuns
<1>3. Open(screen, <<>>) /\ (~ askew => Echo(screen, <<>>, b))
  BY <1>1, OpenRuns
<1>4. ~ askew => ShownAt(screen, prefix \o b)
  BY <1>3 DEF Echo, EchoChar, EchoErase, EchoLine
<1>5. CASE b = <<>>
  <2>1. input_buffer' = b /\ calls' = <<>>
    BY <1>5 DEF KeyBackspace, Erased
  <2>2. Open(screen', calls') /\ (~ askew' => Echo(screen', calls', input_buffer'))
    BY <1>1, <1>3, <2>1
  <2> QED BY <1>1, <1>2, <2>1, <2>2, ShellStep
<1>6. CASE b # <<>>
  <2> DEFINE b2 == SubSeq(b, 1, n - 1)
             c == <<Write(<<"BS">>)>>
  <2>1. input_buffer' = b2 /\ calls' = c
    BY <1>6 DEF KeyBackspace, Erased
  <2>2. n \in Nat /\ n > 0 /\ \A i \in 1 .. n : b[i] \in Char
    BY <1>2, <1>6
  <2>3. b2 \in Seq(Char) /\ Len(b2) = n - 1 /\ \A i \in 1 .. n - 1 : b2[i] = b[i]
    <3>1. \A i \in 1 .. n - 1 : i \in 1 .. n
      BY <2>2
    <3>2. /\ SubSeq(b, 1, n - 1) \in Seq(Char)
          /\ Len(SubSeq(b, 1, n - 1)) = IF 1 <= n - 1 THEN (n - 1) - 1 + 1 ELSE 0
          /\ \A i \in 1 .. (n - 1) - 1 + 1 : SubSeq(b, 1, n - 1)[i] = b[1 + i - 1]
      BY <1>2, <2>2, <3>1, SubSeqProperties
    <3> HIDE DEF b, n
    <3>3. Len(b2) = n - 1
      BY <2>2, <3>2
    <3>4. \A i \in 1 .. n - 1 : i \in 1 .. (n - 1) - 1 + 1 /\ 1 + i - 1 = i
      BY <2>2
    <3> QED BY <3>2, <3>3, <3>4
  <2> HIDE DEF b2
  <2>4. b = Append(b2, b[n])
    <3> DEFINE d == Append(b2, b[n])
    <3>1. d \in Seq(Char) /\ Len(d) = n /\ d[n] = b[n] /\ \A i \in 1 .. n - 1 : d[i] = b2[i]
      BY <2>2, <2>3
    <3> HIDE DEF d
    <3>2. \A i \in 1 .. n : d[i] = b[i]
      BY <2>2, <2>3, <3>1
    <3>3. d = b
      BY <1>2, <3>1, <3>2, SeqEqual
    <3> QED BY <3>3 DEF d
  <2>5. c \in Seq(Calls) /\ \A s : HomesOK(s, c)
    <3>1. Write(<<"BS">>) \in Calls /\ Write(<<"BS">>) # ToHome
      BY WriteCalls, NamesDiffer
    <3>2. c \in Seq(Calls) /\ DOMAIN c = {1} /\ c[1] = Write(<<"BS">>)
      BY <3>1
    <3> QED BY <3>1, <3>2 DEF HomesOK
  <2>6. ~ askew => EchoErase(screen, c, b2)
    <3> DEFINE k == b[n]
    <3>1. k \in Char
      BY <2>2
    <3>2. b = Append(b2, k)
      BY <2>4
    <3> HIDE DEF k
    <3>3. ~ askew => ShownAt(screen, prefix \o Append(b2, k))
      BY <1>4, <3>2
    <3> QED BY <3>1, <3>3 DEF EchoErase
  <2> HIDE DEF c
  <2>7. Open(screen', calls')
    BY <1>1, <1>3, <2>1, <2>5 DEF Open
  <2>8. ~ askew' => Echo(screen', calls', input_buffer')
    BY <1>1, <2>1, <2>6 DEF Echo
  <2>9. Len(b2) <= Capacity
    BY <1>2, <2>2, <2>3, Sizes
  <2> QED BY <1>1, <1>2, <2>1, <2>3, <2>7, <2>8, <2>9, ShellStep
<1> QED BY <1>5, <1>6

LEMMA TypedChar ==
  ASSUME Types, NEW c \in Typed
  PROVE  c \in Char /\ <<c>> \in ShellTexts
<1>1. \A l \in Lines : l \in Seq(Char) /\ l # <<>>
  BY TextsAssumption
<1>2. Len(input_buffer) \in Nat
  BY DEF Types
<1>3. \E l \in Lines : \E i \in DOMAIN l : c = l[i]
  <2>1. CASE \E l \in Lines : c = Head(l)
    <3>1. PICK l \in Lines : c = Head(l)
      BY <2>1
    <3>2. Head(l) = l[1] /\ 1 \in DOMAIN l
      BY <1>1, CallsLeft
    <3> QED BY <3>1, <3>2
  <2>2. CASE \E l \in Lines : IsStrictPrefix(input_buffer, l) /\ c = l[Len(input_buffer) + 1]
    <3>1. PICK l \in Lines : IsStrictPrefix(input_buffer, l) /\ c = l[Len(input_buffer) + 1]
      BY <2>2
    <3>2. IsPrefix(input_buffer, l) /\ input_buffer # l
      BY <3>1 DEF IsStrictPrefix
    <3>3. Len(input_buffer) + 1 \in DOMAIN l
      <4>1. /\ Len(input_buffer) <= Len(l)
            /\ SubSeq(input_buffer, 1, Len(input_buffer)) = SubSeq(l, 1, Len(input_buffer))
        BY <3>2 DEF IsPrefix
      <4>2. l \in Seq(Char) /\ input_buffer \in Seq(Char) /\ Len(l) \in Nat /\ DOMAIN l = 1 .. Len(l)
        BY <1>1 DEF Types
      <4>3. Len(input_buffer) # Len(l)
        <5> SUFFICES ASSUME Len(input_buffer) = Len(l) PROVE FALSE
          OBVIOUS
        <5>1. SubSeq(l, 1, Len(l)) = l /\ SubSeq(input_buffer, 1, Len(input_buffer)) = input_buffer
          BY <4>2
        <5> QED BY <3>2, <4>1, <5>1
      <4> QED BY <1>2, <4>1, <4>2, <4>3
    <3> QED BY <3>1, <3>3
  <2> QED BY <2>1, <2>2 DEF Typed
<1> QED BY <1>3, LineChar, WriteCalls

LEMMA KeyCharacterKeeps ==
  ASSUME IInv, NEW k \in Typed, KeyCharacter(k)
  PROVE  IInv'
<1> DEFINE b == input_buffer
<1>1. /\ current_running = Shell /\ calls = <<>>
      /\ UNCHANGED <<screen, current_running, live, cursor>>
      /\ askew' = (askew \/ Len(b) + 1 >= Capacity)
  BY DEF KeyCharacter, Reading
<1>2. /\ screen \in Screen /\ live \subseteq Tasks
      /\ cursor \in [{Boot, Shell} \cup Tasks -> Columns \X Rows]
      /\ \A q \in live : cursor[q] \in Columns \X (0 .. Half)
      /\ b \in Seq(Char) /\ Len(b) <= Capacity /\ askew \in BOOLEAN /\ Len(b) \in Nat
  BY <1>1, ShellRuns
<1>3. Open(screen, <<>>) /\ (~ askew => Echo(screen, <<>>, b))
  BY <1>1, OpenRuns
<1>4. ~ askew => ShownAt(screen, prefix \o b)
  BY <1>3 DEF Echo, EchoChar, EchoErase, EchoLine
<1>5. k \in Char /\ <<k>> \in ShellTexts
  BY TypedChar DEF IInv
<1>6. /\ Write(<<k>>) \in Calls /\ Write(NoSuchCommend) \in Calls /\ Write(prefix) \in Calls
      /\ Write(<<k>>) # ToHome /\ Write(NoSuchCommend) # ToHome /\ Write(prefix) # ToHome
  BY <1>5, WriteCalls, NamesDiffer
<1>7. askew' \in BOOLEAN
  BY <1>1
<1>8. CASE Len(b) = Capacity
  <2> DEFINE c == <<Write(<<k>>), Write(NoSuchCommend), Write(prefix)>>
  <2>1. input_buffer' = <<k>> /\ calls' = c
    BY <1>8 DEF KeyCharacter
  <2>2. /\ c \in Seq(Calls) /\ DOMAIN c = 1 .. 3
        /\ c[1] = Write(<<k>>) /\ c[2] = Write(NoSuchCommend) /\ c[3] = Write(prefix)
    BY <1>6
  <2> HIDE DEF c
  <2>3. \A s : HomesOK(s, c)
    <3>1. \A i \in 1 .. 3 : c[i] # ToHome
      BY <1>6, <2>2
    <3> QED BY <2>2, <3>1 DEF HomesOK
  <2>4. Open(screen', calls')
    BY <1>1, <1>3, <2>1, <2>2, <2>3 DEF Open
  <2>5. askew' = TRUE
    <3>1. Len(b) + 1 >= Capacity
      BY <1>2, <1>8, Sizes
    <3> QED BY <1>1, <3>1
  <2>6. input_buffer' \in Seq(Char) /\ Len(input_buffer') <= Capacity
    <3>1. Capacity >= 1
      BY TextsAssumption, Sizes
    <3> QED BY <1>5, <2>1, <3>1
  <2> QED BY <1>1, <1>2, <1>7, <2>4, <2>5, <2>6, ShellStep
<1>9. CASE Len(b) # Capacity
  <2> DEFINE c == <<Write(<<k>>)>>
             b2 == Append(b, k)
  <2>1. input_buffer' = b2 /\ calls' = c
    BY <1>9 DEF KeyCharacter
  <2>2. c \in Seq(Calls) /\ DOMAIN c = {1} /\ c[1] = Write(<<k>>)
    BY <1>6
  <2>3. b2 \in Seq(Char) /\ Len(b2) = Len(b) + 1
    BY <1>2, <1>5
  <2>4. ~ askew' => EchoChar(screen, c, b2)
    <3> SUFFICES ASSUME ~ askew' PROVE EchoChar(screen, c, b2)
      OBVIOUS
    <3>1. ~ askew /\ Len(b2) < Capacity
      <4>1. ~ askew /\ ~ Len(b) + 1 >= Capacity
        BY <1>1
      <4> QED BY <1>2, <2>3, <4>1, Sizes
    <3> QED BY <1>2, <1>4, <1>5, <3>1 DEF EchoChar
  <2> HIDE DEF c, b2
  <2>5. \A s : HomesOK(s, c)
    BY <1>6, <2>2 DEF HomesOK
  <2>6. Open(screen', calls')
    BY <1>1, <1>3, <2>1, <2>2, <2>5 DEF Open
  <2>7. ~ askew' => Echo(screen', calls', input_buffer')
    BY <1>1, <2>1, <2>4 DEF Echo
  <2>8. Len(b2) <= Capacity
    BY <1>2, <1>9, <2>3, Sizes
  <2> QED BY <1>1, <1>2, <1>7, <2>1, <2>3, <2>6, <2>7, <2>8, ShellStep
<1> QED BY <1>8, <1>9

-----------------------------------------------------------------------------
\* The invariant holds.

LEMMA InitHolds ==
  ASSUME Init
  PROVE  IInv
<1> DEFINE P == {Boot, Shell} \cup Tasks
<1>1. /\ screen = [cell |-> All("SP"), x |-> 0, y |-> 2] /\ current_running = Boot /\ live = {}
      /\ cursor = [p \in P |-> Home]
      /\ calls = Welcome /\ input_buffer = <<>> /\ askew = FALSE
  BY DEF Init
<1>2. /\ 0 \in Columns /\ 0 \in Rows /\ 2 \in Rows /\ SCREEN_HEIGHT - 1 \in Rows
      /\ Home \in Columns \X Rows
  BY Sizes DEF Columns, Rows, Home
<1>3. All("SP") \in Cells /\ \A i \in Rows : All("SP")[i] = Blanks
  BY TextsAssumption DEF All, Cells, Blanks, AnyChar
<1>4. Types
  <2>1. screen \in Screen
    BY <1>1, <1>2, <1>3 DEF Screen
  <2>2. cursor \in [P -> Columns \X Rows]
    BY <1>1, <1>2
  <2>3. input_buffer \in Seq(Char) /\ Len(input_buffer) <= Capacity
    BY <1>1, Sizes
  <2> QED BY <1>1, <2>1, <2>2, <2>3 DEF Types
<1>5. CursorOf(Shell) = <<0, 0>>
  <2>1. Shell # Boot /\ Shell \in P
    BY DEF Shell, Boot
  <2> QED BY <1>1, <2>1 DEF CursorOf, Home
<1>6. ShellView.x = 0 /\ ShellView.y = 0 /\ ShellView.cell = All("SP")
  BY <1>1, <1>5 DEF ShellView
<1>7. LowerBlank(All("SP"))
  <2>1. \A i \in LowerRows : i \in Rows
    BY Sizes DEF LowerRows, Rows
  <2> QED BY <1>3, <2>1 DEF LowerBlank, Blanks
<1>8. Greeting(ShellView, calls)
  BY <1>1, <1>6, <1>7 DEF Greeting
<1>9. Phase
  BY <1>1, <1>8 DEF Phase
<1>10. screen.cell[SCREEN_HEIGHT - 1] = Blanks
  BY <1>1, <1>2, <1>3
<1> QED BY <1>1, <1>4, <1>9, <1>10 DEF IInv

LEMMA StutterKeeps ==
  ASSUME IInv, UNCHANGED vars
  PROVE  IInv'
<1>1. /\ UNCHANGED shellVars /\ live' = live /\ screen' = screen
      /\ cursor' = cursor /\ current_running' = current_running
  BY DEF vars
<1>2. Types'
  BY <1>1 DEF IInv, Types, shellVars
<1>3. CursorOf(Shell)' = CursorOf(Shell) /\ \A t \in live' : CursorOf(t)' = CursorOf(t)
  BY <1>1 DEF CursorOf
<1>4. \A t \in live' : CursorOf(t)' \in Columns \X (0 .. Half)
  BY <1>1, <1>3 DEF IInv
<1> QED BY <1>1, <1>2, <1>3, <1>4, StepKept

LEMMA StepKeeps ==
  ASSUME IInv, [Next]_vars
  PROVE  IInv'
<1>1. CASE Tick
  BY <1>1, TickKeeps
<1>2. CASE TaskMove
  BY <1>2, TaskMoveKeeps
<1>3. CASE TaskExit
  BY <1>3, TaskExitKeeps
<1>4. CASE \E text \in TaskTexts : TaskWrite(text)
  BY <1>4, TaskWriteKeeps
<1>5. CASE ShellWrite
  BY <1>5, ShellWriteKeeps
<1>6. CASE ShellCursor
  BY <1>6, ShellCursorKeeps
<1>7. CASE ShellClear
  BY <1>7, ShellClearKeeps
<1>8. CASE show_process
  BY <1>8, show_processKeeps
<1>9. CASE ShellSpawn
  BY <1>9, ShellSpawnKeeps
<1>10. CASE ShellKill
  BY <1>10, ShellKillKeeps
<1>11. CASE KeyEnter
  BY <1>11, KeyEnterKeeps
<1>12. CASE KeyBackspace
  BY <1>12, KeyBackspaceKeeps
<1>13. CASE \E c \in Typed : KeyCharacter(c)
  BY <1>13, KeyCharacterKeeps
<1>14. CASE UNCHANGED vars
  BY <1>14, StutterKeeps
<1> QED BY <1>1, <1>2, <1>3, <1>4, <1>5, <1>6, <1>7, <1>8, <1>9, <1>10, <1>11, <1>12, <1>13,
           <1>14 DEF Next

LEMMA IInvHolds == Spec => []IInv
<1>1. Init => IInv
  BY InitHolds
<1>2. IInv /\ [Next]_vars => IInv'
  BY StepKeeps
<1> QED BY <1>1, <1>2, PTL DEF Spec

\* When the shell reads, its window is there.
LEMMA ReadingOpen ==
  ASSUME IInv, calls = <<>>
  PROVE  /\ Open(ShellView, calls)
         /\ ~ askew => ShownAt(ShellView, prefix \o input_buffer)
<1>1. Open(ShellView, calls) /\ (~ askew => Echo(ShellView, calls, input_buffer))
  BY GreetingCalls DEF IInv, Phase
<1> QED BY <1>1 DEF Echo, EchoChar, EchoErase, EchoLine

\* The screen keeps its layout, on a screen of any size and whatever the tasks
\* and the commands print: screen_write_ch scrolls, wraps and erases in the
\* lower half only, and the saved cursors of scheduler() stay in their halves.
THEOREM ConsoleLayout == Spec => []LayoutOK
<1>1. ASSUME IInv PROVE LayoutOK
  <2>1. Types /\ screen.cell[SCREEN_HEIGHT - 1] = Blanks
    BY <1>1 DEF IInv
  <2>2. Len(input_buffer) < SCREEN_WIDTH
    <3>1. Len(input_buffer) \in Nat /\ Len(input_buffer) <= Capacity
      BY <2>1 DEF Types
    <3> QED BY <3>1, Sizes
  <2>3. ASSUME calls = <<>>
        PROVE  /\ screen.cell[Half] = Dashes
               /\ CursorOf(Shell) \in Columns \X LowerRows
    <3>1. ShellView.y \in LowerRows /\ ShellView.cell[Half] = Dashes
      BY <1>1, <2>3, ReadingOpen DEF Open
    <3>2. screen.cell[Half] = Dashes /\ CursorOf(Shell)[2] \in LowerRows
      BY <3>1 DEF ShellView
    <3>3. CursorOf(Shell) \in Columns \X Rows
      BY <2>1, ViewType
    <3> QED BY <3>2, <3>3
  <2>4. \A t \in live : CursorOf(t) \in Columns \X (0 .. Half)
    BY <1>1 DEF IInv
  <2> QED BY <2>1, <2>2, <2>3, <2>4 DEF LayoutOK, Blanks, Dashes, LowerRows
<1> QED BY <1>1, IInvHolds, PTL

\* What is typed is what the prompt shows: whatever the other tasks write, and
\* whenever scheduler() switches to them between two calls of the shell, the
\* line of its cursor is the prompt, input_buffer and blanks.
THEOREM ConsoleEcho == Spec => []EchoOK
<1>1. ASSUME IInv PROVE EchoOK
  <2> SUFFICES ASSUME calls = <<>>, ~ askew
               PROVE  LET shown == prefix \o input_buffer
                          at == CursorOf(Shell)
                      IN  /\ at[1] = Len(shown)
                          /\ \A j \in Columns :
                               screen.cell[at[2]][j] = IF j < Len(shown) THEN shown[j + 1] ELSE "SP"
    BY DEF EchoOK
  <2>1. ShownAt(ShellView, prefix \o input_buffer)
    BY <1>1, ReadingOpen
  <2>2. /\ ShellView.x = CursorOf(Shell)[1]
        /\ ShellView.cell[ShellView.y] = screen.cell[CursorOf(Shell)[2]]
    BY DEF ShellView
  <2> QED BY <2>1, <2>2 DEF ShownAt, Shows
<1> QED BY <1>1, IInvHolds, PTL

-----------------------------------------------------------------------------
\* The terminal.

\* Sending what has changed is as good as sending everything, as long as the
\* terminal shows the old characters.
LEMMA ReflushAll ==
  ASSUME NEW old, NEW cell, NEW term, term = Numbered(old)
  PROVE  screen_reflush(term, old, cell) = Numbered(cell)
<1>1. ASSUME NEW i \in 1 .. SCREEN_HEIGHT, NEW j \in 1 .. SCREEN_WIDTH
      PROVE  (IF cell[i - 1][j - 1] # old[i - 1][j - 1] THEN cell[i - 1][j - 1] ELSE term[i][j])
               = cell[i - 1][j - 1]
  BY DEF Numbered
<1> QED BY <1>1, Zenon DEF screen_reflush, Numbered

LEMMA ReflushShows ==
  ASSUME terminal = Numbered(old_screen), Next
  PROVE  /\ terminal' = Numbered(old_screen')
         /\ old_screen' = screen.cell \/ old_screen' = screen'.cell
<1>1. Reflush \/ ReflushTwice
  BY DEF Next, Tick, TaskMove, TaskExit, TaskWrite, ShellWrite, ShellCursor, ShellClear,
         show_process, ShellSpawn, ShellKill, KeyEnter, KeyBackspace, KeyCharacter
<1>2. screen_reflush(terminal, old_screen, screen.cell) = Numbered(screen.cell)
  BY ReflushAll
<1>3. CASE Reflush
  BY <1>2, <1>3 DEF Reflush
<1>4. CASE ReflushTwice
  <2>1. screen_reflush(Numbered(screen.cell), screen.cell, screen'.cell) = Numbered(screen'.cell)
    BY ReflushAll
  <2> QED BY <1>2, <1>4, <2>1 DEF ReflushTwice
<1> QED BY <1>1, <1>3, <1>4

\* No output is lost on its way to the terminal: screen_reflush, which sends
\* only what differs from old_screen, always finds in old_screen what the
\* terminal shows.
THEOREM ConsoleShown == Spec => ShownOK
<1> DEFINE Same == terminal = Numbered(old_screen)
<1>1. Init => Same
  <2> SUFFICES ASSUME Init PROVE Same
    OBVIOUS
  <2> DEFINE t == [i \in 1 .. SCREEN_HEIGHT |-> [j \in 1 .. SCREEN_WIDTH |-> "?"]]
             a == All("NUL")
             c == All("SP")
  <2>1. terminal = screen_reflush(t, a, c) /\ old_screen = c
    BY DEF Init
  <2>2. ASSUME NEW i \in 1 .. SCREEN_HEIGHT, NEW j \in 1 .. SCREEN_WIDTH
        PROVE  c[i - 1][j - 1] # a[i - 1][j - 1]
    <3>1. i - 1 \in Rows /\ j - 1 \in Columns
      BY Sizes DEF Rows, Columns
    <3> QED BY <3>1 DEF All
  <2> HIDE DEF t, a, c
  <2>3. screen_reflush(t, a, c) = Numbered(c)
    BY <2>2 DEF screen_reflush, Numbered
  <2> QED BY <2>1, <2>3
<1>2. Same /\ [Next]_vars => Same'
  <2>1. CASE Next
    BY <2>1, ReflushShows
  <2>2. CASE UNCHANGED vars
    <3>1. terminal' = terminal /\ old_screen' = old_screen
      BY <2>2 DEF vars
    <3> QED BY <3>1
  <2> QED BY <2>1, <2>2
<1>3. Same /\ [Next]_vars => [terminal' \in {Numbered(screen.cell), Numbered(screen.cell)'}]_vars
  BY ReflushShows
<1> QED BY <1>1, <1>2, <1>3, PTL DEF Spec, ShownOK

-----------------------------------------------------------------------------
\* The windows.

\* What neither touches the halves nor moves a cursor is no step of Windows.
LEMMA MapKept ==
  ASSUME \A i \in Rows : i # Half => screen'.cell[i] = screen.cell[i],
         \A t \in Tasks : CursorOf(t)' = CursorOf(t),
         InWindow(CursorOf(Shell)') = InWindow(CursorOf(Shell))
  PROVE  Upper' = Upper /\ Lower' = Lower /\ WindowCursor' = WindowCursor
<1>1. \A i \in 0 .. Half - 1 : 0 + i \in Rows /\ 0 + i # Half
  BY Sizes DEF Rows
<1>2. \A i \in 0 .. LowerHeight - 1 : Half + 1 + i \in Rows /\ Half + 1 + i # Half
  BY Sizes DEF Rows, LowerHeight
<1>3. Upper' = Upper
  BY <1>1 DEF Upper, RowsOf
<1>4. Lower' = Lower
  BY <1>2 DEF Lower, RowsOf
<1>5. Shell \notin Tasks
  BY ConsoleAssumption
<1>6. WindowCursor' = WindowCursor
  BY <1>5 DEF WindowCursor, InWindow
<1> QED BY <1>3, <1>4, <1>6

LEMMA UpperKept ==
  ASSUME \A i \in Rows : i < Half => screen'.cell[i] = screen.cell[i]
  PROVE  Upper' = Upper
<1>1. \A i \in 0 .. Half - 1 : 0 + i \in Rows /\ 0 + i < Half
  BY Sizes DEF Rows
<1> QED BY <1>1 DEF Upper, RowsOf

LEMMA LowerKept ==
  ASSUME \A i \in Rows : i > Half => screen'.cell[i] = screen.cell[i]
  PROVE  Lower' = Lower
<1>1. \A i \in 0 .. LowerHeight - 1 : Half + 1 + i \in Rows /\ Half + 1 + i > Half
  BY Sizes DEF Rows, LowerHeight
<1> QED BY <1>1 DEF Lower, RowsOf

\* One cursor moves.
LEMMA CursorMoves ==
  ASSUME NEW p \in Tasks \cup {Shell}, NEW at,
         \A q \in Tasks \cup {Shell} : q # p => CursorOf(q)' = CursorOf(q),
         at = IF p = Shell THEN InWindow(CursorOf(p)') ELSE CursorOf(p)'
  PROVE  WindowCursor' = [WindowCursor EXCEPT ![p] = at]
<1> DEFINE S == Tasks \cup {Shell}
           f == WindowCursor
           g == WindowCursor'
<1>1. f = [q \in S |-> IF q = Shell THEN InWindow(CursorOf(q)) ELSE CursorOf(q)]
  BY DEF WindowCursor
<1>2. g = [q \in S |-> IF q = Shell THEN InWindow(CursorOf(q)') ELSE CursorOf(q)']
  BY DEF WindowCursor, InWindow
<1> HIDE DEF f, g
<1>3. g[p] = at
  BY <1>2
<1>4. \A q \in S : q # p => g[q] = f[q]
  BY <1>1, <1>2
<1>5. g = [f EXCEPT ![p] = at]
  BY <1>1, <1>2, <1>3, <1>4
<1> QED BY <1>5 DEF f, g

\* While the shell runs, the tasks' cursors are those of their pcbs.
LEMMA ShellCursors ==
  ASSUME current_running = Shell, current_running' = Shell
  PROVE  /\ \A t \in Tasks : t # Shell /\ CursorOf(t) = cursor[t] /\ CursorOf(t)' = cursor'[t]
         /\ CursorOf(Shell) = <<screen.x, screen.y>> /\ CursorOf(Shell)' = <<screen'.x, screen'.y>>
<1>1. \A t \in Tasks : t # Shell
  BY ConsoleAssumption
<1> QED BY <1>1 DEF CursorOf

LEMMA LowerAt ==
  ASSUME NEW s \in Screen, s.y \in LowerRows
  PROVE  InWindow(<<s.x, s.y>>) = View(s, Half + 1, LowerHeight).at
<1>1. ~ s.y <= Half
  BY Sizes DEF LowerRows
<1> QED BY <1>1 DEF InWindow, View

LEMMA TickWindows ==
  ASSUME IInv, Tick
  PROVE  UNCHANGED W!vars
<1>1. PICK p \in live \cup {Shell} : SwitchTo(p)
  BY DEF Tick
<1>2. Types /\ p \in Tasks \cup {Shell} /\ live' = live
  BY DEF IInv, Types, Tick
<1>3. /\ screen'.cell = screen.cell
      /\ \A q \in Tasks \cup {Shell} : CursorOf(q)' = CursorOf(q)
  BY <1>1, <1>2, SwitchKeeps
<1>4. Upper' = Upper /\ Lower' = Lower /\ WindowCursor' = WindowCursor
  BY <1>3, MapKept
<1> QED BY <1>2, <1>4 DEF W!vars

LEMMA TaskExitWindows ==
  ASSUME IInv, TaskExit
  PROVE  W!Next
<1>1. PICK p \in live' \cup {Shell} : SwitchTo(p)
  BY DEF TaskExit
<1>2. /\ Types /\ live' = live \ {current_running} /\ p \in Tasks \cup {Shell}
      /\ current_running \in Tasks
  BY DEF IInv, Types, TaskExit
<1>3. /\ screen'.cell = screen.cell
      /\ \A q \in Tasks \cup {Shell} : CursorOf(q)' = CursorOf(q)
  BY <1>1, <1>2, SwitchKeeps
<1>4. Upper' = Upper /\ Lower' = Lower /\ WindowCursor' = WindowCursor
  BY <1>3, MapKept
<1>5. current_running \in live
  BY <1>2, TaskRuns
<1>6. W!End(current_running)
  BY <1>2, <1>4, <1>5 DEF W!End
<1> QED BY <1>5, <1>6 DEF W!Next

LEMMA TaskWriteWindows ==
  ASSUME IInv, NEW text \in TaskTexts, TaskWrite(text)
  PROVE  W!Next
<1> DEFINE t == current_running
           v == W!Typed(View(screen, 0, Half), text)
<1>1. /\ t \in Tasks /\ UNCHANGED <<current_running, live, cursor>>
      /\ screen' = screen_write(screen, text)
      /\ \A n \in 0 .. Len(text) - 1 : Written(screen, text)[n].y < Half
  BY DEF TaskWrite, Fits
<1>2. t \in live /\ t # Shell /\ screen \in Screen /\ screen.y <= Half /\ text \in Seq(AnyChar)
  BY <1>1, TaskRuns, TextsAssumption
<1>3. /\ screen' \in Screen
      /\ \A i \in Rows : i >= Half => screen'.cell[i] = screen.cell[i]
      /\ \A n \in 0 .. Len(text) - 1 : v[n].at[2] < Half
      /\ v[Len(text)] = View(screen', 0, Half)
  BY <1>1, <1>2, WriteUpper
<1> HIDE DEF v
<1>4. screen.y - 0 = screen.y /\ screen'.y - 0 = screen'.y
  BY <1>2, <1>3, Sizes DEF Screen, Rows
<1>5. View(screen, 0, Half) = [rows |-> Upper, at |-> WindowCursor[t]]
  <2>1. WindowCursor[t] = <<screen.x, screen.y>>
    BY <1>1, <1>2 DEF WindowCursor, CursorOf
  <2> QED BY <1>4, <2>1 DEF View, Upper
<1>6. View(screen', 0, Half).rows = Upper' /\ View(screen', 0, Half).at = <<screen'.x, screen'.y>>
  BY <1>4 DEF View, Upper
<1>7. WindowCursor' = [WindowCursor EXCEPT ![t] = <<screen'.x, screen'.y>>]
  <2>1. \A q \in Tasks \cup {Shell} : q # t => CursorOf(q)' = CursorOf(q)
    BY <1>1 DEF CursorOf
  <2>2. CursorOf(t)' = <<screen'.x, screen'.y>>
    BY <1>1 DEF CursorOf
  <2> QED BY <1>1, <1>2, <2>1, <2>2, CursorMoves
<1>8. Lower' = Lower
  <2>1. \A i \in Rows : i > Half => screen'.cell[i] = screen.cell[i]
    BY <1>3, Sizes DEF Rows
  <2> QED BY <2>1, LowerKept
<1>9. v = W!Typed([rows |-> Upper, at |-> WindowCursor[t]], text)
  BY <1>5 DEF v
<1>10. W!TaskWrite(t, text)
  BY <1>1, <1>3, <1>6, <1>7, <1>8, <1>9 DEF W!TaskWrite
<1> QED BY <1>2, <1>10 DEF W!Next

LEMMA TaskMoveWindows ==
  ASSUME IInv, TaskMove
  PROVE  W!Next
<1> DEFINE t == current_running
<1>1. t \in Tasks /\ UNCHANGED <<current_running, live, cursor>>
  BY DEF TaskMove
<1>2. PICK i \in {0, 1} : screen' = [cell |-> screen.cell, x |-> 0, y |-> i]
  BY DEF TaskMove, screen_move_cursor
<1>3. t \in live /\ t # Shell
  BY <1>1, TaskRuns
<1>4. i \in 0 .. Half - 1
  BY Sizes
<1>5. WindowCursor' = [WindowCursor EXCEPT ![t] = <<0, i>>]
  <2>1. \A q \in Tasks \cup {Shell} : q # t => CursorOf(q)' = CursorOf(q)
    BY <1>1 DEF CursorOf
  <2>2. CursorOf(t)' = <<0, i>>
    BY <1>1, <1>2 DEF CursorOf
  <2> QED BY <1>1, <1>3, <2>1, <2>2, CursorMoves
<1>6. Upper' = Upper /\ Lower' = Lower
  BY <1>2, UpperKept, LowerKept
<1>7. W!TaskMove(t)
  BY <1>1, <1>4, <1>5, <1>6 DEF W!TaskMove
<1> QED BY <1>3, <1>7 DEF W!Next

\* The shell writes to its window.
LEMMA WriteWindows ==
  ASSUME IInv, current_running = Shell, Open(screen, calls), NEW text \in ShellTexts,
         screen' = screen_write(screen, text), UNCHANGED <<current_running, live, cursor>>
  PROVE  W!Next
<1> DEFINE v == W!TypedScrolling(View(screen, Half + 1, LowerHeight), text, LowerHeight)
<1>1. screen \in Screen /\ screen.y \in LowerRows /\ Fresh(screen) /\ text \in Seq(AnyChar)
  BY ShellRuns, ShellTextType DEF Open
<1>2. /\ screen' \in Screen /\ screen'.y \in LowerRows
      /\ \A i \in Rows : i <= Half \/ i = SCREEN_HEIGHT - 1 => screen'.cell[i] = screen.cell[i]
      /\ v[Len(text)] = View(screen', Half + 1, LowerHeight)
  BY <1>1, WriteLower
<1> HIDE DEF v
<1>3. /\ \A t \in Tasks : t # Shell /\ CursorOf(t) = cursor[t] /\ CursorOf(t)' = cursor'[t]
      /\ CursorOf(Shell) = <<screen.x, screen.y>> /\ CursorOf(Shell)' = <<screen'.x, screen'.y>>
  BY ShellCursors
<1>4. WindowCursor[Shell] = View(screen, Half + 1, LowerHeight).at
  BY <1>1, <1>3, LowerAt DEF WindowCursor
<1>5. View(screen, Half + 1, LowerHeight) = [rows |-> Lower, at |-> WindowCursor[Shell]]
  BY <1>4 DEF View, Lower
<1>6. WindowCursor' = [WindowCursor EXCEPT ![Shell] = View(screen', Half + 1, LowerHeight).at]
  <2>1. InWindow(CursorOf(Shell)') = View(screen', Half + 1, LowerHeight).at
    BY <1>2, <1>3, LowerAt
  <2>2. \A q \in Tasks \cup {Shell} : q # Shell => CursorOf(q)' = CursorOf(q)
    BY <1>3
  <2> QED BY <2>1, <2>2, CursorMoves
<1>7. View(screen', Half + 1, LowerHeight).rows = Lower'
  BY DEF View, Lower
<1>8. Upper' = Upper
  <2>1. \A i \in Rows : i < Half => screen'.cell[i] = screen.cell[i]
    BY <1>2, Sizes DEF Rows
  <2> QED BY <2>1, UpperKept
<1>9. v = W!TypedScrolling([rows |-> Lower, at |-> WindowCursor[Shell]], text, LowerHeight)
  BY <1>5 DEF v
<1>10. W!ShellWrite(text)
  BY <1>2, <1>6, <1>7, <1>8, <1>9 DEF W!ShellWrite
<1> QED BY <1>10 DEF W!Next

\* The greeting is not a step of Windows: it begins when it is over.
LEMMA GreetingWindows ==
  ASSUME IInv, current_running = Shell, current_running' = Shell, Greeting(screen, calls),
         UNCHANGED <<live, cursor>>,
         \A i \in Rows : i # Half => screen'.cell[i] = screen.cell[i],
         screen'.y <= Half \/ (screen'.x = 0 /\ screen'.y = Half + 1)
  PROVE  UNCHANGED W!vars
<1>1. /\ \A t \in Tasks : CursorOf(t) = cursor[t] /\ CursorOf(t)' = cursor'[t]
      /\ CursorOf(Shell) = <<screen.x, screen.y>> /\ CursorOf(Shell)' = <<screen'.x, screen'.y>>
  BY ShellCursors
<1>2. screen.y <= Half
  BY Sizes DEF Greeting
<1>3. InWindow(<<screen.x, screen.y>>) = Home
  BY <1>2 DEF InWindow
<1>4. InWindow(<<screen'.x, screen'.y>>) = Home
  <2>1. CASE screen'.y <= Half
    BY <2>1 DEF InWindow
  <2>2. CASE screen'.x = 0 /\ screen'.y = Half + 1
    <3>1. ~ Half + 1 <= Half /\ (Half + 1) - (Half + 1) = 0
      BY Sizes
    <3> QED BY <2>2, <3>1 DEF InWindow, Home
  <2> QED BY <2>1, <2>2
<1>5. Upper' = Upper /\ Lower' = Lower /\ WindowCursor' = WindowCursor
  BY <1>1, <1>3, <1>4, MapKept
<1> QED BY <1>5 DEF W!vars

LEMMA ShellWriteWindows ==
  ASSUME IInv, ShellWrite
  PROVE  W!Next \/ UNCHANGED W!vars
<1>1. /\ current_running = Shell /\ calls # <<>> /\ Head(calls)[1] = "write"
      /\ UNCHANGED <<current_running, live, cursor, input_buffer, askew>>
      /\ screen' = screen_write(screen, Head(calls)[2]) /\ calls' = Tail(calls)
  BY DEF ShellWrite, ShellCalls, Proceed
<1>2. CASE live = {} /\ input_buffer = <<>> /\ ~ askew /\ Greeting(screen, calls)
  <2>1. /\ \A i \in Rows : i # Half => screen'.cell[i] = screen.cell[i]
        /\ screen'.y <= Half \/ (screen'.x = 0 /\ screen'.y = Half + 1)
    BY <1>1, <1>2, GreetingStep
  <2> QED BY <1>1, <1>2, <2>1, GreetingWindows
<1>3. CASE Open(screen, calls)
  <2>1. Head(calls) \in Calls
    BY <1>1, <1>3, CallsLeft DEF Open
  <2>2. Head(calls)[2] \in ShellTexts
    BY <1>1, <2>1, CallNames
  <2> QED BY <1>1, <1>3, <2>2, WriteWindows
<1> QED BY <1>1, <1>2, <1>3, ShellRuns

LEMMA show_processWindows ==
  ASSUME IInv, show_process
  PROVE  W!Next
<1>1. /\ current_running = Shell /\ calls # <<>> /\ Head(calls)[1] = "show"
      /\ UNCHANGED <<current_running, live, cursor>>
      /\ screen' = screen_write(screen, ProcessTable(live))
  BY DEF show_process, ShellCalls
<1>2. Open(screen, calls) /\ live \subseteq Tasks
  BY <1>1, OpenRuns, ShellRuns
<1>3. ProcessTable(live) \in ShellTexts
  BY <1>2 DEF ShellTexts
<1> QED BY <1>1, <1>2, <1>3, WriteWindows

LEMMA ShellCursorWindows ==
  ASSUME IInv, ShellCursor
  PROVE  W!Next \/ UNCHANGED W!vars
<1>1. /\ current_running = Shell /\ calls # <<>> /\ Head(calls)[1] = "cursor"
      /\ UNCHANGED <<current_running, live, cursor, input_buffer, askew>>
      /\ screen' = screen_move_cursor(screen, Head(calls)[2], Head(calls)[3])
      /\ calls' = Tail(calls)
  BY DEF ShellCursor, ShellCalls, Proceed
<1>2. CASE live = {} /\ input_buffer = <<>> /\ ~ askew /\ Greeting(screen, calls)
  <2>1. /\ \A i \in Rows : i # Half => screen'.cell[i] = screen.cell[i]
        /\ screen'.y <= Half \/ (screen'.x = 0 /\ screen'.y = Half + 1)
    BY <1>1, <1>2, GreetingStep
  <2> QED BY <1>1, <1>2, <2>1, GreetingWindows
<1>3. CASE Open(screen, calls)
  <2>1. Head(calls) \in Calls
    BY <1>1, <1>3, CallsLeft DEF Open
  <2>2. Head(calls) = ToHome
    BY <1>1, <2>1, CallNames
  <2>3. screen' = [cell |-> screen.cell, x |-> 0, y |-> Half + 1]
    BY <1>1, <2>2, NamesDiffer DEF screen_move_cursor
  <2>4. /\ \A t \in Tasks : t # Shell /\ CursorOf(t) = cursor[t] /\ CursorOf(t)' = cursor'[t]
        /\ CursorOf(Shell)' = <<0, Half + 1>>
    BY <1>1, <2>3, ShellCursors
  <2>5. InWindow(<<0, Half + 1>>) = Home
    <3>1. ~ Half + 1 <= Half /\ (Half + 1) - (Half + 1) = 0
      BY Sizes
    <3> QED BY <3>1 DEF InWindow, Home
  <2>6. WindowCursor' = [WindowCursor EXCEPT ![Shell] = Home]
    <3>1. \A q \in Tasks \cup {Shell} : q # Shell => CursorOf(q)' = CursorOf(q)
      BY <1>1, <2>4
    <3> QED BY <2>4, <2>5, <3>1, CursorMoves
  <2>7. Upper' = Upper /\ Lower' = Lower
    BY <2>3, UpperKept, LowerKept
  <2>8. W!ShellHome
    BY <1>1, <2>6, <2>7 DEF W!ShellHome, W!Home, Home
  <2> QED BY <2>8 DEF W!Next
<1> QED BY <1>1, <1>2, <1>3, ShellRuns

LEMMA ShellClearWindows ==
  ASSUME IInv, ShellClear
  PROVE  W!Next
<1> DEFINE a == Head(calls)[2]
           b == Head(calls)[3]
<1>1. /\ current_running = Shell /\ calls # <<>> /\ Head(calls)[1] = "clear"
      /\ UNCHANGED <<current_running, live, cursor>>
      /\ screen' = screen_clear(screen, a, b)
  BY DEF ShellClear, ShellCalls
<1>2. screen \in Screen /\ Open(screen, calls)
  BY <1>1, ShellRuns, OpenRuns
<1>3. Head(calls) \in Calls
  BY <1>1, <1>2, CallsLeft DEF Open
<1>4. \/ a = Half + 1 /\ b = SCREEN_HEIGHT - 1
      \/ a = 0 /\ b = Half - 1
  BY <1>1, <1>3, CallNames, NamesDiffer
<1> HIDE DEF a, b
<1>5. /\ screen'.x = screen.x /\ screen'.y = screen.y
      /\ \A i \in Rows : screen'.cell[i] = IF i \in a .. b THEN Blanks ELSE screen.cell[i]
  BY <1>1, <1>2 DEF screen_clear, Screen, Blanks
<1>6. /\ \A t \in Tasks : CursorOf(t) = cursor[t] /\ CursorOf(t)' = cursor'[t]
      /\ CursorOf(Shell) = <<screen.x, screen.y>> /\ CursorOf(Shell)' = <<screen'.x, screen'.y>>
  BY <1>1, ShellCursors
<1>7. WindowCursor' = WindowCursor
  <2>1. \A q \in Tasks \cup {Shell} : CursorOf(q)' = CursorOf(q)
    BY <1>1, <1>5, <1>6
  <2> QED BY <2>1 DEF WindowCursor, InWindow
<1>8. W!BlankRow = Blanks
  BY DEF W!BlankRow, Blanks, Columns
<1>9. CASE a = Half + 1 /\ b = SCREEN_HEIGHT - 1
  <2>1. \A i \in 0 .. LowerHeight - 1 : Half + 1 + i \in Rows /\ Half + 1 + i \in a .. b
    BY <1>9, Sizes DEF Rows, LowerHeight
  <2>2. Lower' = W!Blank(LowerHeight)
    BY <1>5, <1>8, <2>1 DEF Lower, RowsOf, W!Blank
  <2>3. \A i \in Rows : i < Half => i \notin a .. b
    BY <1>9, Sizes DEF Rows
  <2>4. Upper' = Upper
    BY <1>5, <2>3, UpperKept
  <2>5. W!ClearLower
    BY <1>1, <1>7, <2>2, <2>4 DEF W!ClearLower
  <2> QED BY <2>5 DEF W!Next
<1>10. CASE a = 0 /\ b = Half - 1
  <2>1. \A i \in 0 .. Half - 1 : 0 + i \in Rows /\ 0 + i \in a .. b
    BY <1>10, Sizes DEF Rows
  <2>2. Upper' = W!Blank(Half)
    BY <1>5, <1>8, <2>1 DEF Upper, RowsOf, W!Blank
  <2>3. \A i \in Rows : i > Half => i \notin a .. b
    BY <1>10, Sizes DEF Rows
  <2>4. Lower' = Lower
    BY <1>5, <2>3, LowerKept
  <2>5. W!ClearUpper
    BY <1>1, <1>7, <2>2, <2>4 DEF W!ClearUpper
  <2> QED BY <2>5 DEF W!Next
<1> QED BY <1>4, <1>9, <1>10

\* A step of the shell that does not write.
LEMMA QuietWindows ==
  ASSUME current_running = Shell, UNCHANGED <<screen, current_running, cursor>>
  PROVE  Upper' = Upper /\ Lower' = Lower /\ WindowCursor' = WindowCursor
<1>1. \A q \in Tasks \cup {Shell} : CursorOf(q)' = CursorOf(q)
  BY DEF CursorOf
<1> QED BY <1>1, MapKept

LEMMA ShellSpawnWindows ==
  ASSUME IInv, ShellSpawn
  PROVE  W!Next \/ UNCHANGED W!vars
<1>1. current_running = Shell /\ UNCHANGED <<screen, current_running>>
  BY DEF ShellSpawn, ShellCalls
<1>2. CASE live' = live /\ cursor' = cursor
  BY <1>1, <1>2, QuietWindows DEF W!vars
<1>3. CASE \E t \in Tasks \ live : live' = live \cup {t} /\ cursor' = PcbCursor(t)
  <2>1. PICK t \in Tasks \ live : live' = live \cup {t} /\ cursor' = [cursor EXCEPT ![t] = Home]
    BY <1>3 DEF PcbCursor
  <2>2. cursor \in [{Boot, Shell} \cup Tasks -> Columns \X Rows]
    BY <1>1, ShellRuns
  <2>3. cursor'[t] = Home /\ \A q \in Tasks : q # t => cursor'[q] = cursor[q]
    BY <2>1, <2>2
  <2>4. /\ \A q \in Tasks : q # Shell /\ CursorOf(q) = cursor[q] /\ CursorOf(q)' = cursor'[q]
        /\ CursorOf(Shell)' = CursorOf(Shell)
    BY <1>1, ShellCursors
  <2>5. \A q \in Tasks \cup {Shell} : q # t => CursorOf(q)' = CursorOf(q)
    BY <2>3, <2>4
  <2>6. WindowCursor' = [WindowCursor EXCEPT ![t] = Home]
    BY <2>3, <2>4, <2>5, CursorMoves
  <2>7. Upper' = Upper /\ Lower' = Lower
    BY <1>1, UpperKept, LowerKept
  <2>8. W!Spawn(t)
    BY <2>1, <2>6, <2>7 DEF W!Spawn, W!Home, Home
  <2> QED BY <2>8 DEF W!Next
<1> QED BY <1>2, <1>3 DEF ShellSpawn

LEMMA ShellKillWindows ==
  ASSUME IInv, ShellKill
  PROVE  W!Next \/ UNCHANGED W!vars
<1> DEFINE t == Head(calls)[2]
<1>1. /\ current_running = Shell /\ UNCHANGED <<screen, current_running, cursor>>
      /\ live' = live \ {t}
  BY DEF ShellKill, ShellCalls
<1> HIDE DEF t
<1>2. Upper' = Upper /\ Lower' = Lower /\ WindowCursor' = WindowCursor
  BY <1>1, QuietWindows
<1>3. CASE t \in live
  <2>1. W!End(t)
    BY <1>1, <1>2, <1>3 DEF W!End
  <2> QED BY <1>3, <2>1 DEF W!Next
<1>4. CASE t \notin live
  <2>1. live' = live
    BY <1>1, <1>4
  <2> QED BY <1>2, <2>1 DEF W!vars
<1> QED BY <1>3, <1>4

LEMMA KeyWindows ==
  ASSUME KeyEnter \/ KeyBackspace \/ \E c \in Typed : KeyCharacter(c)
  PROVE  UNCHANGED W!vars
<1>1. current_running = Shell /\ UNCHANGED <<screen, current_running, live, cursor>>
  BY DEF KeyEnter, KeyBackspace, KeyCharacter, Reading
<1> QED BY <1>1, QuietWindows DEF W!vars

\* One array, one cursor and one screen_write_ch are as good as two windows
\* and a cursor for each task: every step of the console, on a screen of any
\* size, is a step of Windows or changes nothing that can be seen there.
THEOREM ConsoleWindows == Spec => WindowsSpec
<1>1. Init => W!Init
  <2> SUFFICES ASSUME Init PROVE W!Init
    OBVIOUS
  <2>1. /\ screen.cell = All("SP") /\ current_running = Boot /\ live = {}
        /\ cursor = [p \in {Boot, Shell} \cup Tasks |-> Home]
    BY DEF Init
  <2>2. W!BlankRow = Blanks /\ \A i \in Rows : All("SP")[i] = Blanks
    BY DEF W!BlankRow, Blanks, Columns, All
  <2>3. Upper = W!Blank(Half)
    <3>1. \A i \in 0 .. Half - 1 : 0 + i \in Rows
      BY Sizes DEF Rows
    <3> QED BY <2>1, <2>2, <3>1 DEF Upper, RowsOf, W!Blank
  <2>4. Lower = W!Blank(LowerHeight)
    <3>1. \A i \in 0 .. LowerHeight - 1 : Half + 1 + i \in Rows
      BY Sizes DEF Rows, LowerHeight
    <3> QED BY <2>1, <2>2, <3>1 DEF Lower, RowsOf, W!Blank
  <2>5. WindowCursor = [t \in Tasks \cup {Shell} |-> Home]
    <3>1. \A p \in Tasks \cup {Shell} : p # Boot /\ p \in {Boot, Shell} \cup Tasks
      BY ConsoleAssumption DEF Boot, Shell
    <3>2. \A p \in Tasks \cup {Shell} : CursorOf(p) = Home
      BY <2>1, <3>1 DEF CursorOf
    <3>3. InWindow(Home) = Home
      BY Sizes DEF InWindow, Home
    <3> QED BY <3>2, <3>3 DEF WindowCursor
  <2> QED BY <2>1, <2>3, <2>4, <2>5 DEF W!Init, W!Home, Home
<1>2. IInv /\ [Next]_vars => [W!Next]_(W!vars)
  <2> SUFFICES ASSUME IInv, [Next]_vars PROVE W!Next \/ UNCHANGED W!vars
    OBVIOUS
  <2>1. CASE Tick
    BY <2>1, TickWindows
  <2>2. CASE TaskMove
    BY <2>2, TaskMoveWindows
  <2>3. CASE TaskExit
    BY <2>3, TaskExitWindows
  <2>4. CASE \E text \in TaskTexts : TaskWrite(text)
    BY <2>4, TaskWriteWindows
  <2>5. CASE ShellWrite
    BY <2>5, ShellWriteWindows
  <2>6. CASE ShellCursor
    BY <2>6, ShellCursorWindows
  <2>7. CASE ShellClear
    BY <2>7, ShellClearWindows
  <2>8. CASE show_process
    BY <2>8, show_processWindows
  <2>9. CASE ShellSpawn
    BY <2>9, ShellSpawnWindows
  <2>10. CASE ShellKill
    BY <2>10, ShellKillWindows
  <2>11. CASE KeyEnter \/ KeyBackspace \/ \E c \in Typed : KeyCharacter(c)
    BY <2>11, KeyWindows
  <2>12. CASE UNCHANGED vars
    <3>1. screen' = screen /\ current_running' = current_running /\ cursor' = cursor /\ live' = live
      BY <2>12 DEF vars
    <3>2. \A q \in Tasks \cup {Shell} : CursorOf(q)' = CursorOf(q)
      BY <3>1 DEF CursorOf
    <3>3. Upper' = Upper /\ Lower' = Lower /\ WindowCursor' = WindowCursor
      BY <3>1, <3>2, MapKept
    <3> QED BY <3>1, <3>3 DEF W!vars
  <2> QED BY <2>1, <2>2, <2>3, <2>4, <2>5, <2>6, <2>7, <2>8, <2>9, <2>10, <2>11, <2>12 DEF Next
<1> QED BY <1>1, <1>2, IInvHolds, PTL DEF Spec, WindowsSpec, W!Spec

=============================================================================
