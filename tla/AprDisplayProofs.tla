--------------------------- MODULE AprDisplayProofs ---------------------------
(***************************************************************************)
(* Lemmas about the drawing of a panel, for every number of lines, rows    *)
(* and columns: a panel wide enough for its lines shows them, however it   *)
(* is scrolled.                                                            *)
(***************************************************************************)
EXTENDS AprDisplay, FiniteSetTheorems, TLAPS

\* No line reaches the right margin, where it would wrap (run narrow has one that
\* does).
WideEnough(d) == \A a \in 0 .. Size - 1 : LineLength[d][a] < Columns

-----------------------------------------------------------------------------
(* One row *)

\* What DrawRow prints for line a, and how much of it
Printed(a, d) == IF a < Size THEN LineLength[d][a] ELSE 1
Character(a, k, d) == IF a < Size THEN <<a, k + 1, d>> ELSE Tilde

LEMMA PrintedFits ==
  ASSUME NEW a \in Nat, NEW d \in BOOLEAN, WideEnough(d)
  PROVE  Printed(a, d) \in Nat \ {0} /\ Printed(a, d) < Columns
<1>1. Columns \in Nat /\ Size \in Nat \ {0}
  BY SizeAssumption
<1>2. a < Size => a \in 0 .. Size - 1
  BY <1>1
<1>3. a < Size => LineLength[d][a] \in Nat \ {0} /\ LineLength[d][a] < Columns
  BY <1>2, LengthAssumption DEF WideEnough
<1>4. 1 < Columns
  <2>1. 0 \in 0 .. Size - 1
    BY <1>1
  <2>2. LineLength[d][0] \in Nat \ {0} /\ LineLength[d][0] < Columns
    BY <2>1, LengthAssumption DEF WideEnough
  <2> QED
    BY <1>1, <2>2
<1> QED
  BY <1>3, <1>4 DEF Printed

\* Places in the window are told apart by row and column.
LEMMA PlaceInText ==
  ASSUME NEW c \in Nat \ {0}, NEW y \in Nat, NEW r \in Nat, NEW k \in 0 .. c - 1,
         NEW l \in Nat, l < c
  PROVE  r * c + k \in y * c .. y * c + l - 1 <=> r = y /\ k < l
<1>1. /\ y * c \in Nat /\ r * c \in Nat
  OBVIOUS
<1>2. CASE r = y
  BY <1>1, <1>2
<1>3. CASE r < y
  <2>1. r * c + c <= y * c
    BY <1>3
  <2> QED
    BY <1>1, <1>3, <2>1
<1>4. CASE r > y
  <2>1. y * c + c <= r * c
    BY <1>4
  <2> QED
    BY <1>1, <1>4, <2>1
<1> QED
  BY <1>2, <1>3, <1>4

\* The window with the text at the start of row y
Over(w, y, text) ==
  [r \in Line |-> [k \in Column |-> IF r = y /\ k < Len(text) THEN text[k + 1] ELSE w[r][k]]]

LEMMA TextShown ==
  ASSUME NEW w, NEW y \in Line, NEW text, Len(text) \in Nat, Len(text) < Columns
  PROVE  mvwaddstr(w, y, text) = Over(w, y, text)
<1>1. /\ Columns \in Nat \ {0} /\ Rows \in Nat \ {0} /\ y \in Nat /\ y <= Rows - 1
      /\ y * Columns \in Nat
  BY SizeAssumption DEF Line
<1>2. (y * Columns + Len(text)) \div Columns = y
  BY <1>1
<1> DEFINE start == y * Columns
           end == start + Len(text)
           At(r, k) == IF r * Columns + k \in start .. end - 1
                       THEN text[r * Columns + k - start + 1]
                       ELSE IF r \in Line THEN w[r][k] ELSE Blank
<1>3. mvwaddstr(w, y, text) = [r \in Line |-> [k \in Column |-> At(r + 0, k)]]
  <2>1. ~(y > Rows - 1)
    BY <1>1
  <2> QED
    BY <1>2, <2>1 DEF mvwaddstr
<1>4. ASSUME NEW r \in Line, NEW k \in Column
      PROVE  At(r + 0, k) = IF r = y /\ k < Len(text) THEN text[k + 1] ELSE w[r][k]
  <2>1. r + 0 = r /\ r \in Nat /\ k \in 0 .. Columns - 1
    BY DEF Line, Column
  <2>2. r * Columns + k \in start .. end - 1 <=> r = y /\ k < Len(text)
    BY <1>1, <2>1, PlaceInText
  <2>3. r = y => r * Columns + k - start + 1 = k + 1
    BY <1>1, <2>1
  <2> QED
    BY <2>1, <2>2, <2>3
<1> HIDE DEF At
<1> QED
  BY <1>3, <1>4 DEF Over

\* The window with line a in row y
WithLine(w, y, a, d) ==
  [r \in Line |-> [k \in Column |->
     IF r = y /\ k < Printed(a, d) THEN Character(a, k, d) ELSE w[r][k]]]

LEMMA RowShown ==
  ASSUME NEW w, NEW y \in Line, NEW a \in Nat, NEW d \in BOOLEAN, WideEnough(d)
  PROVE  DrawRow(w, y, a, d) = WithLine(w, y, a, d)
<1>1. Printed(a, d) \in Nat \ {0} /\ Printed(a, d) < Columns
  BY PrintedFits
<1>2. ASSUME NEW text, Len(text) = Printed(a, d),
             \A k \in Nat : k < Printed(a, d) => text[k + 1] = Character(a, k, d)
      PROVE  mvwaddstr(w, y, text) = WithLine(w, y, a, d)
  <2>1. mvwaddstr(w, y, text) = Over(w, y, text)
    BY <1>1, <1>2, TextShown
  <2>2. \A k \in Column : k \in Nat
    BY DEF Column
  <2> QED
    BY <1>2, <2>1, <2>2 DEF Over, WithLine
<1>3. CASE a < Size
  <2>1. LineLength[d][a] = Printed(a, d)
    BY <1>3 DEF Printed
  <2>2. /\ Len(Text(a, d)) = Printed(a, d)
        /\ \A k \in Nat : k < Printed(a, d) => Text(a, d)[k + 1] = Character(a, k, d)
    BY <1>1, <1>3, <2>1 DEF Text, Character
  <2>3. DrawRow(w, y, a, d) = mvwaddstr(w, y, Text(a, d))
    BY <1>3 DEF DrawRow, printMemory
  <2> QED
    BY <1>2, <2>2, <2>3
<1>4. CASE ~(a < Size)
  <2>1. Len(<<Tilde>>) = Printed(a, d)
    BY <1>4 DEF Printed
  <2>2. \A k \in Nat : k < Printed(a, d) => <<Tilde>>[k + 1] = Character(a, k, d)
    BY <1>4 DEF Printed, Character
  <2>3. DrawRow(w, y, a, d) = mvwaddstr(w, y, <<Tilde>>)
    BY <1>4 DEF DrawRow
  <2> QED
    BY <1>2, <2>1, <2>2, <2>3
<1> QED
  BY <1>3, <1>4
-----------------------------------------------------------------------------
(* Some rows, one after another *)

\* The least number principle
LEMMA LeastNumber ==
  ASSUME NEW T, T \subseteq Nat, T # {}
  PROVE  \E x \in T : \A y \in T : x <= y
<1>1. PICK x \in T : \A y \in T : ~ (<<y, x>> \in OpToRel(<, Nat))
  BY WFMin, NatLessThanWellFounded
<1>2. \A y \in T : ~ (y < x)
  BY <1>1 DEF OpToRel
<1> QED
  BY <1>2

IsWindow(w) == w = [r \in Line |-> [k \in Column |-> w[r][k]]]

\* The window with the first so many of the lines that go down (step = 1) or up
\* (step = -1) from row y, which has line a
WithLines(w, y, a, step, rows, d) ==
  [r \in Line |-> [k \in Column |->
     IF step * (r - y) \in 0 .. rows - 1 /\ k < Printed(a + (r - y), d)
     THEN Character(a + (r - y), k, d)
     ELSE w[r][k]]]

LEMMA RowAfterRow ==
  ASSUME NEW w, NEW y \in Int, NEW a \in Int, NEW step \in {1, -1}, NEW d \in BOOLEAN, WideEnough(d),
         NEW m \in Nat, y + step * m \in Line, a + step * m \in Nat
  PROVE  DrawRow(WithLines(w, y, a, step, m, d), y + step * m, a + step * m, d) =
           WithLines(w, y, a, step, m + 1, d)
<1> DEFINE before == WithLines(w, y, a, step, m, d)
           row == y + step * m
           line == a + step * m
<1>1. DrawRow(before, row, line, d) = WithLine(before, row, line, d)
  BY RowShown
<1>2. Line \subseteq Int
  BY DEF Line
<1>3. ASSUME NEW r \in Line, NEW k \in Column
      PROVE  (IF r = row /\ k < Printed(line, d) THEN Character(line, k, d) ELSE before[r][k]) =
             (IF step * (r - y) \in 0 .. (m + 1) - 1 /\ k < Printed(a + (r - y), d)
              THEN Character(a + (r - y), k, d) ELSE w[r][k])
  <2>1. before[r][k] =
          IF step * (r - y) \in 0 .. m - 1 /\ k < Printed(a + (r - y), d)
          THEN Character(a + (r - y), k, d) ELSE w[r][k]
    BY DEF WithLines
  <2>2. step * (r - y) \in Int
    BY <1>2
  <2>3. step * (r - y) \in 0 .. (m + 1) - 1 <=> step * (r - y) \in 0 .. m - 1 \/ step * (r - y) = m
    BY <2>2
  <2>4. /\ step * (r - y) = m <=> r = row
        /\ r = row => a + (r - y) = line
        /\ r = row => ~(step * (r - y) \in 0 .. m - 1)
    BY <1>2
  <2> HIDE DEF before, row, line
  <2> QED
    BY <2>1, <2>3, <2>4
<1> HIDE DEF before, row, line
<1>4. WithLine(before, row, line, d) = WithLines(w, y, a, step, m + 1, d)
  BY <1>3 DEF WithLine, WithLines
<1> QED
  BY <1>1, <1>4 DEF before, row, line

\* The window v after the k-th row of a loop is drawn
NextRow(v, y, a, step, k, d) == DrawRow(v, y + step * (k - 1), a + step * (k - 1), d)

\* f gives the window after each of the rows
RowByRow(f, w, y, a, step, rows, d) ==
  /\ DrawRows(w, y, a, step, rows, d) = f[rows]
  /\ f[0] = w
  /\ \A k \in 1 .. rows : f[k] = NextRow(f[k - 1], y, a, step, k, d)

\* The loops of the refresh and scroll functions draw one row after another: the
\* recursion of DrawRows has a solution.
LEMMA DrawnRowByRow ==
  ASSUME NEW w, NEW y, NEW a, NEW step, NEW rows \in Nat, NEW d
  PROVE  \E f : RowByRow(f, w, y, a, step, rows, d)
<1> DEFINE next(v, k) == DrawRow(v, y + step * (k - 1), a + step * (k - 1), d)
           Recursion(f, n) == f = [k \in 0 .. n |-> IF k = 0 THEN w ELSE next(f[k - 1], k)]
           drawn == CHOOSE f : Recursion(f, rows)
<1>1. DrawRows(w, y, a, step, rows, d) = drawn[rows]
  BY DEF DrawRows
<1> HIDE DEF next
<1>2. \A n \in Nat : \E f : Recursion(f, n)
  <2> DEFINE T == {n \in Nat : ~ \E f : Recursion(f, n)}
  <2> SUFFICES ASSUME T # {} PROVE FALSE
    OBVIOUS
  <2>1. PICK n \in T : \A j \in T : n <= j
    <3>1. T \subseteq Nat
      OBVIOUS
    <3> HIDE DEF T
    <3> QED
      BY <3>1, LeastNumber
  <2>2. CASE n = 0
    <3> DEFINE f == [k \in 0 .. 0 |-> w]
    <3>1. Recursion(f, n)
      BY <2>2
    <3> QED
      BY <2>1, <3>1
  <2>3. CASE n # 0
    <3>1. n - 1 \in Nat /\ n - 1 \notin T
      <4>1. n \in Nat
        OBVIOUS
      <4>2. n - 1 \in Nat /\ ~(n <= n - 1)
        BY <2>3, <4>1
      <4> HIDE DEF T
      <4> QED
        BY <2>1, <4>2
    <3>2. PICK g : Recursion(g, n - 1)
      BY <3>1
    <3> DEFINE f == [k \in 0 .. n |-> IF k = n THEN next(g[n - 1], n) ELSE g[k]]
    <3>3. \A k \in 0 .. n : f[k] = IF k = 0 THEN w ELSE next(f[k - 1], k)
      <4> TAKE k \in 0 .. n
      <4>1. CASE k = n
        <5>1. k # 0 /\ k - 1 \in 0 .. n /\ k - 1 # n /\ k - 1 = n - 1
          BY <2>3, <4>1, <3>1
        <5> QED
          BY <4>1, <5>1
      <4>2. CASE k # n
        <5>1. k \in 0 .. n - 1 /\ (k # 0 => k - 1 \in 0 .. n /\ k - 1 # n)
          BY <4>2
        <5>2. g[k] = IF k = 0 THEN w ELSE next(g[k - 1], k)
          BY <3>2, <5>1
        <5> QED
          BY <4>2, <5>1, <5>2
      <4> QED
        BY <4>1, <4>2
    <3>4. Recursion(f, n)
      <4>1. f = [k \in 0 .. n |-> f[k]]
        OBVIOUS
      <4> HIDE DEF f
      <4> QED
        BY <3>3, <4>1
    <3> QED
      BY <2>1, <3>4
  <2> QED
    BY <2>2, <2>3
<1>3. Recursion(drawn, rows)
  BY <1>2
<1> HIDE DEF drawn
<1>4. drawn[0] = w /\ \A k \in 1 .. rows : drawn[k] = next(drawn[k - 1], k)
  <2>1. \A k \in 0 .. rows : drawn[k] = IF k = 0 THEN w ELSE next(drawn[k - 1], k)
    BY <1>3
  <2>2. 0 \in 0 .. rows
    OBVIOUS
  <2>3. \A k \in 1 .. rows : k \in 0 .. rows /\ k # 0
    OBVIOUS
  <2> QED
    BY <2>1, <2>2, <2>3
<1> QED
  BY <1>1, <1>4 DEF next, NextRow, RowByRow

\* What they draw
LEMMA RowsShown ==
  ASSUME NEW w, IsWindow(w), NEW y \in Int, NEW a \in Int, NEW step \in {1, -1},
         NEW rows \in Nat, NEW d \in BOOLEAN, WideEnough(d),
         \A m \in 0 .. rows - 1 : y + step * m \in Line /\ a + step * m \in Nat
  PROVE  DrawRows(w, y, a, step, rows, d) = WithLines(w, y, a, step, rows, d)
<1> DEFINE F(m) == WithLines(w, y, a, step, m, d)
<1>1. F(0) = w
  <2>1. \A x : x \notin 0 .. 0 - 1
    OBVIOUS
  <2> QED
    BY <2>1 DEF WithLines, IsWindow
<1>2. \A k \in 1 .. rows : F(k) = NextRow(F(k - 1), y, a, step, k, d)
  <2> TAKE k \in 1 .. rows
  <2>1. k - 1 \in 0 .. rows - 1 /\ k - 1 \in Nat /\ (k - 1) + 1 = k
    OBVIOUS
  <2>2. y + step * (k - 1) \in Line /\ a + step * (k - 1) \in Nat
    BY <2>1
  <2>3. DrawRow(WithLines(w, y, a, step, k - 1, d), y + step * (k - 1), a + step * (k - 1), d) =
          WithLines(w, y, a, step, (k - 1) + 1, d)
    BY <2>1, <2>2, RowAfterRow
  <2> QED
    BY <2>1, <2>3 DEF NextRow
<1>0. PICK f : RowByRow(f, w, y, a, step, rows, d)
  BY DrawnRowByRow, Zenon
<1>3. /\ DrawRows(w, y, a, step, rows, d) = f[rows]
      /\ f[0] = w
      /\ \A k \in 1 .. rows : f[k] = NextRow(f[k - 1], y, a, step, k, d)
  BY <1>0 DEF RowByRow
<1> HIDE DEF F
<1>4. \A k \in 0 .. rows : f[k] = F(k)
  <2> DEFINE T == {k \in 0 .. rows : f[k] # F(k)}
  <2> SUFFICES ASSUME T # {} PROVE FALSE
    OBVIOUS
  <2>1. T \subseteq Nat
    OBVIOUS
  <2>2. PICK k \in T : \A j \in T : k <= j
    BY <2>1, LeastNumber
  <2>3. k # 0
    BY <1>1, <1>3
  <2>4. k \in 1 .. rows /\ k - 1 \in 0 .. rows /\ ~(k <= k - 1)
    BY <2>3
  <2>5. f[k - 1] = F(k - 1)
    BY <2>2, <2>4
  <2> QED
    BY <1>2, <1>3, <2>4, <2>5
<1> QED
  BY <1>3, <1>4 DEF F

\* The window keeps its size, also when lines wrap.
HasSize(w) == DOMAIN w = Line /\ \A r \in Line : DOMAIN w[r] = Column

LEMMA RowKeepsSize ==
  ASSUME NEW w, NEW y, NEW a, NEW d
  PROVE  HasSize(DrawRow(w, y, a, d))
<1>1. \A text : HasSize(mvwaddstr(w, y, text))
  BY DEF HasSize, mvwaddstr
<1> QED
  BY <1>1 DEF DrawRow, printMemory

LEMMA RowsKeepSize ==
  ASSUME NEW w, HasSize(w), NEW y, NEW a, NEW step, NEW rows \in Nat, NEW d
  PROVE  HasSize(DrawRows(w, y, a, step, rows, d))
<1>0. PICK f : RowByRow(f, w, y, a, step, rows, d)
  BY DrawnRowByRow, Zenon
<1>1. /\ DrawRows(w, y, a, step, rows, d) = f[rows]
      /\ f[0] = w
      /\ \A k \in 1 .. rows : f[k] = NextRow(f[k - 1], y, a, step, k, d)
  BY <1>0 DEF RowByRow
<1>2. CASE rows = 0
  BY <1>1, <1>2
<1>3. CASE rows # 0
  <2>1. rows \in 1 .. rows
    BY <1>3
  <2>2. f[rows] = DrawRow(f[rows - 1], y + step * (rows - 1), a + step * (rows - 1), d)
    BY <1>1, <2>1 DEF NextRow
  <2> QED
    BY <1>1, <2>2, RowKeepsSize
<1> QED
  BY <1>2, <1>3

LEMMA MovedKeepsSize ==
  ASSUME NEW w, HasSize(w), NEW n
  PROVE  HasSize(wscrl(w, n))
BY DEF HasSize, wscrl

-----------------------------------------------------------------------------
(* The panel *)

\* The character at place k of the row that shows line a
Shown(a, k, d) == IF k < Printed(a, d) THEN Character(a, k, d) ELSE Blank

\* The window that shows the lines from top on
Full(top, d) == [r \in Line |-> [k \in Column |-> Shown(top + r, k, d)]]

\* The window has nothing in a row but what it should, and all of it in every row
\* but these, of which there are as many as that.
Lacks(w, y, step, rows, top, d) ==
  /\ \A m \in 0 .. rows - 1 : y + step * m \in Line
  /\ \A r \in Line, k \in Column :
       /\ w[r][k] = Blank \/ w[r][k] = Shown(top + r, k, d)
       /\ step * (r - y) \notin 0 .. rows - 1 => w[r][k] = Shown(top + r, k, d)

\* A whole drawing and each way of scrolling draw the rows that are lacking.
LEMMA Completed ==
  ASSUME NEW w, IsWindow(w), NEW y \in Int, NEW a \in Int, NEW step \in {1, -1},
         NEW rows \in Nat, NEW d \in BOOLEAN, WideEnough(d), NEW top \in Nat, a = top + y,
         Lacks(w, y, step, rows, top, d)
  PROVE  DrawRows(w, y, a, step, rows, d) = Full(top, d)
<1>1. Line \subseteq Nat /\ Column \subseteq Nat
  BY DEF Line, Column
<1>2. \A m \in 0 .. rows - 1 : y + step * m \in Line /\ a + step * m \in Nat
  <2> TAKE m \in 0 .. rows - 1
  <2>1. y + step * m \in Line /\ y + step * m \in Nat
    BY <1>1 DEF Lacks
  <2>2. a + step * m = top + (y + step * m)
    <3>1. step * m \in Int
      OBVIOUS
    <3> QED
      BY <3>1
  <2> QED
    BY <2>1, <2>2
<1>3. DrawRows(w, y, a, step, rows, d) = WithLines(w, y, a, step, rows, d)
  BY <1>2, RowsShown
<1>4. ASSUME NEW r \in Line, NEW k \in Column
      PROVE  (IF step * (r - y) \in 0 .. rows - 1 /\ k < Printed(a + (r - y), d)
              THEN Character(a + (r - y), k, d) ELSE w[r][k]) = Shown(top + r, k, d)
  <2>1. a + (r - y) = top + r
    BY <1>1
  <2>2. CASE step * (r - y) \in 0 .. rows - 1
    <3>1. w[r][k] = Blank \/ w[r][k] = Shown(top + r, k, d)
      BY DEF Lacks
    <3> QED
      BY <2>1, <2>2, <3>1 DEF Shown
  <2>3. CASE step * (r - y) \notin 0 .. rows - 1
    BY <2>3 DEF Lacks
  <2> QED
    BY <2>2, <2>3
<1> QED
  BY <1>3, <1>4 DEF WithLines, Full

\* The whole drawing
LEMMA RefreshedShows ==
  ASSUME NEW top \in Nat, NEW d \in BOOLEAN, WideEnough(d)
  PROVE  Refreshed(top, d) = Full(top, d)
<1>1. IsWindow(werase)
  BY DEF IsWindow, werase
<1>2. \A r \in Line, k \in Column : werase[r][k] = Blank
  BY DEF werase
<1>3. /\ \A m \in 0 .. Rows - 1 : 0 + 1 * m \in Line
      /\ \A r \in Line : 1 * (r - 0) \in 0 .. Rows - 1
  BY DEF Line
<1>4. top = top + 0 /\ Rows \in Nat
  BY SizeAssumption
<1>5. Lacks(werase, 0, 1, Rows, top, d)
  BY <1>2, <1>3 DEF Lacks
<1> QED
  BY <1>1, <1>4, <1>5, Completed DEF Refreshed

\* A scrolled window
LEMMA Moved ==
  ASSUME NEW w, IsWindow(w), NEW n \in Int
  PROVE  /\ IsWindow(wscrl(w, n))
         /\ \A r \in Line, k \in Column :
              wscrl(w, n)[r][k] = IF r + n \in Line THEN w[r + n][k] ELSE Blank
<1> DEFINE v == wscrl(w, n)
           Row(r) == IF r + n \in Line THEN w[r + n] ELSE [k \in Column |-> Blank]
<1>1. v = [r \in Line |-> Row(r)]
  BY DEF wscrl
<1>2. \A q \in Line : w[q] = [k \in Column |-> w[q][k]]
  BY DEF IsWindow
<1> HIDE DEF v
<1>3. \A r \in Line : v[r] = Row(r)
  BY <1>1
<1>4. \A r \in Line : Row(r) = [k \in Column |-> Row(r)[k]]
  BY <1>2
<1>5. IsWindow(v)
  <2> HIDE DEF Row
  <2>1. \A r \in Line : v[r] = [k \in Column |-> v[r][k]]
    BY <1>3, <1>4
  <2> QED
    BY <1>1, <1>3, <2>1 DEF IsWindow
<1>6. \A r \in Line, k \in Column : v[r][k] = IF r + n \in Line THEN w[r + n][k] ELSE Blank
  BY <1>3
<1> QED
  BY <1>5, <1>6 DEF v

\* What the panel is between two keys
Shows == /\ memdisplay \in 0 .. Size - 1 /\ printDisassembly \in BOOLEAN
         /\ mainmem = Full(memdisplay, printDisassembly)

LEMMA FullWindow ==
  ASSUME NEW top, NEW d
  PROVE  /\ IsWindow(Full(top, d))
         /\ \A r \in Line, k \in Column : Full(top, d)[r][k] = Shown(top + r, k, d)
<1>1. \A r \in Line : Full(top, d)[r] = [k \in Column |-> Shown(top + r, k, d)]
  BY DEF Full
<1> QED
  BY <1>1 DEF Full, IsWindow

\* It is what the properties say.
LEMMA ShowsThePicture ==
  ASSUME Shows
  PROVE  PanelTypeOK /\ Picture
<1>1. Size \in Nat \ {0} /\ Line \subseteq Nat /\ Column \subseteq Nat
  BY SizeAssumption DEF Line, Column
<1>2. PanelTypeOK
  <2>1. DOMAIN mainmem = Line /\ \A r \in Line : DOMAIN mainmem[r] = Column
    BY DEF Shows, Full
  <2> QED
    BY <2>1 DEF Shows, PanelTypeOK
<1>3. ASSUME NEW r \in Line, NEW k \in Column
      PROVE  mainmem[r][k] =
               IF memdisplay + r >= Size THEN (IF k = 0 THEN Tilde ELSE Blank)
               ELSE IF k < LineLength[printDisassembly][memdisplay + r]
                    THEN <<memdisplay + r, k + 1, printDisassembly>>
               ELSE Blank
  <2>1. mainmem[r][k] = Shown(memdisplay + r, k, printDisassembly)
    BY FullWindow DEF Shows
  <2>2. memdisplay + r \in Nat /\ (k < 1 <=> k = 0)
    BY <1>1 DEF Shows
  <2>3. CASE memdisplay + r >= Size
    BY <1>1, <2>1, <2>2, <2>3 DEF Shown, Printed, Character
  <2>4. CASE ~(memdisplay + r >= Size)
    <3>1. memdisplay + r < Size
      BY <1>1, <2>2, <2>4
    <3> QED
      BY <2>1, <2>4, <3>1 DEF Shown, Printed, Character
  <2> QED
    BY <2>3, <2>4
<1> QED
  BY <1>2, <1>3 DEF Picture

-----------------------------------------------------------------------------
(* Every operation leaves it so. *)

LEMMA ShownAtFirst ==
  ASSUME WideEnough(FALSE), PanelInit
  PROVE  Shows
<1>1. 0 \in 0 .. Size - 1 /\ 0 \in Nat
  BY SizeAssumption
<1> QED
  BY <1>1, RefreshedShows DEF PanelInit, Shows

LEMMA ShownAfterRefresh ==
  ASSUME WideEnough(printDisassembly'), memdisplay' \in 0 .. Size - 1, printDisassembly' \in BOOLEAN, Refresh
  PROVE  Shows'
<1>1. memdisplay' \in Nat
  BY SizeAssumption
<1>2. Refreshed(memdisplay', printDisassembly') = Full(memdisplay', printDisassembly')
  BY <1>1, RefreshedShows
<1>3. mainmem' = Full(memdisplay', printDisassembly')
  BY <1>2 DEF Refresh
<1> QED
  BY <1>3 DEF Shows, Full, Shown, Printed, Character

\* The lines before the first one come in at the top.
LEMMA ComeInAbove ==
  ASSUME NEW old \in 0 .. Size - 1, NEW d \in BOOLEAN, WideEnough(d), NEW comeIn \in 0 .. Rows - 1,
         NEW new \in Nat, comeIn = old - new
  PROVE  DrawRows(wscrl(Full(old, d), new - old), comeIn - 1, old - 1, -1, comeIn, d) = Full(new, d)
<1> DEFINE w == wscrl(Full(old, d), new - old)
           y == comeIn - 1
           a == old - 1
           step == -1
<1>1. /\ Rows \in Nat \ {0, 1} /\ Size \in Nat \ {0} /\ Line = 0 .. Rows - 1 /\ old \in Nat
  BY SizeAssumption DEF Line
<1>2. /\ IsWindow(w)
      /\ \A r \in Line, k \in Column :
           w[r][k] = IF r + (new - old) \in Line THEN Full(old, d)[r + (new - old)][k] ELSE Blank
  <2>1. IsWindow(Full(old, d)) /\ new - old \in Int
    BY <1>1, FullWindow
  <2> QED
    BY <2>1, Moved
<1> HIDE DEF w
<1>3. ASSUME NEW r \in Line, NEW k \in Column
      PROVE  /\ w[r][k] = Blank \/ w[r][k] = Shown(new + r, k, d)
             /\ step * (r - y) \notin 0 .. comeIn - 1 => w[r][k] = Shown(new + r, k, d)
  <2> DEFINE q == r + (new - old)
  <2>1. old + q = new + r /\ (q \notin Line => r < comeIn)
    BY <1>1
  <2>2. step * (r - y) \notin 0 .. comeIn - 1 => ~(r < comeIn)
    BY <1>1
  <2>3. w[r][k] = IF q \in Line THEN Full(old, d)[q][k] ELSE Blank
    BY <1>2
  <2> HIDE DEF q, step, y
  <2>4. q \in Line => Full(old, d)[q][k] = Shown(new + r, k, d)
    <3>1. q \in Line => Full(old, d)[q][k] = Shown(old + q, k, d)
      BY <1>1, FullWindow
    <3> QED
      BY <2>1, <3>1
  <2> QED
    BY <2>1, <2>2, <2>3, <2>4
<1>4. /\ \A m \in 0 .. comeIn - 1 : y + step * m \in Line
      /\ a = new + y /\ y \in Int /\ a \in Int /\ step \in {1, -1} /\ comeIn \in Nat
  BY <1>1
<1> HIDE DEF y, a, step
<1>5. Lacks(w, y, step, comeIn, new, d)
  BY <1>3, <1>4 DEF Lacks
<1>6. DrawRows(w, y, a, step, comeIn, d) = Full(new, d)
  BY <1>2, <1>4, <1>5, Completed
<1> QED
  BY <1>6 DEF w, y, a, step

\* The line that was the last one and those that come in below it
LEMMA ComeInBelow ==
  ASSUME NEW old \in 0 .. Size - 1, NEW d \in BOOLEAN, WideEnough(d), NEW comeIn \in 0 .. Rows - 1,
         NEW new \in Nat, comeIn = new - old
  PROVE  DrawRows(wscrl(Full(old, d), comeIn), (Rows - 1) - comeIn, old + (Rows - 1), 1,
                  comeIn + 1, d) = Full(new, d)
<1> DEFINE w == wscrl(Full(old, d), comeIn)
           y == (Rows - 1) - comeIn
           a == old + (Rows - 1)
           rows == comeIn + 1
<1>1. /\ Rows \in Nat \ {0, 1} /\ Size \in Nat \ {0} /\ Line = 0 .. Rows - 1 /\ old \in Nat
  BY SizeAssumption DEF Line
<1>2. /\ IsWindow(w)
      /\ \A r \in Line, k \in Column :
           w[r][k] = IF r + comeIn \in Line THEN Full(old, d)[r + comeIn][k] ELSE Blank
  <2>1. IsWindow(Full(old, d)) /\ comeIn \in Int
    BY <1>1, FullWindow
  <2> QED
    BY <2>1, Moved
<1> HIDE DEF w
<1>3. ASSUME NEW r \in Line, NEW k \in Column
      PROVE  /\ w[r][k] = Blank \/ w[r][k] = Shown(new + r, k, d)
             /\ 1 * (r - y) \notin 0 .. rows - 1 => w[r][k] = Shown(new + r, k, d)
  <2> DEFINE q == r + comeIn
  <2>1. old + q = new + r /\ (q \notin Line => r > y)
    BY <1>1
  <2>2. 1 * (r - y) \notin 0 .. rows - 1 => ~(r > y)
    BY <1>1
  <2>3. w[r][k] = IF q \in Line THEN Full(old, d)[q][k] ELSE Blank
    BY <1>2
  <2> HIDE DEF q, y, rows
  <2>4. q \in Line => Full(old, d)[q][k] = Shown(new + r, k, d)
    <3>1. q \in Line => Full(old, d)[q][k] = Shown(old + q, k, d)
      BY <1>1, FullWindow
    <3> QED
      BY <2>1, <3>1
  <2> QED
    BY <2>1, <2>2, <2>3, <2>4
<1>4. /\ \A m \in 0 .. rows - 1 : y + 1 * m \in Line
      /\ a = new + y /\ y \in Int /\ a \in Int /\ rows \in Nat
  BY <1>1
<1> HIDE DEF y, a, rows
<1>5. Lacks(w, y, 1, rows, new, d)
  BY <1>3, <1>4 DEF Lacks
<1>6. DrawRows(w, y, a, 1, rows, d) = Full(new, d)
  BY <1>2, <1>4, <1>5, Completed
<1> QED
  BY <1>6 DEF w, y, a, rows

LEMMA ShownAfterScrollUp ==
  ASSUME WideEnough(printDisassembly), Shows, NEW lines \in 1 .. Rows - 1, scrollMemoryDisplayUp(lines)
  PROVE  Shows'
<1> DEFINE new == IF memdisplay < lines THEN 0 ELSE memdisplay - lines
           comeIn == memdisplay - new
<1>1. Rows \in Nat \ {0, 1} /\ Size \in Nat \ {0}
  BY SizeAssumption
<1>2. /\ memdisplay \in 0 .. Size - 1 /\ printDisassembly \in BOOLEAN
      /\ mainmem = Full(memdisplay, printDisassembly)
  BY DEF Shows
<1>3. new \in 0 .. Size - 1 /\ new \in Nat /\ comeIn \in 0 .. Rows - 1 /\ comeIn = memdisplay - new
  BY <1>1, <1>2
<1>4. /\ memdisplay' = new /\ printDisassembly' = printDisassembly
      /\ mainmem' = DrawRows(wscrl(mainmem, new - memdisplay), comeIn - 1, memdisplay - 1, -1,
                             comeIn, printDisassembly)
  BY DEF scrollMemoryDisplayUp
<1> HIDE DEF new, comeIn
<1>5. mainmem' = Full(new, printDisassembly)
  BY <1>2, <1>3, <1>4, ComeInAbove
<1> QED
  BY <1>2, <1>3, <1>4, <1>5 DEF Shows, Full, Shown, Printed, Character

LEMMA ShownAfterScrollDown ==
  ASSUME WideEnough(printDisassembly), Shows, NEW lines \in 1 .. Rows - 1, scrollMemoryDisplayDown(lines)
  PROVE  Shows'
<1> DEFINE new == IF memdisplay + lines > Size - 1 THEN Size - 1 ELSE memdisplay + lines
           comeIn == new - memdisplay
<1>1. Rows \in Nat \ {0, 1} /\ Size \in Nat \ {0}
  BY SizeAssumption
<1>2. /\ memdisplay \in 0 .. Size - 1 /\ printDisassembly \in BOOLEAN
      /\ mainmem = Full(memdisplay, printDisassembly)
  BY DEF Shows
<1>3. new \in 0 .. Size - 1 /\ new \in Nat /\ comeIn \in 0 .. Rows - 1 /\ comeIn = new - memdisplay
  BY <1>1, <1>2
<1>4. /\ memdisplay' = new /\ printDisassembly' = printDisassembly
      /\ mainmem' = DrawRows(wscrl(mainmem, comeIn), (Rows - 1) - comeIn, memdisplay + (Rows - 1), 1,
                             comeIn + 1, printDisassembly)
  BY DEF scrollMemoryDisplayDown
<1> HIDE DEF new, comeIn
<1>5. mainmem' = Full(new, printDisassembly)
  BY <1>2, <1>3, <1>4, ComeInBelow
<1> QED
  BY <1>2, <1>3, <1>4, <1>5 DEF Shows, Full, Shown, Printed, Character

-----------------------------------------------------------------------------
(* Every operation keeps the type, however wide the lines are. *)

LEMMA RefreshedHasSize ==
  ASSUME NEW top, NEW d
  PROVE  HasSize(Refreshed(top, d))
<1>1. Rows \in Nat
  BY SizeAssumption
<1>2. HasSize(werase)
  BY DEF HasSize, werase
<1> QED
  BY <1>1, <1>2, RowsKeepSize DEF Refreshed

LEMMA TypeAtFirst ==
  ASSUME PanelInit
  PROVE  PanelTypeOK
<1>1. 0 \in 0 .. Size - 1
  BY SizeAssumption
<1> QED
  BY <1>1, RefreshedHasSize DEF PanelInit, PanelTypeOK, HasSize

LEMMA TypeAfterRefresh ==
  ASSUME memdisplay' \in 0 .. Size - 1, printDisassembly' \in BOOLEAN, Refresh
  PROVE  PanelTypeOK'
<1>1. HasSize(Refreshed(memdisplay', printDisassembly'))
  BY RefreshedHasSize
<1>2. HasSize(mainmem')
  BY <1>1 DEF Refresh
<1> QED
  BY <1>2 DEF PanelTypeOK, HasSize, Line, Column

LEMMA TypeAfterScrollUp ==
  ASSUME PanelTypeOK, NEW lines \in Nat, scrollMemoryDisplayUp(lines)
  PROVE  PanelTypeOK'
<1> DEFINE new == IF memdisplay < lines THEN 0 ELSE memdisplay - lines
           comeIn == memdisplay - new
<1>1. /\ Size \in Nat \ {0} /\ memdisplay \in 0 .. Size - 1 /\ printDisassembly \in BOOLEAN
      /\ HasSize(mainmem)
  BY SizeAssumption DEF PanelTypeOK, HasSize
<1>2. new \in 0 .. Size - 1 /\ comeIn \in Nat
  BY <1>1
<1>3. /\ memdisplay' = new /\ printDisassembly' = printDisassembly
      /\ mainmem' = DrawRows(wscrl(mainmem, new - memdisplay), comeIn - 1, memdisplay - 1, -1,
                             comeIn, printDisassembly)
  BY DEF scrollMemoryDisplayUp
<1> HIDE DEF new, comeIn
<1>4. HasSize(mainmem')
  <2>1. HasSize(wscrl(mainmem, new - memdisplay))
    BY <1>1, MovedKeepsSize
  <2> QED
    BY <1>2, <1>3, <2>1, RowsKeepSize
<1> QED
  BY <1>1, <1>2, <1>3, <1>4 DEF PanelTypeOK, HasSize, Line, Column

LEMMA TypeAfterScrollDown ==
  ASSUME PanelTypeOK, NEW lines \in Nat, scrollMemoryDisplayDown(lines)
  PROVE  PanelTypeOK'
<1> DEFINE new == IF memdisplay + lines > Size - 1 THEN Size - 1 ELSE memdisplay + lines
           comeIn == new - memdisplay
<1>1. /\ Size \in Nat \ {0} /\ memdisplay \in 0 .. Size - 1 /\ printDisassembly \in BOOLEAN
      /\ HasSize(mainmem)
  BY SizeAssumption DEF PanelTypeOK, HasSize
<1>2. new \in 0 .. Size - 1 /\ comeIn + 1 \in Nat
  BY <1>1
<1>3. /\ memdisplay' = new /\ printDisassembly' = printDisassembly
      /\ mainmem' = DrawRows(wscrl(mainmem, comeIn), (Rows - 1) - comeIn, memdisplay + (Rows - 1), 1,
                             comeIn + 1, printDisassembly)
  BY DEF scrollMemoryDisplayDown
<1> HIDE DEF new, comeIn
<1>4. HasSize(mainmem')
  <2>1. HasSize(wscrl(mainmem, comeIn))
    BY <1>1, MovedKeepsSize
  <2> QED
    BY <1>2, <1>3, <2>1, RowsKeepSize
<1> QED
  BY <1>1, <1>2, <1>3, <1>4 DEF PanelTypeOK, HasSize, Line, Column
=============================================================================
