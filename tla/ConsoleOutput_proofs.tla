----------------------- MODULE ConsoleOutput_proofs -----------------------
(***************************************************************************)
(* Proofs about ConsoleOutput.tla, for every set of terminal sizes, every  *)
(* size the shim believes or falls back to, and every width of a tab.      *)
(***************************************************************************)
EXTENDS ConsoleOutput, TLAPS

USE OutputAssumption

\* Where both cursors are taken to be in one place the sizes are one, too, and a wrap is
\* due only in the last column.
Together ==
    /\ agreed => cur = term /\ size = termSize
    /\ term.wrap => term.col = termSize.cols - 1

\* The size the shim works with has its last cell among those it may believe in.
Fits(s) == s \in Size /\ s.cols - 1 \in Columns /\ s.rows - 1 \in Rows

IInv == TypeOK /\ Together /\ Fits(size)

\* The cells of the shim's cursor, and those of a terminal of size s.
Held == [col : Columns, row : Rows, wrap : BOOLEAN]
Cell(s) == [col : 0..(s.cols - 1), row : 0..(s.rows - 1), wrap : BOOLEAN]

\* Where a wrap may be due.
AtEdge(c, s) == c.wrap => c.col = s.cols - 1

----------------------------------------------------------------------------
\* Tab stops: the shim computes the next one, the terminal looks for it.

LEMMA DivMod ==
    ASSUME NEW c \in Nat, NEW w \in Nat \ {0}
    PROVE  c \div w \in Nat /\ c % w \in 0..(w - 1) /\ c = w * (c \div w) + (c % w)
OBVIOUS

LEMMA NextMultiple ==
    ASSUME NEW w \in Nat \ {0}, NEW p \in Nat, NEW q \in Nat, w * q > w * p
    PROVE  w * q >= w * p + w
<1>1. q > p
  OBVIOUS
<1> QED BY <1>1

LEMMA Commutes ==
    ASSUME NEW p \in Nat, NEW q \in Nat
    PROVE  p * q \in Nat /\ q * p \in Nat /\ p * q = q * p
OBVIOUS

\* The n of TermTabs is what TabStop computes.
LEMMA TabStopsAgree ==
    ASSUME NEW t \in [col : Nat, row : Nat, wrap : BOOLEAN], NEW s \in Size, t.col < s.cols
    PROVE  TermTabs(t, s) = TabStop(t, s) /\ TabStop(t, s) \in 0..(s.cols - 1)
<1> DEFINE w == TabWidth  d == t.col \div w  next == d * w + w
           stops == {n \in 1..(s.cols - 1) : n % w = 0 /\ n > t.col} \cup {s.cols - 1}
           m == IF next >= s.cols THEN s.cols - 1 ELSE next
<1>1. t.col \in Nat /\ w \in Nat \ {0} /\ s.cols \in Nat \ {0}
  BY DEF Size
<1>2. d \in Nat /\ next \in Nat /\ t.col < next /\ next <= t.col + w /\ next > 0
  <2>1. d \in Nat /\ t.col % w \in 0..(w - 1) /\ t.col = w * d + (t.col % w)
    BY <1>1, DivMod
  <2>2. w * d \in Nat /\ d * w \in Nat /\ w * d = d * w
    <3> HIDE DEF w, d
    <3> QED BY <1>1, <2>1, Commutes
  <2>3. next = d * w + w
    OBVIOUS
  <2> HIDE DEF next, w, d
  <2>4. next \in Nat /\ next = w * d + w
    BY <1>1, <2>1, <2>2, <2>3
  <2> DEFINE a == w * d  r == t.col % w
  <2>5. a \in Nat /\ r \in Nat /\ r <= w - 1 /\ t.col = a + r /\ next = a + w
    BY <1>1, <2>1, <2>2, <2>4
  <2> HIDE DEF a, r
  <2> QED BY <1>1, <2>1, <2>5
<1>3. next % w = 0
  <2>1. d + 1 \in Nat /\ next = w * (d + 1)
    BY <1>1, <1>2
  <2> HIDE DEF next, w, d
  <2>2. next \div w \in Nat /\ next % w \in 0..(w - 1) /\ next = w * (next \div w) + (next % w)
    BY <1>1, <1>2, DivMod
  <2> QED BY <1>1, <1>2, <2>1, <2>2
<1>4. \A n \in Nat : n % w = 0 /\ n > t.col => n >= next
  <2> SUFFICES ASSUME NEW n \in Nat, n % w = 0, n > t.col PROVE n >= next
    OBVIOUS
  <2>1. n \div w \in Nat /\ n = w * (n \div w) + (n % w)
    BY <1>1, DivMod
  <2>2. t.col >= w * d
    <3>1. d \in Nat /\ t.col % w \in 0..(w - 1) /\ t.col = w * d + (t.col % w)
      BY <1>1, DivMod
    <3> HIDE DEF d, w
    <3> DEFINE a == w * d  r == t.col % w
    <3>2. a \in Nat /\ r \in Nat /\ t.col = a + r
      BY <1>1, <3>1, Commutes
    <3> HIDE DEF a, r
    <3>3. t.col >= a
      BY <1>1, <3>2
    <3> QED BY <3>3 DEF a
  <2> DEFINE q == n \div w
  <2>3. q \in Nat /\ n = w * q
    BY <1>1, <2>1
  <2> HIDE DEF q, d, w
  <2>4. w * d \in Nat /\ w * q > w * d
    BY <1>1, <1>2, <2>2, <2>3
  <2>5. w * q >= w * d + w
    BY <1>1, <1>2, <2>3, <2>4, NextMultiple
  <2>6. next = w * d + w
    BY <1>1, <1>2 DEF w
  <2> QED BY <2>3, <2>5, <2>6
<1> HIDE DEF next, w, d
<1>5. m \in stops /\ \A n \in stops : m <= n
  BY <1>1, <1>2, <1>3, <1>4
<1>6. \A n \in stops : (\A k \in stops : n <= k) => n = m
  <2>1. stops \subseteq Nat
    BY <1>1
  <2> QED BY <1>5, <2>1
<1>7. TermTabs(t, s) = CHOOSE n \in stops : \A k \in stops : n <= k
  BY DEF TermTabs, w
<1> HIDE DEF stops
<1>8. TermTabs(t, s) = m
  BY <1>5, <1>6, <1>7
<1>9. TabStop(t, s) = m /\ m \in 0..(s.cols - 1)
  BY <1>1, <1>2 DEF TabStop, next, w, d
<1> QED BY <1>8, <1>9

\* From the last column, the last column is the only stop.
LEMMA LastStop ==
    ASSUME NEW t \in [col : Nat, row : Nat, wrap : BOOLEAN], NEW s \in Size,
           t.col = s.cols - 1
    PROVE  TermTabs(t, s) = s.cols - 1
<1> DEFINE stops == {n \in 1..(s.cols - 1) : n % TabWidth = 0 /\ n > t.col} \cup {s.cols - 1}
<1>1. stops = {s.cols - 1}
  BY DEF Size
<1>2. TermTabs(t, s) = CHOOSE n \in stops : \A k \in stops : n <= k
  BY DEF TermTabs
<1>3. s.cols - 1 \in Nat
  BY DEF Size
<1> HIDE DEF stops
<1> QED BY <1>1, <1>2, <1>3

----------------------------------------------------------------------------
\* Sizes and cells.

LEMMA Below ==
    /\ Columns \subseteq Nat /\ Rows \subseteq Nat
    /\ 0 \in Columns /\ 0 \in Rows
    /\ \A c \in Columns, n \in Nat : n <= c => n \in Columns
    /\ \A r \in Rows, n \in Nat : n <= r => n \in Rows
<1>1. DefaultSize \in Believed /\ \A s \in Believed : s \in Size
  BY DEF Believed
<1>2. \A c : c \in Columns <=> \E s \in Believed : c \in 0..(s.cols - 1)
  BY DEF Columns
<1>3. \A r : r \in Rows <=> \E s \in Believed : r \in 0..(s.rows - 1)
  BY DEF Rows
<1>4. \A s \in Believed : s.cols \in Nat \ {0} /\ s.rows \in Nat \ {0}
  BY <1>1 DEF Size
<1>5. Columns \subseteq Nat /\ 0 \in Columns
        /\ \A c \in Columns, n \in Nat : n <= c => n \in Columns
  BY <1>1, <1>2, <1>4
<1>6. Rows \subseteq Nat /\ 0 \in Rows
        /\ \A r \in Rows, n \in Nat : n <= r => n \in Rows
  BY <1>1, <1>3, <1>4
<1> QED BY <1>5, <1>6

LEMMA WindowFits ==
    ASSUME NEW s \in Sizes
    PROVE  Fits(WindowSize(s))
<1>1. s \in Believed /\ DefaultSize \in Believed /\ s \in Size /\ DefaultSize \in Size
        /\ MinSize \in Size
  BY DEF Believed
<1>2. \A t \in Believed : t \in Size => t.cols - 1 \in 0..(t.cols - 1) /\ t.rows - 1 \in 0..(t.rows - 1)
  BY DEF Size
<1>3. \A t \in {s, DefaultSize} : t.cols - 1 \in Columns /\ t.rows - 1 \in Rows
  BY <1>1, <1>2 DEF Columns, Rows
<1>4. WindowSize(s).cols \in {s.cols, DefaultSize.cols}
        /\ WindowSize(s).rows \in {s.rows, DefaultSize.rows}
  BY DEF WindowSize
<1>5. WindowSize(s) \in Size
  BY <1>1 DEF WindowSize, Size
<1> QED BY <1>3, <1>4, <1>5 DEF Fits

LEMMA SameCursor ==
    ASSUME NEW a \in Cursors, NEW b \in Cursors,
           a.col = b.col, a.row = b.row, a.wrap = b.wrap
    PROVE  a = b
BY DEF Cursors

LEMMA CellFields ==
    ASSUME NEW s \in Size, NEW t \in Cell(s)
    PROVE  /\ s.cols \in Nat \ {0} /\ s.rows \in Nat \ {0}
           /\ t.col \in Nat /\ t.col < s.cols /\ t.row \in Nat /\ t.row < s.rows
           /\ t.wrap \in BOOLEAN
           /\ t = [col |-> t.col, row |-> t.row, wrap |-> t.wrap]
           /\ t \in Cursors
BY DEF Size, Cell, Cursors

LEMMA HeldFields ==
    ASSUME NEW c \in Held
    PROVE  /\ c.col \in Columns /\ c.col \in Nat /\ c.row \in Rows /\ c.row \in Nat
           /\ c.wrap \in BOOLEAN
           /\ c = [col |-> c.col, row |-> c.row, wrap |-> c.wrap]
BY Below DEF Held

----------------------------------------------------------------------------
\* The shim's cursor stays among the cells it may believe in, whatever it was.

LEMMA RowDownHeld ==
    ASSUME NEW s, Fits(s), NEW c \in Held
    PROVE  RowDown(c, s) \in Rows
<1>1. s.rows \in Nat \ {0} /\ s.rows - 1 \in Rows
  BY DEF Fits, Size
<1> QED BY <1>1, Below, HeldFields DEF RowDown

LEMMA LinefeedHeld ==
    ASSUME NEW s, Fits(s), NEW c \in Held
    PROVE  AfterLinefeed(c, s) \in Held
BY RowDownHeld, Below DEF AfterLinefeed, Held

LEMMA ReturnHeld ==
    ASSUME NEW s, NEW c \in Held
    PROVE  AfterReturn(c, s) \in Held
BY Below DEF AfterReturn, Held

LEMMA BackspaceHeld ==
    ASSUME NEW s, NEW c \in Held
    PROVE  AfterBackspace(c, s) \in Held
<1>1. c.col > 0 => c.col - 1 \in Columns
  BY Below, HeldFields
<1>2. (IF c.col > 0 THEN c.col - 1 ELSE c.col) \in Columns
  BY <1>1, HeldFields
<1> QED BY <1>2 DEF AfterBackspace, Held

LEMMA TabHeld ==
    ASSUME NEW s, Fits(s), NEW c \in Held
    PROVE  AfterTab(c, s) \in Held
<1>1. s.cols \in Nat \ {0} /\ s.cols - 1 \in Columns /\ c.col \in Nat
  BY HeldFields DEF Fits, Size
<1>2. TabStop(c, s) \in Nat /\ TabStop(c, s) <= s.cols - 1
  <2> DEFINE d == c.col \div TabWidth  n == d * TabWidth + TabWidth
  <2>1. d \in Nat
    BY <1>1, DivMod
  <2> HIDE DEF d
  <2>2. n \in Nat
    BY <2>1, Commutes
  <2>3. TabStop(c, s) = IF n >= s.cols THEN s.cols - 1 ELSE n
    BY DEF TabStop, d
  <2> HIDE DEF n
  <2> QED BY <1>1, <2>2, <2>3
<1>3. TabStop(c, s) \in Columns
  BY <1>1, <1>2, Below
<1> QED BY <1>3 DEF AfterTab, Held

LEMMA PrintableHeld ==
    ASSUME NEW s, Fits(s), NEW c \in Held
    PROVE  AfterPrintable(c, s) \in Held
<1> DEFINE d == IF c.wrap THEN AfterLinefeed(c, s) ELSE c
<1>1. d \in Held
  BY LinefeedHeld
<1>2. s.cols \in Nat \ {0} /\ s.cols - 1 \in Columns
  BY DEF Fits, Size
<1>3. AfterPrintable(c, s) = IF d.col + 1 >= s.cols
                             THEN [d EXCEPT !.col = s.cols - 1, !.wrap = TRUE]
                             ELSE [d EXCEPT !.col = @ + 1]
  BY DEF AfterPrintable
<1> HIDE DEF d
<1>4. d.col + 1 < s.cols => d.col + 1 \in Columns
  BY <1>1, <1>2, Below, HeldFields
<1>5. d.col \in Nat
  BY <1>1, HeldFields
<1>6. [d EXCEPT !.col = s.cols - 1, !.wrap = TRUE] \in Held
  BY <1>1, <1>2 DEF Held
<1>7. d.col + 1 < s.cols => [d EXCEPT !.col = @ + 1] \in Held
  BY <1>1, <1>4 DEF Held
<1> QED BY <1>2, <1>3, <1>5, <1>6, <1>7

----------------------------------------------------------------------------
\* The terminal's cursor stays on its screen, with a wrap due only at its edge.

LEMMA ClampOn ==
    ASSUME NEW n \in Nat, NEW limit \in Nat \ {0}
    PROVE  Clamp(n, limit) \in 0..(limit - 1)
BY DEF Clamp

LEMMA HomeOn ==
    ASSUME NEW s \in Size
    PROVE  Home \in Cell(s) /\ AtEdge(Home, s) /\ Home \in Held
BY Below DEF Home, Cell, AtEdge, Size, Held

LEMMA TermReturnsOn ==
    ASSUME NEW s \in Size, NEW t \in Cell(s)
    PROVE  TermReturns(t) \in Cell(s) /\ AtEdge(TermReturns(t), s)
BY CellFields DEF TermReturns, Cell, AtEdge

LEMMA TermLinefeedsOn ==
    ASSUME NEW s \in Size, NEW t \in Cell(s)
    PROVE  TermLinefeeds(t, s) \in Cell(s) /\ AtEdge(TermLinefeeds(t, s), s)
<1>0. /\ s.cols \in Nat \ {0} /\ s.rows \in Nat \ {0}
      /\ t.col \in Nat /\ t.col < s.cols /\ t.row \in Nat /\ t.row < s.rows
      /\ t.wrap \in BOOLEAN
  BY CellFields
<1>t. t \in Cursors
  BY CellFields
<1>1. t.row + 1 \in Nat
  BY <1>0
<1>2. Clamp(t.row + 1, s.rows) \in 0..(s.rows - 1)
  BY <1>0, <1>1, ClampOn
<1>3. TermLinefeeds(t, s) = [col |-> t.col, row |-> Clamp(t.row + 1, s.rows), wrap |-> FALSE]
  <2> DEFINE u == [t EXCEPT !.row = Clamp(t.row + 1, s.rows), !.wrap = FALSE]
             v == [col |-> t.col, row |-> Clamp(t.row + 1, s.rows), wrap |-> FALSE]
  <2>1. Clamp(t.row + 1, s.rows) \in Nat
    BY <1>0, <1>2
  <2>2. u \in Cursors /\ v \in Cursors /\ u.col = v.col /\ u.row = v.row /\ u.wrap = v.wrap
    BY <1>t, <1>0, <2>1 DEF Cursors
  <2> HIDE DEF u, v
  <2>3. u = v
    BY <2>2, SameCursor
  <2> QED BY <2>3 DEF TermLinefeeds, u, v
<1> QED BY <1>0, <1>2, <1>3 DEF Cell, AtEdge

LEMMA TermPrintsOn ==
    ASSUME NEW s \in Size, NEW t \in Cell(s), AtEdge(t, s)
    PROVE  TermPrints(t, s) \in Cell(s) /\ AtEdge(TermPrints(t, s), s)
<1>0. /\ s.cols \in Nat \ {0} /\ s.rows \in Nat \ {0}
      /\ t.col \in Nat /\ t.col < s.cols /\ t.row \in Nat /\ t.row < s.rows
      /\ t.wrap \in BOOLEAN
  BY CellFields
<1>t. t \in Cursors
  BY CellFields
<1>1. t.row + 1 \in Nat /\ t.col + 1 \in Nat
  BY <1>0
<1>2. Clamp(t.row + 1, s.rows) \in 0..(s.rows - 1) /\ Clamp(t.col + 1, s.cols) \in 0..(s.cols - 1)
  BY <1>0, <1>1, ClampOn
<1>3. CASE t.wrap /\ s.cols = 1
  <2>1. TermPrints(t, s) = [col |-> 0, row |-> Clamp(t.row + 1, s.rows), wrap |-> TRUE]
    BY <1>3 DEF TermPrints
  <2> QED BY <1>0, <1>2, <1>3, <2>1 DEF Cell, AtEdge
<1>4. CASE t.wrap /\ s.cols # 1
  <2>1. TermPrints(t, s) = [col |-> 1, row |-> Clamp(t.row + 1, s.rows), wrap |-> FALSE]
    BY <1>4 DEF TermPrints
  <2> QED BY <1>0, <1>2, <1>4, <2>1 DEF Cell, AtEdge
<1>5. CASE ~t.wrap
  <2>1. t.col = s.cols - 1 => Clamp(t.col + 1, s.cols) = s.cols - 1
    BY <1>0 DEF Clamp
  <2>2. TermPrints(t, s) = [col |-> Clamp(t.col + 1, s.cols), row |-> t.row,
                            wrap |-> t.col = s.cols - 1]
    BY <1>5 DEF TermPrints
  <2> QED BY <1>0, <1>2, <2>1, <2>2 DEF Cell, AtEdge
<1> QED BY <1>0, <1>3, <1>4, <1>5

----------------------------------------------------------------------------
\* On one screen, from one cell, the shim's arithmetic does what the terminal does.

LEMMA SameLinefeed ==
    ASSUME NEW s \in Size, NEW t \in Cell(s)
    PROVE  AfterLinefeed(t, s) = TermLinefeeds(TermReturns(t), s)
<1>0. /\ s.cols \in Nat \ {0} /\ s.rows \in Nat \ {0}
      /\ t.col \in Nat /\ t.col < s.cols /\ t.row \in Nat /\ t.row < s.rows
      /\ t.wrap \in BOOLEAN
  BY CellFields
<1>t. t \in Cursors
  BY CellFields
<1>1. RowDown(t, s) = Clamp(t.row + 1, s.rows)
  BY <1>0 DEF RowDown, Clamp
<1> DEFINE u == [TermReturns(t) EXCEPT !.row = Clamp(t.row + 1, s.rows), !.wrap = FALSE]
           v == [col |-> 0, row |-> Clamp(t.row + 1, s.rows), wrap |-> FALSE]
<1>2. Clamp(t.row + 1, s.rows) \in Nat /\ TermReturns(t) \in Cursors
  BY <1>0 DEF Clamp, TermReturns, Cursors
<1>3. u \in Cursors /\ v \in Cursors /\ u.col = v.col /\ u.row = v.row /\ u.wrap = v.wrap
  BY <1>0, <1>2 DEF Cursors, TermReturns
<1>4. TermReturns(t).row = t.row
  BY DEF TermReturns
<1>5. TermLinefeeds(TermReturns(t), s) = u
  BY <1>4 DEF TermLinefeeds
<1>6. AfterLinefeed(t, s) = v
  BY <1>1 DEF AfterLinefeed
<1> HIDE DEF u, v
<1>7. u = v
  BY <1>3, SameCursor
<1> QED BY <1>5, <1>6, <1>7

LEMMA SameReturn ==
    ASSUME NEW s \in Size, NEW t \in Cell(s)
    PROVE  AfterReturn(t, s) = TermReturns(t)
<1>0. /\ s.cols \in Nat \ {0} /\ s.rows \in Nat \ {0}
      /\ t.col \in Nat /\ t.col < s.cols /\ t.row \in Nat /\ t.row < s.rows
      /\ t.wrap \in BOOLEAN
  BY CellFields
<1>t. t \in Cursors
  BY CellFields
<1>1. AfterReturn(t, s) = [col |-> 0, row |-> t.row, wrap |-> FALSE]
  <2> DEFINE u == [t EXCEPT !.col = 0, !.wrap = FALSE]
             v == [col |-> 0, row |-> t.row, wrap |-> FALSE]
  <2>1. u \in Cursors /\ v \in Cursors /\ u.col = v.col /\ u.row = v.row /\ u.wrap = v.wrap
    BY <1>t, <1>0 DEF Cursors
  <2> HIDE DEF u, v
  <2>2. u = v
    BY <2>1, SameCursor
  <2> QED BY <2>2 DEF AfterReturn, u, v
<1> QED BY <1>1 DEF TermReturns

LEMMA SamePrintable ==
    ASSUME NEW s \in Size, NEW t \in Cell(s), AtEdge(t, s)
    PROVE  AfterPrintable(t, s) = TermPrints(t, s)
<1>0. /\ s.cols \in Nat \ {0} /\ s.rows \in Nat \ {0}
      /\ t.col \in Nat /\ t.col < s.cols /\ t.row \in Nat /\ t.row < s.rows
      /\ t.wrap \in BOOLEAN
  BY CellFields
<1>t. t \in Cursors
  BY CellFields
<1>1. RowDown(t, s) = Clamp(t.row + 1, s.rows)
  BY <1>0 DEF RowDown, Clamp
<1>2. CASE t.wrap
  <2> DEFINE d == AfterLinefeed(t, s)
  <2>1. d = [col |-> 0, row |-> Clamp(t.row + 1, s.rows), wrap |-> FALSE]
    BY <1>1 DEF AfterLinefeed
  <2>0. Clamp(t.row + 1, s.rows) \in Nat /\ d \in Cursors
    BY <1>0, <2>1 DEF Clamp, Cursors
  <2>2. AfterPrintable(t, s) = IF d.col + 1 >= s.cols
                               THEN [d EXCEPT !.col = s.cols - 1, !.wrap = TRUE]
                               ELSE [d EXCEPT !.col = d.col + 1]
    BY <1>2 DEF AfterPrintable
  <2> HIDE DEF d
  <2>3. CASE s.cols = 1
    <3>0. (s.cols = 1) = TRUE
      BY <2>3
    <3>1. TermPrints(t, s) = [col |-> 0, row |-> Clamp(t.row + 1, s.rows), wrap |-> TRUE]
      BY <1>2, <3>0 DEF TermPrints
    <3> DEFINE u == [d EXCEPT !.col = s.cols - 1, !.wrap = TRUE]
    <3>4. AfterPrintable(t, s) = u
      BY <1>0, <2>1, <2>2, <2>3
    <3>5. TermPrints(t, s) = [col |-> 0, row |-> Clamp(t.row + 1, s.rows), wrap |-> TRUE]
      BY <3>1
    <3>6. s.cols - 1 \in Nat /\ s.cols - 1 = 0
      BY <1>0, <2>3
    <3>7. u \in Cursors
      BY <2>0, <3>6 DEF Cursors
    <3>8. TermPrints(t, s) \in Cursors
      BY <2>0, <2>1, <3>5, <3>6 DEF Cursors
    <3>9. u.col = TermPrints(t, s).col /\ u.row = TermPrints(t, s).row
            /\ u.wrap = TermPrints(t, s).wrap
      BY <2>0, <2>1, <3>5, <3>6 DEF Cursors
    <3> HIDE DEF u
    <3> QED BY <3>4, <3>7, <3>8, <3>9, SameCursor
  <2>4. CASE s.cols # 1
    <3>1. ~(d.col + 1 >= s.cols)
      BY <1>0, <2>1, <2>4
    <3>0. (s.cols = 1) = FALSE
      BY <2>4
    <3>2. TermPrints(t, s) = [col |-> 1, row |-> Clamp(t.row + 1, s.rows), wrap |-> FALSE]
      BY <1>2, <3>0 DEF TermPrints
    <3> DEFINE u == [d EXCEPT !.col = d.col + 1]
    <3>4. AfterPrintable(t, s) = u
      BY <2>2, <3>1
    <3>5. TermPrints(t, s) = [col |-> 1, row |-> Clamp(t.row + 1, s.rows), wrap |-> FALSE]
      BY <3>2
    <3>6. d.col + 1 \in Nat /\ d.col + 1 = 1
      BY <2>1
    <3>7. u \in Cursors
      BY <2>0, <3>6 DEF Cursors
    <3>8. TermPrints(t, s) \in Cursors
      BY <2>0, <2>1, <3>5, <3>6 DEF Cursors
    <3>9. u.col = TermPrints(t, s).col /\ u.row = TermPrints(t, s).row
            /\ u.wrap = TermPrints(t, s).wrap
      BY <2>0, <2>1, <3>5, <3>6 DEF Cursors
    <3> HIDE DEF u
    <3> QED BY <3>4, <3>7, <3>8, <3>9, SameCursor
  <2> QED BY <2>3, <2>4
<1>3. CASE ~t.wrap
  <2>1. AfterPrintable(t, s) = IF t.col + 1 >= s.cols
                               THEN [t EXCEPT !.col = s.cols - 1, !.wrap = TRUE]
                               ELSE [t EXCEPT !.col = t.col + 1]
    BY <1>3 DEF AfterPrintable
  <2>2. TermPrints(t, s) = [col |-> Clamp(t.col + 1, s.cols), row |-> t.row,
                            wrap |-> t.col = s.cols - 1]
    BY <1>3 DEF TermPrints
  <2>3. CASE t.col + 1 >= s.cols
    <3>1. t.col = s.cols - 1 /\ Clamp(t.col + 1, s.cols) = s.cols - 1
      BY <1>0, <2>3 DEF Clamp
    <3>2. (t.col = s.cols - 1) = TRUE
      BY <3>1
    <3> DEFINE u == [t EXCEPT !.col = s.cols - 1, !.wrap = TRUE]
    <3>4. AfterPrintable(t, s) = u
      BY <2>1, <2>3
    <3>5. TermPrints(t, s) = [col |-> s.cols - 1, row |-> t.row, wrap |-> TRUE]
      BY <2>2, <3>1, <3>2
    <3>6. s.cols - 1 \in Nat
      BY <1>0
    <3>7. u \in Cursors
      BY <1>t, <3>6 DEF Cursors
    <3>8. TermPrints(t, s) \in Cursors
      BY <1>0, <3>5, <3>6 DEF Cursors
    <3>9. u.col = TermPrints(t, s).col /\ u.row = TermPrints(t, s).row
            /\ u.wrap = TermPrints(t, s).wrap
      BY <1>t, <3>5, <3>6 DEF Cursors
    <3> HIDE DEF u
    <3> QED BY <3>4, <3>7, <3>8, <3>9, SameCursor
  <2>4. CASE ~(t.col + 1 >= s.cols)
    <3>1. t.col # s.cols - 1 /\ Clamp(t.col + 1, s.cols) = t.col + 1
      BY <1>0, <2>4 DEF Clamp
    <3>2. t.wrap = FALSE /\ (t.col = s.cols - 1) = FALSE
      BY <1>0, <1>3, <3>1
    <3>3. AfterPrintable(t, s) = [t EXCEPT !.col = t.col + 1]
      BY <2>1, <2>4
    <3> DEFINE u == [t EXCEPT !.col = t.col + 1]
    <3>4. AfterPrintable(t, s) = u
      BY <3>3
    <3>5. TermPrints(t, s) = [col |-> t.col + 1, row |-> t.row, wrap |-> FALSE]
      BY <2>2, <3>1, <3>2
    <3>6. t.col + 1 \in Nat
      BY <1>0
    <3>7. u \in Cursors
      BY <1>t, <3>6 DEF Cursors
    <3>8. TermPrints(t, s) \in Cursors
      BY <1>0, <3>5, <3>6 DEF Cursors
    <3>w. u.wrap = FALSE
      <4>1. t.wrap = FALSE
        BY <3>2
      <4> QED BY <1>t, <4>1 DEF Cursors
    <3>c. u.col = t.col + 1 /\ u.row = t.row
      BY <1>t, <3>6 DEF Cursors
    <3>9. u.col = TermPrints(t, s).col /\ u.row = TermPrints(t, s).row
            /\ u.wrap = TermPrints(t, s).wrap
      <4> HIDE DEF u
      <4>1. TermPrints(t, s).col = t.col + 1 /\ TermPrints(t, s).row = t.row
        BY <3>5
      <4>2. TermPrints(t, s).wrap = FALSE
        BY <3>5
      <4>3. u.wrap = TermPrints(t, s).wrap
        BY <3>w, <4>2, Zenon
      <4> QED BY <3>c, <4>1, <4>3
    <3> HIDE DEF u
    <3> QED BY <3>4, <3>7, <3>8, <3>9, SameCursor
  <2> QED BY <2>3, <2>4
<1> QED BY <1>2, <1>3

----------------------------------------------------------------------------
\* The inductive invariant: what it says, and what a step that leaves the terminal's
\* size alone must show.

LEMMA InvFacts ==
    ASSUME IInv
    PROVE  /\ termSize \in Size /\ Fits(size) /\ cur \in Held /\ term \in Cell(termSize)
           /\ AtEdge(term, termSize) /\ agreed \in BOOLEAN
           /\ agreed => cur = term /\ size = termSize
BY DEF IInv, TypeOK, Together, Held, Cell, AtEdge

LEMMA NextInv ==
    ASSUME IInv, cur' \in Held, term' \in Cell(termSize), AtEdge(term', termSize),
           agreed' \in BOOLEAN, agreed' => cur' = term' /\ size' = termSize,
           Fits(size'), termSize' = termSize, reported' \in Sizes
    PROVE  IInv'
<1>1. TypeOK'
  BY DEF IInv, TypeOK, Held, Cell, Fits
<1>2. Together'
  BY DEF Together, AtEdge
<1>3. Fits(size)'
  BY DEF Fits, Columns, Rows, Believed
<1> QED BY <1>1, <1>2, <1>3 DEF IInv

LEMMA InitInv ==
    ASSUME Init
    PROVE  IInv
<1>1. termSize \in Sizes /\ termSize \in Size /\ reported \in Sizes /\ agreed = FALSE
  BY DEF Init
<1>2. Fits(size)
  BY <1>1, WindowFits DEF Init
<1>3. cur \in Held
  BY <1>1, HomeOn DEF Init
<1>4. term \in Cell(termSize) /\ ~term.wrap
  <2>1. PICK r \in 0..(termSize.rows - 1) : term = [col |-> 0, row |-> r, wrap |-> FALSE]
    BY DEF Init
  <2>2. 0 \in 0..(termSize.cols - 1)
    BY <1>1 DEF Size
  <2> QED BY <2>1, <2>2 DEF Cell
<1> QED BY <1>1, <1>2, <1>3, <1>4 DEF IInv, TypeOK, Together, Held, Cell, Fits

LEMMA OutputLinefeedStep ==
    ASSUME IInv, OutputLinefeed
    PROVE  IInv'
<1>0. /\ termSize \in Size /\ Fits(size) /\ cur \in Held /\ term \in Cell(termSize)
      /\ AtEdge(term, termSize) /\ agreed \in BOOLEAN
      /\ agreed => cur = term /\ size = termSize
  BY InvFacts
<1>1. cur' \in Held
  BY <1>0, LinefeedHeld DEF OutputLinefeed
<1>2. term' \in Cell(termSize) /\ AtEdge(term', termSize)
  BY <1>0, TermReturnsOn, TermLinefeedsOn DEF OutputLinefeed
<1>3. agreed' \in BOOLEAN /\ (agreed' => cur' = term' /\ size' = termSize)
  BY <1>0, SameLinefeed DEF OutputLinefeed
<1>4. Fits(size') /\ termSize' = termSize /\ reported' \in Sizes
  BY <1>0 DEF OutputLinefeed, IInv, TypeOK
<1> QED BY <1>1, <1>2, <1>3, <1>4, NextInv

LEMMA OutputReturnStep ==
    ASSUME IInv, OutputReturn
    PROVE  IInv'
<1>0. /\ termSize \in Size /\ Fits(size) /\ cur \in Held /\ term \in Cell(termSize)
      /\ AtEdge(term, termSize) /\ agreed \in BOOLEAN
      /\ agreed => cur = term /\ size = termSize
  BY InvFacts
<1>1. cur' \in Held
  BY <1>0, ReturnHeld DEF OutputReturn
<1>2. term' \in Cell(termSize) /\ AtEdge(term', termSize)
  BY <1>0, TermReturnsOn DEF OutputReturn
<1>3. agreed' \in BOOLEAN /\ (agreed' => cur' = term' /\ size' = termSize)
  BY <1>0, SameReturn DEF OutputReturn
<1>4. Fits(size') /\ termSize' = termSize /\ reported' \in Sizes
  BY <1>0 DEF OutputReturn, IInv, TypeOK
<1> QED BY <1>1, <1>2, <1>3, <1>4, NextInv

LEMMA OutputBackspaceStep ==
    ASSUME IInv, OutputBackspace
    PROVE  IInv'
<1>0. /\ termSize \in Size /\ Fits(size) /\ cur \in Held /\ term \in Cell(termSize)
      /\ AtEdge(term, termSize) /\ agreed \in BOOLEAN
      /\ agreed => cur = term /\ size = termSize
  BY InvFacts
<1>1. cur' \in Held
  BY <1>0, BackspaceHeld DEF OutputBackspace
<1>2. term' \in Cell(termSize) /\ AtEdge(term', termSize)
  <2>1. CASE cur.col > 0
    <3>1. term' = [term EXCEPT !.col = IF @ > 0 THEN @ - 1 ELSE @, !.wrap = FALSE]
      BY <2>1 DEF OutputBackspace
    <3>2. (IF term.col > 0 THEN term.col - 1 ELSE term.col) \in 0..(termSize.cols - 1)
      BY <1>0, CellFields
    <3> QED BY <1>0, <3>1, <3>2 DEF Cell, AtEdge
  <2>2. CASE ~(cur.col > 0)
    BY <1>0, <2>2 DEF OutputBackspace
  <2> QED BY <2>1, <2>2
<1>3. agreed' \in BOOLEAN /\ (agreed' => cur' = term' /\ size' = termSize)
  <2>1. agreed' \in BOOLEAN /\ size' = size /\ (agreed' => agreed /\ (cur.wrap => cur.col > 0))
    BY <1>0, HeldFields DEF OutputBackspace
  <2>2. ASSUME agreed, cur.wrap => cur.col > 0 PROVE cur' = term'
    <3>1. cur = term /\ cur \in Cursors
      BY <1>0, <2>2, CellFields
    <3>2. CASE cur.col > 0
      BY <3>1, <3>2 DEF OutputBackspace, AfterBackspace
    <3>3. CASE ~(cur.col > 0)
      <4>1. cur' = [cur EXCEPT !.col = cur.col, !.wrap = FALSE] /\ term' = term
        BY <3>3 DEF OutputBackspace, AfterBackspace
      <4>2. cur.wrap = FALSE
        BY <1>0, <2>2, <3>3, HeldFields
      <4> DEFINE u == [cur EXCEPT !.col = cur.col, !.wrap = FALSE]
      <4>3. u \in Cursors /\ u.col = cur.col /\ u.row = cur.row /\ u.wrap = cur.wrap
        BY <3>1, <4>2 DEF Cursors
      <4>4. cur' = u
        BY <4>1
      <4> HIDE DEF u
      <4> QED BY <3>1, <4>1, <4>3, <4>4, SameCursor
    <3> QED BY <3>2, <3>3
  <2> QED BY <1>0, <2>1, <2>2
<1>4. Fits(size') /\ termSize' = termSize /\ reported' \in Sizes
  BY <1>0 DEF OutputBackspace, IInv, TypeOK
<1> QED BY <1>1, <1>2, <1>3, <1>4, NextInv

LEMMA OutputTabStep ==
    ASSUME IInv, OutputTab
    PROVE  IInv'
<1>0. /\ termSize \in Size /\ Fits(size) /\ cur \in Held /\ term \in Cell(termSize)
      /\ AtEdge(term, termSize) /\ agreed \in BOOLEAN
      /\ agreed => cur = term /\ size = termSize
  BY InvFacts
<1>s. term.col < termSize.cols
  BY <1>0, CellFields
<1>1. cur' \in Held
  BY <1>0, TabHeld DEF OutputTab
<1>2. term' \in Cell(termSize) /\ AtEdge(term', termSize)
  <2>1. PICK keeps \in BOOLEAN :
           term' = [term EXCEPT !.col = TermTabs(term, termSize), !.wrap = term.wrap /\ keeps]
    BY DEF OutputTab
  <2>2. TermTabs(term, termSize) \in 0..(termSize.cols - 1)
    BY <1>0, <1>s, TabStopsAgree, CellFields DEF Cursors
  <2>3. term.wrap => TermTabs(term, termSize) = termSize.cols - 1
    <3> SUFFICES ASSUME term.wrap PROVE TermTabs(term, termSize) = termSize.cols - 1
      OBVIOUS
    <3>1. term.col = termSize.cols - 1
      BY <1>0 DEF AtEdge
    <3> QED BY <1>0, <3>1, LastStop, CellFields DEF Cursors
  <2>4. (term.wrap /\ keeps) \in BOOLEAN /\ ((term.wrap /\ keeps) => term.wrap)
    OBVIOUS
  <2>5. term'.col = TermTabs(term, termSize) /\ (term'.wrap => term.wrap)
    BY <1>0, <2>1 DEF Cell
  <2>6. term' \in Cell(termSize)
    BY <1>0, <2>1, <2>2, <2>4 DEF Cell
  <2> QED BY <2>3, <2>5, <2>6 DEF AtEdge
<1>3. agreed' \in BOOLEAN /\ (agreed' => cur' = term' /\ size' = termSize)
  <2>1. agreed' \in BOOLEAN /\ size' = size /\ (agreed' => agreed /\ ~term.wrap)
    BY <1>0 DEF OutputTab
  <2>2. ASSUME agreed, ~term.wrap PROVE cur' = term'
    <3>1. cur = term /\ size = termSize /\ TermTabs(term, termSize) = TabStop(term, termSize)
      BY <1>0, <1>s, <2>2, TabStopsAgree, CellFields DEF Cursors
    <3>2. cur' = [term EXCEPT !.col = TabStop(term, termSize), !.wrap = FALSE]
      BY <3>1 DEF OutputTab, AfterTab
    <3>3. term' = [term EXCEPT !.col = TabStop(term, termSize), !.wrap = FALSE]
      BY <2>2, <3>1 DEF OutputTab
    <3> QED BY <3>2, <3>3
  <2> QED BY <1>0, <2>1, <2>2
<1>4. Fits(size') /\ termSize' = termSize /\ reported' \in Sizes
  BY <1>0 DEF OutputTab, IInv, TypeOK
<1> QED BY <1>1, <1>2, <1>3, <1>4, NextInv

LEMMA OutputControlStep ==
    ASSUME IInv, NEW moves \in BOOLEAN, OutputControl(moves)
    PROVE  IInv'
<1>0. /\ termSize \in Size /\ Fits(size) /\ cur \in Held /\ term \in Cell(termSize)
      /\ AtEdge(term, termSize) /\ agreed \in BOOLEAN
      /\ agreed => cur = term /\ size = termSize
  BY InvFacts
<1>1. cur' \in Held
  BY <1>0 DEF OutputControl, AfterControl
<1>2. term' \in Cell(termSize) /\ AtEdge(term', termSize)
  BY <1>0, TermLinefeedsOn DEF OutputControl, TermControls
<1>3. agreed' \in BOOLEAN /\ (agreed' => cur' = term' /\ size' = termSize)
  BY <1>0 DEF OutputControl, AfterControl, TermControls
<1>4. Fits(size') /\ termSize' = termSize /\ reported' \in Sizes
  BY <1>0 DEF OutputControl, IInv, TypeOK
<1> QED BY <1>1, <1>2, <1>3, <1>4, NextInv

LEMMA OutputPrintableStep ==
    ASSUME IInv, OutputPrintable
    PROVE  IInv'
<1>0. /\ termSize \in Size /\ Fits(size) /\ cur \in Held /\ term \in Cell(termSize)
      /\ AtEdge(term, termSize) /\ agreed \in BOOLEAN
      /\ agreed => cur = term /\ size = termSize
  BY InvFacts
<1>1. cur' \in Held
  BY <1>0, PrintableHeld DEF OutputPrintable
<1>2. term' \in Cell(termSize) /\ AtEdge(term', termSize)
  BY <1>0, TermPrintsOn DEF OutputPrintable
<1>3. agreed' \in BOOLEAN /\ (agreed' => cur' = term' /\ size' = termSize)
  BY <1>0, SamePrintable DEF OutputPrintable
<1>4. Fits(size') /\ termSize' = termSize /\ reported' \in Sizes
  BY <1>0 DEF OutputPrintable, IInv, TypeOK
<1> QED BY <1>1, <1>2, <1>3, <1>4, NextInv

LEMMA ClearScreenStep ==
    ASSUME IInv, ClearScreen
    PROVE  IInv'
<1>0. /\ termSize \in Size /\ Fits(size) /\ cur \in Held /\ term \in Cell(termSize)
      /\ AtEdge(term, termSize) /\ agreed \in BOOLEAN
      /\ agreed => cur = term /\ size = termSize
  BY InvFacts
<1>1. cur' \in Held
  BY <1>0, HomeOn DEF ClearScreen
<1>2. term' \in Cell(termSize) /\ AtEdge(term', termSize)
  BY <1>0, HomeOn DEF ClearScreen
<1>3. agreed' \in BOOLEAN /\ (agreed' => cur' = term' /\ size' = termSize)
  BY <1>0 DEF ClearScreen
<1>4. Fits(size') /\ termSize' = termSize /\ reported' \in Sizes
  BY <1>0 DEF ClearScreen, IInv, TypeOK
<1> QED BY <1>1, <1>2, <1>3, <1>4, NextInv

LEMMA SetModeStep ==
    ASSUME IInv, SetMode
    PROVE  IInv'
<1>0. /\ termSize \in Size /\ Fits(size) /\ cur \in Held /\ term \in Cell(termSize)
      /\ AtEdge(term, termSize) /\ agreed \in BOOLEAN
      /\ agreed => cur = term /\ size = termSize
  BY InvFacts
<1>1. cur' \in Held
  BY <1>0, HomeOn DEF SetMode
<1>2. term' \in Cell(termSize) /\ AtEdge(term', termSize)
  BY <1>0, HomeOn DEF SetMode
<1>3. agreed' \in BOOLEAN /\ (agreed' => cur' = term' /\ size' = termSize)
  BY <1>0 DEF SetMode
<1>4. Fits(size') /\ termSize' = termSize /\ reported' \in Sizes
  BY <1>0, WindowFits DEF SetMode, IInv, TypeOK
<1> QED BY <1>1, <1>2, <1>3, <1>4, NextInv

LEMMA QueryModeStep ==
    ASSUME IInv, QueryMode
    PROVE  IInv'
<1>0. /\ termSize \in Size /\ Fits(size) /\ cur \in Held /\ term \in Cell(termSize)
      /\ AtEdge(term, termSize) /\ agreed \in BOOLEAN
      /\ agreed => cur = term /\ size = termSize
  BY InvFacts
<1>1. cur' \in Held
  BY <1>0 DEF QueryMode
<1>2. term' \in Cell(termSize) /\ AtEdge(term', termSize)
  BY <1>0 DEF QueryMode
<1>3. agreed' \in BOOLEAN /\ (agreed' => cur' = term' /\ size' = termSize)
  BY <1>0 DEF QueryMode
<1>4. Fits(size') /\ termSize' = termSize /\ reported' \in Sizes
  BY <1>0, WindowFits DEF QueryMode, IInv, TypeOK
<1> QED BY <1>1, <1>2, <1>3, <1>4, NextInv

LEMMA SetCursorStep ==
    ASSUME IInv, NEW col \in Nat, NEW row \in Nat, SetCursor(col, row)
    PROVE  IInv'
<1>0. /\ termSize \in Size /\ Fits(size) /\ cur \in Held /\ term \in Cell(termSize)
      /\ AtEdge(term, termSize) /\ agreed \in BOOLEAN
      /\ agreed => cur = term /\ size = termSize
  BY InvFacts
<1>1. cur' \in Held
  <2>1. size.cols - 1 \in Columns /\ size.rows - 1 \in Rows /\ size \in Size
    BY <1>0 DEF Fits
  <2>2. col <= size.cols - 1 /\ row <= size.rows - 1
    BY <2>1 DEF SetCursor, Size
  <2>3. col \in Columns /\ row \in Rows
    BY <2>1, <2>2, Below
  <2> QED BY <2>3 DEF SetCursor, Held
<1>2. term' \in Cell(termSize) /\ AtEdge(term', termSize)
  <2>1. Clamp(col, termSize.cols) \in 0..(termSize.cols - 1)
          /\ Clamp(row, termSize.rows) \in 0..(termSize.rows - 1)
    BY <1>0, CellFields, ClampOn
  <2> QED BY <2>1 DEF SetCursor, Cell, AtEdge
<1>3. agreed' \in BOOLEAN /\ (agreed' => cur' = term' /\ size' = termSize)
  <2>1. ASSUME size = termSize PROVE cur' = term'
    <3>1. Clamp(col, termSize.cols) = col /\ Clamp(row, termSize.rows) = row
      BY <2>1 DEF SetCursor, Clamp
    <3> QED BY <3>1 DEF SetCursor
  <2> QED BY <2>1 DEF SetCursor
<1>4. Fits(size') /\ termSize' = termSize /\ reported' \in Sizes
  BY <1>0 DEF SetCursor, IInv, TypeOK
<1> QED BY <1>1, <1>2, <1>3, <1>4, NextInv

LEMMA WindowChangeStep ==
    ASSUME IInv, WindowChange
    PROVE  IInv'
<1>0. /\ termSize \in Size /\ Fits(size) /\ cur \in Held /\ term \in Cell(termSize)
      /\ AtEdge(term, termSize) /\ agreed \in BOOLEAN
      /\ agreed => cur = term /\ size = termSize
  BY InvFacts
<1>1. cur' \in Held
  BY <1>0 DEF WindowChange
<1>2. term' \in Cell(termSize) /\ AtEdge(term', termSize)
  BY <1>0 DEF WindowChange
<1>3. agreed' \in BOOLEAN /\ (agreed' => cur' = term' /\ size' = termSize)
  BY <1>0 DEF WindowChange
<1>4. Fits(size') /\ termSize' = termSize /\ reported' \in Sizes
  BY <1>0 DEF WindowChange, IInv, TypeOK
<1> QED BY <1>1, <1>2, <1>3, <1>4, NextInv

LEMMA TermResizedStep ==
    ASSUME IInv, NEW s \in Sizes, TermResized(s)
    PROVE  IInv'
<1>1. /\ s \in Size /\ Fits(size) /\ cur \in Held /\ reported \in Sizes
  BY InvFacts DEF IInv, TypeOK
<1>2. /\ termSize' = s /\ agreed' = FALSE /\ size' = size /\ cur' = cur /\ reported' = reported
      /\ term' \in [col : 0..(s.cols - 1), row : 0..(s.rows - 1), wrap : {FALSE}]
  BY DEF TermResized
<1>3. term' \in Cell(s) /\ ~term'.wrap
  BY <1>2 DEF Cell
<1>4. TypeOK'
  BY <1>1, <1>2, <1>3 DEF TypeOK, Held, Cell, Fits
<1>5. Together' /\ Fits(size)'
  BY <1>1, <1>2, <1>3 DEF Together, Fits, Columns, Rows, Believed
<1> QED BY <1>4, <1>5 DEF IInv

LEMMA StepInv ==
    ASSUME IInv, [Next]_vars
    PROVE  IInv'
<1>1. CASE UNCHANGED vars
  BY <1>1 DEF vars, IInv, TypeOK, Together, Fits, Columns, Rows, Believed
<1>2. ASSUME NEW col \in 0..(size.cols - 1), NEW row \in 0..(size.rows - 1), SetCursor(col, row)
      PROVE  IInv'
  <2>1. col \in Nat /\ row \in Nat
    OBVIOUS
  <2> QED BY <1>2, <2>1, SetCursorStep
<1> QED BY <1>1, <1>2, OutputLinefeedStep, OutputReturnStep, OutputBackspaceStep, OutputTabStep,
           OutputPrintableStep, OutputControlStep, ClearScreenStep, SetModeStep, QueryModeStep,
           TermResizedStep, WindowChangeStep
        DEF Next

LEMMA Invariance == Spec => []IInv
<1>1. Init => IInv
  BY InitInv
<1>2. IInv /\ [Next]_vars => IInv'
  BY StepInv
<1> QED BY <1>1, <1>2, PTL DEF Spec

----------------------------------------------------------------------------
\* Whatever the sizes and however a resize leaves the shim's cursor stale, neither cursor
\* leaves the largest screen there is, and the terminal's stays on its own
\* (ShimOutputString, ShimSetCursor, RefreshSize).
THEOREM CursorTypeTheorem == Spec => []TypeOK
<1>1. IInv => TypeOK
  BY DEF IInv
<1> QED BY <1>1, Invariance, PTL

\* Tabs of any width, screens of any size: the shim's arithmetic of wraps, tab stops and
\* the last row keeps its cursor on the user's, until a resize or a character on which
\* terminals go their own way (ShimOutputString).
THEOREM CursorTheorem == Spec => []CursorAgrees
<1>1. IInv => CursorAgrees
  BY DEF IInv, Together, CursorAgrees
<1> QED BY <1>1, Invariance, PTL
=============================================================================
