---------------------------- MODULE ConsoleOutput ----------------------------
(***************************************************************************)
(* The output side of the console shim (ConsoleShim.c): the cursor that    *)
(* the Shell's line editor trusts, beside the cursor of the terminal the   *)
(* output goes to.                                                         *)
(*                                                                         *)
(* The terminal is external: xterm, as the header comment of ConsoleShim.c *)
(* says, with its deferred wrap in the last column.  It may be resized at  *)
(* any time; the shim learns the size when the Shell asks for it and the   *)
(* client's window-change request has come.                                *)
(***************************************************************************)
EXTENDS Naturals

CONSTANTS
    Sizes,          \* the sizes of the terminal, [cols, rows]
    MinSize,        \* 20 columns, 5 rows: less is taken for no size at all
    DefaultSize,    \* 80 columns, 25 rows
    TabWidth        \* 8

Size == [cols : Nat \ {0}, rows : Nat \ {0}]

ASSUME OutputAssumption ==
    /\ Sizes \subseteq Size
    /\ MinSize \in Size /\ DefaultSize \in Size
    /\ DefaultSize.cols >= MinSize.cols /\ DefaultSize.rows >= MinSize.rows
    /\ TabWidth \in Nat \ {0}

VARIABLES
    size,           \* Cols, Rows
    cur,            \* Mode.CursorColumn, Mode.CursorRow and PendingWrap
    reported,       \* the size in the client's last request (SshGetWindow)
    termSize, term, \* the terminal: its size, its cursor
    agreed          \* history: nothing has moved the two apart since the last
                    \* time both were put in one place

vars == <<size, cur, reported, termSize, term, agreed>>

Cursors == [col : Nat, row : Nat, wrap : BOOLEAN]
Home == [col |-> 0, row |-> 0, wrap |-> FALSE]

\* RefreshSize.
WindowSize(s) ==
    [cols |-> IF s.cols >= MinSize.cols THEN s.cols ELSE DefaultSize.cols,
     rows |-> IF s.rows >= MinSize.rows THEN s.rows ELSE DefaultSize.rows]

\* ShimInstall: the size is read, the cursor taken to be at home; where the
\* terminal's cursor is, nobody knows.
Init ==
    /\ termSize \in Sizes /\ reported = termSize
    /\ size = WindowSize(reported)
    /\ cur = Home
    /\ term \in {[col |-> 0, row |-> r, wrap |-> FALSE] : r \in 0..(termSize.rows - 1)}
    /\ agreed = FALSE
-----------------------------------------------------------------------------
(* What ShimOutputString does to Mode for each kind of character *)

\* The cursor leaves the last row.
RowDown_NoScroll(c, s) == c.row + 1

RowDown(c, s) == IF c.row + 1 < s.rows THEN c.row + 1 ELSE c.row

AfterLinefeed(c, s) == [col |-> 0, row |-> RowDown(c, s), wrap |-> FALSE]

AfterReturn(c, s) == [c EXCEPT !.col = 0, !.wrap = FALSE]

AfterBackspace(c, s) == [c EXCEPT !.col = IF @ > 0 THEN @ - 1 ELSE @, !.wrap = FALSE]

TabStop(c, s) ==
    LET next == (c.col \div TabWidth) * TabWidth + TabWidth
    IN  IF next >= s.cols THEN s.cols - 1 ELSE next

AfterTab(c, s) == [c EXCEPT !.col = TabStop(c, s), !.wrap = FALSE]

\* Another control character is passed on and leaves the cursor alone.
AfterControl(c, s) == c

\* The wrap is done as soon as the last column is filled.
AfterPrintable_WrapsAtOnce(c, s) ==
    IF c.col + 1 >= s.cols THEN AfterLinefeed(c, s) ELSE [c EXCEPT !.col = @ + 1]

\* A printable character: a wrap that is due comes first.
AfterPrintable(c, s) ==
    LET d == IF c.wrap THEN AfterLinefeed(c, s) ELSE c
    IN  IF d.col + 1 >= s.cols
        THEN [d EXCEPT !.col = s.cols - 1, !.wrap = TRUE]
        ELSE [d EXCEPT !.col = @ + 1]
-----------------------------------------------------------------------------
(* What the terminal does with what it is sent *)

Clamp(n, limit) == IF n < limit THEN n ELSE limit - 1

\* Printed text, written here for the terminal alone: cells are filled one by
\* one, and the cursor rests in the last column until the next one comes.
TermPrints(t, s) ==
    IF t.wrap
    THEN [col |-> IF s.cols = 1 THEN 0 ELSE 1, row |-> Clamp(t.row + 1, s.rows),
          wrap |-> s.cols = 1]
    ELSE [col |-> Clamp(t.col + 1, s.cols), row |-> t.row, wrap |-> t.col = s.cols - 1]

TermReturns(t) == [col |-> 0, row |-> t.row, wrap |-> FALSE]

TermLinefeeds(t, s) == [t EXCEPT !.row = Clamp(@ + 1, s.rows), !.wrap = FALSE]

TermTabs(t, s) ==
    LET stops == {n \in 1..(s.cols - 1) : n % TabWidth = 0 /\ n > t.col} \cup {s.cols - 1}
    IN  CHOOSE n \in stops : \A m \in stops : n <= m

\* A vertical tab or a form feed moves the terminal's cursor down.
TermControls(t, s, moves) == IF moves THEN TermLinefeeds(t, s) ELSE t
-----------------------------------------------------------------------------
(* The Shell's calls.  Each keeps an agreement only while both sides are of *)

(* one size.                                                                *)

OutputLinefeed ==
    /\ cur' = AfterLinefeed(cur, size)
    /\ term' = TermLinefeeds(TermReturns(term), termSize)
    /\ UNCHANGED <<size, reported, termSize, agreed>>

OutputReturn ==
    /\ cur' = AfterReturn(cur, size)
    /\ term' = TermReturns(term)
    /\ UNCHANGED <<size, reported, termSize, agreed>>

\* A backspace is sent only if the shim's cursor can move.
OutputBackspace ==
    /\ cur' = AfterBackspace(cur, size)
    /\ term' = IF cur.col > 0
               THEN [term EXCEPT !.col = IF @ > 0 THEN @ - 1 ELSE @, !.wrap = FALSE]
               ELSE term
    /\ agreed' = (agreed /\ (cur.wrap => cur.col > 0))
    /\ UNCHANGED <<size, reported, termSize>>

\* Terminals differ on what a tab does to a wrap that is due.
OutputTab ==
    /\ cur' = AfterTab(cur, size)
    /\ \E keeps \in BOOLEAN :
          term' = [term EXCEPT !.col = TermTabs(term, termSize),
                               !.wrap = term.wrap /\ keeps]
    /\ agreed' = (agreed /\ ~term.wrap)
    /\ UNCHANGED <<size, reported, termSize>>

\* moves: a vertical tab or form feed rather than a bell or a NUL.
OutputControl(moves) ==
    /\ cur' = AfterControl(cur, size)
    /\ term' = TermControls(term, termSize, moves)
    /\ agreed' = (agreed /\ ~moves)
    /\ UNCHANGED <<size, reported, termSize>>

OutputPrintable ==
    /\ cur' = AfterPrintable(cur, size)
    /\ term' = TermPrints(term, termSize)
    /\ UNCHANGED <<size, reported, termSize, agreed>>

\* ShimClearScreen; ShimOutReset ends with it.
ClearScreen ==
    /\ cur' = Home
    /\ term' = Home
    /\ agreed' = (size = termSize)
    /\ UNCHANGED <<size, reported, termSize>>

\* ShimSetMode: the size is read again, then the screen cleared.
SetMode ==
    /\ size' = WindowSize(reported)
    /\ cur' = Home
    /\ term' = Home
    /\ agreed' = (size' = termSize)
    /\ UNCHANGED <<reported, termSize>>

\* ShimQueryMode: the size is read again, the cursor stays.
QueryMode ==
    /\ size' = WindowSize(reported)
    /\ agreed' = (agreed /\ size' = termSize)
    /\ UNCHANGED <<cur, reported, termSize, term>>

\* ShimSetCursor refuses what lies outside the size it knows; the terminal
\* stops at its own edge.
SetCursor(col, row) ==
    /\ col < size.cols /\ row < size.rows
    /\ cur' = [col |-> col, row |-> row, wrap |-> FALSE]
    /\ term' = [col |-> Clamp(col, termSize.cols), row |-> Clamp(row, termSize.rows),
                wrap |-> FALSE]
    /\ agreed' = (size = termSize)
    /\ UNCHANGED <<size, reported, termSize>>
-----------------------------------------------------------------------------
(* The terminal's user *)

\* The window is resized: the terminal puts its cursor where it likes.
TermResized(s) ==
    /\ s # termSize
    /\ termSize' = s
    /\ term' \in [col : 0..(s.cols - 1), row : 0..(s.rows - 1), wrap : {FALSE}]
    /\ agreed' = FALSE
    /\ UNCHANGED <<size, cur, reported>>

\* The client's window-change request reaches the server.
WindowChange ==
    /\ reported # termSize
    /\ reported' = termSize
    /\ UNCHANGED <<size, cur, termSize, term, agreed>>
-----------------------------------------------------------------------------
Next ==
    \/ OutputLinefeed \/ OutputReturn \/ OutputBackspace \/ OutputTab \/ OutputPrintable
    \/ \E moves \in BOOLEAN : OutputControl(moves)
    \/ ClearScreen \/ SetMode \/ QueryMode
    \/ \E col \in 0..(size.cols - 1), row \in 0..(size.rows - 1) : SetCursor(col, row)
    \/ \E s \in Sizes : TermResized(s)
    \/ WindowChange

Spec == Init /\ [][Next]_vars
-----------------------------------------------------------------------------
(* Properties *)

Believed == Sizes \cup {DefaultSize}
Columns == UNION {0..(s.cols - 1) : s \in Believed}
Rows == UNION {0..(s.rows - 1) : s \in Believed}

\* Neither cursor ever leaves the largest screen there is, even when a smaller
\* window has made the shim's cursor stale (RowDown, RefreshSize).
TypeOK ==
    /\ size \in Size /\ termSize \in Sizes /\ reported \in Sizes
    /\ cur \in [col : Columns, row : Rows, wrap : BOOLEAN]
    /\ term \in [col : 0..(termSize.cols - 1), row : 0..(termSize.rows - 1), wrap : BOOLEAN]
    /\ agreed \in BOOLEAN

\* The cursor the Shell's line editor reads is the one on the user's screen,
\* down to a wrap that is due, as long as the window has not been resized and
\* nothing was printed on which terminals go their own way (ShimOutputString).
CursorAgrees == agreed => cur = term
=============================================================================
