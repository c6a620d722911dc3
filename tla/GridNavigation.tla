--------------------------- MODULE GridNavigation ---------------------------
(***************************************************************************)
(* Moving the active cell with the keys: the goto functions and navigate() *)
(* of slick.grid.frozen.js.  A heading spans all columns and can be        *)
(* active, a totals row cannot.                                            *)
(***************************************************************************)
EXTENDS Grid, FiniteSetsExt

CanCellBeActive(d, row, cell) ==
  /\ row \in 0..Len(d)
  /\ cell \in Cols
  /\ Special(d, row) => Heading(d, row)

\* The cells a walk over the spans of a row stops at, from its first cell.
Starts(d, row) == IF Heading(d, row) THEN {0} ELSE Cols
Focusable(d, row) == {c \in Starts(d, row) : CanCellBeActive(d, row, c)}

At(row, cell, posX) == [row |-> row, cell |-> cell, posX |-> posX]
Nowhere == At(-1, -1, -1)
Lowest(row, cells)  == IF cells = {} THEN Nowhere ELSE At(row, Min(cells), Min(cells))
Highest(row, cells) == IF cells = {} THEN Nowhere ELSE At(row, Max(cells), Max(cells))

GotoRight(d, row, cell) ==
  Lowest(row, {c \in Cols : c >= cell + ColSpan(d, row, cell) /\ CanCellBeActive(d, row, c)})

\* gotoLeft walks right from the first cell, and finds nothing when the walk
\* ends before it has reached the cell.
GotoLeft(d, row, cell) ==
  IF \E c \in Focusable(d, row) : c >= cell
  THEN Highest(row, {c \in Focusable(d, row) : c < cell}) ELSE Nowhere

\* The cell of a row that lies at a column.
CellUnder(d, row, posX) == Max({c \in Starts(d, row) : c <= posX})

\* Up and down pass over rows that cannot be active and remember the column.
Open(d, rows, posX) == {r \in rows : CanCellBeActive(d, r, CellUnder(d, r, posX))}

GotoDown(d, row, posX) ==
  LET open == Open(d, (row + 1)..Len(d), posX)
  IN  IF open = {} THEN Nowhere ELSE At(Min(open), CellUnder(d, Min(open), posX), posX)

GotoUp(d, row, posX) ==
  LET open == Open(d, 0..(row - 1), posX)
  IN  IF open = {} THEN Nowhere ELSE At(Max(open), CellUnder(d, Max(open), posX), posX)

GotoNext(d, at) ==
  LET from  == IF at = NoCell THEN [row |-> 0, cell |-> 0] ELSE at
      right == GotoRight(d, from.row, from.cell)
      later == {r \in (from.row + 1)..Len(d) : Focusable(d, r) # {}}
  IN  IF at = NoCell /\ CanCellBeActive(d, 0, 0) THEN At(0, 0, 0)
      ELSE IF right # Nowhere THEN right
      ELSE IF later = {} THEN Nowhere ELSE Lowest(Min(later), Focusable(d, Min(later)))

GotoPrev(d, at) ==
  LET from  == IF at = NoCell THEN [row |-> Len(d), cell |-> NCols - 1] ELSE at
      left  == GotoLeft(d, from.row, from.cell)
      above == {r \in 0..(from.row - 1) : Focusable(d, r) # {}}
  IN  IF at = NoCell /\ CanCellBeActive(d, from.row, from.cell) THEN At(from.row, from.cell, from.cell)
      ELSE IF left # Nowhere THEN left
      ELSE IF above = {} THEN Nowhere ELSE Highest(Max(above), Focusable(d, Max(above)))

Step(d, dir, at, posX) ==
  CASE dir = "right" -> GotoRight(d, at.row, at.cell)
    [] dir = "left"  -> GotoLeft(d, at.row, at.cell)
    [] dir = "down"  -> GotoDown(d, at.row, posX)
    [] dir = "up"    -> GotoUp(d, at.row, posX)
    [] dir = "next"  -> GotoNext(d, at)
    [] dir = "prev"  -> GotoPrev(d, at)

\* navigate(), after the current edit has been committed.  At the end of the
\* way the active cell is activated again.  The row is not scrolled to.
NavigateTo(g, d, pos) ==
  IF pos = Nowhere THEN SetActive(g, d, g.active.row, g.active.cell, TRUE)
  ELSE [SetActive(ScrollCellIntoView(g, d, pos.row, pos.cell), d, pos.row, pos.cell, TRUE)
          EXCEPT !.posX = pos.posX]

Navigate(g, d, dir) ==
  IF g.node = "none" /\ dir \notin {"prev", "next"} THEN g
  ELSE NavigateTo(g, d, Step(d, dir, g.active, g.posX))

\* scrollPage: the page moves, and the active cell with it, to the last cell
\* that can be active at or before its column.
ActivateInRow(g, d, row) ==
  LET open == {c \in Focusable(d, row) : c <= g.posX}
  IN  IF g.active = NoCell THEN g
      ELSE IF open = {} THEN ResetActive(g, d)
      ELSE [SetActive(g, d, row, Max(open), TRUE) EXCEPT !.posX = g.posX]

ScrollPage(g, d, dir) ==
  ActivateInRow(Render(ScrollTo(g, d, g.top + dir * ViewRows), d), d,
                LeastOf(GreatestOf(g.active.row + dir * ViewRows, 0), Len(d)))
=============================================================================
