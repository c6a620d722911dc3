-------------------------------- MODULE Grid --------------------------------
(***************************************************************************)
(* The grid of the budget page: Slick.Grid with frozen columns             *)
(* (war/SlickGrid-master/slick.grid.frozen.js), as the page uses it: no    *)
(* frozen rows, an add-new row at the end, editors opened as soon as a     *)
(* cell becomes active.  The grid keeps only the rows and cells near the   *)
(* viewport and redraws what it is told to.                                *)
(*                                                                         *)
(* An operation is an operator from a grid g, and the rows d the data view *)
(* shows, to the grid after it.  Rows and columns count from 0 as in the   *)
(* code; row r shows d[r + 1] and row Len(d) is the add-new row.           *)
(* Distances are in rows and columns, so one step of scrolling is more     *)
(* than the 20 pixels the grid ignores, and all rows are on one scroll     *)
(* page (the browser's limit of a million pixels is not reached).          *)
(***************************************************************************)
EXTENDS Integers, SequencesExt

CONSTANTS
  NCols,        \* number of columns
  Frozen,       \* the first columns, which do not scroll
  ViewRows,     \* rows in the viewport
  ViewCols,     \* scrolling columns in the viewport
  MinBuffer,    \* rows kept beyond the viewport (3 in the code)
  EditCols      \* columns that have an editor

ASSUME GridAssumption ==
  /\ {NCols, Frozen, ViewRows, ViewCols, MinBuffer} \subseteq Nat \ {0}
  /\ Frozen + ViewCols <= NCols
  /\ EditCols \subseteq 0..(NCols - 1)

Cols == 0..(NCols - 1)
ViewW == Frozen + ViewCols
MaxLeft == NCols - Frozen - ViewCols
LeastOf(a, b)    == IF a < b THEN a ELSE b
GreatestOf(a, b) == IF a < b THEN b ELSE a
Distance(a, b)   == IF a < b THEN b - a ELSE a - b

\* The positions of the scrolling columns start again from 0.
PosLeft(c)  == IF c < Frozen THEN c ELSE c - Frozen
PosRight(c) == PosLeft(c) + 1

NoCell   == [row |-> -1, cell |-> -1]
NoEditor == [open |-> FALSE]

\* node says what activeCellNode refers to: nothing, a cell on the screen, or
\* one that has been taken off it.
EmptyGrid ==
  [cache |-> <<>>, top |-> 0, left |-> 0, dir |-> 1, drawnTop |-> 0, drawnLeft |-> 0,
   timer |-> FALSE, follow |-> FALSE, active |-> NoCell, posX |-> 0, node |-> "none",
   editor |-> NoEditor]

-----------------------------------------------------------------------------
(* what a cell shows *)

Exists(d, row)  == row + 1 \in DOMAIN d
Special(d, row) == Exists(d, row) /\ d[row + 1].kind # "item"
Heading(d, row) == Exists(d, row) /\ d[row + 1].kind = "group"

Blank  == [kind |-> "blank"]
Editor == [kind |-> "editor"]

\* A heading shows its value, title and sign; anything else shows its fields.
Shown(d, row) ==
  IF ~Exists(d, row) THEN Blank
  ELSE IF Heading(d, row) THEN [kind |-> "group", value |-> Last(d[row + 1].key),
                                level |-> d[row + 1].level, title |-> d[row + 1].title,
                                collapsed |-> d[row + 1].collapsed]
  ELSE d[row + 1]

ColSpan(d, row, c) == IF Heading(d, row) /\ c = 0 THEN NCols ELSE 1

-----------------------------------------------------------------------------
(* ranges *)

AllRows(d) == Len(d) + 1
MaxTop(d)  == GreatestOf(0, AllRows(d) - ViewRows)

VisibleRange(g) == [top |-> g.top, bottom |-> g.top + ViewRows + 1,
                    left |-> g.left, right |-> g.left + ViewW]

RenderedRange(g, d) ==
  LET above == IF g.dir = -1 THEN ViewRows ELSE MinBuffer
      below == IF g.dir = 1 THEN ViewRows ELSE MinBuffer
      v == VisibleRange(g)
  IN  [top    |-> GreatestOf(0, v.top - above),
       bottom |-> LeastOf(AllRows(d) - 1, v.bottom + below),
       left   |-> GreatestOf(0, v.left - ViewW),
       right  |-> LeastOf(NCols, v.right + ViewW)]

InRange(range, c) == PosRight(c) > range.left /\ PosLeft(c) <= range.right

-----------------------------------------------------------------------------
(* the row cache *)

Cached(g, row)        == row \in DOMAIN g.cache
HasCell(g, row, cell) == Cached(g, row) /\ cell \in DOMAIN g.cache[row]

\* A frozen cell left of the range is drawn without its item: it stays empty.
RowHtml(d, row, range) ==
  IF Heading(d, row) THEN [c \in {0} |-> Shown(d, row)]
  ELSE [c \in {c \in Cols : c < Frozen \/ InRange(range, c)} |->
          IF InRange(range, c) THEN Shown(d, row) ELSE Blank]

\* Rows leave the screen; the editor of a row leaves with it, but stays open.
RemoveRows(g, rows) ==
  LET gone == g.active.row \in rows \cap DOMAIN g.cache
  IN  [g EXCEPT !.cache = [r \in DOMAIN @ \ rows |-> @[r]],
                !.node = IF gone /\ @ = "live" THEN "dead" ELSE @,
                !.editor = IF gone /\ @.open THEN [@ EXCEPT !.attached = FALSE] ELSE @]

\* Mutant of CleanupRows: the active row goes like any other.
CleanupRowsAll(g, range) == RemoveRows(g, {r \in DOMAIN g.cache : r \notin range.top..range.bottom})

CleanupRows(g, range) ==
  RemoveRows(g, {r \in DOMAIN g.cache : r # g.active.row /\ r \notin range.top..range.bottom})

CleanUpAndRenderCells(g, d, range) ==
  LET Kept(r) == {c \in DOMAIN g.cache[r] :
                    \/ c < Frozen
                    \/ [row |-> r, cell |-> c] = g.active
                    \/ PosLeft(c) <= range.right /\ PosRight(c) >= range.left}
      Added(r) == IF Heading(d, r) THEN {} ELSE {c \in Cols : InRange(range, c)}
      Row(r) == [c \in Kept(r) \cup Added(r) |->
                   IF c \in Kept(r) THEN g.cache[r][c] ELSE Shown(d, r)]
  IN  [g EXCEPT !.cache = [r \in DOMAIN @ |-> IF r \in range.top..range.bottom THEN Row(r) ELSE @[r]]]

RenderRows(g, d, range) ==
  LET new == (range.top..range.bottom) \ DOMAIN g.cache
      all == [r \in DOMAIN g.cache \cup new |->
                IF r \in new THEN RowHtml(d, r, range) ELSE g.cache[r]]
      reselect == g.node # "none" /\ g.active.row \in new
  IN  [g EXCEPT !.cache = all,
                !.node = IF ~reselect THEN @
                         ELSE IF g.active.cell \in DOMAIN all[g.active.row] THEN "live" ELSE "none"]

RenderCells(g, d, range) == IF g.drawnLeft # g.left THEN CleanUpAndRenderCells(g, d, range) ELSE g

RenderRange(g, d, range) ==
  [RenderRows(RenderCells(CleanupRows(g, range), d, range), d, range)
     EXCEPT !.drawnTop = g.top, !.drawnLeft = g.left, !.timer = FALSE]

Render(g, d) == RenderRange(g, d, RenderedRange(g, d))

-----------------------------------------------------------------------------
(* the active cell and its editor *)

\* makeActiveCellNormal: the editor goes and its cell is drawn again.
MakeNormal(g, d) ==
  IF ~g.editor.open THEN g
  ELSE IF g.node # "live" THEN [g EXCEPT !.editor = NoEditor]
  ELSE [g EXCEPT !.editor = NoEditor,
                 !.cache[g.active.row][g.active.cell] = Shown(d, g.active.row)]

\* A cell without a row to show can still be edited: the add-new row.
PotentiallyEditable(d, row, cell) == cell \in EditCols /\ ~Special(d, row)

\* The page's onBeforeEditCell: nothing of a closed project is edited.
Refused(d, row) == Exists(d, row) /\ d[row + 1].status = "Closed"

\* makeActiveCellEditable
MakeEditable(g, d) ==
  LET row == g.active.row
  IN  IF \/ g.node = "none"
         \/ ~PotentiallyEditable(d, row, g.active.cell)
         \/ Refused(d, row)
      THEN g
      ELSE LET item == Exists(d, row)
               open == [open |-> TRUE, new |-> ~item, attached |-> g.node = "live",
                        id |-> IF item THEN d[row + 1].id ELSE "none",
                        loaded |-> IF item THEN d[row + 1].value ELSE 0,
                        text |-> IF item THEN d[row + 1].value ELSE 0]
               h == [g EXCEPT !.editor = open]
           IN  IF g.node = "live" THEN [h EXCEPT !.cache[row][g.active.cell] = Editor] ELSE h

\* setActiveCellInternal of the node of a cell, which may not be on the screen.
SetActive(g, d, row, cell, edit) ==
  LET h == MakeNormal(g, d)
      at == [row |-> row, cell |-> cell]
      n == [h EXCEPT !.active = at, !.posX = cell, !.node = "live",
                     !.follow = @ \/ g.node # "live" \/ g.active # at]
  IN  IF ~HasCell(h, row, cell) THEN [h EXCEPT !.active = NoCell, !.node = "none"]
      ELSE IF edit THEN MakeEditable(n, d) ELSE n

ResetActive(g, d) == [MakeNormal(g, d) EXCEPT !.active = NoCell, !.node = "none"]

-----------------------------------------------------------------------------
(* row count, invalidation and updates *)

ScrollTo(g, d, y) ==
  LET top == LeastOf(GreatestOf(y, 0), MaxTop(d))
  IN  IF top = g.top THEN g
      ELSE [g EXCEPT !.top = top, !.drawnTop = top, !.dir = IF top > g.top THEN 1 ELSE -1]

ResetIfBeyond(g, d) == IF g.node # "none" /\ g.active.row > Len(d) THEN ResetActive(g, d) ELSE g

\* Mutant of UpdateRowCount: the scroll position stays beyond the end.
UpdateRowCountOnly(g, d) ==
  ResetIfBeyond(RemoveRows(g, {r \in DOMAIN g.cache : ~Exists(d, r)}), d)

\* Row Len(d), the add-new row, is always drawn anew; the cell that is being
\* edited in a row that is gone stays active if it is in that row.
UpdateRowCount(g, d) ==
  ScrollTo(ResetIfBeyond(RemoveRows(g, {r \in DOMAIN g.cache : ~Exists(d, r)}), d), d, g.top)

\* Mutant of InvalidateRows: the editor of an invalid row stays open.
InvalidateRowsOnly(g, d, rows) == IF rows = {} THEN g ELSE [RemoveRows(g, rows) EXCEPT !.dir = 0]

InvalidateRows(g, d, rows) ==
  IF rows = {} THEN g
  ELSE [RemoveRows(IF g.active.row \in rows THEN MakeNormal(g, d) ELSE g, rows) EXCEPT !.dir = 0]

InvalidateAll(g, d) == RemoveRows(MakeNormal(g, d), DOMAIN g.cache)

Invalidate(g, d) == Render(InvalidateAll(UpdateRowCount(g, d), d), d)

\* updateRow writes every cell of the row that is on the screen.
UpdateRow(g, d, row) ==
  IF ~Cached(g, row) THEN g
  ELSE [g EXCEPT !.cache[row] = [c \in DOMAIN @ |-> IF @[c] = Editor THEN Editor ELSE Shown(d, row)]]

-----------------------------------------------------------------------------
(* scrolling *)

Undrawn(g, top, left) == top # g.drawnTop \/ left # g.drawnLeft

\* The user scrolls: rows far away are drawn later, by a timer of 50 ms.
HandleScroll(g, d, top, left) ==
  LET h == [g EXCEPT !.top = top, !.left = left, !.timer = FALSE,
                     !.dir = IF top = g.top THEN @ ELSE IF top > g.top THEN 1 ELSE -1]
      near  == Distance(top, g.drawnTop) < ViewRows /\ Distance(left, g.drawnLeft) < ViewW
  IN  IF top = g.top /\ left = g.left THEN g
      ELSE IF Undrawn(g, top, left) /\ near THEN Render(h, d)
      ELSE [h EXCEPT !.timer = Undrawn(g, top, left)]

\* scrollCellIntoView: without frozen rows it scrolls sideways only.
LeftFor(g, d, row, cell) ==
  LET left  == PosLeft(cell)
      right == PosLeft(cell) + ColSpan(d, row, cell)
  IN  IF cell < Frozen THEN g.left
      ELSE IF left < g.left THEN left
      ELSE IF right > g.left + ViewCols THEN LeastOf(MaxLeft, LeastOf(left, right - ViewCols))
      ELSE g.left

ScrollCellIntoView(g, d, row, cell) ==
  IF LeftFor(g, d, row, cell) = g.left THEN g
  ELSE Render(HandleScroll(g, d, g.top, LeftFor(g, d, row, cell)), d)

ScrollActiveCellIntoView(g, d) ==
  LET h == [g EXCEPT !.follow = FALSE]
  IN  IF g.active = NoCell THEN h ELSE ScrollCellIntoView(h, d, g.active.row, g.active.cell)
=============================================================================
