---------------------------- MODULE GridSelection ----------------------------
(***************************************************************************)
(* What is selected in a grid, and how it is shown: the cell selection     *)
(* model of the page's grids with its range selector and decorator         *)
(* (war/SlickGrid-master/plugins), the grid's cell styles                  *)
(* (slick.grid.frozen.js), and the data view's syncing of selected rows    *)
(* and styles with the items they belong to (slick.dataview.js).  Rows are *)
(* drawn near the viewport only.  One handler is one action.               *)
(***************************************************************************)
EXTENDS Integers, SequencesExt, FiniteSetsExt, SeqFilter

CONSTANTS
  RowLists,     \* what the data view may show: sequences of ids
  Headings,     \* the id of headings: they have none, so it is the same for all
  LastCell,     \* cells are 0..LastCell
  EditedCells,  \* cells that have an editor
  DrawnRows,    \* rows drawn at a time
  SelectionJobs \* what is done in one session

\* Items have different ids.
ASSUME SelectionAssumption ==
  /\ LastCell \in Nat
  /\ \A rows \in RowLists :
       /\ rows \in Seq(ToSet(rows))
       /\ \A i, j \in DOMAIN rows : rows[i] = rows[j] => i = j \/ rows[i] \in Headings

VARIABLE sel

Cells == 0..LastCell
Keys  == {"selected", "flag"}
Inactive == [row |-> -1, cell |-> -1]
NoHash == [row \in {} |-> {}]
NotDragging == [on |-> FALSE]

\* Slick.Range: two corners in any order.
Range2(r1, c1, r2, c2) ==
  [fromRow |-> Min({r1, r2}), fromCell |-> Min({c1, c2}),
   toRow   |-> Max({r1, r2}), toCell   |-> Max({c1, c2})]
Holds(r, at) == at.row \in r.fromRow..r.toRow /\ at.cell \in r.fromCell..r.toCell
CellRange(at) == Range2(at.row, at.cell, at.row, at.cell)

CellExists(s, row, cell) == row \in 0..(Len(s.rows) - 1) /\ cell \in Cells
CanCellBeSelected(s, row, cell) == CellExists(s, row, cell) /\ s.rows[row + 1] \notin Headings

-----------------------------------------------------------------------------
(* cell styles *)

\* A hash gives rows the cells that have a class; it may name rows that are not.
Styled(hash, row) == IF row \in DOMAIN hash THEN hash[row] ELSE {}

\* appendCellHtml: a row is drawn with the styles there are.
DrawnWith(s, row) == {m \in Keys \X Cells : m[2] \in Styled(s.css[m[1]], row)}

\* render keeps the active row when it leaves the screen.
DrawRows(s) ==
  LET range == s.top..Min({s.top + DrawnRows - 1, Len(s.rows) - 1})
      kept  == {s.active.row} \cap DOMAIN s.drawn
  IN  [s EXCEPT !.drawn = [r \in range \cup kept |-> IF r \in DOMAIN @ THEN @[r] ELSE DrawnWith(s, r)]]

Undraw(s, gone) == [s EXCEPT !.drawn = [r \in DOMAIN @ \ gone |-> @[r]]]

\* Only the differences of two hashes reach the cells on the screen.
UpdateCellCssStylesOnRenderedRows(s, key, added, removed) ==
  [s EXCEPT !.drawn = [r \in DOMAIN @ |->
     (@[r] \ ({key} \X (Styled(removed, r) \ Styled(added, r))))
       \cup ({key} \X (Styled(added, r) \ Styled(removed, r)))]]

\* storeCellCssStyles and its listener: a hash by ids, of the rows that exist.
\* A removal is not heard.
StoreCellCssStyles(s, hash) ==
  [s EXCEPT !.flags = [id \in {s.rows[r + 1] : r \in DOMAIN hash} |->
     hash[Max({r \in DOMAIN hash : s.rows[r + 1] = id})]]]

\* Mutant of SetCellCssStyles: what was styled before is not taken into account.
SetCellCssStylesAnew(s, key, hash) ==
  [UpdateCellCssStylesOnRenderedRows(s, key, hash, NoHash) EXCEPT !.css[key] = hash]

SetCellCssStyles(s, key, hash) ==
  [UpdateCellCssStylesOnRenderedRows(s, key, hash, s.css[key]) EXCEPT !.css[key] = hash]

-----------------------------------------------------------------------------
(* ranges and selected rows *)

ValidRange(s, r) ==
  CanCellBeSelected(s, r.fromRow, r.fromCell) /\ CanCellBeSelected(s, r.toRow, r.toCell)
RemoveInvalidRanges(s, ranges) == OnlyIn(ranges, {r \in ToSet(ranges) : ValidRange(s, r)})

RowSeq(r) == [i \in 1..(r.toRow - r.fromRow + 1) |-> r.fromRow + i - 1]

\* The rows of the ranges, headings between their ends too, in their order.
SelectedRowsOf(ranges) ==
  LET add(rows, r) == rows \o OnlyIn(RowSeq(r), (r.fromRow..r.toRow) \ ToSet(rows))
  IN  FoldLeft(add, <<>>, ranges)

HandleSelectedRangesChanged(s, ranges) ==
  LET rows == SelectedRowsOf(ranges)
      hash == [row \in ToSet(rows) |->
                 {c \in Cells : /\ CanCellBeSelected(s, row, c)
                                /\ \E r \in ToSet(ranges) : Holds(r, [row |-> row, cell |-> c])}]
  IN  [SetCellCssStyles(s, "selected", hash) EXCEPT !.selected = rows]

\* mapRowsToIds and mapIdsToRows: rows that are not there are left out; of two
\* rows with one id, two headings, the last is found.
IdsOfRows(s, rows) ==
  LET there == OnlyIn(rows, 0..(Len(s.rows) - 1))
  IN  [i \in 1..Len(there) |-> s.rows[there[i] + 1]]
RowsOfIds(s, ids) ==
  LET there == OnlyIn(ids, ToSet(s.rows))
  IN  [i \in 1..Len(there) |-> Max({k \in 1..Len(s.rows) : s.rows[k] = there[i]}) - 1]

\* What is selected by anyone but the data view is what it keeps.
Heard(s) == IF s.sync = "no" THEN s ELSE [s EXCEPT !.ids = IdsOfRows(s, s.selected)]

\* setSelectedRanges, as called while the data view puts the selection back.
PutRanges(s, ranges) ==
  LET valid == RemoveInvalidRanges(s, ranges)
  IN  HandleSelectedRangesChanged([s EXCEPT !.ranges = valid], valid)
SetSelectedRanges(s, ranges) == Heard(PutRanges(s, ranges))

RowsToRanges(rows) == [i \in 1..Len(rows) |-> Range2(rows[i], 0, rows[i], LastCell)]

\* update of syncGridSelection; only with preserveHidden the ids of items that
\* are not shown are kept.
UpdateSelection(s) ==
  LET rows == RowsOfIds(s, s.ids)
      t == IF s.sync = "keep" THEN s ELSE [s EXCEPT !.ids = IdsOfRows(s, rows)]
  IN  IF s.sync = "no" \/ s.ids = <<>> THEN s ELSE PutRanges(t, RowsToRanges(rows))

\* update of syncGridCellCssStyles
UpdateFlags(s) ==
  LET there == {id \in DOMAIN s.flags : id \in ToSet(s.rows)}
      row(id) == Max({k \in 1..Len(s.rows) : s.rows[k] = id}) - 1
      hash == [r \in {row(id) : id \in there} |-> s.flags[s.rows[r + 1]]]
  IN  IF s.sync = "no" THEN s ELSE SetCellCssStyles(s, "flag", hash)

Update(s) == UpdateFlags(UpdateSelection(s))

-----------------------------------------------------------------------------
(* the handlers *)

FirstSelection(rows, sync, jobs) ==
  DrawRows([rows |-> rows, top |-> 0, active |-> Inactive, editing |-> FALSE,
            ranges |-> <<>>, selected |-> <<>>, css |-> [key \in Keys |-> NoHash],
            drawn |-> NoHash, drag |-> NotDragging, box |-> <<>>, sync |-> sync,
            ids |-> <<>>, flags |-> NoHash, jobs |-> jobs])

\* Syncing matters in the sessions in which the rows change.
SelectionInit ==
  \E rows \in RowLists, sync \in {"no", "drop", "keep"}, jobs \in SelectionJobs :
    /\ sync # "no" => "rows" \in jobs
    /\ sel = FirstSelection(rows, sync, jobs)

Selecting(job) == job \in sel.jobs
Points == {p \in [row : DOMAIN sel.drawn, cell : Cells] : CellExists(sel, p.row, p.cell)}

\* A click makes a cell the active one, and its editor opens.
Activate(s, at) ==
  [s EXCEPT !.active = at,
            !.editing = at.cell \in EditedCells /\ s.rows[at.row + 1] \notin Headings]
ClickCell ==
  /\ Selecting("click") /\ ~sel.drag.on
  /\ \E at \in Points : /\ at # sel.active
                        /\ sel' = SetSelectedRanges(Activate(sel, at), <<CellRange(at)>>)

EndEdit == sel.editing /\ sel' = [sel EXCEPT !.editing = FALSE]

\* Mutant of ArrowRange: the height is measured from the active cell.
ArrowRangeFromActive(last, active, key) ==
  LET dirRow  == IF active.row = last.fromRow THEN 1 ELSE -1
      dirCell == IF active.cell = last.fromCell THEN 1 ELSE -1
      dRow  == last.toRow - active.row + dirRow * (CASE key = "up" -> -1 [] key = "down" -> 1 [] OTHER -> 0)
      dCell == last.toCell - last.fromCell
                 + dirCell * (CASE key = "left" -> -1 [] key = "right" -> 1 [] OTHER -> 0)
  IN  Range2(active.row, active.cell, active.row + dirRow * dRow, active.cell + dirCell * dCell)

\* The active cell stays; the opposite corner moves.
ArrowRange(last, active, key) ==
  LET dirRow  == IF active.row = last.fromRow THEN 1 ELSE -1
      dirCell == IF active.cell = last.fromCell THEN 1 ELSE -1
      dRow  == last.toRow - last.fromRow
                 + dirRow * (CASE key = "up" -> -1 [] key = "down" -> 1 [] OTHER -> 0)
      dCell == last.toCell - last.fromCell
                 + dirCell * (CASE key = "left" -> -1 [] key = "right" -> 1 [] OTHER -> 0)
  IN  Range2(active.row, active.cell, active.row + dirRow * dRow, active.cell + dirCell * dCell)

\* Only the last range is changed; an editor takes the keys left and right.
\* The grid scrolls until the row of the moved edge is drawn.
ShiftArrow ==
  /\ Selecting("arrow") /\ sel.active # Inactive
  /\ \E key \in {"left", "right", "up", "down"} :
       LET ranges == IF sel.ranges = <<>> THEN <<CellRange(sel.active)>> ELSE sel.ranges
           last == IF Holds(Last(ranges), sel.active) THEN Last(ranges) ELSE CellRange(sel.active)
           moved == ArrowRange(last, sel.active, key)
           valid == RemoveInvalidRanges(sel, <<moved>>) # <<>>
           edge == IF sel.active.row = last.fromRow THEN moved.toRow ELSE moved.fromRow
           top == CASE edge < sel.top -> edge
                    [] edge >= sel.top + DrawnRows -> edge - DrawnRows + 1
                    [] OTHER -> sel.top
           seen == IF valid THEN DrawRows([sel EXCEPT !.top = top]) ELSE sel
       IN  /\ key \in {"left", "right"} => ~sel.editing
           /\ sel' = SetSelectedRanges(seen, Append(Front(ranges), IF valid THEN moved ELSE last))

\* The decorator's box, over the cells it goes from and to.
BoxOver(from, to) == <<Range2(from.row, from.cell, to.row, to.cell)>>

\* A drag begins on a cell that can be selected, a few pixels from where the
\* button went down: that may have been the row above or below.
DragBegin ==
  /\ Selecting("drag") /\ ~sel.drag.on /\ ~sel.editing
  /\ \E at, start \in Points :
       /\ CanCellBeSelected(sel, at.row, at.cell)
       /\ start.cell = at.cell /\ start.row - at.row \in {-1, 0, 1}
       /\ sel' = [sel EXCEPT !.drag = [on |-> TRUE, start |-> start, to |-> start],
                             !.box = BoxOver(start, start)]

\* The box cannot be drawn when the row it began in is gone.
DragOver ==
  /\ Selecting("drag") /\ sel.drag.on
  /\ \E at \in Points :
       /\ CanCellBeSelected(sel, at.row, at.cell)
       /\ sel' = [sel EXCEPT !.drag.to = at,
                             !.box = IF CellExists(sel, sel.drag.start.row, sel.drag.start.cell)
                                     THEN BoxOver(sel.drag.start, at)
                                     ELSE @]

DragFinish ==
  /\ sel.drag.on
  /\ LET d == sel.drag
     IN  sel' = SetSelectedRanges([sel EXCEPT !.drag = NotDragging, !.box = <<>>],
                                  BoxOver(d.start, d.to))

\* The listeners of the data view's row count: rows that are no more leave the
\* screen, the active cell is left only when even the add-new row is above it.
CountChanged(s) ==
  LET count == Len(s.rows)
      cut == Undraw([s EXCEPT !.top = Min({@, Max({0, count - DrawnRows})})],
                    {r \in DOMAIN s.drawn : r >= count})
  IN  Update(DrawRows(IF s.active.row > count
                      THEN [cut EXCEPT !.active = Inactive, !.editing = FALSE] ELSE cut))

\* The listeners of changed rows; an edit in one of them is given up.
RowsDrawnAnew(s, rows) ==
  LET given == IF s.active.row \in rows THEN [s EXCEPT !.editing = FALSE] ELSE s
  IN  Update(DrawRows(Undraw(given, rows)))

ItemsChange ==
  /\ Selecting("rows")
  /\ \E rows \in RowLists \ {sel.rows} :
       LET with == [sel EXCEPT !.rows = rows]
           counted == IF Len(rows) # Len(sel.rows) THEN CountChanged(with) ELSE with
           changed == {r \in 0..(Len(rows) - 1) :
                         r >= Len(sel.rows) \/ sel.rows[r + 1] # rows[r + 1]}
       IN  sel' = IF changed = {} THEN counted ELSE RowsDrawnAnew(counted, changed)

\* Rows that leave the viewport are taken from the screen, but for the active one.
ScrollRows ==
  /\ Selecting("scroll")
  /\ \E top \in 0..Max({0, Len(sel.rows) - DrawnRows}) \ {sel.top} :
       LET out == {r \in DOMAIN sel.drawn : r \notin top..(top + DrawnRows - 1)}
       IN  sel' = DrawRows(Undraw([sel EXCEPT !.top = top], out \ {sel.active.row}))

\* Anyone may style cells (setCellCssStyles), ...
SetFlags ==
  /\ Selecting("flags")
  /\ \E row \in 0..(Len(sel.rows) - 1), cell \in Cells :
       LET hash == [r \in {row} |-> {cell}]
           set == SetCellCssStyles(sel, "flag", hash)
       IN  sel' = IF sel.sync = "no" THEN set ELSE StoreCellCssStyles(set, hash)

\* ... and take the styles away (removeCellCssStyles), which the data view ignores.
RemoveFlags ==
  /\ Selecting("flags") /\ sel.css["flag"] # NoHash
  /\ sel' = SetCellCssStyles(sel, "flag", NoHash)

\* setSelectedRows: whole rows, in any order.
SelectRows ==
  /\ Selecting("select")
  /\ \E rows \in {<<r>> : r \in 0..(Len(sel.rows) - 1)}
                 \cup {<<r, 0>> : r \in 1..(Len(sel.rows) - 1)} :
       sel' = SetSelectedRanges(sel, RowsToRanges(rows))

SelectionNext ==
  \/ ClickCell \/ EndEdit \/ ShiftArrow
  \/ DragBegin \/ DragOver \/ DragFinish
  \/ ItemsChange \/ ScrollRows \/ SetFlags \/ RemoveFlags \/ SelectRows

SelectionSpec == SelectionInit /\ [][SelectionNext]_sel

-----------------------------------------------------------------------------
(* properties *)

\* Types of the variable.
SelTypeOK ==
  /\ sel.rows \in RowLists /\ sel.top \in 0..Len(sel.rows)
  /\ sel.active = Inactive \/ sel.active \in [row : Nat, cell : Cells]
  /\ sel.editing => sel.active # Inactive /\ ~sel.drag.on
  /\ \A r \in ToSet(sel.ranges) : r.fromRow <= r.toRow /\ {r.fromCell, r.toCell} \subseteq Cells
  /\ DOMAIN sel.drawn \subseteq 0..(Len(sel.rows) - 1)
  /\ sel.sync = "no" => sel.ids = <<>> /\ sel.flags = NoHash
  /\ sel.drag.on = (sel.box # <<>>)

\* Whatever order rows were drawn, styled, scrolled away and selected in, each
\* cell on the screen has the marks it would have if drawn now, although only
\* the differences of two hashes are applied to it.
MarksRight == \A row \in DOMAIN sel.drawn : sel.drawn[row] = DrawnWith(sel, row)

\* The selected rows are those that the ranges cover, each once, though ranges
\* may overlap.
SelectedOnce ==
  /\ ToSet(sel.selected) = UNION {r.fromRow..r.toRow : r \in ToSet(sel.ranges)}
  /\ IsInjective(sel.selected)

\* What is selected is shown as selected, and nothing else is.
SelectionShown == SelectedOnce /\ MarksRight

\* An arrow with shift moves one edge of the last range by one row or column,
\* when the active cell is one of its corners; it may not be after a drag.  The
\* range is only lost when the rows it ended in had gone, or became headings.
Corner(r, at) == at.row \in {r.fromRow, r.toRow} /\ at.cell \in {r.fromCell, r.toCell}
Moved(a, b) == IF a < b THEN b - a ELSE a - b
ByOne(r, n) ==
  Moved(r.fromRow, n.fromRow) + Moved(r.toRow, n.toRow)
    + Moved(r.fromCell, n.fromCell) + Moved(r.toCell, n.toCell) <= 1
GrowsByOne ==
  (sel.ranges # <<>> /\ Corner(Last(sel.ranges), sel.active)) =>
    LET others == RemoveInvalidRanges(sel, Front(sel.ranges))
    IN  \/ /\ sel'.ranges # <<>> /\ Front(sel'.ranges) = others
           /\ ByOne(Last(sel.ranges), Last(sel'.ranges))
        \/ sel'.ranges = others /\ ~ValidRange(sel, Last(sel.ranges))

\* A gesture selects what it showed: an arrow with shift the range it was seen to
\* grow, a drag its box, unless it began outside the cells that can be selected;
\* rows that change during the drag are not looked at.
SelectedAsShown ==
  [][/\ ShiftArrow => GrowsByOne
     /\ (DragFinish /\ "rows" \notin sel.jobs
           /\ CanCellBeSelected(sel, sel.drag.start.row, sel.drag.start.cell)) => sel'.ranges = sel.box]_sel

\* With the data view's syncing selection and styles follow their items: after
\* the rows have changed the selected rows are those of the items selected before,
\* as far as they are shown; hidden ones are remembered if so wanted.  Styles that
\* were taken away come back, as that is not heard.
SelectionFollows ==
  /\ {sel'.rows[r + 1] : r \in ToSet(sel'.selected)}
       = (ToSet(sel.ids) \cap ToSet(sel'.rows)) \ Headings
  /\ sel.sync = "keep" => sel'.ids = sel.ids
StylesFollow ==
  \A r \in 0..(Len(sel.rows) - 1), n \in 0..(Len(sel'.rows) - 1) :
    (sel.rows[r + 1] = sel'.rows[n + 1] /\ sel.rows[r + 1] \notin Headings) =>
      Styled(sel'.css["flag"], n) = Styled(sel.css["flag"], r)
ItemsFollowed ==
  [][(ItemsChange /\ sel.sync # "no") =>
       SelectionFollows /\ (sel.css["flag"] # NoHash => StylesFollow)]_sel

\* What was selected is what was meant, and stays it.
SelectionKept == SelectedAsShown /\ ItemsFollowed
=============================================================================
