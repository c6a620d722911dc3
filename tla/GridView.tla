------------------------------ MODULE GridView ------------------------------
(***************************************************************************)
(* The grid of the budget page on its data view, wired as editProjects.jsp *)
(* wires them: the data view tells the grid which rows have changed, and   *)
(* the grid redraws only those.  The user scrolls, clicks, types, moves    *)
(* with the keys, folds groups, searches and creates a project; timers     *)
(* draw later; the server's answers redraw the grid at any time.           *)
(* One handler runs to its end before the next: an action is one handler.  *)
(***************************************************************************)
EXTENDS DataView, GridNavigation

CONSTANTS
  Loaded,       \* the items the page is loaded with, in their order
  NewItem,      \* the item of a project that is being created
  Values,       \* the values an editor accepts
  Typed,        \* what the user types: values and others
  TopStops,     \* how far the user scrolls down
  LeftStops,    \* how far the user scrolls sideways
  Sessions      \* the sets of things a user does in one session

\* What is loaded and created are items, with ids of their own.
ASSUME ItemsAssumption ==
  /\ Loaded \in Seq(ToSet(Loaded))
  /\ \A i \in ToSet(Loaded) \cup {NewItem} : IsItem(i) /\ {"kind", "id", "value"} \subseteq DOMAIN i
  /\ \A i, j \in DOMAIN Loaded : Loaded[i].id = Loaded[j].id => i = j

ASSUME ScrollAssumption == TopStops \subseteq Nat /\ LeftStops \subseteq 0..MaxLeft

VARIABLES
  view, grid,
  doing         \* what the user does in this session: a bound of the model
vars == <<view, grid, doing>>

\* Both as one state, for handlers of several steps.
Now == [v |-> view, g |-> grid]
Becomes(s) == view' = s.v /\ grid' = s.g /\ UNCHANGED doing

ByStatus == <<Level("status", TRUE, FALSE), Level("project", FALSE, FALSE)>>

\* The page groups its rows and folds the groups of projects.
LoadedView ==
  LET grouped == SetGrouping(SetItems(EmptyView, Loaded), ByStatus)
  IN  [grouped EXCEPT !.told = Quiet]

Init ==
  /\ view = LoadedView
  /\ grid = Render(EmptyGrid, LoadedView.rows)
  /\ doing \in Sessions

-----------------------------------------------------------------------------
(* the wiring *)

\* The listeners of the data view: the row count first, then the rows.
OnRowCountChanged(g, v) == IF v.told.count THEN Render(UpdateRowCount(g, v.rows), v.rows) ELSE g
OnRowsChanged(g, v) ==
  IF v.told.changed = {} THEN g
  ELSE Render(InvalidateRows(g, v.rows, {i - 1 : i \in v.told.changed}), v.rows)
Told(s) == [v |-> [s.v EXCEPT !.told = Quiet], g |-> OnRowsChanged(OnRowCountChanged(s.g, s.v), s.v)]

With(s, v) == Told([s EXCEPT !.v = v])
Refreshed(s) == With(s, Refresh(s.v))
Redrawn(s) == [s EXCEPT !.g = Invalidate(@, s.v.rows)]

\* commitCurrentEdit with the page's onCellChange: the value goes into the item
\* of the active row, the grid is redrawn, and the view is refreshed unless the
\* project is still being created.
Cancel(s) == [s EXCEPT !.g = MakeNormal(@, s.v.rows)]

Drawn(g, v) == [v |-> v, g |-> Invalidate(MakeNormal(UpdateRow(g, v.rows, g.active.row), v.rows), v.rows)]
RefreshedUnless(s, isNew) == IF isNew THEN s ELSE Refreshed(s)

Commit(s) ==
  LET e  == s.g.editor
      id == s.v.rows[s.g.active.row + 1].id
  IN  IF ~e.open THEN [ok |-> TRUE, s |-> s]
      ELSE IF e.text # e.loaded /\ e.text \notin Values THEN [ok |-> FALSE, s |-> s]
      ELSE IF e.text = e.loaded \/ ~Exists(s.v.rows, s.g.active.row) THEN [ok |-> TRUE, s |-> Cancel(s)]
      ELSE [ok |-> TRUE,
            s  |-> RefreshedUnless(Drawn(s.g, ChangeInPlace(s.v, id, e.text)), id = NewItem.id)]

Activated(s, row, cell) ==
  [s EXCEPT !.g = SetActive(ScrollCellIntoView(@, s.v.rows, row, cell), s.v.rows, row, cell, TRUE)]
IfCommitted(c, row, cell) == IF c.ok THEN Activated(c.s, row, cell) ELSE c.s

\* Mutant of GotoCell: the cell becomes active before the edit is committed.
GotoCellAtOnce(s, row, cell) ==
  IF ~CanCellBeActive(s.v.rows, row, cell) THEN s ELSE Activated(s, row, cell)

GotoCell(s, row, cell) ==
  IF ~CanCellBeActive(s.v.rows, row, cell) THEN s ELSE IfCommitted(Commit(s), row, cell)

-----------------------------------------------------------------------------
(* the handlers *)

OnScreen ==
  {row \in grid.top..(grid.top + ViewRows) : Cached(grid, row)}
InSight(cell) == cell < Frozen \/ PosLeft(cell) \in grid.left..(grid.left + ViewCols - 1)

ScrollDown ==
  /\ "scroll" \in doing
  /\ \E top \in TopStops : Becomes([Now EXCEPT !.g =
       HandleScroll(@, view.rows, LeastOf(top, MaxTop(view.rows)), @.left)])

ScrollSideways ==
  /\ "sideways" \in doing
  /\ \E left \in LeftStops : Becomes([Now EXCEPT !.g = HandleScroll(@, view.rows, @.top, left)])

RenderTimer == grid.timer /\ Becomes([Now EXCEPT !.g = Render(@, view.rows)])

FollowTimer == grid.follow /\ Becomes([Now EXCEPT !.g = ScrollActiveCellIntoView(@, view.rows)])

\* A click on a cell; one on the cell that is being edited is the editor's.
Click ==
  /\ "click" \in doing
  /\ \E row \in OnScreen : \E cell \in DOMAIN grid.cache[row] :
       /\ InSight(cell)
       /\ ~(grid.editor.open /\ grid.active = [row |-> row, cell |-> cell])
       /\ Becomes(GotoCell(Now, row, cell))

Toggle(row) ==
  LET group == view.rows[row + 1]
  IN  With(Now, ExpandCollapseGroup(view, group.key, ~group.collapsed))

\* A click on the sign of a heading folds the group and goes no further: what
\* is being edited is not committed.
ClickToggle ==
  /\ "fold" \in doing
  /\ \E row \in OnScreen : Heading(view.rows, row) /\ Becomes(Toggle(row))

SpaceKey ==
  /\ "fold" \in doing
  /\ grid.node # "none"
  /\ Heading(view.rows, grid.active.row)
  /\ Becomes(Toggle(grid.active.row))

Type ==
  /\ "type" \in doing
  /\ grid.editor.open
  /\ grid.editor.attached
  /\ \E text \in Typed : grid' = [grid EXCEPT !.editor.text = text]
  /\ UNCHANGED <<view, doing>>

MovesOn(c, dir) == c.ok /\ Becomes([c.s EXCEPT !.g = Navigate(@, c.s.v.rows, dir)])

ArrowKey ==
  /\ "keys" \in doing
  /\ \E dir \in {"left", "right", "up", "down", "next", "prev"} :
       /\ grid.node # "none" \/ dir \in {"next", "prev"}
       /\ MovesOn(Commit(Now), dir)

\* With an editor open the value is committed and the next row becomes active.
EnterKey ==
  IF grid.editor.open THEN MovesOn(Commit(Now), "down")
  ELSE Becomes([Now EXCEPT !.g = MakeEditable(@, view.rows)])

EscapeKey == grid.editor.open /\ Becomes(Cancel(Now))

PageKey ==
  /\ "page" \in doing
  /\ \E dir \in {-1, 1} : Becomes([Now EXCEPT !.g = ScrollPage(@, view.rows, dir)])

\* The folding of all statuses, one call of the data view each.
Folded(s, status, collapse) == With(s, ExpandCollapseGroup(s.v, <<status>>, collapse))
FoldAll(s, collapse) ==
  IF collapse THEN Folded(Folded(Folded(s, "New", TRUE), "Active", TRUE), "Closed", TRUE)
  ELSE Folded(Folded(Folded(s, "Active", FALSE), "Closed", FALSE), "New", FALSE)

\* The search box: an empty text folds the groups, another one opens them.
Search ==
  /\ "search" \in doing
  /\ \E filter \in {NoFilter, [on |-> "project", value |-> Loaded[1].project]} :
       Becomes(Redrawn(Refreshed(FoldAll(Cancel([Now EXCEPT !.v.filter = filter]), filter = NoFilter))))

\* The diff would take an item that is added for one with its id that the rows
\* of an unfinished update still show: nobody adds one.
Addable(id) == id \notin DOMAIN view.idx /\ (view.suspended => RowById(view, id) = 0)

\* Create a project: the search is cleared, the item goes to the front, and its
\* name, in the third row, is to be edited.
Create ==
  /\ "create" \in doing
  /\ Addable(NewItem.id)
  /\ 0 \in OnScreen
  /\ LET Insert(s) == With(s, InsertItem(s.v, 1, NewItem))
         cleared == ExpandCollapseAll([view EXCEPT !.filter = NoFilter], {1, 2}, FALSE)
     IN  Becomes(Refreshed(GotoCell(Insert(With(Now, cleared)), 2, Min(EditCols))))

\* An answer of the server, or a rejected value, has the grid drawn anew.
Answer == Becomes(Redrawn(Now))

\* What else the data view offers, used by a program of its own.
DataCall ==
  \/ "sort" \in doing /\ \E ascending \in BOOLEAN : Becomes(With(Now, SortItems(view, "value", ascending)))
  \/ "paging" \in doing /\ \E size \in {0, 2} : Becomes(With(Now, SetPagesize(view, size)))
  \/ "paging" \in doing /\ view.pagesize > 0 /\ \E n \in 0..1 : Becomes(With(Now, SetPagenum(view, n)))
  \/ "items" \in doing /\ \E i \in ToSet(view.items), value \in Values :
       Becomes(With(Now, UpdateItem(view, [i EXCEPT !.value = value])))
  \/ "items" \in doing /\ \E i \in {i \in ToSet(Loaded) : Addable(i.id)} :
       Becomes(With(Now, AddItem(view, i)))
  \/ "items" \in doing /\ \E id \in DOMAIN view.idx : Becomes(With(Now, DeleteItem(view, id)))
  \/ "group" \in doing /\ \E levels \in {<<>>, ByStatus} : Becomes(With(Now, SetGrouping(view, levels)))
  \/ "filter" \in doing /\ \E filter \in {NoFilter, [on |-> "status", value |-> "New"]} :
       Becomes(With(Now, SetFilter(view, filter)))
  \/ "batch" \in doing /\ ~view.suspended /\ Becomes([Now EXCEPT !.v = BeginUpdate(@)])
  \/ "batch" \in doing /\ view.suspended /\ Becomes(With(Now, EndUpdate(view)))

Next ==
  \/ ScrollDown \/ ScrollSideways \/ RenderTimer \/ FollowTimer
  \/ Click \/ ClickToggle \/ SpaceKey \/ Type \/ ArrowKey \/ EnterKey \/ EscapeKey \/ PageKey
  \/ Search \/ Create \/ Answer \/ DataCall

Spec == Init /\ [][Next]_vars

-----------------------------------------------------------------------------
(* properties *)

TypeOK ==
  /\ DOMAIN grid.cache \subseteq 0..Len(view.rows)
  /\ grid.top \in 0..MaxTop(view.rows) /\ grid.left \in 0..MaxLeft
  /\ grid.active = NoCell \/ grid.active \in [row : Nat, cell : Cols]
  /\ grid.node \in {"none", "live", "dead"}
  /\ grid.node # "none" => grid.active.row \in 0..Len(view.rows)
  /\ grid.node = "live" => HasCell(grid, grid.active.row, grid.active.cell)

\* The screen is current: everything in the viewport is drawn, or a timer will
\* draw it, and every drawn cell shows what the data view holds for its row
\* now, although only reported rows are drawn again.  The exceptions
\* are the cell being edited and frozen cells drawn while scrolled far right.
ScreenCurrent ==
  /\ \A row \in DOMAIN grid.cache : \A c \in DOMAIN grid.cache[row] :
       \/ grid.cache[row][c] = Shown(view.rows, row)
       \/ grid.cache[row][c] = Editor /\ grid.editor.open /\ grid.active = [row |-> row, cell |-> c]
       \/ grid.cache[row][c] = Blank /\ c < Frozen
  /\ grid.timer \/ \A row \in grid.top..LeastOf(Len(view.rows), grid.top + ViewRows) : Cached(grid, row)

\* The rows of the data view are those one computes from the items alone: the
\* items of the page that pass the filter and whose groups are open, each once.
RowsRight ==
  LET page == ToSet(PageRows(view, Filtered(view)))
      open(i) == view.grouping # <<>> =>
                   /\ ~Collapsed(view, 1, <<i.status>>)
                   /\ ~Collapsed(view, 2, <<i.status, i.project>>)
      shown == SelectSeq(view.rows, LAMBDA r : IsItem(r))
  IN  ~view.suspended =>
        /\ ToSet(shown) = {i \in page : open(i)}
        /\ IsInjective(shown)
        /\ \A i \in ToSet(view.items) : view.items[view.idx[i.id]] = i

\* The totals row of a status is the sum of its forecasts on the page, whatever
\* is folded; a project that is being created counts from the next refresh on.
TotalsRight ==
  (~view.suspended /\ NewItem.id \notin DOMAIN view.idx) =>
    \A r \in ToSet(view.rows) : IsTotals(r) =>
      r.sum = MapThenSumSet(LAMBDA i : i.value,
                {i \in ToSet(PageRows(view, Filtered(view))) : i.status = Last(r.key) /\ i.forecast})

\* However often it was told to wait, page, fold or regroup: what the data view
\* shows is a function of its items (recalc, flattenGroupedRows, calculateTotals).
ViewRight == RowsRight /\ TotalsRight

\* What is in an editor goes to the item it was opened on: rows may move, but
\* while the editor is open its item stays in the active row, unless that row
\* has become the add-new row.
EditorOnItsItem ==
  (grid.editor.open /\ ~grid.editor.new /\ Exists(view.rows, grid.active.row)) =>
    LET r == view.rows[grid.active.row + 1] IN IsItem(r) /\ r.id = grid.editor.id

\* No redrawing takes an editor off the screen and leaves it open, unless its
\* row is no longer there.
EditorLost ==
  /\ grid.editor.open /\ grid.editor.attached
  /\ grid'.editor.open /\ ~grid'.editor.attached
  /\ Exists(view'.rows, grid'.active.row)
EditorOnScreen == [][~EditorLost]_vars

\* A value that was typed is dropped by the handlers that are meant to cancel
\* or that redraw the rows, and by the page keys, which do not commit; never by
\* scrolling, a timer, a click on a cell or the other keys, while its row is there.
Dropped ==
  /\ Exists(view.rows, grid.active.row)
  /\ grid.editor.open /\ grid.editor.text \in Values \ {grid.editor.loaded} /\ ~grid.editor.new
  /\ ~grid'.editor.open
  /\ \E i \in ToSet(view'.items) : i.id = grid.editor.id /\ i.value # grid.editor.text
TypedKept == [][Dropped => EscapeKey \/ Search \/ Create \/ Answer \/ ClickToggle \/ PageKey \/ DataCall]_vars
=============================================================================
