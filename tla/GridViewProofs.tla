--------------------------- MODULE GridViewProofs ---------------------------
(***************************************************************************)
(* The grid on its data view, for any items, sizes and sessions.  An open  *)
(* editor stays on its item and on the screen while the rows change under  *)
(* it, and a typed value is kept; the index of the data view is right; and *)
(* although only the rows that the data view reports are drawn again, the  *)
(* screen shows the rows as they are.                                      *)
(***************************************************************************)
EXTENDS GridView, DataLemmas

-----------------------------------------------------------------------------
(* what an editor is opened on *)

GridFields ==
  {"cache", "top", "left", "dir", "drawnTop", "drawnLeft", "timer", "follow", "active", "posX", "node", "editor"}
EditorFields == {"open", "new", "attached", "id", "loaded", "text"}
GridForm(g) ==
  /\ DOMAIN g = GridFields /\ DOMAIN g.cache \subseteq Int /\ g.active.row \in Int
  /\ g.editor.open \in BOOLEAN /\ (g.editor.open => DOMAIN g.editor = EditorFields)

\* What is drawn is drawn around the editor.
Still(g, h) == GridForm(h) /\ h.active = g.active /\ h.editor = g.editor
NoEdit(h) == GridForm(h) /\ ~h.editor.open

LEMMA StillTwice == ASSUME NEW g, NEW h, NEW k, Still(g, h), Still(h, k) PROVE Still(g, k)
BY DEF Still

LEMMA RemoveRowsIs ==
  ASSUME NEW g, GridForm(g), NEW rows
  PROVE  LET h == RemoveRows(g, rows)
         IN  /\ GridForm(h) /\ h.active = g.active
             /\ h.editor = g.editor \/ (g.editor.open /\ g.active.row \in rows /\ h.editor = [g.editor EXCEPT !.attached = FALSE])
<1> DEFINE gone == g.active.row \in rows \cap DOMAIN g.cache
           cache == [r \in DOMAIN g.cache \ rows |-> g.cache[r]]
           node == IF gone /\ g.node = "live" THEN "dead" ELSE g.node
           editor == IF gone /\ g.editor.open THEN [g.editor EXCEPT !.attached = FALSE] ELSE g.editor
           h == [g EXCEPT !.cache = cache, !.node = node, !.editor = editor]
<1>1. RemoveRows(g, rows) = h
  BY DEF RemoveRows
<1>2. DOMAIN cache \subseteq Int
  BY DEF GridForm
<1>3. editor = g.editor \/ (g.editor.open /\ g.active.row \in rows /\ editor = [g.editor EXCEPT !.attached = FALSE])
  OBVIOUS
<1>4. editor.open = g.editor.open /\ (g.editor.open => DOMAIN editor = EditorFields)
  BY <1>3 DEF GridForm, EditorFields
<1> HIDE DEF cache, node, editor
<1>5. DOMAIN h = GridFields /\ h.cache = cache /\ h.editor = editor /\ h.active = g.active
  BY DEF GridForm, GridFields
<1> HIDE DEF h
<1> QED BY <1>1, <1>2, <1>3, <1>4, <1>5 DEF GridForm

LEMMA CleanupStill == ASSUME NEW g, GridForm(g), NEW range PROVE Still(g, CleanupRows(g, range))
BY RemoveRowsIs DEF CleanupRows, Still

LEMMA RenderStill == ASSUME NEW g, GridForm(g), NEW d PROVE Still(g, Render(g, d))
<1> DEFINE range == RenderedRange(g, d)
           a == CleanupRows(g, range)
           b == RenderCells(a, d, range)
           c == RenderRows(b, d, range)
           e == [c EXCEPT !.drawnTop = g.top, !.drawnLeft = g.left, !.timer = FALSE]
<1>1. Still(g, a)
  BY CleanupStill
<1>2. Render(g, d) = e
  BY DEF Render, RenderRange
<1> HIDE DEF a, range
<1>3. Still(a, b)
  <2>1. CASE b = a
    BY <1>1, <2>1 DEF Still
  <2>2. CASE b = CleanUpAndRenderCells(a, d, range)
    <3>1. PICK new : b = [a EXCEPT !.cache = new] /\ DOMAIN new = DOMAIN a.cache
      BY <2>2 DEF CleanUpAndRenderCells
    <3> QED BY <1>1, <3>1 DEF Still, GridForm, GridFields
  <2> QED BY <2>1, <2>2 DEF RenderCells
<1> HIDE DEF b
<1>4. Still(b, c)
  <2> DEFINE new == (range.top..range.bottom) \ DOMAIN b.cache
             all == [r \in DOMAIN b.cache \cup new |-> IF r \in new THEN RowHtml(d, r, range) ELSE b.cache[r]]
             node == IF ~(b.node # "none" /\ b.active.row \in new) THEN b.node
                     ELSE IF b.active.cell \in DOMAIN all[b.active.row] THEN "live" ELSE "none"
  <2>1. c = [b EXCEPT !.cache = all, !.node = node]
    BY DEF RenderRows
  <2>2. DOMAIN all \subseteq DOMAIN b.cache \cup (range.top..range.bottom)
    OBVIOUS
  <2> HIDE DEF all, node
  <2> QED BY <1>3, <2>1, <2>2 DEF Still, GridForm, GridFields
<1> HIDE DEF c
<1>5. Still(c, e)
  BY <1>4 DEF Still, GridForm, GridFields
<1> HIDE DEF e
<1> QED BY <1>1, <1>2, <1>3, <1>4, <1>5 DEF Still

LEMMA ScrollToStill == ASSUME NEW g, GridForm(g), NEW d, NEW y PROVE Still(g, ScrollTo(g, d, y))
BY DEF ScrollTo, Still, GridForm, GridFields

LEMMA HandleScrollStill ==
  ASSUME NEW g, GridForm(g), NEW d, NEW top, NEW left PROVE Still(g, HandleScroll(g, d, top, left))
<1> DEFINE dir == IF top = g.top THEN g.dir ELSE IF top > g.top THEN 1 ELSE -1
           h == [g EXCEPT !.top = top, !.left = left, !.timer = FALSE, !.dir = dir]
<1>1. HandleScroll(g, d, top, left) \in {g, Render(h, d), [h EXCEPT !.timer = Undrawn(g, top, left)]}
  BY DEF HandleScroll
<1> HIDE DEF dir
<1>2. Still(g, h) /\ Still(g, [h EXCEPT !.timer = Undrawn(g, top, left)]) /\ Still(g, g)
  BY DEF Still, GridForm, GridFields
<1> HIDE DEF h
<1>3. Still(g, Render(h, d))
  BY <1>2, RenderStill, StillTwice DEF Still
<1> QED BY <1>1, <1>2, <1>3

LEMMA ScrollCellStill ==
  ASSUME NEW g, GridForm(g), NEW d, NEW row, NEW col PROVE Still(g, ScrollCellIntoView(g, d, row, col))
<1> DEFINE h == HandleScroll(g, d, g.top, LeftFor(g, d, row, col))
<1>1. Still(g, h)
  BY HandleScrollStill
<1> HIDE DEF h
<1>2. Still(g, Render(h, d))
  BY <1>1, RenderStill, StillTwice DEF Still
<1> QED BY <1>2 DEF ScrollCellIntoView, Still, h

LEMMA ScrollActiveStill == ASSUME NEW g, GridForm(g), NEW d PROVE Still(g, ScrollActiveCellIntoView(g, d))
<1> DEFINE h == [g EXCEPT !.follow = FALSE]
<1>1. Still(g, h)
  BY DEF Still, GridForm, GridFields
<1> HIDE DEF h
<1>2. Still(h, ScrollCellIntoView(h, d, g.active.row, g.active.cell))
  BY <1>1, ScrollCellStill DEF Still
<1> QED BY <1>1, <1>2, StillTwice DEF ScrollActiveCellIntoView, h

LEMMA UpdateRowStill == ASSUME NEW g, GridForm(g), NEW d, NEW row PROVE Still(g, UpdateRow(g, d, row))
<1>1. UpdateRow(g, d, row) = g \/ \E new : UpdateRow(g, d, row) = [g EXCEPT !.cache = new] /\ DOMAIN new = DOMAIN g.cache
  <2> DEFINE r == [c \in DOMAIN g.cache[row] |-> IF g.cache[row][c] = Editor THEN Editor ELSE Shown(d, row)]
             new == [g.cache EXCEPT ![row] = r]
  <2>1. UpdateRow(g, d, row) = g \/ UpdateRow(g, d, row) = [g EXCEPT !.cache = new]
    BY DEF UpdateRow
  <2>2. DOMAIN new = DOMAIN g.cache
    OBVIOUS
  <2> QED BY <2>1, <2>2
<1> QED BY <1>1 DEF Still, GridForm, GridFields

LEMMA NormalIs ==
  ASSUME NEW g, GridForm(g), NEW d
  PROVE  NoEdit(MakeNormal(g, d)) /\ MakeNormal(g, d).active = g.active
<1> DEFINE new == [g.cache EXCEPT ![g.active.row][g.active.cell] = Shown(d, g.active.row)]
           a == [g EXCEPT !.editor = NoEditor]
           b == [g EXCEPT !.editor = NoEditor, !.cache = new]
<1>1. (MakeNormal(g, d) = g /\ ~g.editor.open) \/ MakeNormal(g, d) = a \/ MakeNormal(g, d) = b
  BY DEF MakeNormal, GridForm, GridFields
<1>2. DOMAIN new = DOMAIN g.cache
  OBVIOUS
<1> HIDE DEF new
<1>3. NoEdit(a) /\ NoEdit(b) /\ a.active = g.active /\ b.active = g.active
  BY <1>2 DEF NoEdit, GridForm, GridFields, NoEditor
<1> HIDE DEF a, b
<1> QED BY <1>1, <1>3 DEF NoEdit

\* The editor's item is in the active row ...
OnItem(d, g) ==
  (g.editor.open /\ ~g.editor.new /\ Exists(d, g.active.row)) =>
    IsItem(d[g.active.row + 1]) /\ d[g.active.row + 1].id = g.editor.id
\* ... and the row is on the screen.
InPlace(d, g) == g.editor.open /\ Exists(d, g.active.row) => g.editor.attached

LEMMA StillThere ==
  ASSUME NEW g, NEW h, Still(g, h), NEW d
  PROVE  (OnItem(d, g) => OnItem(d, h)) /\ (InPlace(d, g) => InPlace(d, h))
BY DEF Still, OnItem, InPlace

LEMMA ClosedThere == ASSUME NEW h, NoEdit(h), NEW d PROVE OnItem(d, h) /\ InPlace(d, h)
BY DEF NoEdit, OnItem, InPlace

LEMMA EditableIs ==
  ASSUME NEW g, NoEdit(g), NEW d
  PROVE  LET h == MakeEditable(g, d)
         IN  GridForm(h) /\ h.active = g.active /\ OnItem(d, h) /\ (g.node = "live" => InPlace(d, h))
<1> DEFINE row == g.active.row
           item == Exists(d, row)
           open == [open |-> TRUE, new |-> ~item, attached |-> g.node = "live",
                    id |-> IF item THEN d[row + 1].id ELSE "none",
                    loaded |-> IF item THEN d[row + 1].value ELSE 0,
                    text |-> IF item THEN d[row + 1].value ELSE 0]
           a == [g EXCEPT !.editor = open]
           new == [a.cache EXCEPT ![row][g.active.cell] = Editor]
           b == [a EXCEPT !.cache = new]
           h == MakeEditable(g, d)
<1>1. h = g \/ ((h = a \/ h = b) /\ ~Special(d, row))
  BY DEF MakeEditable, PotentiallyEditable
<1>2. open.open /\ DOMAIN open = EditorFields /\ open.attached = (g.node = "live") /\ (item => open.id = d[row + 1].id)
  BY DEF EditorFields
<1> HIDE DEF open
<1>3. GridForm(a) /\ a.active = g.active /\ a.editor = open
  BY <1>2 DEF NoEdit, GridForm, GridFields
<1> HIDE DEF a
<1>4. DOMAIN new = DOMAIN a.cache
  OBVIOUS
<1> HIDE DEF new
<1>5. GridForm(b) /\ b.active = g.active /\ b.editor = open
  BY <1>3, <1>4 DEF GridForm, GridFields
<1> HIDE DEF b
<1>6. ASSUME h = g PROVE GridForm(h) /\ h.active = g.active /\ OnItem(d, h) /\ (g.node = "live" => InPlace(d, h))
  BY <1>6, ClosedThere DEF NoEdit
<1>7. ASSUME (h = a \/ h = b) /\ ~Special(d, row)
      PROVE  GridForm(h) /\ h.active = g.active /\ OnItem(d, h) /\ (g.node = "live" => InPlace(d, h))
  <2>1. GridForm(h) /\ h.active = g.active /\ h.editor = open
    BY <1>3, <1>5, <1>7
  <2> HIDE DEF h
  <2>2. item => IsItem(d[row + 1])
    BY <1>7 DEF Special, IsItem
  <2>3. OnItem(d, h) /\ (g.node = "live" => InPlace(d, h))
    BY <1>2, <2>1, <2>2 DEF OnItem, InPlace
  <2> QED BY <2>1, <2>3
<1> HIDE DEF h
<1> QED BY <1>1, <1>6, <1>7 DEF h

LEMMA SetActiveIs ==
  ASSUME NEW g, GridForm(g), NEW d, NEW row, NEW col
  PROVE  LET h == SetActive(g, d, row, col, TRUE) IN GridForm(h) /\ OnItem(d, h) /\ InPlace(d, h)
<1> DEFINE a == MakeNormal(g, d)
           at == [row |-> row, cell |-> col]
           follow == a.follow \/ g.node # "live" \/ g.active # at
           n == [a EXCEPT !.active = at, !.posX = col, !.node = "live", !.follow = follow]
           none == [a EXCEPT !.active = NoCell, !.node = "none"]
           h == SetActive(g, d, row, col, TRUE)
<1>1. h = none \/ (h = MakeEditable(n, d) /\ row \in DOMAIN a.cache)
  BY DEF SetActive, HasCell, Cached
<1>2. NoEdit(a)
  BY NormalIs
<1> HIDE DEF a, follow
<1>3. NoEdit(none)
  BY <1>2 DEF NoEdit, GridForm, GridFields, NoCell
<1>4. row \in DOMAIN a.cache => NoEdit(n) /\ n.node = "live"
  BY <1>2 DEF NoEdit, GridForm, GridFields
<1> HIDE DEF n, none, h
<1>5. ASSUME h = none PROVE GridForm(h) /\ OnItem(d, h) /\ InPlace(d, h)
  BY <1>3, <1>5, ClosedThere DEF NoEdit
<1>6. ASSUME h = MakeEditable(n, d) /\ row \in DOMAIN a.cache PROVE GridForm(h) /\ OnItem(d, h) /\ InPlace(d, h)
  BY <1>4, <1>6, EditableIs
<1> QED BY <1>1, <1>5, <1>6 DEF h

LEMMA ResetIs == ASSUME NEW g, GridForm(g), NEW d PROVE NoEdit(ResetActive(g, d))
<1> DEFINE a == MakeNormal(g, d)
<1>1. NoEdit(a)
  BY NormalIs
<1> HIDE DEF a
<1>2. NoEdit([a EXCEPT !.active = NoCell, !.node = "none"])
  BY <1>1 DEF NoEdit, GridForm, GridFields, NoCell
<1> QED BY <1>2 DEF ResetActive, a

\* A row that is gone takes the editor off the screen.
LEMMA RowCountIs ==
  ASSUME NEW g, GridForm(g), NEW d
  PROVE  LET h == UpdateRowCount(g, d)
         IN  /\ GridForm(h)
             /\ \/ ~h.editor.open
                \/ h.active = g.active /\ h.editor = g.editor
                \/ /\ h.active = g.active /\ ~Exists(d, g.active.row) /\ g.editor.open
                   /\ h.editor = [g.editor EXCEPT !.attached = FALSE]
<1> DEFINE a == RemoveRows(g, {r \in DOMAIN g.cache : ~Exists(d, r)})
           b == ResetIfBeyond(a, d)
           h == ScrollTo(b, d, g.top)
<1>1. /\ GridForm(a) /\ a.active = g.active
      /\ a.editor = g.editor \/ (g.editor.open /\ ~Exists(d, g.active.row) /\ a.editor = [g.editor EXCEPT !.attached = FALSE])
  BY RemoveRowsIs
<1> HIDE DEF a
<1>2. b = a \/ NoEdit(b)
  BY <1>1, ResetIs DEF ResetIfBeyond
<1> HIDE DEF b
<1>3. GridForm(b)
  BY <1>1, <1>2 DEF NoEdit
<1>4. Still(b, h)
  BY <1>3, ScrollToStill
<1> HIDE DEF h
<1>5. GridForm(h) /\ h.active = b.active /\ h.editor = b.editor
  BY <1>4 DEF Still
<1>6. UpdateRowCount(g, d) = h
  BY DEF UpdateRowCount, h, b, a
<1> QED BY <1>1, <1>2, <1>5, <1>6 DEF NoEdit

LEMMA InvalidateRowsIs ==
  ASSUME NEW g, GridForm(g), NEW d, NEW rows
  PROVE  LET h == InvalidateRows(g, d, rows)
         IN  GridForm(h) /\ (~h.editor.open \/ (h.active = g.active /\ h.editor = g.editor /\ g.active.row \notin rows))
<1> DEFINE a == IF g.active.row \in rows THEN MakeNormal(g, d) ELSE g
           b == RemoveRows(a, rows)
           h == [b EXCEPT !.dir = 0]
<1>1. GridForm(a) /\ a.active = g.active /\ (g.active.row \in rows => ~a.editor.open) /\ (g.active.row \notin rows => a = g)
  BY NormalIs DEF NoEdit
<1> HIDE DEF a
<1>2. /\ GridForm(b) /\ b.active = a.active
      /\ b.editor = a.editor \/ (a.editor.open /\ a.active.row \in rows /\ b.editor = [a.editor EXCEPT !.attached = FALSE])
  BY <1>1, RemoveRowsIs
<1> HIDE DEF b
<1>3. GridForm(h) /\ h.active = b.active /\ h.editor = b.editor
  BY <1>2 DEF GridForm, GridFields
<1> HIDE DEF h
<1>4. InvalidateRows(g, d, rows) = h \/ (InvalidateRows(g, d, rows) = g /\ rows = {})
  BY DEF InvalidateRows, h, b, a
<1> QED BY <1>1, <1>2, <1>3, <1>4

LEMMA InvalidateIs == ASSUME NEW g, GridForm(g), NEW d PROVE NoEdit(Invalidate(g, d))
<1> DEFINE a == UpdateRowCount(g, d)
           b == MakeNormal(a, d)
           c == RemoveRows(b, DOMAIN a.cache)
<1>1. GridForm(a)
  BY RowCountIs
<1> HIDE DEF a
<1>2. NoEdit(b)
  BY <1>1, NormalIs
<1> HIDE DEF b
<1>3. NoEdit(c)
  BY <1>2, RemoveRowsIs DEF NoEdit
<1> HIDE DEF c
<1>4. Still(c, Render(c, d))
  BY <1>3, RenderStill DEF NoEdit
<1> QED BY <1>3, <1>4 DEF Invalidate, InvalidateAll, NoEdit, Still, c, b, a

LEMMA NavigateIs ==
  ASSUME NEW g, GridForm(g), NEW d, NEW dir
  PROVE  LET h == Navigate(g, d, dir)
         IN  GridForm(h) /\ (OnItem(d, g) => OnItem(d, h)) /\ (InPlace(d, g) => InPlace(d, h))
<1> DEFINE pos == Step(d, dir, g.active, g.posX)
           a == SetActive(g, d, g.active.row, g.active.cell, TRUE)
           b == ScrollCellIntoView(g, d, pos.row, pos.cell)
           c == SetActive(b, d, pos.row, pos.cell, TRUE)
           e == [c EXCEPT !.posX = pos.posX]
           h == Navigate(g, d, dir)
<1>1. h \in {g, a, e}
  BY DEF Navigate, NavigateTo
<1> HIDE DEF pos, h
<1>2. GridForm(a) /\ OnItem(d, a) /\ InPlace(d, a)
  BY SetActiveIs
<1> HIDE DEF a
<1>3. GridForm(b)
  BY ScrollCellStill DEF Still
<1> HIDE DEF b
<1>4. GridForm(c) /\ OnItem(d, c) /\ InPlace(d, c)
  BY <1>3, SetActiveIs
<1> HIDE DEF c
<1>5. Still(c, e)
  BY <1>4 DEF Still, GridForm, GridFields
<1>6. GridForm(e) /\ OnItem(d, e) /\ InPlace(d, e)
  BY <1>4, <1>5, StillThere DEF Still
<1> HIDE DEF e
<1>7. GridForm(h) /\ (OnItem(d, g) => OnItem(d, h)) /\ (InPlace(d, g) => InPlace(d, h))
  BY <1>1, <1>2, <1>6
<1> QED BY <1>7 DEF h

LEMMA ScrollPageIs ==
  ASSUME NEW g, GridForm(g), NEW d, NEW dir
  PROVE  LET h == ScrollPage(g, d, dir)
         IN  GridForm(h) /\ (OnItem(d, g) => OnItem(d, h)) /\ (InPlace(d, g) => InPlace(d, h))
<1> DEFINE row == LeastOf(GreatestOf(g.active.row + dir * ViewRows, 0), Len(d))
           a == ScrollTo(g, d, g.top + dir * ViewRows)
           b == Render(a, d)
           open == {c \in Focusable(d, row) : c <= b.posX}
           c == SetActive(b, d, row, Max(open), TRUE)
           e == [c EXCEPT !.posX = b.posX]
           h == ActivateInRow(b, d, row)
<1>1. Still(g, b)
  BY ScrollToStill, RenderStill, StillTwice DEF Still
<1> HIDE DEF row, a
<1>2. h \in {b, ResetActive(b, d), e}
  BY DEF ActivateInRow
<1> HIDE DEF open, h, b
<1>3. GridForm(b)
  BY <1>1 DEF Still
<1>4. GridForm(c) /\ OnItem(d, c) /\ InPlace(d, c)
  BY <1>3, SetActiveIs
<1> HIDE DEF c
<1>5. Still(c, e)
  BY <1>4 DEF Still, GridForm, GridFields
<1>6. GridForm(e) /\ OnItem(d, e) /\ InPlace(d, e)
  BY <1>4, <1>5, StillThere DEF Still
<1> HIDE DEF e
<1>7. NoEdit(ResetActive(b, d))
  BY <1>3, ResetIs
<1>8. GridForm(ResetActive(b, d)) /\ OnItem(d, ResetActive(b, d)) /\ InPlace(d, ResetActive(b, d))
  BY <1>7, ClosedThere DEF NoEdit
<1>9. GridForm(h) /\ (OnItem(d, g) => OnItem(d, h)) /\ (InPlace(d, g) => InPlace(d, h))
  BY <1>1, <1>2, <1>3, <1>6, <1>8, StillThere
<1> QED BY <1>9 DEF ScrollPage, h, b, a, row

-----------------------------------------------------------------------------
(* what the data view reports *)

ViewFields ==
  {"items", "idx", "rows", "filter", "grouping", "toggled", "pagesize", "pagenum", "totalRows", "suspended",
   "updated", "told"}
ViewForm(v) == DOMAIN v = ViewFields

\* Where nothing is reported, an item is where it was.
Follows(v, w) ==
  /\ ViewForm(w)
  /\ \A i \in DOMAIN w.rows \ w.told.changed :
       /\ i \in DOMAIN v.rows
       /\ IsItem(v.rows[i]) => IsItem(w.rows[i]) /\ w.rows[i].id = v.rows[i].id

SameItems(v, w) == w.items = v.items /\ w.idx = v.idx

LEMMA RefreshIs ==
  ASSUME NEW v, NEW u, ViewForm(u), u.rows = v.rows
  PROVE  LET w == Refresh(u)
         IN  /\ Follows(v, w) /\ SameItems(u, w) /\ Follows(v, [w EXCEPT !.told.paging = TRUE])
             /\ SameItems(u, [w EXCEPT !.told.paging = TRUE])
<1> DEFINE w == Refresh(u)
           p == [w EXCEPT !.told.paging = TRUE]
<1>1. /\ ViewForm(w) /\ SameItems(u, w)
      /\ DOMAIN w.told = {"paging", "count", "changed"}
      /\ \/ w.rows = u.rows
         \/ w.told.changed = RowDiffs(u, w.rows)
  <2>1. CASE u.suspended
    BY <2>1 DEF Refresh, ViewForm, ViewFields, SameItems, Quiet
  <2>2. CASE ~u.suspended
    <3> DEFINE new == RowsOf(u)
               n == Len(Filtered(u))
               page == PageOf(u, n)
               diffs == RowDiffs(u, new)
               told == [paging |-> n # u.totalRows, count |-> Len(new) # Len(u.rows), changed |-> diffs]
    <3>1. w = [u EXCEPT !.rows = new, !.totalRows = n, !.pagenum = page, !.updated = {}, !.told = told]
      BY <2>2 DEF Refresh
    <3>2. DOMAIN told = {"paging", "count", "changed"} /\ told.changed = diffs
      OBVIOUS
    <3> HIDE DEF new, n, page, told, w
    <3>3. DOMAIN w = ViewFields /\ w.items = u.items /\ w.idx = u.idx /\ w.told = told /\ w.rows = new
      BY <3>1 DEF ViewForm, ViewFields
    <3> QED BY <3>2, <3>3 DEF ViewForm, SameItems
  <2> QED BY <2>1, <2>2
<1> HIDE DEF w
<1>2. Follows(v, w)
  <2>1. ASSUME NEW i \in DOMAIN w.rows \ w.told.changed
        PROVE  i \in DOMAIN v.rows /\ (IsItem(v.rows[i]) => IsItem(w.rows[i]) /\ w.rows[i].id = v.rows[i].id)
    <3>1. CASE w.rows = u.rows
      BY <2>1, <3>1
    <3>2. CASE w.told.changed = RowDiffs(u, w.rows)
      <4>1. i \in DOMAIN u.rows /\ ~Differs(u, w.rows[i], u.rows[i])
        BY <2>1, <3>2 DEF RowDiffs
      <4>2. IsItem(w.rows[i]) = IsItem(u.rows[i]) /\ (IsItem(w.rows[i]) => w.rows[i].id = u.rows[i].id)
        BY <4>1 DEF Differs, IsItem
      <4> QED BY <4>1, <4>2
    <3> QED BY <1>1, <3>1, <3>2
  <2> QED BY <1>1, <2>1 DEF Follows
<1>3. Follows(v, p) /\ SameItems(u, p)
  <2>1. ViewForm(p) /\ p.rows = w.rows /\ p.told.changed = w.told.changed /\ p.items = w.items /\ p.idx = w.idx
    BY <1>1 DEF ViewForm, ViewFields
  <2> HIDE DEF p
  <2> QED BY <1>1, <1>2, <2>1 DEF Follows, SameItems
<1> QED BY <1>1, <1>2, <1>3 DEF w

LEMMA FollowsFrom ==
  ASSUME NEW v, NEW u, NEW w, Follows(u, w), u.rows = v.rows PROVE Follows(v, w)
BY DEF Follows

Both(s) == DOMAIN s = {"v", "g"} /\ ViewForm(s.v) /\ GridForm(s.g)

\* What the grid does when it is told: the editor stays on its item or closes.
LEMMA WithIs ==
  ASSUME NEW s, Both(s), NEW w, Follows(s.v, w)
  PROVE  LET t == With(s, w)
         IN  /\ Both(t) /\ SameItems(w, t.v) /\ t.v.rows = w.rows
             /\ OnItem(s.v.rows, s.g) => OnItem(t.v.rows, t.g)
             /\ InPlace(s.v.rows, s.g) => InPlace(t.v.rows, t.g)
             /\ ~s.g.editor.open => ~t.g.editor.open
<1> DEFINE d == w.rows
           g == s.g
           row == g.active.row
           a == OnRowCountChanged(g, w)
           b == UpdateRowCount(g, d)
           rows == {i - 1 : i \in w.told.changed}
           h == OnRowsChanged(a, w)
           c == InvalidateRows(a, d, rows)
           t == With(s, w)
<1>1. Both([s EXCEPT !.v = w]) /\ [s EXCEPT !.v = w].v = w /\ [s EXCEPT !.v = w].g = g
  BY DEF Both, Follows
<1>2. t = [v |-> [w EXCEPT !.told = Quiet], g |-> h]
  BY <1>1 DEF With, Told
<1>3. ViewForm([w EXCEPT !.told = Quiet]) /\ [w EXCEPT !.told = Quiet].rows = d /\ SameItems(w, [w EXCEPT !.told = Quiet])
  BY DEF Follows, ViewForm, ViewFields, SameItems
<1>4. GridForm(g) /\ row \in Int
  BY DEF Both, GridForm
<1>5. /\ GridForm(a)
      /\ \/ ~a.editor.open
         \/ a.active = g.active /\ a.editor = g.editor
         \/ /\ a.active = g.active /\ ~Exists(d, row) /\ g.editor.open
            /\ a.editor = [g.editor EXCEPT !.attached = FALSE]
  <2>1. /\ GridForm(b)
        /\ \/ ~b.editor.open
           \/ b.active = g.active /\ b.editor = g.editor
           \/ /\ b.active = g.active /\ ~Exists(d, row) /\ g.editor.open
              /\ b.editor = [g.editor EXCEPT !.attached = FALSE]
    BY <1>4, RowCountIs
  <2> HIDE DEF b
  <2>2. Still(b, Render(b, d))
    BY <2>1, RenderStill
  <2>3. a = g \/ a = Render(b, d)
    BY DEF OnRowCountChanged, b
  <2> HIDE DEF a
  <2>4. CASE a = g
    BY <1>4, <2>4
  <2>5. CASE a = Render(b, d)
    BY <2>1, <2>2, <2>5 DEF Still
  <2> QED BY <2>3, <2>4, <2>5
<1> HIDE DEF a
<1>6. GridForm(h) /\ (~h.editor.open \/ (h.active = a.active /\ h.editor = a.editor /\ a.active.row + 1 \notin w.told.changed))
  <2>1. GridForm(c) /\ (~c.editor.open \/ (c.active = a.active /\ c.editor = a.editor /\ a.active.row \notin rows))
    BY <1>5, InvalidateRowsIs
  <2>2. a.active.row \notin rows => a.active.row + 1 \notin w.told.changed
    <3>1. a.active.row \in Int
      BY <1>5 DEF GridForm
    <3> QED BY <3>1
  <2> HIDE DEF c, rows
  <2>3. Still(c, Render(c, d))
    BY <2>1, RenderStill
  <2>4. (h = a /\ w.told.changed = {}) \/ h = Render(c, d)
    BY DEF OnRowsChanged, c, rows
  <2> HIDE DEF h
  <2>5. CASE h = a /\ w.told.changed = {}
    BY <1>5, <2>5
  <2>6. CASE h = Render(c, d)
    BY <2>1, <2>2, <2>3, <2>6 DEF Still
  <2> QED BY <2>4, <2>5, <2>6
<1> HIDE DEF h
<1>7. /\ OnItem(s.v.rows, g) => OnItem(d, h)
      /\ InPlace(s.v.rows, g) => InPlace(d, h)
      /\ ~g.editor.open => ~h.editor.open
  <2>1. CASE ~h.editor.open
    BY <2>1 DEF OnItem, InPlace
  <2>2. CASE h.editor.open
    <3>1. h.active = g.active /\ h.editor = a.editor /\ a.editor.open /\ row + 1 \notin w.told.changed
      BY <1>5, <1>6, <2>2
    <3>2. Exists(d, row) => /\ h.editor = g.editor /\ Exists(s.v.rows, row)
                            /\ IsItem(s.v.rows[row + 1]) => IsItem(d[row + 1]) /\ d[row + 1].id = s.v.rows[row + 1].id
      BY <1>5, <3>1 DEF Exists, Follows
    <3>3. g.editor.open
      BY <1>5, <3>1
    <3> QED BY <3>1, <3>2, <3>3 DEF OnItem, InPlace
  <2> QED BY <2>1, <2>2
<1>8. t.v = [w EXCEPT !.told = Quiet] /\ t.g = h /\ DOMAIN t = {"v", "g"}
  BY <1>2
<1> HIDE DEF t
<1>9. Both(t) /\ SameItems(w, t.v) /\ t.v.rows = w.rows
  BY <1>3, <1>6, <1>8 DEF Both
<1> QED BY <1>7, <1>8, <1>9 DEF t

-----------------------------------------------------------------------------
(* items and their index *)

\* t has x at k and otherwise the elements of s in their order.
Inserted(t, s, k, x) ==
  /\ Sequence(t) /\ DOMAIN t = 1..(Len(s) + 1) /\ t[k] = x
  /\ \A i \in 1..(Len(s) + 1) : i < k => t[i] = s[i]
  /\ \A i \in 1..(Len(s) + 1) : i > k => t[i] = s[i - 1]

LEMMA InsertAtIs ==
  ASSUME NEW s, Sequence(s), NEW k \in 1..(Len(s) + 1), NEW x
  PROVE  Inserted(InsertAt(s, k, x), s, k, x)
<1> DEFINE S == {s[i] : i \in DOMAIN s} \cup {x}
           n == Len(s)
           a == SubSeq(s, 1, k - 1)
           b == SubSeq(s, k, n)
           ax == a \o <<x>>
           t == ax \o b
<1>1. s \in Seq(S) /\ n \in Nat /\ DOMAIN s = 1..n /\ x \in S /\ k \in 1..(n + 1)
  BY SeqFacts, SeqIn
<1> HIDE DEF S, n
<1>2. a \in Seq(S) /\ Len(a) = k - 1 /\ \A i \in 1..(k - 1) : a[i] = s[i]
  BY <1>1 DEF n
<1>3. b \in Seq(S) /\ Len(b) = n - k + 1 /\ \A i \in 1..(n - k + 1) : b[i] = s[k + i - 1]
  BY <1>1 DEF n
<1> HIDE DEF a, b
<1>4. ax \in Seq(S) /\ Len(ax) = k /\ ax[k] = x /\ \A i \in 1..(k - 1) : ax[i] = a[i]
  <2>1. <<x>> \in Seq(S) /\ Len(<<x>>) = 1 /\ <<x>>[1] = x
    BY <1>1
  <2>2. /\ ax \in Seq(S) /\ Len(ax) = Len(a) + 1
        /\ \A i \in 1..(Len(a) + 1) : ax[i] = IF i <= Len(a) THEN a[i] ELSE <<x>>[i - Len(a)]
    BY <1>2, <2>1, ConcatProperties
  <2> HIDE DEF ax
  <2> QED BY <1>1, <1>2, <2>1, <2>2
<1> HIDE DEF ax
<1>5. /\ t \in Seq(S) /\ Len(t) = n + 1
      /\ \A i \in 1..(n + 1) : t[i] = IF i <= k THEN ax[i] ELSE b[i - k]
  <2>1. /\ t \in Seq(S) /\ Len(t) = Len(ax) + Len(b)
        /\ \A i \in 1..(Len(ax) + Len(b)) : t[i] = IF i <= Len(ax) THEN ax[i] ELSE b[i - Len(ax)]
    BY <1>3, <1>4, ConcatProperties
  <2>2. Len(ax) + Len(b) = n + 1 /\ Len(ax) = k
    BY <1>1, <1>3, <1>4
  <2> HIDE DEF t
  <2> QED BY <2>1, <2>2
<1> HIDE DEF t
<1>6. t[k] = x
  BY <1>1, <1>4, <1>5
<1>7. \A i \in 1..(n + 1) : i < k => t[i] = s[i]
  BY <1>1, <1>2, <1>4, <1>5
<1>8. ASSUME NEW i \in 1..(n + 1), i > k PROVE t[i] = s[i - 1]
  <2>1. t[i] = b[i - k]
    BY <1>1, <1>5, <1>8
  <2>2. i - k \in 1..(n - k + 1) /\ k + (i - k) - 1 = i - 1
    BY <1>1, <1>8
  <2> QED BY <1>3, <2>1, <2>2
<1>9. InsertAt(s, k, x) = t
  BY DEF InsertAt, t, ax, a, b, n
<1>10. Sequence(t) /\ DOMAIN t = 1..(n + 1)
  BY <1>5, SeqFacts, LenProperties
<1> QED BY <1>6, <1>7, <1>8, <1>9, <1>10 DEF n, Inserted

ItemForm(r) == IsItem(r) /\ {"kind", "id", "value"} \subseteq DOMAIN r
ItemList(items) ==
  /\ Sequence(items) /\ \A i \in DOMAIN items : ItemForm(items[i])
  /\ \A i, j \in DOMAIN items : items[i].id = items[j].id => i = j

\* The index has the position of every item, and nothing else.
IndexInv(idx, items) ==
  /\ \A i \in DOMAIN items : items[i].id \in DOMAIN idx /\ idx[items[i].id] = i
  /\ \A id \in DOMAIN idx : idx[id] \in DOMAIN items /\ items[idx[id]].id = id
ListRight(v) == ItemList(v.items) /\ IndexInv(v.idx, v.items)

LEMMA LastIs ==
  ASSUME NEW items, ItemList(items), NEW k \in DOMAIN items
  PROVE  SelectLastInSeq(items, LAMBDA r : r.id = items[k].id) = k
<1> DEFINE I == {i \in 1..Len(items) : items[i].id = items[k].id}
<1>1. I = {k}
  <2>1. DOMAIN items = 1..Len(items)
    BY SeqFacts DEF ItemList
  <2> QED BY <2>1 DEF ItemList
<1>2. SelectLastInSeq(items, LAMBDA r : r.id = items[k].id) = IF I # {} THEN Max(I) ELSE 0
  BY DEF SelectLastInSeq
<1> HIDE DEF I
<1>3. k \in Int
  <2>1. DOMAIN items = 1..Len(items)
    BY SeqFacts DEF ItemList
  <2> QED BY <2>1
<1>4. Max({k}) = k
  BY <1>3 DEF Max
<1> QED BY <1>1, <1>2, <1>4

\* Where the positions from one on are entered again, those before must be right.
LEMMA IndexedIs ==
  ASSUME NEW items, ItemList(items), NEW from \in Nat \ {0}, NEW idx,
         \A i \in DOMAIN items : i < from => items[i].id \in DOMAIN idx /\ idx[items[i].id] = i,
         \A id \in DOMAIN idx : \E i \in DOMAIN items : items[i].id = id
  PROVE  IndexInv(Indexed(idx, items, from), items)
<1> DEFINE ids == {items[i].id : i \in from..Len(items)}
           at == [id \in ids |-> SelectLastInSeq(items, LAMBDA r : r.id = id)]
           new == [id \in DOMAIN idx \cup DOMAIN at |-> IF id \in DOMAIN at THEN at[id] ELSE idx[id]]
<1>1. Len(items) \in Nat /\ DOMAIN items = 1..Len(items)
  BY SeqFacts DEF ItemList
<1>2. Indexed(idx, items, from) = new
  BY DEF Indexed
<1>3. ASSUME NEW i \in from..Len(items) PROVE items[i].id \in ids /\ at[items[i].id] = i
  <2>1. i \in DOMAIN items
    BY <1>1, <1>3
  <2>2. SelectLastInSeq(items, LAMBDA r : r.id = items[i].id) = i
    BY <2>1, LastIs
  <2> QED BY <2>2
<1>4. /\ DOMAIN at = ids /\ DOMAIN new = DOMAIN idx \cup ids
      /\ \A id \in DOMAIN new : new[id] = IF id \in ids THEN at[id] ELSE idx[id]
  OBVIOUS
<1> HIDE DEF new, at
<1>5. ASSUME NEW i \in DOMAIN items PROVE items[i].id \in DOMAIN new /\ new[items[i].id] = i
  <2>1. CASE i >= from
    BY <1>1, <1>3, <1>4, <1>5, <2>1
  <2>2. CASE i < from
    <3>1. items[i].id \in DOMAIN idx /\ idx[items[i].id] = i
      BY <1>5, <2>2
    <3>2. items[i].id \notin ids
      BY <1>1, <1>5, <2>2 DEF ItemList
    <3> QED BY <1>4, <3>1, <3>2
  <2> QED BY <1>1, <1>5, <2>1, <2>2
<1>6. ASSUME NEW id \in DOMAIN new PROVE \E i \in DOMAIN items : items[i].id = id
  <2>1. CASE id \in ids
    <3>1. PICK i \in from..Len(items) : items[i].id = id
      BY <2>1
    <3> QED BY <1>1, <3>1
  <2>2. CASE id \in DOMAIN idx
    BY <2>2
  <2> QED BY <1>4, <1>6, <2>1, <2>2
<1> HIDE DEF ids
<1> QED BY <1>2, <1>5, <1>6 DEF IndexInv

LEMMA InsertedRight ==
  ASSUME NEW v, ListRight(v), NEW k \in 1..(Len(v.items) + 1), NEW x, ItemForm(x), x.id \notin DOMAIN v.idx
  PROVE  LET items == InsertAt(v.items, k, x) IN ItemList(items) /\ IndexInv(Indexed(v.idx, items, k), items)
<1> DEFINE s == v.items
           n == Len(s)
           t == InsertAt(s, k, x)
<1>1. Sequence(s) /\ n \in Nat /\ DOMAIN s = 1..n /\ k \in Nat \ {0} /\ k <= n + 1
  BY SeqFacts DEF ListRight, ItemList
<1>2. /\ Sequence(t) /\ DOMAIN t = 1..(n + 1) /\ t[k] = x
      /\ \A i \in 1..(n + 1) : i < k => t[i] = s[i]
      /\ \A i \in 1..(n + 1) : i > k => t[i] = s[i - 1]
  <2>1. Inserted(t, s, k, x)
    BY <1>1, InsertAtIs
  <2> HIDE DEF s, t
  <2> QED BY <2>1 DEF Inserted
<1> DEFINE from(i) == IF i < k THEN i ELSE i - 1
<1>3. \A i \in 1..(n + 1) : i = k \/ (from(i) \in DOMAIN s /\ t[i] = s[from(i)])
  BY <1>1, <1>2
<1>4. \A i, j \in 1..(n + 1) : i # k /\ j # k /\ from(i) = from(j) => i = j
  BY <1>1
<1> HIDE DEF t, n
<1>5. \A i \in DOMAIN s : s[i].id \in DOMAIN v.idx
  BY DEF ListRight, IndexInv
<1>6. ItemList(t)
  <2>1. \A i \in DOMAIN t : ItemForm(t[i])
    BY <1>2, <1>3 DEF ListRight, ItemList
  <2>2. ASSUME NEW i \in DOMAIN t, NEW j \in DOMAIN t, t[i].id = t[j].id PROVE i = j
    <3>1. CASE i = k
      BY <1>2, <1>3, <1>5, <2>2, <3>1
    <3>2. CASE j = k
      BY <1>2, <1>3, <1>5, <2>2, <3>2
    <3>3. CASE i # k /\ j # k
      <4> HIDE DEF from
      <4>1. from(i) \in DOMAIN s /\ from(j) \in DOMAIN s /\ t[i] = s[from(i)] /\ t[j] = s[from(j)]
        BY <1>2, <1>3, <3>3
      <4>2. from(i) = from(j)
        BY <2>2, <4>1 DEF ListRight, ItemList
      <4> QED BY <1>2, <1>4, <3>3, <4>2
    <3> QED BY <3>1, <3>2, <3>3
  <2> QED BY <1>2, <2>1, <2>2 DEF ItemList
<1>7. ASSUME NEW i \in DOMAIN t, i < k PROVE t[i].id \in DOMAIN v.idx /\ v.idx[t[i].id] = i
  <2>1. i \in DOMAIN s /\ t[i] = s[i]
    BY <1>1, <1>2, <1>7
  <2>2. s[i].id \in DOMAIN v.idx /\ v.idx[s[i].id] = i
    BY <2>1 DEF ListRight, IndexInv
  <2> QED BY <2>1, <2>2
<1>8. \A id \in DOMAIN v.idx : \E i \in DOMAIN t : t[i].id = id
  <2> SUFFICES ASSUME NEW id \in DOMAIN v.idx PROVE \E i \in DOMAIN t : t[i].id = id
    OBVIOUS
  <2>1. PICK j \in DOMAIN s : s[j].id = id
    BY DEF ListRight, IndexInv
  <2> DEFINE i == IF j < k THEN j ELSE j + 1
  <2>2. i \in 1..(n + 1) /\ i # k /\ from(i) = j
    BY <1>1, <2>1
  <2> HIDE DEF i, from
  <2> QED BY <1>2, <1>3, <2>1, <2>2
<1>9. IndexInv(Indexed(v.idx, t, k), t)
  BY <1>1, <1>6, <1>7, <1>8, IndexedIs
<1> QED BY <1>6, <1>9 DEF t

LEMMA DeletedRight ==
  ASSUME NEW v, ListRight(v), NEW id \in DOMAIN v.idx
  PROVE  LET k     == v.idx[id]
             items == RemoveAt(v.items, k)
             left  == [i \in DOMAIN v.idx \ {id} |-> v.idx[i]]
         IN  ItemList(items) /\ IndexInv(Indexed(left, items, k), items)
<1> DEFINE s == v.items
           n == Len(s)
           k == v.idx[id]
           t == RemoveAt(s, k)
           left == [i \in DOMAIN v.idx \ {id} |-> v.idx[i]]
           from(i) == IF i < k THEN i ELSE i + 1
<1>1. Sequence(s) /\ n \in Nat /\ DOMAIN s = 1..n /\ k \in 1..n /\ s[k].id = id
  <2>1. Sequence(s)
    BY DEF ListRight, ItemList
  <2>2. k \in DOMAIN s /\ s[k].id = id
    BY DEF ListRight, IndexInv
  <2> QED BY <2>1, <2>2, SeqFacts
<1>2. Sequence(t) /\ DOMAIN t = 1..(n - 1) /\ \A i \in 1..(n - 1) : t[i] = s[from(i)] /\ from(i) \in 1..n /\ from(i) # k
  <2>1. Sequence(t) /\ DOMAIN t = 1..(n - 1) /\ \A i \in 1..(n - 1) : t[i] = s[from(i)]
    BY <1>1, RemoveAtIs
  <2> HIDE DEF t
  <2> QED BY <1>1, <2>1
<1>3. \A i, j \in 1..(n - 1) : from(i) = from(j) => i = j
  BY <1>1
<1>4. DOMAIN left = DOMAIN v.idx \ {id} /\ \A i \in DOMAIN left : left[i] = v.idx[i]
  OBVIOUS
<1> HIDE DEF t, n, left, k
<1>5. /\ \A i \in DOMAIN s : ItemForm(s[i]) /\ s[i].id \in DOMAIN v.idx /\ v.idx[s[i].id] = i
      /\ \A i, j \in DOMAIN s : s[i].id = s[j].id => i = j
      /\ \A i \in DOMAIN v.idx : v.idx[i] \in DOMAIN s /\ s[v.idx[i]].id = i
  BY DEF ListRight, ItemList, IndexInv
<1>6. ItemList(t)
  <2>1. \A i \in DOMAIN t : ItemForm(t[i])
    BY <1>1, <1>2, <1>5
  <2>2. ASSUME NEW i \in DOMAIN t, NEW j \in DOMAIN t, t[i].id = t[j].id PROVE i = j
    <3> HIDE DEF from
    <3>1. i \in 1..(n - 1) /\ j \in 1..(n - 1)
      BY <1>2
    <3>2. from(i) \in DOMAIN s /\ from(j) \in DOMAIN s /\ t[i] = s[from(i)] /\ t[j] = s[from(j)]
      BY <1>1, <1>2, <3>1
    <3>3. from(i) = from(j)
      BY <1>5, <2>2, <3>2
    <3> QED BY <1>3, <3>1, <3>3
  <2> QED BY <1>2, <2>1, <2>2 DEF ItemList
<1>7. ASSUME NEW i \in DOMAIN t, i < k PROVE t[i].id \in DOMAIN left /\ left[t[i].id] = i
  <2>1. t[i] = s[i] /\ i \in DOMAIN s /\ i # k
    BY <1>1, <1>2, <1>7
  <2>2. s[i].id # id
    BY <1>1, <1>5, <2>1
  <2> QED BY <1>4, <1>5, <2>1, <2>2
<1>8. ASSUME NEW x \in DOMAIN left PROVE \E i \in DOMAIN t : t[i].id = x
  <2> DEFINE j == v.idx[x]
             i == IF j < k THEN j ELSE j - 1
  <2>1. j \in 1..n /\ s[j].id = x /\ j # k
    BY <1>1, <1>4, <1>5, <1>8
  <2> HIDE DEF j
  <2>2. i \in 1..(n - 1) /\ from(i) = j
    BY <1>1, <2>1
  <2> HIDE DEF i, from
  <2> QED BY <1>2, <2>1, <2>2
<1>9. k \in Nat \ {0}
  BY <1>1
<1>10. IndexInv(Indexed(left, t, k), t)
  BY <1>6, <1>7, <1>8, <1>9, IndexedIs
<1> QED BY <1>6, <1>10 DEF t, left, k

LEMMA AnewRight == ASSUME NEW items, ItemList(items) PROVE IndexInv(Indexed(<<>>, items, 1), items)
<1>1. \A i \in DOMAIN items : ~(i < 1)
  <2>1. DOMAIN items = 1..Len(items) /\ Len(items) \in Nat
    BY SeqFacts DEF ItemList
  <2> QED BY <2>1
<1>2. DOMAIN <<>> = {}
  BY EmptyIs
<1>3. 1 \in Nat \ {0}
  OBVIOUS
<1> DEFINE none == <<>>
<1>4. DOMAIN none = {}
  BY <1>2
<1> HIDE DEF none
<1>5. IndexInv(Indexed(none, items, 1), items)
  BY <1>1, <1>3, <1>4, IndexedIs
<1> QED BY <1>5 DEF none

\* An item that is replaced by one of its id stays where it is.
LEMMA ReplacedRight ==
  ASSUME NEW v, ListRight(v), NEW items, DOMAIN items = DOMAIN v.items, items = [i \in DOMAIN items |-> items[i]],
         \A i \in DOMAIN items : ItemForm(items[i]) /\ items[i].id = v.items[i].id
  PROVE  ItemList(items) /\ IndexInv(v.idx, items)
<1>1. Sequence(items)
  <2>1. Sequence(v.items)
    BY DEF ListRight, ItemList
  <2>2. items = [i \in DOMAIN v.items |-> items[i]]
    OBVIOUS
  <2> QED BY <2>1, <2>2, MappedIsSeq
<1> QED BY <1>1 DEF ListRight, ItemList, IndexInv

LEMMA ReversedList ==
  ASSUME NEW s, ItemList(s) PROVE ItemList(Reverse(s)) /\ ToSet(Reverse(s)) \subseteq ToSet(s)
<1> DEFINE n == Len(s)
           t == Reverse(s)
<1>1. n \in Nat /\ DOMAIN s = 1..n
  BY SeqFacts DEF ItemList
<1>2. t = [i \in DOMAIN s |-> s[(n - i) + 1]]
  BY <1>1 DEF Reverse
<1>3. t = [i \in DOMAIN s |-> t[i]] /\ \A i \in 1..n : t[i] = s[(n - i) + 1] /\ (n - i) + 1 \in 1..n
  BY <1>1, <1>2
<1> HIDE DEF t, n
<1>4. Sequence(t) /\ DOMAIN t = 1..n
  BY <1>1, <1>3, MappedIsSeq DEF ItemList
<1>5. \A i, j \in 1..n : (n - i) + 1 = (n - j) + 1 => i = j
  BY <1>1
<1>6. ItemList(t)
  <2>1. \A i \in DOMAIN t : ItemForm(t[i])
    BY <1>1, <1>3, <1>4 DEF ItemList
  <2>2. ASSUME NEW i \in DOMAIN t, NEW j \in DOMAIN t, t[i].id = t[j].id PROVE i = j
    <3> DEFINE at(k) == (n - k) + 1
    <3>1. i \in 1..n /\ j \in 1..n
      BY <1>4
    <3>2. at(i) \in DOMAIN s /\ at(j) \in DOMAIN s /\ t[i] = s[at(i)] /\ t[j] = s[at(j)]
      BY <1>1, <1>3, <3>1
    <3> HIDE DEF at
    <3>3. at(i) = at(j)
      BY <2>2, <3>2 DEF ItemList
    <3> QED BY <1>5, <3>1, <3>3 DEF at
  <2> QED BY <1>4, <2>1, <2>2 DEF ItemList
<1>7. ToSet(t) \subseteq ToSet(s)
  BY <1>1, <1>3, <1>4 DEF ToSet
<1> QED BY <1>6, <1>7 DEF t

Slot(t, field, r) == 1 + Cardinality({i \in DOMAIN t : t[i][field] <= r[field]})

LEMMA SlotIs == ASSUME NEW t, Sequence(t), NEW field, NEW r PROVE Slot(t, field, r) \in 1..(Len(t) + 1)
<1> DEFINE B == {i \in DOMAIN t : t[i][field] <= r[field]}
<1>1. Len(t) \in Nat /\ DOMAIN t = 1..Len(t)
  BY SeqFacts
<1>2. IsFiniteSet(1..Len(t)) /\ Cardinality(1..Len(t)) = Len(t)
  <2> DEFINE n == Len(t)
  <2> HIDE DEF n
  <2>1. n \in Int /\ n >= 0 /\ 1 \in Int
    BY <1>1 DEF n
  <2>2. IsFiniteSet(1..n) /\ Cardinality(1..n) = IF 1 > n THEN 0 ELSE n - 1 + 1
    BY ONLY <2>1, FS_Interval
  <2>3. (IF 1 > n THEN 0 ELSE n - 1 + 1) = n
    BY ONLY <2>1
  <2> QED BY <2>2, <2>3 DEF n
<1>3. Cardinality(B) \in Nat /\ Cardinality(B) <= Len(t)
  <2>1. B \in SUBSET (1..Len(t))
    BY <1>1
  <2> HIDE DEF B
  <2> QED BY <1>2, <2>1, FS_Subset, FS_CardinalityType
<1> QED BY <1>1, <1>3 DEF Slot

\* What SortedBy makes of the first elements of a sequence.
SortSteps(g, s, field) ==
  /\ g[0] = <<>>
  /\ \A k \in 1..Len(s) : g[k] = InsertAt(g[k - 1], Slot(g[k - 1], field, s[k]), s[k])

LEMMA SortedSteps ==
  ASSUME NEW s, Sequence(s), NEW field
  PROVE  \E g : SortSteps(g, s, field) /\ SortedBy(field, s) = g[Len(s)]
<1> DEFINE n == Len(s)
           A == Seq(ToSet(s))
           In(a, i) == InsertAt(a, Slot(a, field, s[i]), s[i])
           F == [i \in 1..n |-> [a \in A |-> In(a, i)]]
           Eq(h) == h = [t \in SUBSET DOMAIN s |->
                           IF t = {} THEN <<>> ELSE In(h[t \ {Max(t)}], Max(t))]
           c == CHOOSE h : Eq(h)
<1>1. n \in Nat /\ DOMAIN s = 1..n /\ \A i \in 1..n : s[i] \in ToSet(s)
  BY SeqFacts DEF ToSet
<1>2. SortedBy(field, s) = c[DOMAIN s]
  BY Zenon DEF SortedBy, FoldLeft, MapThenFoldSet, Slot
<1>3. <<>> \in A /\ F \in [1..n -> [A -> A]]
  <2>1. ASSUME NEW i \in 1..n, NEW a \in A PROVE In(a, i) \in A
    <3> DEFINE k == Slot(a, field, s[i])
               t == InsertAt(a, k, s[i])
    <3>1. Sequence(a) /\ Len(a) \in Nat
      BY SeqFacts
    <3>2. DOMAIN a = 1..Len(a) /\ \A j \in 1..Len(a) : a[j] \in ToSet(s)
      BY <3>1, SeqFacts, ElementOfSeq
    <3>3. k \in 1..(Len(a) + 1)
      BY <3>1, SlotIs
    <3> HIDE DEF k
    <3>4. /\ Sequence(t) /\ DOMAIN t = 1..(Len(a) + 1) /\ t[k] = s[i]
          /\ \A j \in 1..(Len(a) + 1) : j < k => t[j] = a[j]
          /\ \A j \in 1..(Len(a) + 1) : j > k => t[j] = a[j - 1]
      <4>1. Inserted(t, a, k, s[i])
        BY <3>1, <3>3, InsertAtIs
      <4> HIDE DEF t
      <4> QED BY <4>1 DEF Inserted
    <3> HIDE DEF t
    <3>5. \A j \in DOMAIN t : t[j] \in ToSet(s)
      BY <1>1, <3>1, <3>2, <3>3, <3>4
    <3> QED BY <3>4, <3>5, SeqIn DEF t, k
  <2>2. <<>> \in A
    BY EmptySeq
  <2> HIDE DEF A, In
  <2> QED BY <2>1, <2>2
<1> HIDE DEF n, A, In
<1>4. PICK h \in [SUBSET (1..n) -> A] : Folds(h, <<>>, F, SUBSET (1..n))
  BY <1>1, <1>3, FoldExists
<1>5. ASSUME NEW t \in SUBSET (1..n), t # {} PROVE Max(t) \in 1..n /\ t \ {Max(t)} \in SUBSET (1..n)
  BY <1>1, HasMax, <1>5
<1>6. Eq(h)
  <2>1. ASSUME NEW t \in SUBSET (1..n), t # {} PROVE h[t] = In(h[t \ {Max(t)}], Max(t))
    <3>1. h[t] = F[Max(t)][h[t \ {Max(t)}]]
      BY <1>4, <2>1 DEF Folds
    <3>2. Max(t) \in 1..n /\ h[t \ {Max(t)}] \in A
      BY <1>4, <1>5, <2>1
    <3> QED BY <3>1, <3>2
  <2>2. h[{}] = <<>>
    BY <1>4 DEF Folds
  <2> QED BY <1>1, <1>4, <2>1, <2>2
<1>7. Eq(c)
  <2> HIDE DEF Eq
  <2> QED BY <1>6
<1> HIDE DEF c
<1> DEFINE g == [k \in 0..n |-> c[1..k]]
<1>8. g[0] = <<>>
  <2>1. 1..0 = {} /\ 0 \in 0..n
    BY <1>1
  <2> QED BY <1>7, <2>1
<1>9. ASSUME NEW k \in 1..n PROVE g[k] = In(g[k - 1], k)
  <2>1. 1..k # {} /\ 1..k \in SUBSET (1..n) /\ Max(1..k) = k /\ (1..k) \ {k} = 1..(k - 1)
    BY <1>1, MaxOfFirst
  <2>2. c[1..k] = In(c[1..(k - 1)], k)
    BY <1>1, <1>7, <2>1
  <2> QED BY <1>1, <2>2
<1>10. SortedBy(field, s) = g[n]
  BY <1>1, <1>2
<1> HIDE DEF g
<1> QED BY <1>8, <1>9, <1>10 DEF SortSteps, n, In

LEMMA SortedList ==
  ASSUME NEW s, ItemList(s), NEW field
  PROVE  ItemList(SortedBy(field, s)) /\ ToSet(SortedBy(field, s)) \subseteq ToSet(s)
<1>1. PICK g : SortSteps(g, s, field) /\ SortedBy(field, s) = g[Len(s)]
  BY SortedSteps DEF ItemList
<1>2. Len(s) \in Nat /\ DOMAIN s = 1..Len(s)
  BY SeqFacts DEF ItemList
<1> DEFINE G == {k \in 0..Len(s) : ItemList(g[k]) /\ \A j \in DOMAIN g[k] : \E i \in 1..k : g[k][j] = s[i]}
<1>3. 0 \in G
  BY <1>1, <1>2, EmptyIs DEF SortSteps, ItemList
<1>4. ASSUME NEW k \in 1..Len(s), k - 1 \in G PROVE k \in G
  <2> DEFINE a == g[k - 1]
             p == Slot(a, field, s[k])
             t == InsertAt(a, p, s[k])
             n == Len(a)
             from(i) == IF i < p THEN i ELSE i - 1
  <2>1. ItemList(a) /\ \A j \in DOMAIN a : \E i \in 1..(k - 1) : a[j] = s[i]
    BY <1>4
  <2>2. g[k] = t
    BY <1>1 DEF SortSteps
  <2> HIDE DEF a
  <2>3. Sequence(a) /\ n \in Nat /\ DOMAIN a = 1..n
    BY <2>1, SeqFacts DEF ItemList
  <2>4. p \in 1..(n + 1)
    BY <2>3, SlotIs
  <2> HIDE DEF p
  <2>5. /\ Sequence(t) /\ DOMAIN t = 1..(n + 1) /\ t[p] = s[k]
        /\ \A i \in 1..(n + 1) : i < p => t[i] = a[i]
        /\ \A i \in 1..(n + 1) : i > p => t[i] = a[i - 1]
    <3>1. Inserted(t, a, p, s[k])
      BY <2>3, <2>4, InsertAtIs
    <3> HIDE DEF t
    <3> QED BY <3>1 DEF Inserted
  <2> HIDE DEF t
  <2>6. \A i \in 1..(n + 1) : i = p \/ (from(i) \in DOMAIN a /\ t[i] = a[from(i)])
    BY <2>3, <2>4, <2>5
  <2>7. \A i, j \in 1..(n + 1) : i # p /\ j # p /\ from(i) = from(j) => i = j
    BY <2>3, <2>4
  <2> HIDE DEF from, n
  <2>8. \A i \in 1..(k - 1) : i \in DOMAIN s /\ i # k /\ i \in 1..k
    BY <1>2
  <2>9. k \in DOMAIN s /\ k \in 1..k /\ k \in 0..Len(s)
    BY <1>2
  <2>10. \A j \in DOMAIN a : a[j].id # s[k].id
    BY <2>1, <2>8, <2>9 DEF ItemList
  <2>11. ItemList(t)
    <3>1. \A i \in DOMAIN t : ItemForm(t[i])
      BY <2>1, <2>5, <2>6, <2>9 DEF ItemList
    <3>2. ASSUME NEW i \in DOMAIN t, NEW j \in DOMAIN t, t[i].id = t[j].id PROVE i = j
      <4>1. CASE i = p
        BY <2>5, <2>6, <2>10, <3>2, <4>1
      <4>2. CASE j = p
        BY <2>5, <2>6, <2>10, <3>2, <4>2
      <4>3. CASE i # p /\ j # p
        <5>1. from(i) \in DOMAIN a /\ from(j) \in DOMAIN a /\ t[i] = a[from(i)] /\ t[j] = a[from(j)]
          BY <2>5, <2>6, <4>3
        <5>2. from(i) = from(j)
          BY <2>1, <3>2, <5>1 DEF ItemList
        <5> QED BY <2>5, <2>7, <4>3, <5>2
      <4> QED BY <4>1, <4>2, <4>3
    <3> QED BY <2>5, <3>1, <3>2 DEF ItemList
  <2>12. \A j \in DOMAIN t : \E i \in 1..k : t[j] = s[i]
    BY <2>1, <2>5, <2>6, <2>8, <2>9
  <2> QED BY <2>2, <2>9, <2>11, <2>12
<1>5. Len(s) \in G
  <2>1. \A k \in 0..Len(s) : k \in G
    <3> HIDE DEF G
    <3> QED BY <1>2, <1>3, <1>4, CountUp
  <2> QED BY <1>2, <2>1
<1>6. ToSet(g[Len(s)]) \subseteq ToSet(s)
  BY <1>2, <1>5 DEF ToSet
<1> QED BY <1>1, <1>5, <1>6

LEMMA SortItemsRight ==
  ASSUME NEW v, ListRight(v), NEW field, NEW ascending
  PROVE  LET items == IF ascending THEN SortedBy(field, v.items) ELSE Reverse(SortedBy(field, Reverse(v.items)))
         IN  ItemList(items) /\ IndexInv(Indexed(<<>>, items, 1), items) /\ ToSet(items) \subseteq ToSet(v.items)
<1> DEFINE a == SortedBy(field, v.items)
           b == Reverse(v.items)
           c == SortedBy(field, b)
           e == Reverse(c)
           items == IF ascending THEN a ELSE e
<1>1. ItemList(v.items)
  BY DEF ListRight
<1>2. ItemList(a) /\ ToSet(a) \subseteq ToSet(v.items)
  BY <1>1, SortedList
<1>3. ItemList(b) /\ ToSet(b) \subseteq ToSet(v.items)
  BY <1>1, ReversedList
<1> HIDE DEF b
<1>4. ItemList(c) /\ ToSet(c) \subseteq ToSet(b)
  BY <1>3, SortedList
<1> HIDE DEF c
<1>5. ItemList(e) /\ ToSet(e) \subseteq ToSet(c)
  BY <1>4, ReversedList
<1>6. ItemList(items) /\ ToSet(items) \subseteq ToSet(v.items)
  BY <1>2, <1>3, <1>4, <1>5
<1> HIDE DEF items
<1>7. IndexInv(Indexed(<<>>, items, 1), items)
  BY <1>6, AnewRight
<1> QED BY <1>6, <1>7 DEF items, e, c, b, a

\* A step of the data view: where nothing is reported an item is where it was, and
\* the index stays right.
Reported(v, w) == Follows(v, w) /\ ListRight(w)

LEMMA RefreshStep ==
  ASSUME NEW v, NEW u, ViewForm(u), u.rows = v.rows, ListRight(u)
  PROVE  Reported(v, Refresh(u)) /\ Reported(v, [Refresh(u) EXCEPT !.told.paging = TRUE])
BY RefreshIs DEF Reported, SameItems, ListRight

LEMMA PagingSteps ==
  ASSUME NEW v, ViewForm(v), ListRight(v), NEW n
  PROVE  Reported(v, SetPagesize(v, n)) /\ Reported(v, SetPagenum(v, n))
<1> DEFINE page == IF n = 0 THEN 0 ELSE PageBelow(v, v.pagenum, n)
           num == PageBelow(v, n, v.pagesize)
           a == [v EXCEPT !.pagesize = n, !.pagenum = page]
           b == [v EXCEPT !.pagenum = num]
<1> HIDE DEF page, num
<1>1. ViewForm(a) /\ a.rows = v.rows /\ ListRight(a) /\ ViewForm(b) /\ b.rows = v.rows /\ ListRight(b)
  BY DEF ViewForm, ViewFields, ListRight
<1> HIDE DEF a, b
<1>2. Reported(v, [Refresh(a) EXCEPT !.told.paging = TRUE]) /\ Reported(v, [Refresh(b) EXCEPT !.told.paging = TRUE])
  BY <1>1, RefreshStep
<1> QED BY <1>2 DEF SetPagesize, SetPagenum, a, b, page, num

LEMMA LookSteps ==
  ASSUME NEW v, ViewForm(v), ListRight(v)
  PROVE  /\ Reported(v, Refresh(v)) /\ Reported(v, EndUpdate(v))
         /\ \A filter : Reported(v, SetFilter(v, filter))
         /\ \A levels : Reported(v, SetGrouping(v, levels))
         /\ \A key, collapse : Reported(v, ExpandCollapseGroup(v, key, collapse))
<1> DEFINE Same(u) == ViewForm(u) /\ u.rows = v.rows /\ ListRight(u)
<1>1. \A u : Same(u) => Reported(v, Refresh(u))
  BY RefreshStep
<1>2. Same(v) /\ Same([v EXCEPT !.suspended = FALSE])
  BY DEF ViewForm, ViewFields, ListRight
<1>3. \A filter : Same([v EXCEPT !.filter = filter])
  BY DEF ViewForm, ViewFields, ListRight
<1>4. \A levels, t : Same([v EXCEPT !.grouping = levels, !.toggled = t])
  BY DEF ViewForm, ViewFields, ListRight
<1>5. \A t : Same([v EXCEPT !.toggled = t])
  BY DEF ViewForm, ViewFields, ListRight
<1>6. ASSUME NEW key, NEW collapse PROVE Reported(v, ExpandCollapseGroup(v, key, collapse))
  <2> DEFINE l == Len(key)
             set == IF v.grouping[l].collapsed # collapse THEN v.toggled[l] \cup {key} ELSE v.toggled[l] \ {key}
             t == [v.toggled EXCEPT ![l] = set]
  <2>1. ExpandCollapseGroup(v, key, collapse) = Refresh([v EXCEPT !.toggled = t])
    BY DEF ExpandCollapseGroup
  <2> HIDE DEF t, Same
  <2> QED BY <1>1, <1>5, <2>1
<1> HIDE DEF Same
<1> QED BY <1>1, <1>2, <1>3, <1>4, <1>6 DEF EndUpdate, SetFilter, SetGrouping

LEMMA FoldAllStep ==
  ASSUME NEW v, NEW u, ViewForm(u), u.rows = v.rows, ListRight(u), NEW levels, NEW collapse
  PROVE  LET w == ExpandCollapseAll(u, levels, collapse) IN Reported(v, w) /\ SameItems(u, w)
<1> DEFINE t == [l \in DOMAIN u.toggled |-> IF l \in levels THEN {} ELSE u.toggled[l]]
           g == [l \in DOMAIN u.grouping |-> IF l \in levels THEN [u.grouping[l] EXCEPT !.collapsed = collapse]
                                             ELSE u.grouping[l]]
           x == [u EXCEPT !.toggled = t, !.grouping = g]
<1>1. ExpandCollapseAll(u, levels, collapse) = Refresh(x)
  BY DEF ExpandCollapseAll
<1> HIDE DEF t, g
<1>2. ViewForm(x) /\ x.rows = v.rows /\ ListRight(x) /\ SameItems(u, x)
  BY DEF ViewForm, ViewFields, ListRight, SameItems
<1> HIDE DEF x
<1>3. Reported(v, Refresh(x)) /\ SameItems(x, Refresh(x))
  BY <1>2, RefreshStep, RefreshIs
<1> QED BY <1>1, <1>2, <1>3 DEF SameItems

LEMMA ItemSteps ==
  ASSUME NEW v, ViewForm(v), ListRight(v)
  PROVE  /\ \A field, ascending : Reported(v, SortItems(v, field, ascending))
         /\ \A k \in 1..(Len(v.items) + 1) : \A x :
              ItemForm(x) /\ x.id \notin DOMAIN v.idx => Reported(v, InsertItem(v, k, x))
         /\ \A x : ItemForm(x) /\ x.id \notin DOMAIN v.idx => Reported(v, AddItem(v, x))
         /\ \A id \in DOMAIN v.idx : Reported(v, DeleteItem(v, id))
         /\ \A x : ItemForm(x) /\ x.id \in DOMAIN v.idx => Reported(v, UpdateItem(v, x))
<1>1. \A items, idx : ItemList(items) /\ IndexInv(idx, items) => Reported(v, Refresh([v EXCEPT !.items = items, !.idx = idx]))
  <2> SUFFICES ASSUME NEW items, NEW idx, ItemList(items), IndexInv(idx, items)
               PROVE  Reported(v, Refresh([v EXCEPT !.items = items, !.idx = idx]))
    OBVIOUS
  <2> DEFINE u == [v EXCEPT !.items = items, !.idx = idx]
  <2>1. ViewForm(u) /\ u.rows = v.rows /\ ListRight(u)
    BY DEF ViewForm, ViewFields, ListRight
  <2> HIDE DEF u
  <2> QED BY <2>1, RefreshStep DEF u
<1>2. ASSUME NEW field, NEW ascending PROVE Reported(v, SortItems(v, field, ascending))
  <2> DEFINE items == IF ascending THEN SortedBy(field, v.items) ELSE Reverse(SortedBy(field, Reverse(v.items)))
  <2>1. ItemList(items) /\ IndexInv(Indexed(<<>>, items, 1), items)
    BY SortItemsRight
  <2>2. SortItems(v, field, ascending) = Refresh([v EXCEPT !.items = items, !.idx = Indexed(<<>>, items, 1)])
    BY DEF SortItems
  <2> HIDE DEF items
  <2> QED BY <1>1, <2>1, <2>2
<1>3. ASSUME NEW k \in 1..(Len(v.items) + 1), NEW x, ItemForm(x), x.id \notin DOMAIN v.idx
      PROVE  Reported(v, InsertItem(v, k, x))
  <2> DEFINE items == InsertAt(v.items, k, x)
  <2>1. ItemList(items) /\ IndexInv(Indexed(v.idx, items, k), items)
    BY <1>3, InsertedRight
  <2>2. InsertItem(v, k, x) = Refresh([v EXCEPT !.items = items, !.idx = Indexed(v.idx, items, k)])
    BY DEF InsertItem
  <2> HIDE DEF items
  <2> QED BY <1>1, <2>1, <2>2
<1>4. Len(v.items) + 1 \in 1..(Len(v.items) + 1)
  <2>1. Len(v.items) \in Nat
    BY SeqFacts DEF ListRight, ItemList
  <2> QED BY <2>1
<1>5. \A x : ItemForm(x) /\ x.id \notin DOMAIN v.idx => Reported(v, AddItem(v, x))
  BY <1>3, <1>4 DEF AddItem
<1>6. ASSUME NEW id \in DOMAIN v.idx PROVE Reported(v, DeleteItem(v, id))
  <2> DEFINE k == v.idx[id]
             items == RemoveAt(v.items, k)
             left == [i \in DOMAIN v.idx \ {id} |-> v.idx[i]]
  <2>1. ItemList(items) /\ IndexInv(Indexed(left, items, k), items)
    BY DeletedRight
  <2>2. DeleteItem(v, id) = Refresh([v EXCEPT !.items = items, !.idx = Indexed(left, items, k)])
    BY DEF DeleteItem
  <2> HIDE DEF items, left, k
  <2> QED BY <1>1, <2>1, <2>2
<1>7. ASSUME NEW x, ItemForm(x), x.id \in DOMAIN v.idx PROVE Reported(v, UpdateItem(v, x))
  <2> DEFINE k == v.idx[x.id]
             items == [v.items EXCEPT ![k] = x]
             up == v.updated \cup {x.id}
             u == [v EXCEPT !.items = items, !.updated = up]
  <2>1. k \in DOMAIN v.items /\ v.items[k].id = x.id /\ \A i \in DOMAIN v.items : ItemForm(v.items[i])
    BY <1>7 DEF ListRight, IndexInv, ItemList
  <2> HIDE DEF k
  <2>2. DOMAIN items = DOMAIN v.items /\ items = [i \in DOMAIN items |-> items[i]]
    OBVIOUS
  <2>3. \A i \in DOMAIN items : ItemForm(items[i]) /\ items[i].id = v.items[i].id
    BY <1>7, <2>1
  <2>4. UpdateItem(v, x) = Refresh(u)
    BY DEF UpdateItem, k
  <2> HIDE DEF items, up
  <2>5. ItemList(items) /\ IndexInv(v.idx, items)
    BY <2>2, <2>3, ReplacedRight
  <2>6. ViewForm(u) /\ u.rows = v.rows /\ ListRight(u)
    BY <2>5 DEF ViewForm, ViewFields, ListRight
  <2> HIDE DEF u
  <2> QED BY <2>4, <2>6, RefreshStep
<1> QED BY <1>2, <1>3, <1>5, <1>6, <1>7

\* What the page changes in an item it holds is in the item's row and in no other.
LEMMA ChangeIs ==
  ASSUME NEW v, ViewForm(v), ListRight(v), NEW id, NEW value
  PROVE  LET w == ChangeInPlace(v, id, value)
         IN  ViewForm(w) /\ ListRight(w) /\ \A i \in DOMAIN w.items : w.items[i].id = id => w.items[i].value = value
<1> DEFINE Set(s) == [i \in DOMAIN s |-> IF IsItem(s[i]) /\ s[i].id = id
                                         THEN [s[i] EXCEPT !.value = value] ELSE s[i]]
           items == Set(v.items)
           rows == Set(v.rows)
           w == [v EXCEPT !.items = items, !.rows = rows, !.told = Quiet]
<1>1. ChangeInPlace(v, id, value) = w
  BY DEF ChangeInPlace
<1>2. \A i \in DOMAIN v.items : ItemForm(v.items[i])
  BY DEF ListRight, ItemList
<1>3. \A i \in DOMAIN v.items : /\ ItemForm(items[i]) /\ items[i].id = v.items[i].id
                                /\ items[i].id = id => items[i].value = value
  BY <1>2 DEF ItemForm, IsItem
<1>4. DOMAIN items = DOMAIN v.items /\ items = [i \in DOMAIN items |-> items[i]]
  OBVIOUS
<1> HIDE DEF items, rows
<1>5. ItemList(items) /\ IndexInv(v.idx, items)
  BY <1>3, <1>4, ReplacedRight
<1>6. ViewForm(w) /\ w.items = items /\ ListRight(w)
  BY <1>5 DEF ViewForm, ViewFields, ListRight
<1> HIDE DEF w
<1> QED BY <1>1, <1>3, <1>4, <1>6

-----------------------------------------------------------------------------
(* handlers *)

PairRight(s) == Both(s) /\ ListRight(s.v)

\* From one state of both to another: the editor stays on its item, and on the screen.
Leads(s, t) ==
  /\ PairRight(t)
  /\ OnItem(s.v.rows, s.g) => OnItem(t.v.rows, t.g)
  /\ InPlace(s.v.rows, s.g) => InPlace(t.v.rows, t.g)

LEMMA LeadsTwice == ASSUME NEW s, NEW t, NEW u, Leads(s, t), Leads(t, u) PROVE Leads(s, u)
BY DEF Leads

LEMMA WithLeads ==
  ASSUME NEW s, PairRight(s), NEW w, Reported(s.v, w)
  PROVE  LET t == With(s, w)
         IN  Leads(s, t) /\ SameItems(w, t.v) /\ (~s.g.editor.open => ~t.g.editor.open)
<1> DEFINE t == With(s, w)
<1>1. /\ Both(t) /\ SameItems(w, t.v)
      /\ OnItem(s.v.rows, s.g) => OnItem(t.v.rows, t.g)
      /\ InPlace(s.v.rows, s.g) => InPlace(t.v.rows, t.g)
      /\ ~s.g.editor.open => ~t.g.editor.open
  BY WithIs DEF PairRight, Reported
<1> HIDE DEF t
<1>2. ListRight(t.v)
  BY <1>1 DEF SameItems, ListRight, Reported
<1> QED BY <1>1, <1>2 DEF Leads, PairRight, t

LEMMA GridLeads ==
  ASSUME NEW s, PairRight(s), NEW h, GridForm(h)
  PROVE  LET t == [s EXCEPT !.g = h]
         IN  /\ PairRight(t) /\ t.v = s.v /\ t.g = h
             /\ NoEdit(h) \/ Still(s.g, h) => Leads(s, t)
             /\ (OnItem(s.v.rows, s.g) => OnItem(s.v.rows, h)) /\ (InPlace(s.v.rows, s.g) => InPlace(s.v.rows, h)) => Leads(s, t)
<1> DEFINE t == [s EXCEPT !.g = h]
<1>1. PairRight(t) /\ t.v = s.v /\ t.g = h
  BY DEF PairRight, Both
<1> HIDE DEF t
<1>2. NoEdit(h) \/ Still(s.g, h) => /\ OnItem(s.v.rows, s.g) => OnItem(s.v.rows, h)
                                    /\ InPlace(s.v.rows, s.g) => InPlace(s.v.rows, h)
  BY ClosedThere, StillThere DEF PairRight, Both
<1> QED BY <1>1, <1>2 DEF Leads, t

LEMMA RefreshedLeads ==
  ASSUME NEW s, PairRight(s)
  PROVE  LET t == Refreshed(s)
         IN  Leads(s, t) /\ SameItems(s.v, t.v) /\ (~s.g.editor.open => ~t.g.editor.open)
<1>1. Reported(s.v, Refresh(s.v)) /\ SameItems(s.v, Refresh(s.v))
  BY LookSteps, RefreshIs DEF PairRight, Both
<1> QED BY <1>1, WithLeads DEF Refreshed, SameItems

LEMMA RedrawnLeads == ASSUME NEW s, PairRight(s) PROVE Leads(s, Redrawn(s))
<1>1. NoEdit(Invalidate(s.g, s.v.rows))
  BY InvalidateIs DEF PairRight, Both
<1> QED BY <1>1, GridLeads DEF Redrawn, NoEdit

LEMMA CancelLeads ==
  ASSUME NEW s, PairRight(s) PROVE Leads(s, Cancel(s)) /\ Cancel(s).v = s.v /\ ~Cancel(s).g.editor.open
<1>1. NoEdit(MakeNormal(s.g, s.v.rows))
  BY NormalIs DEF PairRight, Both
<1> QED BY <1>1, GridLeads DEF Cancel, NoEdit

\* What an editor holds that may be committed.
ToCommit(s) ==
  /\ s.g.editor.open /\ s.g.editor.text # s.g.editor.loaded /\ s.g.editor.text \in Values
  /\ Exists(s.v.rows, s.g.active.row) /\ s.v.rows[s.g.active.row + 1].id = s.g.editor.id
Valued(v, id, value) == \A i \in DOMAIN v.items : v.items[i].id = id => v.items[i].value = value

\* An edit that is committed closes the editor, and its value is in the item.
LEMMA CommitIs ==
  ASSUME NEW s, PairRight(s)
  PROVE  LET c == Commit(s)
         IN  /\ c.ok => PairRight(c.s) /\ ~c.s.g.editor.open /\ (ToCommit(s) => Valued(c.s.v, s.g.editor.id, s.g.editor.text))
             /\ ~c.ok => c.s = s /\ s.g.editor.open
<1> DEFINE c == Commit(s)
           e == s.g.editor
           row == s.g.active.row
           id == s.v.rows[row + 1].id
           v == ChangeInPlace(s.v, id, e.text)
           d == Drawn(s.g, v)
           r == RefreshedUnless(d, id = NewItem.id)
           Fine(t) == PairRight(t) /\ ~t.g.editor.open
<1>1. \/ ~e.open /\ c = [ok |-> TRUE, s |-> s]
      \/ e.open /\ c = [ok |-> FALSE, s |-> s]
      \/ (e.text = e.loaded \/ ~Exists(s.v.rows, row)) /\ c = [ok |-> TRUE, s |-> Cancel(s)]
      \/ c = [ok |-> TRUE, s |-> r]
  BY DEF Commit
<1>2. Fine(Cancel(s))
  BY CancelLeads DEF Leads
<1>3. ViewForm(v) /\ ListRight(v) /\ Valued(v, id, e.text)
  <2> HIDE DEF id, e
  <2>1. ViewForm(s.v) /\ ListRight(s.v)
    BY DEF PairRight, Both
  <2> QED BY <2>1, ChangeIs DEF Valued
<1> HIDE DEF v
<1>4. Fine(d) /\ d.v = v
  <2> DEFINE a == UpdateRow(s.g, v.rows, row)
             b == MakeNormal(a, v.rows)
             h == Invalidate(b, v.rows)
  <2>1. GridForm(a)
    BY UpdateRowStill DEF PairRight, Both, Still
  <2> HIDE DEF a
  <2>2. GridForm(b)
    BY <2>1, NormalIs DEF NoEdit
  <2> HIDE DEF b
  <2>3. NoEdit(h)
    BY <2>2, InvalidateIs
  <2>4. d = [v |-> v, g |-> h]
    BY DEF Drawn, h, b, a
  <2> HIDE DEF h, d
  <2> QED BY <1>3, <2>3, <2>4 DEF PairRight, Both, NoEdit
<1> HIDE DEF d
<1>5. Fine(r) /\ SameItems(v, r.v)
  BY <1>4, RefreshedLeads DEF RefreshedUnless, SameItems, Leads
<1>6. Valued(r.v, id, e.text)
  BY <1>3, <1>5 DEF Valued, SameItems
<1> HIDE DEF r
<1>7. ToCommit(s) => e.open /\ e.text # e.loaded /\ Exists(s.v.rows, row) /\ id = e.id
  BY DEF ToCommit
<1>8. s.g.editor.open \/ Fine(s)
  OBVIOUS
<1> HIDE DEF c, e, id
<1>9. /\ c.ok => Fine(c.s) /\ (ToCommit(s) => Valued(c.s.v, e.id, e.text))
      /\ ~c.ok => c.s = s /\ e.open
  <2>1. CASE ~e.open /\ c = [ok |-> TRUE, s |-> s]
    BY <1>7, <1>8, <2>1 DEF e
  <2>2. CASE e.open /\ c = [ok |-> FALSE, s |-> s]
    BY <2>2
  <2>3. CASE (e.text = e.loaded \/ ~Exists(s.v.rows, row)) /\ c = [ok |-> TRUE, s |-> Cancel(s)]
    BY <1>2, <1>7, <2>3
  <2>4. CASE c = [ok |-> TRUE, s |-> r]
    BY <1>5, <1>6, <1>7, <2>4
  <2> QED BY <1>1, <2>1, <2>2, <2>3, <2>4
<1> QED BY <1>9 DEF c, e

LEMMA ActivatedIs ==
  ASSUME NEW s, PairRight(s), NEW row, NEW col
  PROVE  LET t == Activated(s, row, col)
         IN  PairRight(t) /\ t.v = s.v /\ OnItem(t.v.rows, t.g) /\ InPlace(t.v.rows, t.g)
<1> DEFINE d == s.v.rows
           a == ScrollCellIntoView(s.g, d, row, col)
           b == SetActive(a, d, row, col, TRUE)
<1>1. GridForm(a)
  BY ScrollCellStill DEF PairRight, Both, Still
<1> HIDE DEF a
<1>2. GridForm(b) /\ OnItem(d, b) /\ InPlace(d, b)
  BY <1>1, SetActiveIs
<1>3. Activated(s, row, col) = [s EXCEPT !.g = b]
  BY DEF Activated, b, a
<1> HIDE DEF b
<1> QED BY <1>2, <1>3, GridLeads

\* An editor's value is in its item when the editor is closed.
Saves(s, t) == ToCommit(s) /\ ~t.g.editor.open => Valued(t.v, s.g.editor.id, s.g.editor.text)

LEMMA GotoCellIs == ASSUME NEW s, PairRight(s), NEW row, NEW col PROVE Leads(s, GotoCell(s, row, col)) /\ Saves(s, GotoCell(s, row, col))
<1> DEFINE c == Commit(s)
           t == Activated(c.s, row, col)
           r == GotoCell(s, row, col)
<1>1. /\ c.ok => PairRight(c.s) /\ (ToCommit(s) => Valued(c.s.v, s.g.editor.id, s.g.editor.text))
      /\ ~c.ok => c.s = s /\ s.g.editor.open
  BY CommitIs
<1>2. c.ok => Leads(s, t) /\ Saves(s, t)
  BY <1>1, ActivatedIs DEF Leads, Saves
<1>3. Leads(s, s) /\ Saves(s, s)
  BY DEF Leads, Saves, ToCommit
<1>4. r = s \/ (c.ok /\ r = t)
  BY <1>1 DEF GotoCell, IfCommitted
<1> HIDE DEF c, t, r
<1>5. Leads(s, r) /\ Saves(s, r)
  BY <1>2, <1>3, <1>4
<1> QED BY <1>5 DEF r

LEMMA MovesOnIs ==
  ASSUME NEW s, PairRight(s), NEW dir
  PROVE  LET c == Commit(s)
             t == [c.s EXCEPT !.g = Navigate(c.s.g, c.s.v.rows, dir)]
         IN  c.ok => Leads(s, t) /\ Saves(s, t)
<1> DEFINE c == Commit(s)
           h == Navigate(c.s.g, c.s.v.rows, dir)
           t == [c.s EXCEPT !.g = h]
<1> SUFFICES ASSUME c.ok PROVE Leads(s, t) /\ Saves(s, t)
  OBVIOUS
<1>1. PairRight(c.s) /\ ~c.s.g.editor.open /\ (ToCommit(s) => Valued(c.s.v, s.g.editor.id, s.g.editor.text))
  BY CommitIs
<1> HIDE DEF c
<1>2. GridForm(h) /\ OnItem(c.s.v.rows, h) /\ InPlace(c.s.v.rows, h)
  BY <1>1, NavigateIs DEF PairRight, Both, OnItem, InPlace
<1> HIDE DEF h
<1>3. PairRight(t) /\ t.v = c.s.v /\ t.g = h
  BY <1>1, <1>2, GridLeads
<1> QED BY <1>1, <1>2, <1>3 DEF Leads, Saves

\* A handler: with an editor open it leads from the state before to the one after.
Goes(s, t) ==
  /\ PairRight(t)
  /\ OnItem(s.v.rows, s.g) => OnItem(t.v.rows, t.g)
  /\ s.g.editor.open /\ InPlace(s.v.rows, s.g) => InPlace(t.v.rows, t.g)

LEMMA NowIs == Now.v = view /\ Now.g = grid /\ DOMAIN Now = {"v", "g"} /\ Now' = [v |-> view', g |-> grid']
BY DEF Now

LEMMA Lands ==
  ASSUME NEW s, NEW t, NEW w, NEW h, w = t.v, h = t.g
  PROVE  LET n == [v |-> w, g |-> h] IN (Leads(s, t) => Goes(s, n)) /\ (Saves(s, t) => Saves(s, n))
BY DEF Leads, Goes, PairRight, Both, Saves

LEMMA StillLeads ==
  ASSUME NEW s, PairRight(s), NEW h, Still(s.g, h)
  PROVE  Leads(s, [s EXCEPT !.g = h]) /\ Saves(s, [s EXCEPT !.g = h])
<1>1. GridForm(h)
  BY DEF Still
<1> DEFINE t == [s EXCEPT !.g = h]
<1>2. Leads(s, t) /\ t.g = h
  BY <1>1, GridLeads
<1> HIDE DEF t
<1> QED BY <1>2 DEF Saves, ToCommit, Still, t

LEMMA MovesQuietly ==
  ASSUME PairRight(Now), NEW h, Still(grid, h), Becomes([Now EXCEPT !.g = h]) PROVE Goes(Now, Now') /\ Saves(Now, Now')
<1>1. Leads(Now, [Now EXCEPT !.g = h]) /\ Saves(Now, [Now EXCEPT !.g = h])
  BY NowIs, StillLeads
<1> DEFINE t == [Now EXCEPT !.g = h]
<1>2. view' = t.v /\ grid' = t.g
  BY DEF Becomes
<1> HIDE DEF t
<1> QED BY <1>1, <1>2, NowIs, Lands DEF t

LEMMA ScrollGoes ==
  ASSUME PairRight(Now), ScrollDown \/ ScrollSideways \/ RenderTimer \/ FollowTimer PROVE Goes(Now, Now') /\ Saves(Now, Now')
<1>1. GridForm(grid)
  BY NowIs DEF PairRight, Both
<1>2. CASE ScrollDown
  <2>1. PICK top \in TopStops :
          Becomes([Now EXCEPT !.g = HandleScroll(grid, view.rows, LeastOf(top, MaxTop(view.rows)), grid.left)])
    BY <1>2, NowIs DEF ScrollDown
  <2> QED BY <1>1, <2>1, HandleScrollStill, MovesQuietly
<1>3. CASE ScrollSideways
  <2>1. PICK left \in LeftStops : Becomes([Now EXCEPT !.g = HandleScroll(grid, view.rows, grid.top, left)])
    BY <1>3, NowIs DEF ScrollSideways
  <2> QED BY <1>1, <2>1, HandleScrollStill, MovesQuietly
<1>4. CASE RenderTimer
  <2>1. Becomes([Now EXCEPT !.g = Render(grid, view.rows)])
    BY <1>4, NowIs DEF RenderTimer
  <2> QED BY <1>1, <2>1, RenderStill, MovesQuietly
<1>5. CASE FollowTimer
  <2>1. Becomes([Now EXCEPT !.g = ScrollActiveCellIntoView(grid, view.rows)])
    BY <1>5, NowIs DEF FollowTimer
  <2> QED BY <1>1, <2>1, ScrollActiveStill, MovesQuietly
<1> QED BY <1>2, <1>3, <1>4, <1>5

LEMMA ClickGoes == ASSUME PairRight(Now), Click PROVE Goes(Now, Now') /\ Saves(Now, Now')
<1>1. PICK row \in OnScreen : \E col \in DOMAIN grid.cache[row] : Becomes(GotoCell(Now, row, col))
  BY DEF Click
<1>2. PICK col \in DOMAIN grid.cache[row] : Becomes(GotoCell(Now, row, col))
  BY <1>1
<1> DEFINE t == GotoCell(Now, row, col)
<1>3. view' = t.v /\ grid' = t.g
  BY <1>2 DEF Becomes
<1>4. Leads(Now, t) /\ Saves(Now, t)
  BY GotoCellIs
<1> HIDE DEF t
<1> QED BY <1>3, <1>4, NowIs, Lands

LEMMA MovesOnGoes == ASSUME PairRight(Now), NEW dir, MovesOn(Commit(Now), dir) PROVE Goes(Now, Now') /\ Saves(Now, Now')
<1> DEFINE c == Commit(Now)
           t == [c.s EXCEPT !.g = Navigate(c.s.g, c.s.v.rows, dir)]
<1>1. c.ok => Leads(Now, t) /\ Saves(Now, t)
  BY MovesOnIs
<1>2. c.ok /\ Becomes([c.s EXCEPT !.g = Navigate(@, c.s.v.rows, dir)])
  BY DEF MovesOn
<1> HIDE DEF c
<1>3. view' = t.v /\ grid' = t.g
  BY <1>2 DEF Becomes
<1> HIDE DEF t
<1> QED BY <1>1, <1>2, <1>3, NowIs, Lands

LEMMA KeysGo == ASSUME PairRight(Now), ArrowKey \/ EnterKey PROVE Goes(Now, Now') /\ Saves(Now, Now')
<1>1. ASSUME ~grid.editor.open, Becomes([Now EXCEPT !.g = MakeEditable(@, view.rows)])
      PROVE  Goes(Now, Now') /\ Saves(Now, Now')
  <2> DEFINE h == MakeEditable(grid, view.rows)
             t == [Now EXCEPT !.g = h]
  <2>1. NoEdit(grid)
    BY <1>1, NowIs DEF PairRight, Both, NoEdit
  <2>2. GridForm(h) /\ OnItem(view.rows, h)
    BY <2>1, EditableIs
  <2> HIDE DEF h
  <2>3. PairRight(t) /\ t.v = view /\ t.g = h
    BY <2>2, NowIs, GridLeads
  <2>4. view' = t.v /\ grid' = t.g
    BY <1>1, NowIs DEF Becomes, h
  <2> HIDE DEF t
  <2>5. PairRight(Now') /\ Now'.v = view' /\ Now'.g = grid'
    BY <2>3, <2>4, NowIs DEF PairRight, Both
  <2> QED BY <1>1, <2>2, <2>3, <2>4, <2>5, NowIs DEF Goes, Saves, ToCommit
<1>2. CASE ArrowKey
  BY <1>2, MovesOnGoes DEF ArrowKey
<1>3. CASE EnterKey
  BY <1>1, <1>3, MovesOnGoes DEF EnterKey
<1> QED BY <1>2, <1>3

LEMMA TypeGoes == ASSUME PairRight(Now), Type PROVE Goes(Now, Now') /\ Saves(Now, Now')
<1>1. PICK text \in Typed : grid' = [grid EXCEPT !.editor.text = text]
  BY DEF Type
<1> DEFINE e == [grid.editor EXCEPT !.text = text]
           h == [grid EXCEPT !.editor = e]
<1>2. GridForm(grid) /\ grid.editor.open /\ view' = view /\ grid' = h
  BY <1>1, NowIs DEF PairRight, Both, Type
<1>3. /\ DOMAIN e = EditorFields /\ e.open = grid.editor.open /\ e.new = grid.editor.new
      /\ e.id = grid.editor.id /\ e.attached = grid.editor.attached
  BY <1>2 DEF GridForm, EditorFields
<1> HIDE DEF e
<1>4. GridForm(h) /\ h.active = grid.active /\ h.editor = e
  BY <1>2, <1>3 DEF GridForm, GridFields
<1> HIDE DEF h
<1>5. PairRight(Now') /\ Now'.v = view /\ Now'.g = h
  BY <1>2, <1>4, NowIs DEF PairRight, Both
<1> HIDE DEF PairRight
<1> QED BY <1>2, <1>3, <1>4, <1>5, NowIs DEF Goes, Saves, OnItem, InPlace

LEMMA ToggleLeads == ASSUME PairRight(Now), NEW row, Becomes(Toggle(row)) PROVE Goes(Now, Now')
<1> DEFINE key == view.rows[row + 1].key
           fold == ~view.rows[row + 1].collapsed
           w == ExpandCollapseGroup(view, key, fold)
           t == With(Now, w)
<1>1. Reported(view, w)
  <2> HIDE DEF key, fold
  <2> QED BY NowIs, LookSteps DEF PairRight, Both
<1> HIDE DEF w
<1>2. Leads(Now, t)
  BY <1>1, NowIs, WithLeads
<1>3. view' = t.v /\ grid' = t.g
  BY DEF Becomes, Toggle, w, key, fold
<1> HIDE DEF t
<1> QED BY <1>2, <1>3, NowIs, Lands

LEMMA FoldsGo == ASSUME PairRight(Now), ClickToggle \/ SpaceKey PROVE Goes(Now, Now')
BY ToggleLeads DEF ClickToggle, SpaceKey

\* A heading is no item: where an editor is on its item no group is folded.
LEMMA SpaceSaves == ASSUME OnItem(view.rows, grid), SpaceKey, ~grid.editor.new PROVE Saves(Now, Now')
BY NowIs DEF OnItem, SpaceKey, Heading, IsItem, Saves, ToCommit

LEMMA CancelGoes == ASSUME PairRight(Now), EscapeKey \/ Answer PROVE Goes(Now, Now')
<1> DEFINE a == Cancel(Now)
           b == Redrawn(Now)
<1>1. Leads(Now, a) /\ Leads(Now, b)
  BY CancelLeads, RedrawnLeads
<1>2. (view' = a.v /\ grid' = a.g) \/ (view' = b.v /\ grid' = b.g)
  BY DEF EscapeKey, Answer, Becomes
<1> HIDE DEF a, b
<1> QED BY <1>1, <1>2, NowIs, Lands

LEMMA PageGoes == ASSUME PairRight(Now), PageKey PROVE Goes(Now, Now')
<1>1. PICK dir \in {-1, 1} : Becomes([Now EXCEPT !.g = ScrollPage(grid, view.rows, dir)])
  BY NowIs DEF PageKey
<1> DEFINE h == ScrollPage(grid, view.rows, dir)
           t == [Now EXCEPT !.g = h]
<1>2. GridForm(h) /\ (OnItem(view.rows, grid) => OnItem(view.rows, h)) /\ (InPlace(view.rows, grid) => InPlace(view.rows, h))
  BY NowIs, ScrollPageIs DEF PairRight, Both
<1> HIDE DEF h
<1>3. Leads(Now, t)
  BY <1>2, NowIs, GridLeads
<1>4. view' = t.v /\ grid' = t.g
  BY <1>1 DEF Becomes, h
<1> HIDE DEF t
<1> QED BY <1>3, <1>4, NowIs, Lands

\* What changes neither rows nor items leads to where it came from.
LEMMA ViewLeads ==
  ASSUME NEW s, PairRight(s), NEW w, ViewForm(w), ListRight(w), w.rows = s.v.rows
  PROVE  Leads(s, [s EXCEPT !.v = w]) /\ [s EXCEPT !.v = w].v = w
BY DEF PairRight, Both, Leads

LEMMA FoldedLeads ==
  ASSUME NEW s, PairRight(s), NEW status, NEW collapse PROVE Leads(s, Folded(s, status, collapse))
<1>1. Reported(s.v, ExpandCollapseGroup(s.v, <<status>>, collapse))
  BY LookSteps DEF PairRight, Both
<1> QED BY <1>1, WithLeads DEF Folded

LEMMA FoldAllLeads == ASSUME NEW s, PairRight(s), NEW collapse PROVE Leads(s, FoldAll(s, collapse))
<1>1. \A t, status, fold : PairRight(t) => Leads(t, Folded(t, status, fold))
  BY FoldedLeads
<1>2. ASSUME NEW a, NEW b, NEW c, NEW fold PROVE Leads(s, Folded(Folded(Folded(s, a, fold), b, fold), c, fold))
  <2> DEFINE t == Folded(s, a, fold)
             u == Folded(t, b, fold)
  <2>1. Leads(s, t)
    BY <1>1
  <2> HIDE DEF t
  <2>2. Leads(t, u)
    BY <1>1, <2>1 DEF Leads
  <2> HIDE DEF u
  <2>3. Leads(u, Folded(u, c, fold))
    BY <1>1, <2>2 DEF Leads
  <2>4. Leads(s, Folded(u, c, fold))
    BY <2>1, <2>2, <2>3, LeadsTwice
  <2> QED BY <2>4 DEF u, t
<1> QED BY <1>2 DEF FoldAll

LEMMA SearchGoes == ASSUME PairRight(Now), Search PROVE Goes(Now, Now')
<1>1. PICK filter : Becomes(Redrawn(Refreshed(FoldAll(Cancel([Now EXCEPT !.v.filter = filter]), filter = NoFilter))))
  BY DEF Search
<1> DEFINE w == [view EXCEPT !.filter = filter]
           a == [Now EXCEPT !.v = w]
           b == Cancel(a)
           c == FoldAll(b, filter = NoFilter)
           d == Refreshed(c)
           t == Redrawn(d)
<1>2. ViewForm(w) /\ ListRight(w) /\ w.rows = view.rows
  BY NowIs DEF PairRight, Both, ListRight, ViewForm, ViewFields
<1>3. [Now EXCEPT !.v.filter = filter] = a
  BY NowIs
<1> HIDE DEF w
<1>4. Leads(Now, a)
  BY <1>2, NowIs, ViewLeads
<1> HIDE DEF a
<1>5. Leads(a, b)
  BY <1>4, CancelLeads DEF Leads
<1> HIDE DEF b
<1>6. Leads(b, c)
  BY <1>5, FoldAllLeads DEF Leads
<1> HIDE DEF c
<1>7. Leads(c, d)
  BY <1>6, RefreshedLeads DEF Leads
<1> HIDE DEF d
<1>8. Leads(d, t)
  BY <1>7, RedrawnLeads DEF Leads
<1>9. view' = t.v /\ grid' = t.g
  BY <1>1, <1>3 DEF Becomes, d, c, b
<1> HIDE DEF t
<1>10. Leads(Now, t)
  BY <1>4, <1>5, <1>6, <1>7, <1>8, LeadsTwice
<1> QED BY <1>9, <1>10, NowIs, Lands

LEMMA CreateGoes == ASSUME PairRight(Now), Create PROVE Goes(Now, Now')
<1> DEFINE f == [view EXCEPT !.filter = NoFilter]
           cleared == ExpandCollapseAll(f, {1, 2}, FALSE)
           a == With(Now, cleared)
           w == InsertItem(a.v, 1, NewItem)
           b == With(a, w)
           c == GotoCell(b, 2, Min(EditCols))
           t == Refreshed(c)
<1>1. NewItem.id \notin DOMAIN view.idx /\ Becomes(t)
  BY DEF Create, Addable
<1>2. ViewForm(f) /\ ListRight(f) /\ f.rows = view.rows /\ f.idx = view.idx
  BY NowIs DEF PairRight, Both, ListRight, ViewForm, ViewFields
<1> HIDE DEF f
<1>3. Reported(view, cleared) /\ cleared.idx = view.idx
  <2> DEFINE levels == {1, 2}
             w1 == ExpandCollapseAll(f, levels, FALSE)
  <2> HIDE DEF levels
  <2>1. Reported(view, w1) /\ SameItems(f, w1)
    BY <1>2, FoldAllStep
  <2> QED BY <1>2, <2>1 DEF levels, SameItems
<1> HIDE DEF cleared
<1>4. Leads(Now, a) /\ a.v.idx = view.idx
  BY <1>3, NowIs, WithLeads DEF SameItems
<1> HIDE DEF a
<1>5. ItemForm(NewItem)
  BY ItemsAssumption DEF ItemForm
<1>6. Reported(a.v, w)
  <2>1. 1 \in 1..(Len(a.v.items) + 1)
    <3>1. Len(a.v.items) \in Nat
      BY <1>4, SeqFacts DEF Leads, PairRight, ListRight, ItemList
    <3> QED BY <3>1
  <2> QED BY <1>1, <1>4, <1>5, <2>1, ItemSteps DEF Leads, PairRight, Both
<1> HIDE DEF w
<1>7. Leads(a, b)
  BY <1>4, <1>6, WithLeads DEF Leads
<1> HIDE DEF b
<1>8. Leads(b, c)
  BY <1>7, GotoCellIs DEF Leads
<1> HIDE DEF c
<1>9. Leads(c, t)
  BY <1>8, RefreshedLeads DEF Leads
<1> HIDE DEF t
<1>10. Leads(Now, t)
  BY <1>4, <1>7, <1>8, <1>9, LeadsTwice
<1>11. view' = t.v /\ grid' = t.g
  BY <1>1 DEF Becomes
<1> QED BY <1>10, <1>11, NowIs, Lands

LEMMA WithGoes == ASSUME PairRight(Now), NEW w, Reported(view, w), Becomes(With(Now, w)) PROVE Goes(Now, Now')
<1> DEFINE t == With(Now, w)
<1>1. Leads(Now, t)
  BY NowIs, WithLeads
<1>2. view' = t.v /\ grid' = t.g
  BY DEF Becomes
<1> HIDE DEF t
<1> QED BY <1>1, <1>2, NowIs, Lands

LEMMA DataCallGoes == ASSUME PairRight(Now), DataCall PROVE Goes(Now, Now')
<1>1. ViewForm(view) /\ ListRight(view)
  BY NowIs DEF PairRight, Both
<1>2. ASSUME NEW ascending, Becomes(With(Now, SortItems(view, "value", ascending))) PROVE Goes(Now, Now')
  BY <1>1, <1>2, ItemSteps, WithGoes
<1>3. ASSUME NEW size, Becomes(With(Now, SetPagesize(view, size))) PROVE Goes(Now, Now')
  BY <1>1, <1>3, PagingSteps, WithGoes
<1>4. ASSUME NEW n, Becomes(With(Now, SetPagenum(view, n))) PROVE Goes(Now, Now')
  BY <1>1, <1>4, PagingSteps, WithGoes
<1>5. ASSUME NEW i \in ToSet(view.items), NEW value,
             Becomes(With(Now, UpdateItem(view, [i EXCEPT !.value = value])))
      PROVE  Goes(Now, Now')
  <2> DEFINE x == [i EXCEPT !.value = value]
  <2>1. ItemForm(i) /\ i.id \in DOMAIN view.idx
    BY <1>1, <1>5 DEF ToSet, ListRight, ItemList, IndexInv
  <2>2. ItemForm(x) /\ x.id = i.id
    BY <2>1 DEF ItemForm, IsItem
  <2>3. Reported(view, UpdateItem(view, x))
    BY <1>1, <2>1, <2>2, ItemSteps
  <2> HIDE DEF x
  <2>4. Becomes(With(Now, UpdateItem(view, x)))
    BY <1>5 DEF x
  <2> QED BY <2>3, <2>4, WithGoes
<1>6. ASSUME NEW i \in ToSet(Loaded), i.id \notin DOMAIN view.idx, Becomes(With(Now, AddItem(view, i)))
      PROVE  Goes(Now, Now')
  <2>1. ItemForm(i)
    BY <1>6, ItemsAssumption DEF ItemForm
  <2> QED BY <1>1, <1>6, <2>1, ItemSteps, WithGoes
<1>7. ASSUME NEW id \in DOMAIN view.idx, Becomes(With(Now, DeleteItem(view, id))) PROVE Goes(Now, Now')
  BY <1>1, <1>7, ItemSteps, WithGoes
<1>8. ASSUME NEW levels, Becomes(With(Now, SetGrouping(view, levels))) PROVE Goes(Now, Now')
  BY <1>1, <1>8, LookSteps, WithGoes
<1>9. ASSUME NEW filter, Becomes(With(Now, SetFilter(view, filter))) PROVE Goes(Now, Now')
  BY <1>1, <1>9, LookSteps, WithGoes
<1>10. ASSUME Becomes([Now EXCEPT !.v = BeginUpdate(@)]) PROVE Goes(Now, Now')
  <2> DEFINE w == BeginUpdate(view)
             t == [Now EXCEPT !.v = w]
  <2>1. ViewForm(w) /\ ListRight(w) /\ w.rows = view.rows
    BY <1>1 DEF BeginUpdate, ViewForm, ViewFields, ListRight
  <2> HIDE DEF w
  <2>2. Leads(Now, t)
    BY <2>1, NowIs, ViewLeads
  <2>3. view' = t.v /\ grid' = t.g
    BY <1>10, NowIs DEF Becomes, w
  <2> HIDE DEF t
  <2> QED BY <2>2, <2>3, NowIs, Lands
<1>11. ASSUME Becomes(With(Now, EndUpdate(view))) PROVE Goes(Now, Now')
  BY <1>1, <1>11, LookSteps, WithGoes
<1> QED BY <1>2, <1>3, <1>4, <1>5, <1>6, <1>7, <1>8, <1>9, <1>10, <1>11 DEF DataCall, Addable

LEMMA StartIs == ASSUME Init PROVE PairRight(Now) /\ OnItem(view.rows, grid)
<1> DEFINE u == [EmptyView EXCEPT !.items = Loaded, !.idx = Indexed(<<>>, Loaded, 1)]
           a == SetItems(EmptyView, Loaded)
           b == SetGrouping(a, ByStatus)
           h == Render(EmptyGrid, LoadedView.rows)
<1>1. ItemList(Loaded)
  <2>1. Sequence(Loaded)
    BY ItemsAssumption, SeqFacts
  <2> QED BY <2>1, ItemsAssumption DEF ItemList, ItemForm, ToSet
<1>2. IndexInv(Indexed(<<>>, Loaded, 1), Loaded)
  BY <1>1, AnewRight
<1>3. ViewForm(u) /\ ListRight(u)
  <2> DEFINE idx == Indexed(<<>>, Loaded, 1)
  <2> HIDE DEF idx
  <2>1. ViewForm([EmptyView EXCEPT !.items = Loaded, !.idx = idx])
    BY DEF ViewForm, ViewFields, EmptyView
  <2>2. LET x == [EmptyView EXCEPT !.items = Loaded, !.idx = idx] IN x.items = Loaded /\ x.idx = idx
    BY DEF EmptyView
  <2> QED BY <1>1, <1>2, <2>1, <2>2 DEF ListRight, idx
<1> HIDE DEF u
<1>4. a = Refresh(u)
  BY DEF SetItems, u
<1>5. ViewForm(a) /\ ListRight(a)
  BY <1>3, <1>4, RefreshStep DEF Reported, Follows
<1> HIDE DEF a
<1>6. ViewForm(b) /\ ListRight(b)
  BY <1>5, LookSteps DEF Reported, Follows
<1>7. view = [b EXCEPT !.told = Quiet]
  BY DEF Init, LoadedView, b, a
<1> HIDE DEF b
<1>8. ViewForm(view) /\ ListRight(view)
  BY <1>6, <1>7 DEF ViewForm, ViewFields, ListRight
<1>9. NoEdit(EmptyGrid)
  <2>1. EmptyGrid.cache = <<>>
    BY DEF EmptyGrid
  <2>2. DOMAIN EmptyGrid.cache = {}
    BY <2>1, EmptyIs
  <2>3. DOMAIN EmptyGrid = GridFields /\ EmptyGrid.active.row = -1 /\ EmptyGrid.editor = [open |-> FALSE]
    BY DEF EmptyGrid, GridFields, NoCell, NoEditor
  <2> QED BY <2>2, <2>3 DEF NoEdit, GridForm
<1>10. Still(EmptyGrid, h)
  BY <1>9, RenderStill DEF NoEdit
<1>11. grid = h
  BY DEF Init
<1> HIDE DEF h
<1> QED BY <1>8, <1>9, <1>10, <1>11, NowIs, ClosedThere DEF PairRight, Both, NoEdit, Still

GridViewInv == PairRight(Now) /\ OnItem(view.rows, grid)

\* What a handler may not do, for all of them at once.
HandlersFine ==
  /\ Goes(Now, Now')
  /\ \/ Saves(Now, Now')
     \/ EscapeKey \/ Search \/ Create \/ Answer \/ ClickToggle \/ PageKey \/ DataCall
     \/ grid.editor.new

LEMMA HandlersAre == ASSUME GridViewInv, [Next]_vars PROVE HandlersFine
<1>1. PairRight(Now) /\ OnItem(view.rows, grid)
  BY DEF GridViewInv
<1>2. CASE UNCHANGED vars
  <2>1. Still(grid, grid) /\ view' = view /\ grid' = grid
    BY <1>1, <1>2, NowIs DEF vars, PairRight, Both, Still
  <2>2. Leads(Now, Now) /\ Saves(Now, Now)
    BY <1>1 DEF Leads, Saves, ToCommit
  <2> QED BY <2>1, <2>2, NowIs, Lands DEF HandlersFine
<1>3. CASE ScrollDown \/ ScrollSideways \/ RenderTimer \/ FollowTimer
  BY <1>1, <1>3, ScrollGoes DEF HandlersFine
<1>4. CASE Click
  BY <1>1, <1>4, ClickGoes DEF HandlersFine
<1>5. CASE ArrowKey \/ EnterKey
  BY <1>1, <1>5, KeysGo DEF HandlersFine
<1>6. CASE Type
  BY <1>1, <1>6, TypeGoes DEF HandlersFine
<1>7. CASE SpaceKey
  BY <1>1, <1>7, FoldsGo, SpaceSaves DEF HandlersFine
<1>8. CASE ClickToggle
  BY <1>1, <1>8, FoldsGo DEF HandlersFine
<1>9. CASE EscapeKey \/ Answer
  BY <1>1, <1>9, CancelGoes DEF HandlersFine
<1>10. CASE PageKey
  BY <1>1, <1>10, PageGoes DEF HandlersFine
<1>11. CASE Search
  BY <1>1, <1>11, SearchGoes DEF HandlersFine
<1>12. CASE Create
  BY <1>1, <1>12, CreateGoes DEF HandlersFine
<1>13. CASE DataCall
  BY <1>1, <1>13, DataCallGoes DEF HandlersFine
<1> QED BY <1>2, <1>3, <1>4, <1>5, <1>6, <1>7, <1>8, <1>9, <1>10, <1>11, <1>12, <1>13 DEF Next

LEMMA GridViewSteps == Spec => []GridViewInv
<1>1. Init => GridViewInv
  BY StartIs DEF GridViewInv
<1>2. GridViewInv /\ [Next]_vars => GridViewInv'
  <2> SUFFICES ASSUME GridViewInv, [Next]_vars PROVE GridViewInv'
    OBVIOUS
  <2>1. Goes(Now, Now')
    BY HandlersAre DEF HandlersFine
  <2>2. PairRight(Now') /\ OnItem(view'.rows, grid')
    BY <2>1, NowIs DEF Goes, GridViewInv
  <2> QED BY <2>2 DEF GridViewInv
<1> QED BY <1>1, <1>2, PTL DEF Spec

\* What is in an editor goes to the item it was opened on: however the rows are
\* folded, searched, sorted, paged and created under it, its item stays in the
\* active row while the editor is open (GridView.EditorOnItsItem).
THEOREM EditorStaysOnItem == Spec => []EditorOnItsItem
<1>1. GridViewInv => EditorOnItsItem
  BY DEF GridViewInv, OnItem, EditorOnItsItem
<1> QED BY <1>1, GridViewSteps, PTL

\* No redrawing takes an open editor off the screen (GridView.EditorOnScreen).
THEOREM EditorStaysOnScreen == Spec => EditorOnScreen
<1>1. GridViewInv /\ [Next]_vars => [~EditorLost]_vars
  <2> SUFFICES ASSUME GridViewInv, [Next]_vars, EditorLost PROVE FALSE
    OBVIOUS
  <2>1. Goes(Now, Now')
    BY HandlersAre DEF HandlersFine
  <2> QED BY <2>1, NowIs DEF Goes, InPlace, EditorLost
<1> QED BY <1>1, GridViewSteps, PTL DEF Spec, EditorOnScreen

\* What was typed is in the item when a click or a key closes the editor, and no
\* scrolling or timer closes it (GridView.TypedKept).
THEOREM TypedIsKept == Spec => TypedKept
<1> DEFINE Allowed == EscapeKey \/ Search \/ Create \/ Answer \/ ClickToggle \/ PageKey \/ DataCall
<1>1. GridViewInv /\ [Next]_vars => [Dropped => Allowed]_vars
  <2> SUFFICES ASSUME GridViewInv, [Next]_vars, Dropped PROVE Allowed
    OBVIOUS
  <2>1. Saves(Now, Now') \/ Allowed \/ grid.editor.new
    BY HandlersAre DEF HandlersFine
  <2>2. ToCommit(Now) /\ ~Now'.g.editor.open /\ ~grid.editor.new
    BY NowIs DEF Dropped, ToCommit, GridViewInv, OnItem
  <2>3. ~Saves(Now, Now')
    <3>1. PICK i \in ToSet(view'.items) : i.id = grid.editor.id /\ i.value # grid.editor.text
      BY DEF Dropped
    <3> QED BY <2>2, <3>1, NowIs DEF Saves, Valued, ToSet
  <2> QED BY <2>1, <2>2, <2>3
<1> QED BY <1>1, GridViewSteps, PTL DEF Spec, TypedKept

\* Whatever is inserted, deleted, sorted and changed, the index of the data view
\* has the position of every item and nothing else, and no two items share an id
\* (DataView.Indexed, from updateIdxById and ensureIdUniqueness).
IndexRight ==
  /\ \A i, j \in DOMAIN view.items : view.items[i].id = view.items[j].id => i = j
  /\ \A i \in DOMAIN view.items : view.items[i].id \in DOMAIN view.idx /\ view.idx[view.items[i].id] = i
  /\ \A id \in DOMAIN view.idx : view.idx[id] \in DOMAIN view.items /\ view.items[view.idx[id]].id = id
THEOREM IndexIsRight == Spec => []IndexRight
<1>1. GridViewInv => IndexRight
  BY NowIs DEF GridViewInv, PairRight, ListRight, ItemList, IndexInv, IndexRight
<1> QED BY <1>1, GridViewSteps, PTL

-----------------------------------------------------------------------------
(* what is drawn *)

\* What drawing relies on: a cell that is active on the screen is there.
GridBase(g) ==
  /\ GridForm(g) /\ g.top \in Nat /\ g.drawnTop \in Nat
  /\ g.active = [row |-> g.active.row, cell |-> g.active.cell]
  /\ g.node = "live" => HasCell(g, g.active.row, g.active.cell)

CellRight(g, d, row, col) ==
  \/ g.cache[row][col] = Shown(d, row)
  \/ g.cache[row][col] = Editor /\ g.editor.open /\ g.active = [row |-> row, cell |-> col] /\ g.node = "live"
  \/ g.cache[row][col] = Blank /\ col < Frozen

\* Every drawn cell is right, but for the rows that are still to be drawn anew.
CellsRight(g, d, stale) ==
  \A row \in DOMAIN g.cache \ stale : \A col \in DOMAIN g.cache[row] : CellRight(g, d, row, col)

\* The viewport that was drawn last is drawn, and is the one seen or a timer is set.
InView(g, d) ==
  /\ g.timer \/ g.top = g.drawnTop
  /\ \A row \in g.drawnTop..LeastOf(Len(d), g.drawnTop + ViewRows) : Cached(g, row)

Current(g, d) == GridBase(g) /\ CellsRight(g, d, {}) /\ InView(g, d)

\* The screen stays as it is, but for single cells.
Framed(g, h) ==
  /\ GridBase(h) /\ DOMAIN h.cache = DOMAIN g.cache
  /\ h.top = g.top /\ h.drawnTop = g.drawnTop /\ h.timer = g.timer

LEMMA FramedInView == ASSUME NEW g, NEW h, Framed(g, h), NEW d, InView(g, d) PROVE InView(h, d)
BY DEF Framed, InView, Cached

LEMMA SizesAre == ViewRows \in Nat /\ MinBuffer \in Nat
BY GridAssumption

\* Rows that leave the screen need not be right any more.
LEMMA RemoveRowsDraws ==
  ASSUME NEW g, GridBase(g), NEW rows
  PROVE  LET h == RemoveRows(g, rows)
         IN  /\ GridBase(h) /\ DOMAIN h.cache = DOMAIN g.cache \ rows
             /\ h.top = g.top /\ h.drawnTop = g.drawnTop /\ h.timer = g.timer
             /\ h.drawnLeft = g.drawnLeft /\ h.left = g.left /\ h.dir = g.dir
             /\ \A d, stale : CellsRight(g, d, stale) => CellsRight(h, d, stale \ rows)
<1> DEFINE gone == g.active.row \in rows \cap DOMAIN g.cache
           cache == [r \in DOMAIN g.cache \ rows |-> g.cache[r]]
           node == IF gone /\ g.node = "live" THEN "dead" ELSE g.node
           editor == IF gone /\ g.editor.open THEN [g.editor EXCEPT !.attached = FALSE] ELSE g.editor
           x == [g EXCEPT !.cache = cache, !.node = node, !.editor = editor]
           h == RemoveRows(g, rows)
<1>1. h = x
  BY DEF RemoveRows
<1>2. DOMAIN cache = DOMAIN g.cache \ rows /\ \A r \in DOMAIN cache : cache[r] = g.cache[r]
  OBVIOUS
<1>3. /\ node = "live" => g.node = "live" /\ ~gone
      /\ g.active.row \notin rows => node = g.node /\ editor = g.editor
  OBVIOUS
<1>4. GridForm(h)
  BY RemoveRowsIs DEF GridBase
<1> HIDE DEF cache, node, editor, h
<1>5. /\ h.cache = cache /\ h.editor = editor /\ h.active = g.active /\ h.node = node
      /\ h.top = g.top /\ h.drawnTop = g.drawnTop /\ h.timer = g.timer
      /\ h.drawnLeft = g.drawnLeft /\ h.left = g.left /\ h.dir = g.dir
  BY <1>1 DEF GridBase, GridForm, GridFields
<1> HIDE DEF x
<1>6. h.node = "live" => HasCell(h, h.active.row, h.active.cell)
  BY <1>2, <1>3, <1>5 DEF GridBase, HasCell, Cached
<1>7. ASSUME NEW d, NEW stale, CellsRight(g, d, stale) PROVE CellsRight(h, d, stale \ rows)
  <2> SUFFICES ASSUME NEW row \in DOMAIN h.cache \ (stale \ rows), NEW col \in DOMAIN h.cache[row]
               PROVE  CellRight(h, d, row, col)
    BY DEF CellsRight
  <2>1. row \in DOMAIN g.cache \ stale /\ row \notin rows /\ h.cache[row] = g.cache[row]
    BY <1>2, <1>5
  <2>2. CellRight(g, d, row, col)
    BY <1>7, <2>1 DEF CellsRight
  <2>3. g.active = [row |-> row, cell |-> col] => g.active.row \notin rows
    BY <2>1
  <2> QED BY <1>3, <1>5, <2>1, <2>2, <2>3 DEF CellRight
<1>8. GridBase(h)
  BY <1>4, <1>5, <1>6 DEF GridBase
<1> QED BY <1>2, <1>5, <1>7, <1>8 DEF h

LEMMA CleanupDraws ==
  ASSUME NEW g, GridBase(g), NEW range
  PROVE  LET h == CleanupRows(g, range)
         IN  /\ GridBase(h) /\ h.top = g.top /\ h.left = g.left /\ h.dir = g.dir
             /\ \A d, stale : CellsRight(g, d, stale) => CellsRight(h, d, stale)
<1> DEFINE rows == {r \in DOMAIN g.cache : r # g.active.row /\ r \notin range.top..range.bottom}
           h == RemoveRows(g, rows)
<1>1. CleanupRows(g, range) = h
  BY DEF CleanupRows
<1> HIDE DEF rows
<1>2. /\ GridBase(h) /\ h.top = g.top /\ h.left = g.left /\ h.dir = g.dir
      /\ \A d, stale : CellsRight(g, d, stale) => CellsRight(h, d, stale \ rows)
  BY RemoveRowsDraws
<1> HIDE DEF h
<1>3. \A d, stale : CellsRight(h, d, stale \ rows) => CellsRight(h, d, stale)
  BY DEF CellsRight
<1> QED BY <1>1, <1>2, <1>3

LEMMA RenderCellsDraws ==
  ASSUME NEW g, GridBase(g), NEW d, NEW range
  PROVE  LET h == RenderCells(g, d, range)
         IN  /\ GridBase(h) /\ h.top = g.top
             /\ \A stale : CellsRight(g, d, stale) => CellsRight(h, d, stale)
<1> DEFINE Kept(r) == {c \in DOMAIN g.cache[r] :
                         \/ c < Frozen
                         \/ [row |-> r, cell |-> c] = g.active
                         \/ PosLeft(c) <= range.right /\ PosRight(c) >= range.left}
           Added(r) == IF Heading(d, r) THEN {} ELSE {c \in Cols : InRange(range, c)}
           Row(r) == [c \in Kept(r) \cup Added(r) |->
                        IF c \in Kept(r) THEN g.cache[r][c] ELSE Shown(d, r)]
           cache == [r \in DOMAIN g.cache |-> IF r \in range.top..range.bottom THEN Row(r) ELSE g.cache[r]]
           x == [g EXCEPT !.cache = cache]
           h == RenderCells(g, d, range)
<1>1. h = g \/ h = x
  BY DEF RenderCells, CleanUpAndRenderCells
<1>2. CASE h = g
  BY <1>2
<1>3. CASE h = x
  <2>1. \A r : \A c \in Kept(r) : c \in DOMAIN g.cache[r]
    OBVIOUS
  <2>2. \A r : \A c \in DOMAIN g.cache[r] : [row |-> r, cell |-> c] = g.active => c \in Kept(r)
    OBVIOUS
  <2> HIDE DEF Kept, Added
  <2>3. \A r : \A c \in DOMAIN Row(r) : (c \in DOMAIN g.cache[r] /\ Row(r)[c] = g.cache[r][c]) \/ Row(r)[c] = Shown(d, r)
    BY <2>1
  <2>4. \A r : \A c \in DOMAIN g.cache[r] : [row |-> r, cell |-> c] = g.active => c \in DOMAIN Row(r)
    BY <2>2
  <2> HIDE DEF Row
  <2>5. DOMAIN cache = DOMAIN g.cache /\ \A r \in DOMAIN cache : cache[r] = Row(r) \/ cache[r] = g.cache[r]
    OBVIOUS
  <2> HIDE DEF cache, h
  <2>6. /\ h.cache = cache /\ h.editor = g.editor /\ h.active = g.active /\ h.node = g.node
        /\ h.top = g.top /\ h.drawnTop = g.drawnTop /\ h.timer = g.timer /\ DOMAIN h = GridFields
    BY <1>3 DEF GridBase, GridForm, GridFields
  <2> HIDE DEF x
  <2>7. GridForm(h)
    BY <2>5, <2>6 DEF GridBase, GridForm
  <2>8. h.node = "live" => HasCell(h, h.active.row, h.active.cell)
    BY <2>4, <2>5, <2>6 DEF GridBase, HasCell, Cached
  <2>9. GridBase(h)
    BY <2>6, <2>7, <2>8 DEF GridBase
  <2>10. ASSUME NEW stale, CellsRight(g, d, stale) PROVE CellsRight(h, d, stale)
    <3> SUFFICES ASSUME NEW row \in DOMAIN h.cache \ stale, NEW col \in DOMAIN h.cache[row]
                 PROVE  CellRight(h, d, row, col)
      BY DEF CellsRight
    <3>1. row \in DOMAIN g.cache \ stale /\ row \in DOMAIN cache
      BY <2>5, <2>6
    <3>2. (col \in DOMAIN g.cache[row] /\ cache[row][col] = g.cache[row][col]) \/ cache[row][col] = Shown(d, row)
      BY <2>3, <2>5, <2>6, <3>1
    <3>3. col \in DOMAIN g.cache[row] => CellRight(g, d, row, col)
      BY <2>10, <3>1 DEF CellsRight
    <3> QED BY <2>6, <3>2, <3>3 DEF CellRight
  <2> QED BY <2>6, <2>9, <2>10 DEF h
<1> QED BY <1>1, <1>2, <1>3

LEMMA RowHtmlIs ==
  ASSUME NEW d, NEW row, NEW range
  PROVE  LET r == RowHtml(d, row, range)
         IN  \A c \in DOMAIN r : r[c] = Shown(d, row) \/ (r[c] = Blank /\ c < Frozen)
<1>1. CASE Heading(d, row)
  BY <1>1 DEF RowHtml
<1>2. CASE ~Heading(d, row)
  BY <1>2 DEF RowHtml
<1> QED BY <1>1, <1>2

LEMMA RenderRowsDraws ==
  ASSUME NEW g, GridBase(g), NEW d, NEW range
  PROVE  LET h == RenderRows(g, d, range)
         IN  /\ GridBase(h) /\ h.top = g.top /\ range.top..range.bottom \subseteq DOMAIN h.cache
             /\ \A stale : CellsRight(g, d, stale) => CellsRight(h, d, stale)
<1> DEFINE new == (range.top..range.bottom) \ DOMAIN g.cache
           all == [r \in DOMAIN g.cache \cup new |-> IF r \in new THEN RowHtml(d, r, range) ELSE g.cache[r]]
           reselect == g.node # "none" /\ g.active.row \in new
           node == IF ~reselect THEN g.node
                   ELSE IF g.active.cell \in DOMAIN all[g.active.row] THEN "live" ELSE "none"
           x == [g EXCEPT !.cache = all, !.node = node]
           h == RenderRows(g, d, range)
<1>1. h = x
  BY DEF RenderRows
<1>2. /\ DOMAIN all = DOMAIN g.cache \cup new
      /\ \A r \in DOMAIN g.cache : all[r] = g.cache[r] /\ r \notin new
      /\ \A r \in new : all[r] = RowHtml(d, r, range)
  OBVIOUS
<1>3. new \subseteq Int /\ range.top..range.bottom \subseteq DOMAIN g.cache \cup new
  OBVIOUS
<1> HIDE DEF new, all
<1>4. /\ g.active.row \notin new => node = g.node
      /\ node = "live" => (g.active.row \in new /\ g.active.cell \in DOMAIN all[g.active.row]) \/ g.node = "live"
  OBVIOUS
<1> HIDE DEF node, h
<1>5. /\ h.cache = all /\ h.editor = g.editor /\ h.active = g.active /\ h.node = node
      /\ h.top = g.top /\ h.drawnTop = g.drawnTop /\ DOMAIN h = GridFields
  BY <1>1 DEF GridBase, GridForm, GridFields
<1> HIDE DEF x
<1>6. GridForm(h)
  BY <1>2, <1>3, <1>5 DEF GridBase, GridForm
<1>7. h.node = "live" => HasCell(h, h.active.row, h.active.cell)
  BY <1>2, <1>4, <1>5 DEF GridBase, HasCell, Cached
<1>8. GridBase(h)
  BY <1>5, <1>6, <1>7 DEF GridBase
<1>9. ASSUME NEW stale, CellsRight(g, d, stale) PROVE CellsRight(h, d, stale)
  <2> SUFFICES ASSUME NEW row \in DOMAIN h.cache \ stale, NEW col \in DOMAIN h.cache[row]
               PROVE  CellRight(h, d, row, col)
    BY DEF CellsRight
  <2>1. CASE row \in new
    BY <1>2, <1>5, <2>1, RowHtmlIs DEF CellRight
  <2>2. CASE row \notin new
    <3>1. row \in DOMAIN g.cache \ stale /\ all[row] = g.cache[row]
      BY <1>2, <1>5, <2>2
    <3>2. CellRight(g, d, row, col)
      BY <1>5, <1>9, <3>1 DEF CellsRight
    <3>3. g.active = [row |-> row, cell |-> col] => node = g.node
      BY <1>4, <2>2
    <3> QED BY <1>5, <3>1, <3>2, <3>3 DEF CellRight
  <2> QED BY <2>1, <2>2
<1> QED BY <1>2, <1>3, <1>5, <1>8, <1>9 DEF h

\* Whatever was to be drawn, after a render() the viewport is drawn, and what is
\* drawn anew is right.
LEMMA RenderDraws ==
  ASSUME NEW g, GridBase(g), NEW d, Sequence(d)
  PROVE  LET h == Render(g, d)
         IN  /\ GridBase(h) /\ InView(h, d) /\ h.top = g.top
             /\ \A stale : CellsRight(g, d, stale) => CellsRight(h, d, stale)
<1> DEFINE range == RenderedRange(g, d)
           a == CleanupRows(g, range)
           b == RenderCells(a, d, range)
           c == RenderRows(b, d, range)
           e == [c EXCEPT !.drawnTop = g.top, !.drawnLeft = g.left, !.timer = FALSE]
           h == Render(g, d)
<1>1. h = [c EXCEPT !.drawnTop = g.top, !.drawnLeft = g.left, !.timer = FALSE]
  BY DEF Render, RenderRange
<1>2. \A row \in g.top..LeastOf(Len(d), g.top + ViewRows) : row \in range.top..range.bottom
  <2>1. Len(d) \in Nat /\ g.top \in Nat
    BY SeqFacts DEF GridBase
  <2> QED BY <2>1, SizesAre DEF RenderedRange, VisibleRange, AllRows, LeastOf, GreatestOf
<1> HIDE DEF range, a
<1>3. GridBase(a) /\ a.top = g.top /\ \A stale : CellsRight(g, d, stale) => CellsRight(a, d, stale)
  BY CleanupDraws DEF a
<1> HIDE DEF b
<1>4. GridBase(b) /\ b.top = a.top /\ \A stale : CellsRight(a, d, stale) => CellsRight(b, d, stale)
  BY <1>3, RenderCellsDraws DEF b
<1> HIDE DEF c
<1>5. /\ GridBase(c) /\ c.top = b.top /\ range.top..range.bottom \subseteq DOMAIN c.cache
      /\ \A stale : CellsRight(b, d, stale) => CellsRight(c, d, stale)
  BY <1>4, RenderRowsDraws DEF c
<1> HIDE DEF h
<1>6. /\ h.cache = c.cache /\ h.editor = c.editor /\ h.active = c.active /\ h.node = c.node
      /\ h.top = c.top /\ h.drawnTop = g.top /\ h.timer = FALSE /\ DOMAIN h = GridFields
  BY <1>1, <1>5 DEF GridBase, GridForm, GridFields
<1>7. GridBase(h)
  BY <1>5, <1>6 DEF GridBase, GridForm, HasCell, Cached
<1>8. InView(h, d)
  BY <1>2, <1>3, <1>4, <1>5, <1>6 DEF InView, Cached
<1>9. \A stale : CellsRight(c, d, stale) => CellsRight(h, d, stale)
  BY <1>6 DEF CellsRight, CellRight
<1> QED BY <1>3, <1>4, <1>5, <1>6, <1>7, <1>8, <1>9 DEF h

-----------------------------------------------------------------------------
(* what is drawn: scrolling *)

\* What only scrolls leaves every cell.
LEMMA Rescrolled ==
  ASSUME NEW g, GridBase(g), NEW h, GridForm(h), h.cache = g.cache, h.editor = g.editor, h.active = g.active,
         h.node = g.node, h.top \in Nat, h.drawnTop \in Nat
  PROVE  GridBase(h) /\ \A d, stale : CellsRight(g, d, stale) => CellsRight(h, d, stale)
BY DEF GridBase, CellsRight, CellRight, HasCell, Cached

LEMMA ScrollToDraws ==
  ASSUME NEW g, GridBase(g), NEW d, Sequence(d), NEW y \in Int
  PROVE  LET h == ScrollTo(g, d, y)
         IN  GridBase(h) /\ \A stale : CellsRight(g, d, stale) => CellsRight(h, d, stale)
<1> DEFINE top == LeastOf(GreatestOf(y, 0), MaxTop(d))
           dir == IF top > g.top THEN 1 ELSE -1
           x == [g EXCEPT !.top = top, !.drawnTop = top, !.dir = dir]
           h == ScrollTo(g, d, y)
<1>1. h = g \/ h = x
  BY DEF ScrollTo
<1>2. top \in Nat
  <2>1. Len(d) \in Nat
    BY SeqFacts
  <2> QED BY <2>1, SizesAre DEF LeastOf, GreatestOf, MaxTop, AllRows
<1> HIDE DEF top, dir
<1>3. /\ GridForm(x) /\ x.cache = g.cache /\ x.editor = g.editor /\ x.active = g.active
      /\ x.node = g.node /\ x.top \in Nat /\ x.drawnTop \in Nat
  BY <1>2 DEF GridBase, GridForm, GridFields
<1> HIDE DEF x
<1>4. GridBase(x) /\ \A stale : CellsRight(g, d, stale) => CellsRight(x, d, stale)
  BY <1>3, Rescrolled
<1> HIDE DEF h
<1>5. GridBase(h) /\ \A stale : CellsRight(g, d, stale) => CellsRight(h, d, stale)
  BY <1>1, <1>4
<1> QED BY <1>5 DEF h

LEMMA RenderCurrent ==
  ASSUME NEW g, NEW d, Sequence(d), GridBase(g), CellsRight(g, d, {}) PROVE Current(Render(g, d), d)
BY RenderDraws DEF Current

LEMMA HandleScrollCurrent ==
  ASSUME NEW g, NEW d, Sequence(d), Current(g, d), NEW top \in Nat, NEW left
  PROVE  Current(HandleScroll(g, d, top, left), d)
<1> DEFINE dir == IF top = g.top THEN g.dir ELSE IF top > g.top THEN 1 ELSE -1
           h == [g EXCEPT !.top = top, !.left = left, !.timer = FALSE, !.dir = dir]
           later == Undrawn(g, top, left)
           k == [h EXCEPT !.timer = later]
<1>1. HandleScroll(g, d, top, left) \in {g, Render(h, d), k}
  BY DEF HandleScroll
<1>2. top = g.drawnTop \/ later
  BY DEF Undrawn
<1> HIDE DEF dir, later
<1>3. /\ GridForm(h) /\ h.cache = g.cache /\ h.editor = g.editor /\ h.active = g.active
      /\ h.node = g.node /\ h.top \in Nat /\ h.drawnTop \in Nat
  BY DEF Current, GridBase, GridForm, GridFields
<1>4. /\ GridForm(k) /\ k.cache = g.cache /\ k.editor = g.editor /\ k.active = g.active
      /\ k.node = g.node /\ k.top = top /\ k.drawnTop = g.drawnTop /\ k.timer = later
  BY DEF Current, GridBase, GridForm, GridFields
<1> HIDE DEF h, k
<1>5. GridBase(h) /\ CellsRight(h, d, {})
  BY <1>3, Rescrolled DEF Current
<1>6. Current(k, d)
  <2>1. GridBase(k) /\ CellsRight(k, d, {})
    BY <1>4, Rescrolled DEF Current, GridBase
  <2>2. InView(k, d)
    BY <1>2, <1>4 DEF Current, InView, Cached
  <2> QED BY <2>1, <2>2 DEF Current
<1>7. Current(Render(h, d), d)
  BY <1>5, RenderCurrent
<1> QED BY <1>1, <1>6, <1>7

LEMMA ScrollCellCurrent ==
  ASSUME NEW g, NEW d, Sequence(d), Current(g, d), NEW row, NEW col
  PROVE  Current(ScrollCellIntoView(g, d, row, col), d)
<1> DEFINE left == LeftFor(g, d, row, col)
           h == HandleScroll(g, d, g.top, left)
<1>1. ScrollCellIntoView(g, d, row, col) \in {g, Render(h, d)}
  BY DEF ScrollCellIntoView
<1> HIDE DEF left
<1>2. Current(h, d)
  BY HandleScrollCurrent DEF Current, GridBase
<1> HIDE DEF h
<1>3. Current(Render(h, d), d)
  BY <1>2, RenderCurrent DEF Current
<1> QED BY <1>1, <1>3

LEMMA ScrollActiveCurrent ==
  ASSUME NEW g, NEW d, Sequence(d), Current(g, d) PROVE Current(ScrollActiveCellIntoView(g, d), d)
<1> DEFINE h == [g EXCEPT !.follow = FALSE]
<1>1. /\ GridForm(h) /\ h.cache = g.cache /\ h.editor = g.editor /\ h.active = g.active
      /\ h.node = g.node /\ h.top = g.top /\ h.drawnTop = g.drawnTop /\ h.timer = g.timer
  BY DEF Current, GridBase, GridForm, GridFields
<1> HIDE DEF h
<1>2. GridBase(h) /\ CellsRight(h, d, {})
  BY <1>1, Rescrolled DEF Current, GridBase
<1>3. Current(h, d)
  BY <1>1, <1>2 DEF Current, InView, Cached
<1>4. Current(ScrollCellIntoView(h, d, g.active.row, g.active.cell), d)
  BY <1>3, ScrollCellCurrent
<1> QED BY <1>3, <1>4 DEF ScrollActiveCellIntoView, h

-----------------------------------------------------------------------------
(* what is drawn: the active cell and its editor *)

LEMMA NormalDraws ==
  ASSUME NEW g, GridBase(g), NEW d
  PROVE  LET h == MakeNormal(g, d)
         IN  /\ Framed(g, h) /\ ~h.editor.open
             /\ \A stale : CellsRight(g, d, stale) => CellsRight(h, d, stale)
<1> DEFINE row == g.active.row
           col == g.active.cell
           new == [g.cache EXCEPT ![row][col] = Shown(d, row)]
           a == [g EXCEPT !.editor = NoEditor]
           b == [g EXCEPT !.editor = NoEditor, !.cache = new]
           h == MakeNormal(g, d)
<1>1. \/ h = g /\ ~g.editor.open
      \/ h = a /\ g.node # "live"
      \/ h = b
  BY DEF MakeNormal, GridBase, GridForm, GridFields
<1>2. GridForm(h) /\ ~h.editor.open /\ h.active = g.active
  BY NormalIs DEF GridBase, NoEdit
<1> HIDE DEF h
<1>3. ASSUME h = g /\ ~g.editor.open
      PROVE  Framed(g, h) /\ ~h.editor.open /\ \A stale : CellsRight(g, d, stale) => CellsRight(h, d, stale)
  BY <1>3 DEF Framed
<1>4. ASSUME h = a /\ g.node # "live"
      PROVE  Framed(g, h) /\ ~h.editor.open /\ \A stale : CellsRight(g, d, stale) => CellsRight(h, d, stale)
  <2>1. h.cache = g.cache /\ h.node = g.node /\ h.top = g.top /\ h.drawnTop = g.drawnTop /\ h.timer = g.timer
    BY <1>4 DEF GridBase, GridForm, GridFields
  <2>2. Framed(g, h)
    BY <1>2, <1>4, <2>1 DEF Framed, GridBase
  <2>3. \A stale : CellsRight(g, d, stale) => CellsRight(h, d, stale)
    BY <1>4, <2>1 DEF CellsRight, CellRight
  <2> QED BY <1>2, <2>2, <2>3
<1>5. ASSUME h = b
      PROVE  Framed(g, h) /\ ~h.editor.open /\ \A stale : CellsRight(g, d, stale) => CellsRight(h, d, stale)
  <2>1. /\ DOMAIN new = DOMAIN g.cache
        /\ \A r \in DOMAIN g.cache :
             /\ DOMAIN new[r] = DOMAIN g.cache[r]
             /\ \A c \in DOMAIN g.cache[r] :
                  new[r][c] = IF r = row /\ c = col THEN Shown(d, row) ELSE g.cache[r][c]
    OBVIOUS
  <2> HIDE DEF new
  <2>2. h.cache = new /\ h.node = g.node /\ h.top = g.top /\ h.drawnTop = g.drawnTop /\ h.timer = g.timer
    BY <1>5 DEF GridBase, GridForm, GridFields
  <2>3. Framed(g, h)
    BY <1>2, <2>1, <2>2 DEF Framed, GridBase, HasCell, Cached
  <2>4. ASSUME NEW stale, CellsRight(g, d, stale) PROVE CellsRight(h, d, stale)
    <3> SUFFICES ASSUME NEW r \in DOMAIN h.cache \ stale, NEW c \in DOMAIN h.cache[r] PROVE CellRight(h, d, r, c)
      BY DEF CellsRight
    <3>1. r \in DOMAIN g.cache \ stale /\ c \in DOMAIN g.cache[r]
      BY <2>1, <2>2
    <3>2. CellRight(g, d, r, c)
      BY <2>4, <3>1 DEF CellsRight
    <3>3. g.active = [row |-> r, cell |-> c] => r = row /\ c = col
      OBVIOUS
    <3> HIDE DEF row, col
    <3> QED BY <2>1, <2>2, <3>1, <3>2, <3>3 DEF CellRight
  <2> QED BY <1>2, <2>3, <2>4
<1>6. Framed(g, h) /\ ~h.editor.open /\ \A stale : CellsRight(g, d, stale) => CellsRight(h, d, stale)
  BY <1>1, <1>2, <1>3, <1>4, <1>5
<1> QED BY <1>6 DEF h

LEMMA EditableDraws ==
  ASSUME NEW g, GridBase(g), ~g.editor.open, NEW d
  PROVE  LET h == MakeEditable(g, d)
         IN  /\ Framed(g, h)
             /\ \A stale : CellsRight(g, d, stale) => CellsRight(h, d, stale)
<1> DEFINE row == g.active.row
           col == g.active.cell
           item == Exists(d, row)
           open == [open |-> TRUE, new |-> ~item, attached |-> g.node = "live",
                    id |-> IF item THEN d[row + 1].id ELSE "none",
                    loaded |-> IF item THEN d[row + 1].value ELSE 0,
                    text |-> IF item THEN d[row + 1].value ELSE 0]
           a == [g EXCEPT !.editor = open]
           new == [a.cache EXCEPT ![row][col] = Editor]
           b == [a EXCEPT !.cache = new]
           h == MakeEditable(g, d)
<1>1. h = g \/ (h = a /\ g.node # "live") \/ (h = b /\ g.node = "live")
  BY DEF MakeEditable
<1>2. open.open
  OBVIOUS
<1>3. GridForm(h) /\ h.active = g.active
  BY EditableIs DEF GridBase, NoEdit
<1> HIDE DEF open, h
<1>4. ASSUME h = g
      PROVE  Framed(g, h) /\ \A stale : CellsRight(g, d, stale) => CellsRight(h, d, stale)
  BY <1>4 DEF Framed
<1>5. a.cache = g.cache /\ a.editor = open /\ a.node = g.node /\ a.top = g.top /\ a.drawnTop = g.drawnTop /\ a.timer = g.timer
      /\ DOMAIN a = GridFields
  BY DEF GridBase, GridForm, GridFields
<1> HIDE DEF a
<1>6. ASSUME h = a /\ g.node # "live"
      PROVE  Framed(g, h) /\ \A stale : CellsRight(g, d, stale) => CellsRight(h, d, stale)
  <2>1. Framed(g, h)
    BY <1>3, <1>5, <1>6 DEF Framed, GridBase
  <2>2. \A stale : CellsRight(g, d, stale) => CellsRight(h, d, stale)
    <3> SUFFICES ASSUME NEW stale, CellsRight(g, d, stale), NEW r \in DOMAIN h.cache \ stale, NEW c \in DOMAIN h.cache[r]
                 PROVE  CellRight(h, d, r, c)
      BY DEF CellsRight
    <3>1. h.cache = g.cache
      BY <1>5, <1>6
    <3>2. CellRight(g, d, r, c)
      BY <3>1 DEF CellsRight
    <3> QED BY <3>1, <3>2 DEF CellRight
  <2> QED BY <2>1, <2>2
<1>7. ASSUME h = b /\ g.node = "live"
      PROVE  Framed(g, h) /\ \A stale : CellsRight(g, d, stale) => CellsRight(h, d, stale)
  <2>1. /\ DOMAIN new = DOMAIN g.cache
        /\ \A r \in DOMAIN g.cache :
             /\ DOMAIN new[r] = DOMAIN g.cache[r]
             /\ \A c \in DOMAIN g.cache[r] :
                  new[r][c] = IF r = row /\ c = col THEN Editor ELSE g.cache[r][c]
    BY <1>5
  <2> HIDE DEF new
  <2>2. /\ h.cache = new /\ h.editor = open /\ h.node = g.node /\ h.top = g.top /\ h.drawnTop = g.drawnTop
        /\ h.timer = g.timer
    BY <1>5, <1>7 DEF GridFields
  <2>3. Framed(g, h)
    BY <1>3, <2>1, <2>2 DEF Framed, GridBase, HasCell, Cached
  <2>4. ASSUME NEW stale, CellsRight(g, d, stale) PROVE CellsRight(h, d, stale)
    <3> SUFFICES ASSUME NEW r \in DOMAIN h.cache \ stale, NEW c \in DOMAIN h.cache[r] PROVE CellRight(h, d, r, c)
      BY DEF CellsRight
    <3>1. r \in DOMAIN g.cache \ stale /\ c \in DOMAIN g.cache[r]
      BY <2>1, <2>2
    <3>2. CellRight(g, d, r, c)
      BY <2>4, <3>1 DEF CellsRight
    <3>3. r = row /\ c = col => h.active = [row |-> r, cell |-> c]
      BY <1>3 DEF GridBase
    <3> HIDE DEF row, col
    <3> QED BY <1>2, <1>7, <2>1, <2>2, <3>1, <3>2, <3>3 DEF CellRight
  <2> QED BY <2>3, <2>4
<1>8. Framed(g, h) /\ \A stale : CellsRight(g, d, stale) => CellsRight(h, d, stale)
  BY <1>1, <1>4, <1>6, <1>7
<1> QED BY <1>8 DEF h

LEMMA SetActiveDraws ==
  ASSUME NEW g, GridBase(g), NEW d, NEW row, NEW col
  PROVE  LET h == SetActive(g, d, row, col, TRUE)
         IN  /\ Framed(g, h)
             /\ \A stale : CellsRight(g, d, stale) => CellsRight(h, d, stale)
<1> DEFINE a == MakeNormal(g, d)
           at == [row |-> row, cell |-> col]
           follow == a.follow \/ g.node # "live" \/ g.active # at
           n == [a EXCEPT !.active = at, !.posX = col, !.node = "live", !.follow = follow]
           none == [a EXCEPT !.active = NoCell, !.node = "none"]
           h == SetActive(g, d, row, col, TRUE)
           Keeps(x, y) == Framed(x, y) /\ \A stale : CellsRight(x, d, stale) => CellsRight(y, d, stale)
<1>1. h = none \/ (h = MakeEditable(n, d) /\ HasCell(a, row, col))
  BY DEF SetActive
<1>2. Keeps(g, a) /\ ~a.editor.open
  BY NormalDraws
<1> HIDE DEF a, follow
<1>3. Keeps(a, none)
  <2>1. /\ GridForm(none) /\ none.cache = a.cache /\ none.editor = a.editor /\ none.active = NoCell /\ none.node = "none"
        /\ none.top = a.top /\ none.drawnTop = a.drawnTop /\ none.timer = a.timer
    BY <1>2 DEF Framed, GridBase, GridForm, GridFields, NoCell
  <2> HIDE DEF none
  <2>2. Framed(a, none)
    BY <1>2, <2>1 DEF Framed, GridBase, NoCell
  <2>3. \A stale : CellsRight(a, d, stale) => CellsRight(none, d, stale)
    BY <1>2, <2>1 DEF CellsRight, CellRight
  <2> QED BY <2>2, <2>3
<1>4. HasCell(a, row, col) => Keeps(a, n) /\ ~n.editor.open
  <2> SUFFICES ASSUME HasCell(a, row, col) PROVE Keeps(a, n) /\ ~n.editor.open
    OBVIOUS
  <2>0. row \in Int
    BY <1>2 DEF HasCell, Cached, Framed, GridBase, GridForm
  <2>1. /\ GridForm(n) /\ n.cache = a.cache /\ n.editor = a.editor /\ n.active = at /\ n.node = "live"
        /\ n.top = a.top /\ n.drawnTop = a.drawnTop /\ n.timer = a.timer
    BY <1>2, <2>0 DEF Framed, GridBase, GridForm, GridFields
  <2> HIDE DEF n
  <2>2. Framed(a, n)
    BY <1>2, <2>1 DEF Framed, GridBase, HasCell, Cached
  <2>3. \A stale : CellsRight(a, d, stale) => CellsRight(n, d, stale)
    BY <1>2, <2>1 DEF CellsRight, CellRight
  <2> QED BY <1>2, <2>1, <2>2, <2>3
<1> HIDE DEF n, none, h
<1>5. h = MakeEditable(n, d) /\ HasCell(a, row, col) => Keeps(n, h)
  BY <1>4, EditableDraws DEF Framed
<1>6. Keeps(g, h)
  BY <1>1, <1>2, <1>3, <1>4, <1>5 DEF Framed
<1> QED BY <1>6 DEF h

LEMMA ResetDraws ==
  ASSUME NEW g, GridBase(g), NEW d
  PROVE  LET h == ResetActive(g, d)
         IN  /\ Framed(g, h) /\ \A stale : CellsRight(g, d, stale) => CellsRight(h, d, stale)
<1> DEFINE a == MakeNormal(g, d)
           h == [a EXCEPT !.active = NoCell, !.node = "none"]
<1>1. Framed(g, a) /\ ~a.editor.open /\ \A stale : CellsRight(g, d, stale) => CellsRight(a, d, stale)
  BY NormalDraws
<1>2. ResetActive(g, d) = h
  BY DEF ResetActive
<1> HIDE DEF a
<1>3. /\ GridForm(h) /\ h.cache = a.cache /\ h.editor = a.editor /\ h.active = NoCell /\ h.node = "none"
      /\ h.top = a.top /\ h.drawnTop = a.drawnTop /\ h.timer = a.timer
  BY <1>1 DEF Framed, GridBase, GridForm, GridFields, NoCell
<1> HIDE DEF h
<1>4. Framed(g, h)
  BY <1>1, <1>3 DEF Framed, GridBase, NoCell
<1>5. \A stale : CellsRight(a, d, stale) => CellsRight(h, d, stale)
  BY <1>1, <1>3 DEF CellsRight, CellRight
<1> QED BY <1>1, <1>2, <1>4, <1>5

-----------------------------------------------------------------------------
(* what is drawn: the rows have changed *)

\* Rows that do not exist any more leave the screen.
LEMMA RowCountDraws ==
  ASSUME NEW g, GridBase(g), NEW d, Sequence(d)
  PROVE  LET h == UpdateRowCount(g, d)
         IN  /\ GridBase(h)
             /\ \A bad, stale : CellsRight(g, d, bad) /\ (\A r \in bad : r \in stale \/ ~Exists(d, r)) => CellsRight(h, d, stale)
<1> DEFINE rows == {r \in DOMAIN g.cache : ~Exists(d, r)}
           a == RemoveRows(g, rows)
           b == ResetIfBeyond(a, d)
           h == ScrollTo(b, d, g.top)
<1>1. \A bad, stale : (\A r \in bad : r \in stale \/ ~Exists(d, r)) => \A r \in DOMAIN g.cache : r \in bad \ rows => r \in stale
  OBVIOUS
<1> HIDE DEF rows
<1>2. /\ GridBase(a) /\ DOMAIN a.cache = DOMAIN g.cache \ rows
      /\ \A bad : CellsRight(g, d, bad) => CellsRight(a, d, bad \ rows)
  BY RemoveRowsDraws
<1> HIDE DEF a
<1>3. GridBase(b) /\ \A stale : CellsRight(a, d, stale) => CellsRight(b, d, stale)
  BY <1>2, ResetDraws DEF ResetIfBeyond, Framed
<1> HIDE DEF b
<1>4. GridBase(h) /\ \A stale : CellsRight(b, d, stale) => CellsRight(h, d, stale)
  <2>1. g.top \in Int
    BY DEF GridBase
  <2> QED BY <1>3, <2>1, ScrollToDraws
<1>5. UpdateRowCount(g, d) = h
  BY DEF UpdateRowCount, h, b, a, rows
<1> HIDE DEF h
<1>6. ASSUME NEW bad, NEW stale, CellsRight(g, d, bad), \A r \in bad : r \in stale \/ ~Exists(d, r)
      PROVE  CellsRight(h, d, stale)
  <2>1. CellsRight(a, d, bad \ rows) /\ \A r \in DOMAIN a.cache : r \in bad \ rows => r \in stale
    BY <1>1, <1>2, <1>6
  <2>2. CellsRight(a, d, stale)
    BY <2>1 DEF CellsRight
  <2> QED BY <1>3, <1>4, <2>2
<1> QED BY <1>4, <1>5, <1>6

LEMMA InvalidateRowsDraws ==
  ASSUME NEW g, GridBase(g), NEW d, NEW rows
  PROVE  LET h == InvalidateRows(g, d, rows)
         IN  GridBase(h) /\ (CellsRight(g, d, rows) => CellsRight(h, d, {}))
<1> DEFINE a == IF g.active.row \in rows THEN MakeNormal(g, d) ELSE g
           b == RemoveRows(a, rows)
           h == [b EXCEPT !.dir = 0]
<1>1. GridBase(a) /\ \A stale : CellsRight(g, d, stale) => CellsRight(a, d, stale)
  BY NormalDraws DEF Framed
<1> HIDE DEF a
<1>2. GridBase(b) /\ \A stale : CellsRight(a, d, stale) => CellsRight(b, d, stale \ rows)
  BY <1>1, RemoveRowsDraws
<1> HIDE DEF b
<1>3. /\ GridForm(h) /\ h.cache = b.cache /\ h.editor = b.editor /\ h.active = b.active
      /\ h.node = b.node /\ h.top \in Nat /\ h.drawnTop \in Nat
  BY <1>2 DEF GridBase, GridForm, GridFields
<1> HIDE DEF h
<1>4. GridBase(h) /\ \A stale : CellsRight(b, d, stale) => CellsRight(h, d, stale)
  BY <1>2, <1>3, Rescrolled
<1>5. rows \ rows = {}
  OBVIOUS
<1>6. CellsRight(g, d, rows) => CellsRight(h, d, {})
  BY <1>1, <1>2, <1>4, <1>5
<1>7. InvalidateRows(g, d, rows) = h \/ (InvalidateRows(g, d, rows) = g /\ rows = {})
  BY DEF InvalidateRows, h, b, a
<1> QED BY <1>4, <1>6, <1>7

\* Drawn anew, the screen is right whatever was on it.
LEMMA InvalidateDraws ==
  ASSUME NEW g, GridBase(g), NEW d, Sequence(d) PROVE Current(Invalidate(g, d), d)
<1> DEFINE a == UpdateRowCount(g, d)
           b == MakeNormal(a, d)
           c == RemoveRows(b, DOMAIN a.cache)
<1>1. GridBase(a)
  BY RowCountDraws
<1> HIDE DEF a
<1>2. GridBase(b) /\ DOMAIN b.cache = DOMAIN a.cache
  BY <1>1, NormalDraws DEF Framed
<1> HIDE DEF b
<1>3. GridBase(c) /\ DOMAIN c.cache = {}
  BY <1>2, RemoveRowsDraws
<1> HIDE DEF c
<1>4. CellsRight(c, d, {})
  BY <1>3 DEF CellsRight
<1>5. Invalidate(g, d) = Render(c, d)
  BY DEF Invalidate, InvalidateAll, c, b, a
<1> QED BY <1>3, <1>4, <1>5, RenderCurrent

LEMMA UpdateRowBase == ASSUME NEW g, GridBase(g), NEW d, NEW row PROVE GridBase(UpdateRow(g, d, row))
<1> DEFINE r == [c \in DOMAIN g.cache[row] |-> IF g.cache[row][c] = Editor THEN Editor ELSE Shown(d, row)]
           new == [g.cache EXCEPT ![row] = r]
           x == [g EXCEPT !.cache = new]
           h == UpdateRow(g, d, row)
<1>1. h = g \/ h = x
  BY DEF UpdateRow
<1>2. DOMAIN new = DOMAIN g.cache /\ \A i \in DOMAIN g.cache : DOMAIN new[i] = DOMAIN g.cache[i]
  OBVIOUS
<1> HIDE DEF new
<1>3. /\ GridForm(x) /\ x.cache = new /\ x.active = g.active /\ x.node = g.node /\ x.top = g.top
      /\ x.drawnTop = g.drawnTop
  BY <1>2 DEF GridBase, GridForm, GridFields
<1> HIDE DEF x, h
<1>4. GridBase(x)
  BY <1>2, <1>3 DEF GridBase, HasCell, Cached
<1>5. GridBase(h)
  BY <1>1, <1>4
<1> QED BY <1>5 DEF h

-----------------------------------------------------------------------------
(* what is drawn: moving with the keys *)

LEMMA SetActiveCurrent ==
  ASSUME NEW g, NEW d, Current(g, d), NEW row, NEW col PROVE Current(SetActive(g, d, row, col, TRUE), d)
BY SetActiveDraws, FramedInView DEF Current, Framed

LEMMA MovedCurrent ==
  ASSUME NEW g, NEW d, Sequence(d), Current(g, d), NEW x PROVE Current([g EXCEPT !.posX = x], d)
<1> DEFINE h == [g EXCEPT !.posX = x]
<1>1. /\ GridForm(h) /\ h.cache = g.cache /\ h.editor = g.editor /\ h.active = g.active
      /\ h.node = g.node /\ h.top = g.top /\ h.drawnTop = g.drawnTop /\ h.timer = g.timer
  BY DEF Current, GridBase, GridForm, GridFields
<1> HIDE DEF h
<1>2. GridBase(h) /\ CellsRight(h, d, {})
  BY <1>1, Rescrolled DEF Current, GridBase
<1>3. Current(h, d)
  BY <1>1, <1>2 DEF Current, InView, Cached
<1> QED BY <1>3 DEF h

LEMMA NavigateCurrent ==
  ASSUME NEW g, NEW d, Sequence(d), Current(g, d), NEW dir PROVE Current(Navigate(g, d, dir), d)
<1> DEFINE pos == Step(d, dir, g.active, g.posX)
           a == SetActive(g, d, g.active.row, g.active.cell, TRUE)
           b == ScrollCellIntoView(g, d, pos.row, pos.cell)
           c == SetActive(b, d, pos.row, pos.cell, TRUE)
           e == [c EXCEPT !.posX = pos.posX]
           h == Navigate(g, d, dir)
<1>1. h \in {g, a, e}
  BY DEF Navigate, NavigateTo
<1> HIDE DEF pos, h
<1>2. Current(a, d)
  BY SetActiveCurrent
<1> HIDE DEF a
<1>3. Current(b, d)
  BY ScrollCellCurrent
<1> HIDE DEF b
<1>4. Current(c, d)
  BY <1>3, SetActiveCurrent
<1> HIDE DEF c
<1>5. Current(e, d)
  BY <1>4, MovedCurrent
<1> HIDE DEF e
<1>6. Current(h, d)
  BY <1>1, <1>2, <1>5
<1> QED BY <1>6 DEF h

LEMMA ScrollPageCurrent ==
  ASSUME NEW g, NEW d, Sequence(d), Current(g, d), NEW dir \in Int PROVE Current(ScrollPage(g, d, dir), d)
<1> DEFINE row == LeastOf(GreatestOf(g.active.row + dir * ViewRows, 0), Len(d))
           y == g.top + dir * ViewRows
           a == ScrollTo(g, d, y)
           b == Render(a, d)
           open == {c \in Focusable(d, row) : c <= b.posX}
           c == SetActive(b, d, row, Max(open), TRUE)
           e == [c EXCEPT !.posX = b.posX]
           h == ActivateInRow(b, d, row)
<1>1. y \in Int
  <2>1. g.top \in Nat
    BY DEF Current, GridBase
  <2> QED BY <2>1, SizesAre
<1> HIDE DEF row, y
<1>2. GridBase(a) /\ CellsRight(a, d, {})
  BY <1>1, ScrollToDraws DEF Current
<1> HIDE DEF a
<1>3. Current(b, d)
  BY <1>2, RenderCurrent
<1>4. h \in {b, ResetActive(b, d), e}
  BY DEF ActivateInRow
<1> HIDE DEF open, h, b
<1>5. Current(c, d)
  BY <1>3, SetActiveCurrent
<1> HIDE DEF c
<1>6. Current(e, d)
  BY <1>5, MovedCurrent
<1> HIDE DEF e
<1>7. Current(ResetActive(b, d), d)
  BY <1>3, ResetDraws, FramedInView DEF Current, Framed
<1>8. Current(h, d)
  BY <1>3, <1>4, <1>6, <1>7
<1> QED BY <1>8 DEF ScrollPage, h, b, a, row, y

-----------------------------------------------------------------------------
(* the rows of the data view *)

\* Sequences laid end to end have the elements of the sequences.
LEMMA FlattenIs ==
  ASSUME NEW seqs, Sequence(seqs), NEW S, \A i \in DOMAIN seqs : Sequence(seqs[i]) /\ ToSet(seqs[i]) \subseteq S
  PROVE  Sequence(FlattenSeq(seqs)) /\ ToSet(FlattenSeq(seqs)) \subseteq S
<1> DEFINE n == Len(seqs)
           A == Seq(S)
           F == [i \in 1..n |-> [a \in A |-> a \o seqs[i]]]
           Eq(f) == f = [i \in 1..n |-> IF i = 1 THEN seqs[i] ELSE f[i - 1] \o seqs[i]]
           c == CHOOSE f : Eq(f)
<1>1. n \in Nat /\ DOMAIN seqs = 1..n
  BY SeqFacts
<1>2. \A i \in 1..n : seqs[i] \in A
  BY <1>1, SeqIn DEF ToSet
<1>3. FlattenSeq(seqs) = IF n = 0 THEN seqs ELSE c[n]
  BY DEF FlattenSeq
<1>4. CASE n = 0
  BY <1>1, <1>3, <1>4 DEF ToSet
<1>5. CASE n # 0
  <2>1. <<>> \in A /\ F \in [1..n -> [A -> A]]
    <3>1. \A i \in 1..n, a \in A : a \o seqs[i] \in A
      BY <1>2, ConcatProperties
    <3>2. <<>> \in A
      BY EmptySeq
    <3> HIDE DEF A
    <3> QED BY <3>1, <3>2
  <2> HIDE DEF n
  <2>2. PICK h \in [SUBSET (1..n) -> A] : Folds(h, <<>>, F, SUBSET (1..n))
    <3> HIDE DEF A
    <3> QED BY <1>1, <2>1, FoldExists
  <2> DEFINE f == [i \in 1..n |-> h[1..i]]
  <2>3. ASSUME NEW i \in 1..n PROVE f[i] \in A /\ f[i] = IF i = 1 THEN seqs[i] ELSE f[i - 1] \o seqs[i]
    <3> HIDE DEF A
    <3>1. 1..i # {} /\ 1..i \in SUBSET (1..n) /\ Max(1..i) = i /\ (1..i) \ {i} = 1..(i - 1) /\ 1..(i - 1) \in SUBSET (1..n)
      BY <1>1, MaxOfFirst
    <3>2. h[1..i] = F[i][h[1..(i - 1)]]
      <4>1. \A t \in SUBSET (1..n) : h[t] = IF t = {} THEN <<>> ELSE F[Max(t)][h[t \ {Max(t)}]]
        BY <2>2 DEF Folds
      <4> HIDE DEF F
      <4> QED BY <3>1, <4>1
    <3>3. h[1..(i - 1)] \in A /\ h[1..i] \in A
      BY <2>2, <3>1
    <3>4. h[1..i] = h[1..(i - 1)] \o seqs[i]
      BY <3>2, <3>3
    <3>5. i = 1 => h[1..(i - 1)] = <<>>
      <4>1. h[{}] = <<>>
        BY <2>2 DEF Folds
      <4>2. 1..(1 - 1) = {}
        OBVIOUS
      <4> QED BY <4>1, <4>2
    <3>6. i # 1 => i - 1 \in 1..n
      BY <1>1
    <3>7. i = 1 => h[1..i] = seqs[i]
      <4>1. <<>> \o seqs[i] = seqs[i]
        BY <1>2 DEF A
      <4> QED BY <3>4, <3>5, <4>1
    <3> QED BY <3>3, <3>4, <3>6, <3>7
  <2>4. Eq(f)
    <3>1. \A i \in 1..n : f[i] = IF i = 1 THEN seqs[i] ELSE f[i - 1] \o seqs[i]
      BY <2>3
    <3> HIDE DEF A
    <3>2. f = [i \in 1..n |-> f[i]]
      OBVIOUS
    <3> HIDE DEF f
    <3> QED BY <3>1, <3>2
  <2>5. Eq(c)
    <3> HIDE DEF Eq, f
    <3> QED BY <2>4
  <2> HIDE DEF c
  <2> DEFINE G == {k \in 1..n : c[k] = f[k]}
  <2>6. 0 \in G \cup {0}
    OBVIOUS
  <2>7. ASSUME NEW k \in 1..n, k - 1 \in G \cup {0} PROVE k \in G \cup {0}
    <3> HIDE DEF f
    <3>1. c[k] = IF k = 1 THEN seqs[k] ELSE c[k - 1] \o seqs[k]
      BY <2>5
    <3>2. f[k] = IF k = 1 THEN seqs[k] ELSE f[k - 1] \o seqs[k]
      BY <2>3
    <3>3. k # 1 => c[k - 1] = f[k - 1]
      BY <1>1, <2>7
    <3> QED BY <3>1, <3>2, <3>3
  <2>8. n \in G
    <3>1. \A k \in 0..n : k \in G \cup {0}
      <4> HIDE DEF G
      <4> QED BY <1>1, <2>6, <2>7, CountUp
    <3>2. n \in 0..n /\ n # 0
      BY <1>1, <1>5 DEF n
    <3> HIDE DEF G
    <3> QED BY <3>1, <3>2
  <2>9. c[n] = f[n] /\ n \in 1..n
    BY <2>8
  <2>10. c[n] \in A
    <3> HIDE DEF A, f
    <3> QED BY <2>3, <2>9
  <2>11. Sequence(c[n]) /\ ToSet(c[n]) \subseteq S
    <3>1. c[n] \in Seq(S)
      BY <2>10
    <3>2. Sequence(c[n])
      BY <3>1, SeqFacts
    <3> QED BY <3>1, <3>2, SeqFacts, ElementOfSeq DEF ToSet
  <2> QED BY <1>3, <1>5, <2>11 DEF n
<1> QED BY <1>4, <1>5

\* What ValuesOf makes of the first rows.
ValueSteps(g, rows, field) ==
  /\ g[0] = <<>>
  /\ \A k \in 1..Len(rows) :
       g[k] = IF Contains(g[k - 1], rows[k][field]) THEN g[k - 1] ELSE Append(g[k - 1], rows[k][field])

LEMMA ValuesSteps ==
  ASSUME NEW rows, Sequence(rows), NEW field
  PROVE  \E g : ValueSteps(g, rows, field) /\ ValuesOf(rows, field) = g[Len(rows)]
<1> DEFINE n == Len(rows)
           A == Seq({rows[i][field] : i \in DOMAIN rows})
           In(a, i) == IF Contains(a, rows[i][field]) THEN a ELSE Append(a, rows[i][field])
           F == [i \in 1..n |-> [a \in A |-> In(a, i)]]
           Eq(h) == h = [t \in SUBSET DOMAIN rows |->
                           IF t = {} THEN <<>> ELSE In(h[t \ {Max(t)}], Max(t))]
           c == CHOOSE h : Eq(h)
<1>1. n \in Nat /\ DOMAIN rows = 1..n
  BY SeqFacts
<1>2. ValuesOf(rows, field) = c[DOMAIN rows]
  BY Zenon DEF ValuesOf, FoldLeft, MapThenFoldSet
<1>3. <<>> \in A /\ F \in [1..n -> [A -> A]]
  <2>1. ASSUME NEW i \in 1..n, NEW a \in A PROVE In(a, i) \in A
    <3>1. rows[i][field] \in {rows[j][field] : j \in DOMAIN rows}
      BY <1>1
    <3> QED BY <3>1, AppendProperties
  <2>2. <<>> \in A
    BY EmptySeq
  <2> HIDE DEF A, In
  <2> QED BY <2>1, <2>2
<1> HIDE DEF n, A, In
<1>4. PICK h \in [SUBSET (1..n) -> A] : Folds(h, <<>>, F, SUBSET (1..n))
  BY <1>1, <1>3, FoldExists
<1>5. ASSUME NEW t \in SUBSET (1..n), t # {} PROVE Max(t) \in 1..n /\ t \ {Max(t)} \in SUBSET (1..n)
  BY <1>1, HasMax, <1>5
<1>6. Eq(h)
  <2>1. ASSUME NEW t \in SUBSET (1..n), t # {} PROVE h[t] = In(h[t \ {Max(t)}], Max(t))
    <3>1. h[t] = F[Max(t)][h[t \ {Max(t)}]]
      BY <1>4, <2>1 DEF Folds
    <3>2. Max(t) \in 1..n /\ h[t \ {Max(t)}] \in A
      BY <1>4, <1>5, <2>1
    <3> QED BY <3>1, <3>2
  <2>2. h[{}] = <<>>
    BY <1>4 DEF Folds
  <2> QED BY <1>1, <1>4, <2>1, <2>2
<1>7. Eq(c)
  <2> HIDE DEF Eq
  <2> QED BY <1>6
<1> HIDE DEF c
<1> DEFINE g == [k \in 0..n |-> c[1..k]]
<1>8. g[0] = <<>>
  <2>1. 1..0 = {} /\ 0 \in 0..n
    BY <1>1
  <2> QED BY <1>7, <2>1
<1>9. ASSUME NEW k \in 1..n PROVE g[k] = In(g[k - 1], k)
  <2>1. 1..k # {} /\ 1..k \in SUBSET (1..n) /\ Max(1..k) = k /\ (1..k) \ {k} = 1..(k - 1)
    BY <1>1, MaxOfFirst
  <2>2. c[1..k] = In(c[1..(k - 1)], k)
    BY <1>1, <1>7, <2>1
  <2> QED BY <1>1, <2>2
<1>10. ValuesOf(rows, field) = g[n]
  BY <1>1, <1>2
<1> HIDE DEF g
<1> QED BY <1>8, <1>9, <1>10 DEF ValueSteps, n, In

LEMMA ValuesAre ==
  ASSUME NEW rows, Sequence(rows), NEW field
  PROVE  LET vals == ValuesOf(rows, field)
         IN  /\ Sequence(vals) /\ ToSet(vals) \subseteq {rows[i][field] : i \in DOMAIN rows}
             /\ ToSet(rows) # {} => Len(vals) # 0
<1>1. PICK g : ValueSteps(g, rows, field) /\ ValuesOf(rows, field) = g[Len(rows)]
  BY ValuesSteps
<1>2. Len(rows) \in Nat /\ DOMAIN rows = 1..Len(rows)
  BY SeqFacts
<1> DEFINE S == {rows[i][field] : i \in DOMAIN rows}
           G == {k \in 0..Len(rows) : Sequence(g[k]) /\ ToSet(g[k]) \subseteq S /\ (k # 0 => Len(g[k]) # 0)}
<1>3. 0 \in G
  BY <1>1, <1>2, EmptyIs DEF ValueSteps
<1>4. ASSUME NEW k \in 1..Len(rows), k - 1 \in G PROVE k \in G
  <2> DEFINE a == g[k - 1]
             x == rows[k][field]
  <2>1. Sequence(a) /\ ToSet(a) \subseteq S /\ k \in 0..Len(rows)
    BY <1>2, <1>4
  <2>2. g[k] = IF Contains(a, x) THEN a ELSE Append(a, x)
    BY <1>1 DEF ValueSteps
  <2>3. x \in S
    BY <1>2
  <2> HIDE DEF a, x, S
  <2>4. CASE Contains(a, x)
    <3>1. Len(a) # 0
      <4>1. PICK i \in 1..Len(a) : a[i] = x
        BY <2>4 DEF Contains
      <4>2. Len(a) \in Nat
        BY <2>1, SeqFacts
      <4> QED BY <4>1, <4>2
    <3> QED BY <2>1, <2>2, <2>4, <3>1
  <2>5. CASE ~Contains(a, x)
    <3> DEFINE b == Append(a, x)
    <3>1. /\ Sequence(b) /\ DOMAIN b = 1..(Len(a) + 1) /\ Len(b) = Len(a) + 1 /\ b[Len(a) + 1] = x
          /\ \A i \in 1..Len(a) : b[i] = a[i]
      BY <2>1, AppendIs
    <3>2. Len(a) \in Nat /\ DOMAIN a = 1..Len(a)
      BY <2>1, SeqFacts
    <3> HIDE DEF b
    <3>3. ToSet(b) \subseteq S
      BY <2>1, <2>3, <3>1, <3>2 DEF ToSet
    <3>4. Len(b) # 0
      BY <3>1, <3>2
    <3> QED BY <2>1, <2>2, <2>5, <3>1, <3>3, <3>4 DEF b
  <2> QED BY <2>4, <2>5
<1>5. Len(rows) \in G
  <2>1. \A k \in 0..Len(rows) : k \in G
    <3> HIDE DEF G
    <3> QED BY <1>2, <1>3, <1>4, CountUp
  <2> QED BY <1>2, <2>1
<1>6. ToSet(rows) # {} => Len(rows) # 0
  BY <1>2 DEF ToSet
<1> QED BY <1>1, <1>5, <1>6

LEMMA FlattenParts ==
  ASSUME NEW seqs, Sequence(seqs), \A i \in DOMAIN seqs : Sequence(seqs[i])
  PROVE  LET t == FlattenSeq(seqs)
         IN  Sequence(t) /\ \A j \in DOMAIN t : \E i \in DOMAIN seqs : t[j] \in ToSet(seqs[i])
<1> DEFINE S == UNION {ToSet(seqs[i]) : i \in DOMAIN seqs}
           t == FlattenSeq(seqs)
<1>1. \A i \in DOMAIN seqs : Sequence(seqs[i]) /\ ToSet(seqs[i]) \subseteq S
  OBVIOUS
<1> HIDE DEF S
<1>2. Sequence(t) /\ ToSet(t) \subseteq S
  BY <1>1, FlattenIs
<1> HIDE DEF t
<1>3. \A j \in DOMAIN t : t[j] \in S
  BY <1>2 DEF ToSet
<1>4. \A x \in S : \E i \in DOMAIN seqs : x \in ToSet(seqs[i])
  BY DEF S
<1> QED BY <1>2, <1>3, <1>4 DEF t

\* A heading of a status has its projects for a title, one of a project has none.
GroupForm(r) == IsGroup(r) /\ r.level \in {1, 2} /\ (r.level = 1 <=> r.title # 0)
RowForm(r) == ItemForm(r) \/ GroupForm(r) \/ IsTotals(r)

Levels(v) ==
  v.grouping = <<>> \/
    (DOMAIN v.grouping = {1, 2} /\ \A l \in {1, 2} : "sums" \in DOMAIN v.grouping[l] /\ (v.grouping[l].sums <=> l = 1))

\* What items T are divided into.
Part(r, T) == (r.kind = "bunch" /\ Sequence(r.rows) /\ ToSet(r.rows) \subseteq T) \/ GroupForm(r) \/ IsTotals(r)
Parted(s, T) == Sequence(s) /\ \A i \in DOMAIN s : Part(s[i], T)

LEMMA GroupIs ==
  ASSUME NEW v, NEW l \in {1, 2}, v.grouping[l].sums <=> l = 1, NEW T,
         NEW bunch, Sequence(bunch.rows), ToSet(bunch.rows) \subseteq T,
         NEW value, \E r \in ToSet(bunch.rows) : r[v.grouping[l].field] = value
  PROVE  Parted(GroupOf(v, l, bunch, value), T)
<1> DEFINE gi == v.grouping[l]
           key == Append(bunch.key, value)
           these == {r \in ToSet(bunch.rows) : r[gi.field] = value}
           own == OnlyIn(bunch.rows, these)
           hidden == Collapsed(v, l, key)
           a == <<GroupRow(l, key, own, hidden, gi.sums)>>
           b == IF hidden THEN <<>> ELSE <<Bunch(key, own)>>
           c == IF gi.sums /\ (~hidden \/ gi.aggregateCollapsed) THEN <<TotalsRow(key, own)>> ELSE <<>>
<1>1. GroupOf(v, l, bunch, value) = a \o b \o c
  BY DEF GroupOf
<1>2. Sequence(own) /\ ToSet(own) \subseteq T /\ ToSet(own) # {}
  <2>1. Sequence(own) /\ ToSet(own) = ToSet(bunch.rows) \cap these
    BY OnlyInIs
  <2>2. these # {} /\ these \subseteq ToSet(bunch.rows)
    OBVIOUS
  <2> HIDE DEF own, these
  <2> QED BY <2>1, <2>2
<1> HIDE DEF own, key, hidden
<1>3. Len(ValuesOf(own, "project")) # 0
  BY <1>2, ValuesAre
<1>4. Part(GroupRow(l, key, own, hidden, gi.sums), T) /\ Part(Bunch(key, own), T) /\ Part(TotalsRow(key, own), T)
  <2> DEFINE n == Len(ValuesOf(own, "project"))
             r == GroupRow(l, key, own, hidden, gi.sums)
  <2>1. r.kind = "group" /\ r.level = l /\ r.title = IF gi.sums THEN n ELSE 0
    BY DEF GroupRow
  <2> HIDE DEF n, r
  <2>2. GroupForm(r)
    BY <1>3, <2>1 DEF GroupForm, IsGroup, n
  <2>3. Part(r, T)
    BY <2>2 DEF Part
  <2>4. Part(Bunch(key, own), T)
    BY <1>2 DEF Part, Bunch
  <2>5. Part(TotalsRow(key, own), T)
    BY DEF Part, TotalsRow, IsTotals
  <2> QED BY <2>3, <2>4, <2>5 DEF r
<1>5. \A x : Part(x, T) => Parted(<<x>>, T)
  BY OneIsSeq DEF Parted
<1>6. Parted(<<>>, T)
  BY EmptyIs DEF Parted
<1>7. Parted(a, T) /\ Parted(b, T) /\ Parted(c, T)
  BY <1>4, <1>5, <1>6
<1> HIDE DEF a, b, c
<1>8. ASSUME NEW x, NEW y, Parted(x, T), Parted(y, T) PROVE Parted(x \o y, T)
  <2>1. Sequence(x \o y) /\ ToSet(x \o y) = ToSet(x) \cup ToSet(y)
    BY <1>8, ConcatSets DEF Parted
  <2> DEFINE z == x \o y
  <2>2. Sequence(z) /\ ToSet(z) = ToSet(x) \cup ToSet(y)
    BY <2>1
  <2> HIDE DEF z
  <2>3. Parted(z, T)
    BY <1>8, <2>2 DEF Parted, ToSet
  <2> QED BY <2>3 DEF z
<1> QED BY <1>1, <1>7, <1>8

LEMMA DividedIs ==
  ASSUME NEW v, NEW l \in {1, 2}, v.grouping[l].sums <=> l = 1, NEW T,
         NEW bunch, Sequence(bunch.rows), ToSet(bunch.rows) \subseteq T
  PROVE  Parted(Divided(v, l, bunch), T)
<1> DEFINE field == v.grouping[l].field
           vals == ValuesOf(bunch.rows, field)
           seqs == [i \in DOMAIN vals |-> GroupOf(v, l, bunch, vals[i])]
           t == FlattenSeq(seqs)
<1>1. Sequence(vals) /\ ToSet(vals) \subseteq {bunch.rows[i][field] : i \in DOMAIN bunch.rows}
  BY ValuesAre
<1>2. Divided(v, l, bunch) = t
  BY DEF Divided
<1> HIDE DEF vals
<1>3. ASSUME NEW i \in DOMAIN vals PROVE Parted(seqs[i], T)
  <2>1. \E r \in ToSet(bunch.rows) : r[field] = vals[i]
    BY <1>1 DEF ToSet
  <2>2. seqs[i] = GroupOf(v, l, bunch, vals[i])
    OBVIOUS
  <2> HIDE DEF seqs
  <2> QED BY <2>1, <2>2, GroupIs
<1>4. Sequence(seqs) /\ DOMAIN seqs = DOMAIN vals
  BY <1>1, MappedIsSeq
<1> HIDE DEF seqs
<1>5. Sequence(t) /\ \A j \in DOMAIN t : \E i \in DOMAIN seqs : t[j] \in ToSet(seqs[i])
  BY <1>3, <1>4, FlattenParts DEF Parted
<1> HIDE DEF t
<1>6. Parted(t, T)
  BY <1>3, <1>4, <1>5 DEF Parted, ToSet
<1> QED BY <1>2, <1>6

LEMMA DividedAllIs ==
  ASSUME NEW v, NEW l \in {1, 2}, v.grouping[l].sums <=> l = 1, NEW T, NEW s, Parted(s, T)
  PROVE  Parted(DividedAll(v, l, s), T)
<1> DEFINE seqs == [i \in DOMAIN s |-> IF s[i].kind = "bunch" THEN Divided(v, l, s[i]) ELSE <<s[i]>>]
           t == FlattenSeq(seqs)
<1>1. DividedAll(v, l, s) = t
  BY DEF DividedAll
<1>2. ASSUME NEW i \in DOMAIN s PROVE Parted(seqs[i], T)
  <2>1. Part(s[i], T)
    BY DEF Parted
  <2>2. CASE s[i].kind = "bunch"
    <3>1. Sequence(s[i].rows) /\ ToSet(s[i].rows) \subseteq T
      BY <2>1, <2>2 DEF Part, GroupForm, IsGroup, IsTotals
    <3> QED BY <2>2, <3>1, DividedIs
  <2>3. CASE s[i].kind # "bunch"
    BY <2>1, <2>3, OneIsSeq DEF Parted
  <2> QED BY <2>2, <2>3
<1>3. Sequence(seqs) /\ DOMAIN seqs = DOMAIN s
  BY MappedIsSeq DEF Parted
<1> HIDE DEF seqs
<1>4. Sequence(t) /\ \A j \in DOMAIN t : \E i \in DOMAIN seqs : t[j] \in ToSet(seqs[i])
  BY <1>2, <1>3, FlattenParts DEF Parted
<1> HIDE DEF t
<1>5. Parted(t, T)
  BY <1>2, <1>3, <1>4 DEF Parted, ToSet
<1> QED BY <1>1, <1>5

LEMMA OpenedIs ==
  ASSUME NEW T, NEW s, Parted(s, T), \A r \in T : ItemForm(r)
  PROVE  LET t == Opened(s)
         IN  /\ Sequence(t) /\ \A j \in DOMAIN t : RowForm(t[j]) /\ (IsItem(t[j]) => t[j] \in T)
             /\ (\A i \in DOMAIN s : s[i].kind = "bunch") => \A j \in DOMAIN t : IsItem(t[j])
<1> DEFINE seqs == [i \in DOMAIN s |-> IF s[i].kind = "bunch" THEN s[i].rows ELSE <<s[i]>>]
           t == FlattenSeq(seqs)
           Fine(r) == RowForm(r) /\ (IsItem(r) => r \in T)
<1>1. Opened(s) = t
  BY DEF Opened
<1>2. ASSUME NEW i \in DOMAIN s
      PROVE  Sequence(seqs[i]) /\ \A k \in DOMAIN seqs[i] : Fine(seqs[i][k]) /\ (s[i].kind = "bunch" => IsItem(seqs[i][k]))
  <2>1. Part(s[i], T)
    BY DEF Parted
  <2>2. CASE s[i].kind = "bunch"
    <3>1. Sequence(s[i].rows) /\ ToSet(s[i].rows) \subseteq T
      BY <2>1, <2>2 DEF Part, GroupForm, IsGroup, IsTotals
    <3> QED BY <2>2, <3>1 DEF ToSet, RowForm, ItemForm
  <2>3. CASE s[i].kind # "bunch"
    <3>1. GroupForm(s[i]) \/ IsTotals(s[i])
      BY <2>1, <2>3 DEF Part
    <3>2. Fine(s[i])
      BY <3>1 DEF RowForm, GroupForm, IsGroup, IsTotals, IsItem
    <3> HIDE DEF Fine
    <3> QED BY <2>3, <3>2, OneIsSeq
  <2> QED BY <2>2, <2>3
<1>3. Sequence(seqs) /\ DOMAIN seqs = DOMAIN s
  BY MappedIsSeq DEF Parted
<1> HIDE DEF seqs, Fine
<1>4. Sequence(t) /\ \A j \in DOMAIN t : \E i \in DOMAIN seqs : t[j] \in ToSet(seqs[i])
  BY <1>2, <1>3, FlattenParts
<1> HIDE DEF t
<1>5. \A j \in DOMAIN t : Fine(t[j]) /\ ((\A i \in DOMAIN s : s[i].kind = "bunch") => IsItem(t[j]))
  BY <1>2, <1>3, <1>4 DEF ToSet
<1> QED BY <1>1, <1>4, <1>5 DEF Fine

LEMMA GroupedIs ==
  ASSUME NEW v, Levels(v), NEW rows, Sequence(rows), \A r \in ToSet(rows) : ItemForm(r)
  PROVE  LET t == Grouped(v, rows)
         IN  /\ Sequence(t) /\ \A j \in DOMAIN t : RowForm(t[j]) /\ (IsItem(t[j]) => t[j] \in ToSet(rows))
             /\ v.grouping = <<>> => \A j \in DOMAIN t : IsItem(t[j])
<1> DEFINE T == ToSet(rows)
           base == <<Bunch(<<>>, rows)>>
           dom == DOMAIN v.grouping
           ls == [l \in dom |-> l]
           In(s, l) == DividedAll(v, l, s)
           Eq(h) == h = [t \in SUBSET DOMAIN ls |->
                           IF t = {} THEN base ELSE In(h[t \ {Max(t)}], ls[Max(t)])]
           c == CHOOSE h : Eq(h)
           s == c[DOMAIN ls]
<1>1. Grouped(v, rows) = Opened(s)
  BY Zenon DEF Grouped, FoldLeft, MapThenFoldSet
<1>2. DOMAIN ls = dom /\ \A l \in dom : ls[l] = l
  OBVIOUS
<1>3. Parted(base, T) /\ \A i \in DOMAIN base : base[i].kind = "bunch"
  <2> DEFINE b == Bunch(<<>>, rows)
  <2>1. b.kind = "bunch" /\ b.rows = rows
    BY DEF Bunch
  <2> HIDE DEF b
  <2> QED BY <2>1, OneIsSeq DEF Parted, Part, b
<1> HIDE DEF In, base, ls
<1>4. ASSUME v.grouping = <<>> PROVE s = base
  <2>1. dom = {}
    BY <1>4, EmptyIs
  <2> DEFINE h == [t \in SUBSET dom |-> base]
  <2>2. Eq(h)
    BY <1>2, <2>1
  <2>3. Eq(c)
    <3> HIDE DEF Eq, h
    <3> QED BY <2>2
  <2> HIDE DEF c, dom
  <2> QED BY <1>2, <2>1, <2>3
<1>5. ASSUME v.grouping # <<>> PROVE s = In(In(base, 1), 2) /\ dom = {1, 2}
  <2>1. dom = {1, 2}
    BY <1>5 DEF Levels
  <2>2. Max({1}) = 1 /\ Max({2}) = 2 /\ Max({1, 2}) = 2
    BY DEF Max
  <2> DEFINE h == [t \in SUBSET dom |-> IF t = {} THEN base ELSE IF t = {1} THEN In(base, 1)
                                        ELSE IF t = {2} THEN In(base, 2) ELSE In(In(base, 1), 2)]
  <2> HIDE DEF c
  <2>3. SUBSET {1, 2} = {{}, {1}, {2}, {1, 2}}
    OBVIOUS
  <2>4. h[{}] = base /\ h[{1}] = In(base, 1) /\ h[{2}] = In(base, 2) /\ h[{1, 2}] = In(In(base, 1), 2)
    <3>1. {1} # {} /\ {2} # {} /\ {2} # {1} /\ {1, 2} # {} /\ {1, 2} # {1} /\ {1, 2} # {2}
      OBVIOUS
    <3>2. {} \in SUBSET dom /\ {1} \in SUBSET dom /\ {2} \in SUBSET dom /\ {1, 2} \in SUBSET dom
      BY <2>1, <2>3
    <3> HIDE DEF dom
    <3> QED BY <3>1, <3>2
  <2>5. {1} \ {1} = {} /\ {2} \ {2} = {} /\ {1, 2} \ {2} = {1} /\ {1} # {} /\ {2} # {} /\ {1, 2} # {}
    OBVIOUS
  <2>6. ls[1] = 1 /\ ls[2] = 2 /\ DOMAIN ls = {1, 2}
    BY <1>2, <2>1
  <2>7. h = [t \in SUBSET {1, 2} |-> h[t]]
    BY <2>1
  <2> HIDE DEF h, dom
  <2>8. \A t \in SUBSET {1, 2} : h[t] = IF t = {} THEN base ELSE In(h[t \ {Max(t)}], ls[Max(t)])
    <3>1. h[{}] = IF {} = {} THEN base ELSE In(h[{} \ {Max({})}], ls[Max({})])
      BY <2>4
    <3>2. h[{1}] = IF {1} = {} THEN base ELSE In(h[{1} \ {Max({1})}], ls[Max({1})])
      BY <2>2, <2>4, <2>5, <2>6
    <3>3. h[{2}] = IF {2} = {} THEN base ELSE In(h[{2} \ {Max({2})}], ls[Max({2})])
      BY <2>2, <2>4, <2>5, <2>6
    <3>4. h[{1, 2}] = IF {1, 2} = {} THEN base ELSE In(h[{1, 2} \ {Max({1, 2})}], ls[Max({1, 2})])
      BY <2>2, <2>4, <2>5, <2>6
    <3> QED BY <2>3, <3>1, <3>2, <3>3, <3>4
  <2>9. Eq(h)
    BY <2>6, <2>7, <2>8
  <2>10. Eq(c)
    <3> HIDE DEF Eq
    <3> QED BY <2>9 DEF c
  <2>11. \A t \in SUBSET {1, 2} : c[t] = IF t = {} THEN base ELSE In(c[t \ {Max(t)}], ls[Max(t)])
    BY <2>6, <2>10
  <2>12. c[{}] = base /\ c[{1}] = In(c[{}], 1) /\ c[{1, 2}] = In(c[{1}], 2)
    <3>1. c[{}] = base
      BY <2>11
    <3>2. c[{1}] = In(c[{}], 1)
      <4>1. c[{1}] = In(c[{1} \ {Max({1})}], ls[Max({1})])
        BY <2>3, <2>5, <2>11
      <4> QED BY <2>2, <2>5, <2>6, <4>1
    <3>3. c[{1, 2}] = In(c[{1}], 2)
      <4>1. c[{1, 2}] = In(c[{1, 2} \ {Max({1, 2})}], ls[Max({1, 2})])
        BY <2>3, <2>5, <2>11
      <4> QED BY <2>2, <2>5, <2>6, <4>1
    <3> QED BY <3>1, <3>2, <3>3
  <2> QED BY <2>1, <2>6, <2>12
<1> HIDE DEF s
<1>6. Parted(s, T) /\ (v.grouping = <<>> => \A i \in DOMAIN s : s[i].kind = "bunch")
  <2>1. CASE v.grouping = <<>>
    BY <1>3, <1>4, <2>1
  <2>2. CASE v.grouping # <<>>
    <3>1. \A l \in {1, 2} : v.grouping[l].sums <=> l = 1
      BY <2>2 DEF Levels
    <3> DEFINE a == In(base, 1)
               b == In(a, 2)
    <3>2. Parted(a, T)
      BY <1>3, <3>1, DividedAllIs DEF In
    <3> HIDE DEF a, T
    <3>3. Parted(b, T)
      BY <3>1, <3>2, DividedAllIs DEF In
    <3> QED BY <1>5, <2>2, <3>3 DEF a
  <2> QED BY <2>1, <2>2
<1> QED BY <1>1, <1>6, OpenedIs

Paged(v) == v.pagesize \in Nat /\ v.pagenum \in Nat /\ v.totalRows \in Nat

LEMMA PageIs == ASSUME NEW v, Paged(v), NEW n \in Nat PROVE PageOf(v, n) \in Nat
<1> DEFINE size == v.pagesize
           num == v.pagenum
<1>1. size \in Nat /\ num \in Nat
  BY DEF Paged
<1>2. PageOf(v, n) = IF size > 0 /\ n < num * size THEN n \div size ELSE num
  BY DEF PageOf
<1> HIDE DEF size, num
<1>3. size > 0 => n \div size \in Nat
  BY <1>1
<1> QED BY <1>1, <1>2, <1>3

LEMMA PageRowsAre ==
  ASSUME NEW v, Paged(v), NEW kept, Sequence(kept)
  PROVE  LET t == PageRows(v, kept) IN Sequence(t) /\ ToSet(t) \subseteq ToSet(kept)
<1> DEFINE first == v.pagesize * PageOf(v, Len(kept))
           last == Smaller(first + v.pagesize, Len(kept))
           page == SubSeq(kept, first + 1, last)
           t == PageRows(v, kept)
<1>1. t = kept \/ t = page
  BY DEF PageRows
<1>2. Len(kept) \in Nat /\ DOMAIN kept = 1..Len(kept)
  BY SeqFacts
<1>3. first \in Nat /\ last \in Int /\ last <= Len(kept)
  <2>1. PageOf(v, Len(kept)) \in Nat /\ v.pagesize \in Nat
    BY <1>2, PageIs DEF Paged
  <2> QED BY <1>2, <2>1 DEF Smaller
<1> HIDE DEF first, last
<1>4. \A i \in (first + 1)..last : kept[i] \in ToSet(kept)
  BY <1>2, <1>3 DEF ToSet
<1>5. page \in Seq(ToSet(kept))
  BY <1>3, <1>4, SubSeqProperties
<1>6. Sequence(page) /\ ToSet(page) \subseteq ToSet(kept)
  <2> HIDE DEF page
  <2> QED BY <1>5, SeqFacts, ElementOfSeq DEF ToSet
<1> HIDE DEF page, t
<1>7. Sequence(t) /\ ToSet(t) \subseteq ToSet(kept)
  BY <1>1, <1>6
<1> QED BY <1>7 DEF t

\* A row of an item shows the item; all rows do where the items are not grouped.
RowsFrom(v, rows) ==
  /\ Sequence(rows)
  /\ \A i \in DOMAIN rows : RowForm(rows[i]) /\ (IsItem(rows[i]) => rows[i] \in ToSet(v.items))
  /\ v.grouping = <<>> => \A i \in DOMAIN rows : IsItem(rows[i])

LEMMA RowsAre == ASSUME NEW v, ListRight(v), Levels(v), Paged(v) PROVE RowsFrom(v, RowsOf(v)) /\ Len(Filtered(v)) \in Nat
<1> DEFINE passing == {r \in ToSet(v.items) : Passes(v.filter, r)}
           kept == OnlyIn(v.items, passing)
           page == PageRows(v, kept)
           t == Grouped(v, page)
<1>1. Sequence(v.items) /\ \A r \in ToSet(v.items) : ItemForm(r)
  BY DEF ListRight, ItemList, ToSet
<1>2. Sequence(kept) /\ ToSet(kept) \subseteq ToSet(v.items)
  <2> HIDE DEF passing
  <2> QED BY <1>1, OnlyInIs
<1>3. Filtered(v) = kept
  BY DEF Filtered
<1> HIDE DEF kept
<1>4. Sequence(page) /\ ToSet(page) \subseteq ToSet(v.items)
  BY <1>2, PageRowsAre
<1>5. RowsOf(v) = t
  BY <1>3 DEF RowsOf
<1> HIDE DEF page
<1>6. /\ Sequence(t) /\ \A j \in DOMAIN t : RowForm(t[j]) /\ (IsItem(t[j]) => t[j] \in ToSet(page))
      /\ v.grouping = <<>> => \A j \in DOMAIN t : IsItem(t[j])
  BY <1>1, <1>4, GroupedIs
<1> HIDE DEF t
<1>7. RowsFrom(v, t)
  BY <1>4, <1>6 DEF RowsFrom
<1> QED BY <1>2, <1>3, <1>5, <1>7, SeqFacts

-----------------------------------------------------------------------------
(* what is reported is all that changes *)

\* A row of an item that has not been reported as changed shows it as it is.
Fresh(v) ==
  \A i \in DOMAIN v.rows : IsItem(v.rows[i]) =>
    v.rows[i].id \in v.updated \/ \A j \in DOMAIN v.items : v.items[j].id = v.rows[i].id => v.items[j] = v.rows[i]

RowsForm(rows) == Sequence(rows) /\ \A i \in DOMAIN rows : RowForm(rows[i])
NoRow(v, id) == \A i \in DOMAIN v.rows : IsItem(v.rows[i]) => v.rows[i].id # id

Ready(v) == ViewForm(v) /\ ListRight(v) /\ RowsForm(v.rows) /\ Levels(v) /\ Paged(v) /\ Fresh(v)
Settling(v) == ~v.suspended => \A i \in DOMAIN v.rows : IsItem(v.rows[i]) => v.rows[i].id \in DOMAIN v.idx
ViewInv(v) == Ready(v) /\ Settling(v)

\* What is not reported is shown as before.
Unreported(rows, w) ==
  /\ Sequence(rows) /\ DOMAIN w.told = {"paging", "count", "changed"} /\ (w.told.count <=> Len(w.rows) # Len(rows))
  /\ \A i \in DOMAIN w.rows \ w.told.changed : i \in DOMAIN rows /\ Shown(w.rows, i - 1) = Shown(rows, i - 1)

LEMMA AlikeShown ==
  ASSUME NEW u, Ready(u), NEW new, RowsFrom(u, new), NEW i \in DOMAIN new, i \in DOMAIN u.rows,
         ~Differs(u, new[i], u.rows[i])
  PROVE  Shown(new, i - 1) = Shown(u.rows, i - 1)
<1> DEFINE n == new[i]
           o == u.rows[i]
<1>1. i \in Int /\ (i - 1) + 1 = i
  <2>1. DOMAIN new = 1..Len(new)
    BY SeqFacts DEF RowsFrom
  <2> QED BY <2>1
<1>2. RowForm(n) /\ RowForm(o) /\ (IsItem(n) => n \in ToSet(u.items)) /\ (u.grouping = <<>> => IsItem(n))
  BY DEF RowsFrom, Ready, RowsForm
<1>3. IsItem(n) = IsItem(o)
  BY DEF Differs, IsItem
<1>4. CASE IsItem(n)
  <2>1. n.id = o.id /\ n.id \notin u.updated
    BY <1>4 DEF Differs
  <2>2. PICK j \in DOMAIN u.items : u.items[j] = n
    BY <1>2, <1>4 DEF ToSet
  <2>3. n = o
    BY <1>3, <1>4, <2>1, <2>2 DEF Ready, Fresh
  <2> HIDE DEF n, o
  <2> QED BY <1>1, <1>4, <2>3 DEF Shown, Exists, Heading, IsItem, n, o
<1>5. CASE ~IsItem(n)
  <2>1. ~IsItem(o) /\ u.grouping # <<>>
    BY <1>2, <1>3, <1>5
  <2>2. IsGroup(n) = IsGroup(o) /\ ~IsTotals(n) /\ ~IsTotals(o)
    BY <1>5, <2>1 DEF Differs, IsGroup, IsTotals
  <2>3. GroupForm(n) /\ GroupForm(o)
    BY <1>2, <1>5, <2>1, <2>2 DEF RowForm, ItemForm
  <2>4. SameGroup(n, o)
    BY <2>3 DEF Differs, GroupForm
  <2>5. n.collapsed = o.collapsed /\ n.title = o.title /\ Last(n.key) = Last(o.key)
    BY <2>4 DEF SameGroup
  <2>6. n.level = o.level
    BY <2>3, <2>5 DEF GroupForm
  <2> HIDE DEF n, o
  <2> QED BY <1>1, <2>3, <2>5, <2>6 DEF Shown, Exists, Heading, GroupForm, IsGroup, n, o
<1> QED BY <1>4, <1>5

\* A refresh tells of all that it changes.
LEMMA RefreshShows ==
  ASSUME NEW u, Ready(u)
  PROVE  LET w == Refresh(u)
         IN  /\ ViewInv(w) /\ Unreported(u.rows, w) /\ w.suspended = u.suspended /\ SameItems(u, w)
             /\ \A id : NoRow(u, id) /\ id \notin DOMAIN u.idx => NoRow(w, id)
<1> DEFINE w == Refresh(u)
<1>0. SameItems(u, w)
  BY RefreshIs DEF Ready
<1>1. CASE u.suspended
  <2>1. w = [u EXCEPT !.told = Quiet]
    BY <1>1 DEF Refresh
  <2> HIDE DEF w
  <2>2. /\ ViewForm(w) /\ w.rows = u.rows /\ w.told = Quiet /\ w.items = u.items /\ w.idx = u.idx /\ w.suspended
        /\ w.suspended = u.suspended /\ w.grouping = u.grouping /\ w.updated = u.updated
        /\ w.pagesize = u.pagesize /\ w.pagenum = u.pagenum /\ w.totalRows = u.totalRows
    BY <1>1, <2>1 DEF Ready, ViewForm, ViewFields
  <2>3. ViewInv(w)
    BY <2>2 DEF ViewInv, Settling, Ready, ListRight, Levels, Paged, Fresh
  <2>4. w.told.count = FALSE /\ w.told.changed = {} /\ DOMAIN w.told = {"paging", "count", "changed"}
    BY <2>2 DEF Quiet
  <2>5. Unreported(u.rows, w)
    BY <2>2, <2>4 DEF Unreported, Ready, RowsForm
  <2> QED BY <1>0, <2>2, <2>3, <2>5 DEF NoRow, w
<1>2. CASE ~u.suspended
  <2> DEFINE new == RowsOf(u)
             n == Len(Filtered(u))
             page == PageOf(u, n)
             diffs == RowDiffs(u, new)
             told == [paging |-> n # u.totalRows, count |-> Len(new) # Len(u.rows), changed |-> diffs]
  <2>1. w = [u EXCEPT !.rows = new, !.totalRows = n, !.pagenum = page, !.updated = {}, !.told = told]
    BY <1>2 DEF Refresh
  <2>2. RowsFrom(u, new) /\ n \in Nat /\ page \in Nat
    BY RowsAre, PageIs DEF Ready
  <2>3. told.count = (Len(new) # Len(u.rows)) /\ told.changed = diffs /\ DOMAIN told = {"paging", "count", "changed"}
    OBVIOUS
  <2> HIDE DEF new, n, page, told, w
  <2>4. /\ ViewForm(w) /\ w.rows = new /\ w.told = told /\ w.items = u.items /\ w.idx = u.idx
        /\ w.suspended = u.suspended /\ w.grouping = u.grouping /\ w.updated = {}
        /\ w.pagesize = u.pagesize /\ w.pagenum = page /\ w.totalRows = n
    BY <2>1 DEF Ready, ViewForm, ViewFields
  <2>5. \A i \in DOMAIN new : IsItem(new[i]) => \E j \in DOMAIN u.items : u.items[j] = new[i]
    BY <2>2 DEF RowsFrom, ToSet
  <2>6. Fresh(w)
    <3>1. \A i, j \in DOMAIN u.items : u.items[i].id = u.items[j].id => i = j
      BY DEF Ready, ListRight, ItemList
    <3> QED BY <2>4, <2>5, <3>1 DEF Fresh
  <2>7. \A i \in DOMAIN u.items : u.items[i].id \in DOMAIN u.idx
    BY DEF Ready, ListRight, IndexInv
  <2>8. RowsForm(w.rows) /\ Levels(w) /\ Paged(w) /\ ListRight(w)
    BY <2>2, <2>4 DEF RowsForm, RowsFrom, Levels, Paged, ListRight, Ready
  <2>9. ViewInv(w)
    BY <2>4, <2>5, <2>6, <2>7, <2>8 DEF ViewInv, Ready, Settling
  <2>10. ASSUME NEW i \in DOMAIN new \ diffs PROVE i \in DOMAIN u.rows /\ Shown(new, i - 1) = Shown(u.rows, i - 1)
    <3>1. i \in DOMAIN u.rows /\ ~Differs(u, new[i], u.rows[i])
      BY <2>10 DEF RowDiffs
    <3> QED BY <2>2, <3>1, AlikeShown
  <2> HIDE DEF diffs
  <2>11. Unreported(u.rows, w)
    BY <2>3, <2>4, <2>10 DEF Unreported, Ready, RowsForm
  <2>12. \A id : id \notin DOMAIN u.idx => NoRow(w, id)
    BY <2>4, <2>5, <2>7 DEF NoRow
  <2> QED BY <1>0, <2>4, <2>9, <2>11, <2>12 DEF w
<1> QED BY <1>1, <1>2

\* A step of the data view: it tells of all that it changes.
Moves(v, w) == Reported(v, w) /\ ViewInv(w) /\ Unreported(v.rows, w)

LEMMA Refreshes ==
  ASSUME NEW v, NEW u, Ready(u), u.rows = v.rows
  PROVE  Moves(v, Refresh(u)) /\ Moves(v, [Refresh(u) EXCEPT !.told.paging = TRUE])
<1> DEFINE w == Refresh(u)
           p == [w EXCEPT !.told.paging = TRUE]
<1>1. Reported(v, w) /\ Reported(v, p)
  BY RefreshStep DEF Ready
<1>2. ViewInv(w) /\ Unreported(v.rows, w)
  BY RefreshShows
<1> HIDE DEF w
<1>3. /\ ViewForm(p) /\ p.rows = w.rows /\ p.items = w.items /\ p.idx = w.idx
      /\ p.suspended = w.suspended /\ p.grouping = w.grouping /\ p.updated = w.updated
      /\ p.pagesize = w.pagesize /\ p.pagenum = w.pagenum /\ p.totalRows = w.totalRows
      /\ DOMAIN p.told = DOMAIN w.told /\ p.told.count = w.told.count /\ p.told.changed = w.told.changed
  BY <1>2 DEF ViewInv, Ready, ViewForm, ViewFields, Unreported
<1> HIDE DEF p
<1>4. ViewInv(p)
  BY <1>2, <1>3 DEF ViewInv, Settling, Ready, ListRight, Levels, Paged, Fresh
<1>5. Unreported(v.rows, p)
  BY <1>2, <1>3 DEF Unreported
<1> QED BY <1>1, <1>2, <1>4, <1>5 DEF Moves, w, p

LEMMA PagingMoves ==
  ASSUME NEW v, Ready(v), NEW n \in Nat
  PROVE  Moves(v, SetPagesize(v, n)) /\ (v.pagesize > 0 => Moves(v, SetPagenum(v, n)))
<1> DEFINE page == IF n = 0 THEN 0 ELSE PageBelow(v, v.pagenum, n)
           num == PageBelow(v, n, v.pagesize)
           a == [v EXCEPT !.pagesize = n, !.pagenum = page]
           b == [v EXCEPT !.pagenum = num]
<1>1. \A k \in Nat, size \in Nat : size > 0 => PageBelow(v, k, size) \in Nat
  <2> SUFFICES ASSUME NEW k \in Nat, NEW size \in Nat, size > 0 PROVE PageBelow(v, k, size) \in Nat
    OBVIOUS
  <2> DEFINE c == CeilDiv(v.totalRows, size)
  <2>1. c \in Int
    BY DEF CeilDiv, Ready, Paged
  <2> HIDE DEF c
  <2>2. PageBelow(v, k, size) = Smaller(k, Larger(0, c - 1))
    BY DEF PageBelow, c
  <2> QED BY <2>1, <2>2 DEF Smaller, Larger
<1>2. page \in Nat /\ (v.pagesize > 0 => num \in Nat)
  BY <1>1 DEF Ready, Paged
<1> HIDE DEF page, num
<1>3. Ready(a) /\ a.rows = v.rows
  BY <1>2 DEF Ready, ViewForm, ViewFields, ListRight, Levels, Paged, Fresh
<1>4. (v.pagesize > 0 => Ready(b)) /\ b.rows = v.rows
  BY <1>2 DEF Ready, ViewForm, ViewFields, ListRight, Levels, Paged, Fresh
<1> HIDE DEF a, b
<1>5. Moves(v, [Refresh(a) EXCEPT !.told.paging = TRUE])
  BY <1>3, Refreshes
<1>6. v.pagesize > 0 => Moves(v, [Refresh(b) EXCEPT !.told.paging = TRUE])
  BY <1>4, Refreshes
<1> QED BY <1>5, <1>6 DEF SetPagesize, SetPagenum, a, b, page, num

LEMMA ByStatusIs == DOMAIN ByStatus = {1, 2} /\ \A l \in {1, 2} : "sums" \in DOMAIN ByStatus[l] /\ (ByStatus[l].sums <=> l = 1)
BY DEF ByStatus, Level

LEMMA LookMoves ==
  ASSUME NEW v, Ready(v)
  PROVE  /\ Moves(v, Refresh(v)) /\ Moves(v, EndUpdate(v))
         /\ \A filter : Moves(v, SetFilter(v, filter))
         /\ \A levels \in {<<>>, ByStatus} : Moves(v, SetGrouping(v, levels))
         /\ \A key, collapse : Moves(v, ExpandCollapseGroup(v, key, collapse))
<1> DEFINE Same(u) == Ready(u) /\ u.rows = v.rows
<1>1. \A u : Same(u) => Moves(v, Refresh(u))
  BY Refreshes
<1>2. Same(v) /\ Same([v EXCEPT !.suspended = FALSE])
  BY DEF Ready, ViewForm, ViewFields, ListRight, Levels, Paged, Fresh
<1>3. \A filter : Same([v EXCEPT !.filter = filter])
  BY DEF Ready, ViewForm, ViewFields, ListRight, Levels, Paged, Fresh
<1>4. \A levels \in {<<>>, ByStatus} : \A t : Same([v EXCEPT !.grouping = levels, !.toggled = t])
  <2> SUFFICES ASSUME NEW levels \in {<<>>, ByStatus}, NEW t PROVE Same([v EXCEPT !.grouping = levels, !.toggled = t])
    OBVIOUS
  <2> DEFINE u == [v EXCEPT !.grouping = levels, !.toggled = t]
  <2>1. u.grouping = levels /\ ViewForm(u) /\ u.rows = v.rows /\ Paged(u) /\ Fresh(u) /\ ListRight(u)
    BY DEF Ready, ViewForm, ViewFields, ListRight, Paged, Fresh
  <2> HIDE DEF u
  <2>2. Levels(u)
    BY <2>1, ByStatusIs DEF Levels
  <2>3. Same(u)
    BY <2>1, <2>2 DEF Ready
  <2> QED BY <2>3 DEF u
<1>5. \A t : Same([v EXCEPT !.toggled = t])
  BY DEF Ready, ViewForm, ViewFields, ListRight, Levels, Paged, Fresh
<1>6. ASSUME NEW key, NEW collapse PROVE Moves(v, ExpandCollapseGroup(v, key, collapse))
  <2> DEFINE l == Len(key)
             set == IF v.grouping[l].collapsed # collapse THEN v.toggled[l] \cup {key} ELSE v.toggled[l] \ {key}
             t == [v.toggled EXCEPT ![l] = set]
  <2>1. ExpandCollapseGroup(v, key, collapse) = Refresh([v EXCEPT !.toggled = t])
    BY DEF ExpandCollapseGroup
  <2> HIDE DEF t, Same
  <2> QED BY <1>1, <1>5, <2>1
<1> HIDE DEF Same
<1> QED BY <1>1, <1>2, <1>3, <1>4, <1>6 DEF EndUpdate, SetFilter, SetGrouping

LEMMA FoldAllMoves ==
  ASSUME NEW u, Ready(u), NEW levels, NEW collapse
  PROVE  LET w == ExpandCollapseAll(u, levels, collapse)
         IN  Moves(u, w) /\ \A id : NoRow(u, id) /\ id \notin DOMAIN u.idx => NoRow(w, id)
<1> DEFINE t == [l \in DOMAIN u.toggled |-> IF l \in levels THEN {} ELSE u.toggled[l]]
           g == [l \in DOMAIN u.grouping |-> IF l \in levels THEN [u.grouping[l] EXCEPT !.collapsed = collapse]
                                             ELSE u.grouping[l]]
           x == [u EXCEPT !.toggled = t, !.grouping = g]
<1>1. ExpandCollapseAll(u, levels, collapse) = Refresh(x)
  BY DEF ExpandCollapseAll
<1>2. g = <<>> \/ (DOMAIN g = {1, 2} /\ \A l \in {1, 2} : "sums" \in DOMAIN g[l] /\ (g[l].sums <=> l = 1))
  <2>1. CASE u.grouping = <<>>
    <3>1. DOMAIN g = {} /\ DOMAIN <<>> = {}
      BY <2>1, EmptyIs
    <3>2. g = [l \in {} |-> g[l]]
      BY <3>1
    <3>3. g \in [1..0 -> {}]
      BY <3>2
    <3> HIDE DEF g
    <3>4. g \in Seq({}) /\ DOMAIN g = {}
      BY <3>1, <3>3
    <3> QED BY <3>4
  <2>2. CASE u.grouping # <<>>
    <3>1. DOMAIN u.grouping = {1, 2} /\ \A l \in {1, 2} : "sums" \in DOMAIN u.grouping[l] /\ (u.grouping[l].sums <=> l = 1)
      BY <2>2 DEF Ready, Levels
    <3>2. \A l \in {1, 2} : DOMAIN g[l] = DOMAIN u.grouping[l] /\ g[l].sums = u.grouping[l].sums
      BY <3>1
    <3>3. DOMAIN g = {1, 2}
      BY <3>1
    <3> HIDE DEF g
    <3> QED BY <3>1, <3>2, <3>3
  <2> QED BY <2>1, <2>2
<1> HIDE DEF t, g
<1>3. x.grouping = g /\ ViewForm(x) /\ x.rows = u.rows /\ Paged(x) /\ Fresh(x) /\ ListRight(x) /\ x.idx = u.idx
  BY DEF Ready, ViewForm, ViewFields, ListRight, Paged, Fresh
<1> HIDE DEF x
<1>4. Ready(x)
  BY <1>2, <1>3 DEF Ready, Levels
<1>5. Moves(u, Refresh(x))
  BY <1>3, <1>4, Refreshes
<1>6. \A id : NoRow(x, id) /\ id \notin DOMAIN x.idx => NoRow(Refresh(x), id)
  BY <1>4, RefreshShows
<1> QED BY <1>1, <1>3, <1>5, <1>6 DEF NoRow

\* Items may come, go and move if no row shows another one for them.
LEMMA ItemsMove ==
  ASSUME NEW v, Ready(v), NEW items, NEW idx, ItemList(items), IndexInv(idx, items), NEW ids,
         \A j \in DOMAIN items : \/ items[j] \in ToSet(v.items)
                                 \/ items[j].id \in ids
                                 \/ NoRow(v, items[j].id)
  PROVE  Moves(v, Refresh([v EXCEPT !.items = items, !.idx = idx, !.updated = v.updated \cup ids]))
<1> DEFINE up == v.updated \cup ids
           u == [v EXCEPT !.items = items, !.idx = idx, !.updated = up]
<1>1. v.updated \subseteq up /\ ids \subseteq up
  OBVIOUS
<1> HIDE DEF up
<1>2. /\ u.items = items /\ u.idx = idx /\ u.updated = up /\ u.rows = v.rows /\ u.grouping = v.grouping
      /\ ViewForm(u) /\ Paged(u)
  BY DEF Ready, ViewForm, ViewFields, Paged
<1> HIDE DEF u
<1>3. Fresh(u)
  <2> SUFFICES ASSUME NEW i \in DOMAIN v.rows, IsItem(v.rows[i]), v.rows[i].id \notin up,
                      NEW j \in DOMAIN items, items[j].id = v.rows[i].id
               PROVE  items[j] = v.rows[i]
    BY <1>2 DEF Fresh
  <2>1. items[j] \in ToSet(v.items)
    BY <1>1 DEF NoRow
  <2>2. PICK k \in DOMAIN v.items : v.items[k] = items[j]
    BY <2>1 DEF ToSet
  <2> QED BY <1>1, <2>2 DEF Ready, Fresh
<1>4. Ready(u)
  BY <1>2, <1>3 DEF Ready, Levels, ListRight
<1> QED BY <1>2, <1>4, Refreshes DEF u, up

LEMMA ItemsOnlyMove ==
  ASSUME NEW v, Ready(v), NEW items, NEW idx, ItemList(items), IndexInv(idx, items),
         \A j \in DOMAIN items : items[j] \in ToSet(v.items) \/ NoRow(v, items[j].id)
  PROVE  Moves(v, Refresh([v EXCEPT !.items = items, !.idx = idx]))
<1>1. Moves(v, Refresh([v EXCEPT !.items = items, !.idx = idx, !.updated = v.updated \cup {}]))
  BY ItemsMove
<1> DEFINE a == [v EXCEPT !.items = items, !.idx = idx]
           b == [v EXCEPT !.items = items, !.idx = idx, !.updated = v.updated \cup {}]
<1>2. v.updated \cup {} = v.updated /\ "updated" \in DOMAIN v
  BY DEF Ready, ViewForm, ViewFields
<1>3. a = b
  BY <1>2
<1> HIDE DEF a, b
<1>4. Moves(v, Refresh(b))
  BY <1>1 DEF b
<1>5. Moves(v, Refresh(a))
  BY <1>3, <1>4
<1> QED BY <1>5 DEF a

LEMMA ItemMoves ==
  ASSUME NEW v, Ready(v)
  PROVE  /\ \A field, ascending : Moves(v, SortItems(v, field, ascending))
         /\ \A k \in 1..(Len(v.items) + 1) : \A x :
              ItemForm(x) /\ x.id \notin DOMAIN v.idx /\ NoRow(v, x.id) => Moves(v, InsertItem(v, k, x))
         /\ \A x : ItemForm(x) /\ x.id \notin DOMAIN v.idx /\ NoRow(v, x.id) => Moves(v, AddItem(v, x))
         /\ \A id \in DOMAIN v.idx : Moves(v, DeleteItem(v, id))
         /\ \A x : ItemForm(x) /\ x.id \in DOMAIN v.idx => Moves(v, UpdateItem(v, x))
<1>0. ListRight(v) /\ Sequence(v.items) /\ Len(v.items) \in Nat /\ DOMAIN v.items = 1..Len(v.items)
  BY SeqFacts DEF Ready, ListRight, ItemList
<1>2. ASSUME NEW field, NEW ascending PROVE Moves(v, SortItems(v, field, ascending))
  <2> DEFINE items == IF ascending THEN SortedBy(field, v.items) ELSE Reverse(SortedBy(field, Reverse(v.items)))
  <2>1. ItemList(items) /\ IndexInv(Indexed(<<>>, items, 1), items) /\ ToSet(items) \subseteq ToSet(v.items)
    BY <1>0, SortItemsRight
  <2>2. SortItems(v, field, ascending) = Refresh([v EXCEPT !.items = items, !.idx = Indexed(<<>>, items, 1)])
    BY DEF SortItems
  <2> HIDE DEF items
  <2>3. \A j \in DOMAIN items : items[j] \in ToSet(v.items)
    BY <2>1 DEF ToSet
  <2> QED BY <2>1, <2>2, <2>3, ItemsOnlyMove
<1>3. ASSUME NEW k \in 1..(Len(v.items) + 1), NEW x, ItemForm(x), x.id \notin DOMAIN v.idx, NoRow(v, x.id)
      PROVE  Moves(v, InsertItem(v, k, x))
  <2> DEFINE items == InsertAt(v.items, k, x)
  <2>1. ItemList(items) /\ IndexInv(Indexed(v.idx, items, k), items)
    BY <1>0, <1>3, InsertedRight
  <2>2. InsertItem(v, k, x) = Refresh([v EXCEPT !.items = items, !.idx = Indexed(v.idx, items, k)])
    BY DEF InsertItem
  <2>3. Inserted(items, v.items, k, x)
    BY <1>0, InsertAtIs
  <2> HIDE DEF items
  <2>4. \A j \in DOMAIN items : items[j] = x \/ items[j] \in ToSet(v.items)
    BY <1>0, <2>3 DEF Inserted, ToSet
  <2> QED BY <1>3, <2>1, <2>2, <2>4, ItemsOnlyMove
<1>4. Len(v.items) + 1 \in 1..(Len(v.items) + 1)
  BY <1>0
<1>5. \A x : ItemForm(x) /\ x.id \notin DOMAIN v.idx /\ NoRow(v, x.id) => Moves(v, AddItem(v, x))
  BY <1>3, <1>4 DEF AddItem
<1>6. ASSUME NEW id \in DOMAIN v.idx PROVE Moves(v, DeleteItem(v, id))
  <2> DEFINE k == v.idx[id]
             items == RemoveAt(v.items, k)
             left == [i \in DOMAIN v.idx \ {id} |-> v.idx[i]]
  <2>1. ItemList(items) /\ IndexInv(Indexed(left, items, k), items)
    BY <1>0, DeletedRight
  <2>2. DeleteItem(v, id) = Refresh([v EXCEPT !.items = items, !.idx = Indexed(left, items, k)])
    BY DEF DeleteItem
  <2>3. k \in DOMAIN v.items
    BY <1>0 DEF ListRight, IndexInv
  <2>4. DOMAIN items = 1..(Len(v.items) - 1) /\ \A i \in 1..(Len(v.items) - 1) : items[i] = v.items[IF i < k THEN i ELSE i + 1]
    BY <1>0, <2>3, RemoveAtIs
  <2> HIDE DEF items, left, k
  <2>5. \A j \in DOMAIN items : items[j] \in ToSet(v.items)
    BY <1>0, <2>3, <2>4 DEF ToSet
  <2> QED BY <2>1, <2>2, <2>5, ItemsOnlyMove
<1>7. ASSUME NEW x, ItemForm(x), x.id \in DOMAIN v.idx PROVE Moves(v, UpdateItem(v, x))
  <2> DEFINE k == v.idx[x.id]
             items == [v.items EXCEPT ![k] = x]
             up == v.updated \cup {x.id}
             u == [v EXCEPT !.items = items, !.updated = up]
             z == [v EXCEPT !.items = items, !.idx = v.idx, !.updated = up]
  <2>1. k \in DOMAIN v.items /\ v.items[k].id = x.id /\ \A i \in DOMAIN v.items : ItemForm(v.items[i])
    BY <1>0, <1>7 DEF ListRight, IndexInv, ItemList
  <2> HIDE DEF k
  <2>2. DOMAIN items = DOMAIN v.items /\ items = [i \in DOMAIN items |-> items[i]]
    OBVIOUS
  <2>3. \A i \in DOMAIN items : ItemForm(items[i]) /\ items[i].id = v.items[i].id /\ (items[i] = v.items[i] \/ items[i] = x)
    BY <1>7, <2>1
  <2>4. UpdateItem(v, x) = Refresh(u)
    BY DEF UpdateItem, k
  <2> HIDE DEF items
  <2>5. ItemList(items) /\ IndexInv(v.idx, items)
    BY <1>0, <2>2, <2>3, ReplacedRight
  <2>6. \A j \in DOMAIN items : items[j] \in ToSet(v.items) \/ items[j].id \in {x.id}
    BY <2>2, <2>3 DEF ToSet
  <2>7. Moves(v, Refresh(z))
    BY <2>5, <2>6, ItemsMove
  <2>8. u = z
    <3>1. "idx" \in DOMAIN v
      BY DEF Ready, ViewForm, ViewFields
    <3> HIDE DEF up
    <3> QED BY <3>1
  <2> HIDE DEF u, z
  <2> QED BY <2>4, <2>7, <2>8
<1> QED BY <1>2, <1>3, <1>5, <1>6, <1>7

\* A value the page changes in an item is in the item's row as well.
LEMMA ChangeMoves ==
  ASSUME NEW v, ViewInv(v), NEW id, NEW value PROVE ViewInv(ChangeInPlace(v, id, value))
<1> DEFINE New(r) == IF IsItem(r) /\ r.id = id THEN [r EXCEPT !.value = value] ELSE r
           items == [i \in DOMAIN v.items |-> New(v.items[i])]
           rows == [i \in DOMAIN v.rows |-> New(v.rows[i])]
           w == [v EXCEPT !.items = items, !.rows = rows, !.told = Quiet]
<1>1. ChangeInPlace(v, id, value) = w
  BY DEF ChangeInPlace
<1>2. \A r : RowForm(r) => RowForm(New(r)) /\ IsItem(New(r)) = IsItem(r) /\ (IsItem(r) => New(r).id = r.id)
  BY DEF RowForm, ItemForm, GroupForm, IsItem, IsGroup, IsTotals
<1>3. \A i \in DOMAIN v.rows : RowForm(v.rows[i])
  BY DEF ViewInv, Ready, RowsForm
<1>4. /\ DOMAIN items = DOMAIN v.items /\ \A i \in DOMAIN items : items[i] = New(v.items[i])
      /\ DOMAIN rows = DOMAIN v.rows /\ \A i \in DOMAIN rows : rows[i] = New(v.rows[i])
  OBVIOUS
<1>5. Sequence(rows)
  BY MappedIsSeq DEF ViewInv, Ready, RowsForm
<1> HIDE DEF items, rows, New
<1>6. /\ w.items = items /\ w.rows = rows /\ w.idx = v.idx /\ w.suspended = v.suspended /\ w.grouping = v.grouping
      /\ w.updated = v.updated /\ w.pagesize = v.pagesize /\ w.pagenum = v.pagenum /\ w.totalRows = v.totalRows
      /\ ViewForm(w)
  BY DEF ViewInv, Ready, ViewForm, ViewFields
<1>7. ListRight(w)
  BY <1>1, ChangeIs DEF ViewInv, Ready
<1> HIDE DEF w
<1>8. Fresh(w)
  <2>1. \A i \in DOMAIN v.items : RowForm(v.items[i]) /\ IsItem(v.items[i])
    BY DEF ViewInv, Ready, ListRight, ItemList, RowForm, ItemForm
  <2> SUFFICES ASSUME NEW i \in DOMAIN rows, IsItem(rows[i]), rows[i].id \notin v.updated,
                      NEW j \in DOMAIN items, items[j].id = rows[i].id
               PROVE  items[j] = rows[i]
    BY <1>6 DEF Fresh
  <2>2. IsItem(v.rows[i]) /\ v.rows[i].id = rows[i].id /\ v.items[j].id = items[j].id
    BY <1>2, <1>3, <1>4, <2>1
  <2>3. v.items[j] = v.rows[i]
    BY <1>4, <2>2 DEF ViewInv, Ready, Fresh
  <2> QED BY <1>4, <2>3
<1>9. RowsForm(rows) /\ \A i \in DOMAIN rows : IsItem(rows[i]) => IsItem(v.rows[i]) /\ rows[i].id = v.rows[i].id
  BY <1>2, <1>3, <1>4, <1>5 DEF RowsForm
<1>10. Ready(w)
  BY <1>6, <1>7, <1>8, <1>9 DEF ViewInv, Ready, Levels, Paged
<1>11. Settling(w)
  BY <1>4, <1>6, <1>9 DEF ViewInv, Settling
<1> QED BY <1>1, <1>10, <1>11 DEF ViewInv

-----------------------------------------------------------------------------
(* what is drawn: the handlers *)

\* The view is right and the screen shows it.
DrawnPair(s) == PairRight(s) /\ ViewInv(s.v) /\ Current(s.g, s.v.rows)

LEMMA PairRows == ASSUME NEW s, DrawnPair(s) PROVE Sequence(s.v.rows) /\ GridBase(s.g) /\ DOMAIN s = {"v", "g"} /\ Ready(s.v)
BY DEF DrawnPair, PairRight, Both, ViewInv, Ready, RowsForm, Current

\* Where the data view tells of all that it changes, the grid shows it afterwards.
LEMMA TellsCurrent ==
  ASSUME NEW g, NEW d, NEW w, Sequence(w.rows), Current(g, d), Unreported(d, w)
  PROVE  Current(OnRowsChanged(OnRowCountChanged(g, w), w), w.rows)
<1> DEFINE e == w.rows
           told == {i - 1 : i \in w.told.changed}
           bad == told \cup {r \in Int : ~Exists(e, r) /\ Exists(d, r)}
           b == UpdateRowCount(g, e)
           a == OnRowCountChanged(g, w)
           c == InvalidateRows(a, e, told)
           h == OnRowsChanged(a, w)
<1>1. Sequence(d) /\ (w.told.count <=> Len(e) # Len(d))
  BY DEF Unreported
<1>2. GridBase(g) /\ CellsRight(g, d, {}) /\ InView(g, d)
  BY DEF Current
<1>3. \A r \in DOMAIN g.cache : r \in Int
  BY <1>2 DEF GridBase, GridForm
<1>4. ASSUME NEW r \in Int, r \notin bad PROVE Shown(e, r) = Shown(d, r)
  <2>1. CASE Exists(e, r)
    <3>1. r + 1 \in DOMAIN e \ w.told.changed /\ (r + 1) - 1 = r
      <4>1. r + 1 \notin w.told.changed
        <5>1. (r + 1) - 1 = r
          OBVIOUS
        <5> QED BY <1>4, <5>1
      <4> QED BY <2>1, <4>1 DEF Exists
    <3>2. Shown(e, (r + 1) - 1) = Shown(d, (r + 1) - 1)
      BY <3>1 DEF Unreported
    <3> QED BY <3>1, <3>2
  <2>2. CASE ~Exists(e, r)
    <3>1. ~Exists(d, r)
      BY <1>4, <2>2
    <3> QED BY <2>2, <3>1 DEF Shown
  <2> QED BY <2>1, <2>2
<1>5. CellsRight(g, e, bad)
  <2> SUFFICES ASSUME NEW row \in DOMAIN g.cache \ bad, NEW col \in DOMAIN g.cache[row] PROVE CellRight(g, e, row, col)
    BY DEF CellsRight
  <2>1. CellRight(g, d, row, col)
    BY <1>2 DEF CellsRight
  <2>2. Shown(e, row) = Shown(d, row)
    BY <1>3, <1>4
  <2> QED BY <2>1, <2>2 DEF CellRight
<1>6. \A r \in bad : r \in told \/ ~Exists(e, r)
  OBVIOUS
<1>7. w.told.count \/ bad = told \/ \A r \in bad : r \in told
  <2>1. Len(e) = Len(d) => DOMAIN e = DOMAIN d
    BY <1>1, SeqFacts
  <2> QED BY <1>1, <2>1 DEF Exists
<1> HIDE DEF told, bad
<1>8. GridBase(a) /\ InView(a, e) /\ CellsRight(a, e, told)
  <2>1. CASE w.told.count
    <3>1. GridBase(b) /\ CellsRight(b, e, told)
      BY <1>2, <1>5, <1>6, RowCountDraws
    <3> HIDE DEF b
    <3>2. GridBase(Render(b, e)) /\ InView(Render(b, e), e) /\ CellsRight(Render(b, e), e, told)
      BY <3>1, RenderDraws
    <3> QED BY <2>1, <3>2 DEF OnRowCountChanged, b
  <2>2. CASE ~w.told.count
    <3>1. a = g
      BY <2>2 DEF OnRowCountChanged
    <3> HIDE DEF a
    <3>2. InView(g, e)
      BY <1>1, <1>2, <2>2 DEF InView
    <3>3. CellsRight(g, e, told)
      BY <1>5, <1>7, <2>2 DEF CellsRight
    <3> QED BY <1>2, <3>1, <3>2, <3>3
  <2> QED BY <2>1, <2>2
<1> HIDE DEF a
<1>9. CASE w.told.changed = {}
  <2>1. told = {}
    BY <1>9 DEF told
  <2> QED BY <1>8, <1>9, <2>1 DEF OnRowsChanged, Current, a
<1>10. CASE w.told.changed # {}
  <2>1. GridBase(c) /\ CellsRight(c, e, {})
    BY <1>8, InvalidateRowsDraws
  <2>2. h = Render(c, e)
    BY <1>10 DEF OnRowsChanged, told, h, c
  <2> HIDE DEF c, h
  <2>3. Current(h, e)
    BY <2>1, <2>2, RenderCurrent
  <2> QED BY <2>3 DEF h, a
<1> QED BY <1>9, <1>10

LEMMA WithDraws ==
  ASSUME NEW s, DrawnPair(s), NEW w, Moves(s.v, w)
  PROVE  LET t == With(s, w)
         IN  /\ DrawnPair(t) /\ t.v.items = w.items /\ t.v.idx = w.idx /\ t.v.rows = w.rows
             /\ t.v.suspended = w.suspended
<1> DEFINE t == With(s, w)
           h == OnRowsChanged(OnRowCountChanged(s.g, w), w)
           x == [w EXCEPT !.told = Quiet]
<1>1. PairRight(t)
  BY WithLeads DEF DrawnPair, Moves, Leads
<1>2. Current(h, w.rows)
  <2>1. Sequence(w.rows)
    BY DEF Moves, ViewInv, Ready, RowsForm
  <2> QED BY <2>1, TellsCurrent DEF DrawnPair, Moves
<1>3. t = [v |-> x, g |-> h]
  <2>1. [s EXCEPT !.v = w].v = w /\ [s EXCEPT !.v = w].g = s.g
    BY PairRows
  <2> QED BY <2>1 DEF With, Told
<1> HIDE DEF h
<1>4. /\ x.items = w.items /\ x.rows = w.rows /\ x.idx = w.idx /\ x.suspended = w.suspended /\ x.grouping = w.grouping
      /\ x.updated = w.updated /\ x.pagesize = w.pagesize /\ x.pagenum = w.pagenum /\ x.totalRows = w.totalRows
      /\ ViewForm(x)
  BY DEF Moves, ViewInv, Ready, ViewForm, ViewFields
<1> HIDE DEF x
<1>5. ViewInv(x)
  BY <1>4 DEF Moves, ViewInv, Settling, Ready, ListRight, Levels, Paged, Fresh
<1>6. t.v = x /\ t.g = h
  BY <1>3
<1> HIDE DEF t
<1>7. DrawnPair(t)
  BY <1>1, <1>2, <1>4, <1>5, <1>6 DEF DrawnPair
<1> QED BY <1>4, <1>6, <1>7 DEF t

LEMMA PairDrawn ==
  ASSUME NEW s, DOMAIN s = {"v", "g"}, ViewInv(s.v), Current(s.g, s.v.rows) PROVE DrawnPair(s)
BY DEF DrawnPair, PairRight, Both, ViewInv, Ready, Current, GridBase

LEMMA GridDrawn ==
  ASSUME NEW s, DrawnPair(s), NEW h, Current(h, s.v.rows)
  PROVE  LET t == [s EXCEPT !.g = h] IN DrawnPair(t) /\ t.v = s.v /\ t.g = h
<1> DEFINE t == [s EXCEPT !.g = h]
<1>1. DOMAIN t = {"v", "g"} /\ t.v = s.v /\ t.g = h
  BY PairRows
<1> HIDE DEF t
<1>2. DrawnPair(t)
  BY <1>1, PairDrawn DEF DrawnPair
<1> QED BY <1>1, <1>2 DEF t

LEMMA FramedCurrent ==
  ASSUME NEW g, NEW d, Current(g, d), NEW h, Framed(g, h), CellsRight(h, d, {}) PROVE Current(h, d)
BY FramedInView DEF Current, Framed

LEMMA RefreshedDraws == ASSUME NEW s, DrawnPair(s) PROVE DrawnPair(Refreshed(s))
BY LookMoves, WithDraws, PairRows DEF Refreshed

LEMMA RedrawnDraws == ASSUME NEW s, DrawnPair(s) PROVE DrawnPair(Redrawn(s))
<1>1. Current(Invalidate(s.g, s.v.rows), s.v.rows)
  BY InvalidateDraws, PairRows
<1> QED BY <1>1, GridDrawn DEF Redrawn

LEMMA CancelDraws == ASSUME NEW s, DrawnPair(s) PROVE DrawnPair(Cancel(s))
<1> DEFINE h == MakeNormal(s.g, s.v.rows)
<1>1. Framed(s.g, h) /\ CellsRight(h, s.v.rows, {})
  BY NormalDraws DEF DrawnPair, Current
<1> HIDE DEF h
<1>2. Current(h, s.v.rows)
  BY <1>1, FramedCurrent DEF DrawnPair
<1>3. DrawnPair([s EXCEPT !.g = h])
  BY <1>2, GridDrawn
<1> QED BY <1>3 DEF Cancel, h

LEMMA CommitDraws ==
  ASSUME NEW s, DrawnPair(s)
  PROVE  LET c == Commit(s) IN DrawnPair(c.s) /\ c.ok \in BOOLEAN
<1> DEFINE c == Commit(s)
           e == s.g.editor
           row == s.g.active.row
           id == s.v.rows[row + 1].id
           v == ChangeInPlace(s.v, id, e.text)
           d == Drawn(s.g, v)
           r == RefreshedUnless(d, id = NewItem.id)
<1>1. \/ c = [ok |-> TRUE, s |-> s]
      \/ c = [ok |-> FALSE, s |-> s]
      \/ c = [ok |-> TRUE, s |-> Cancel(s)]
      \/ c = [ok |-> TRUE, s |-> r]
  BY DEF Commit
<1>2. DrawnPair(Cancel(s))
  BY CancelDraws
<1>3. ViewInv(v)
  BY ChangeMoves DEF DrawnPair
<1> HIDE DEF v
<1>4. DrawnPair(d)
  <2> DEFINE a == UpdateRow(s.g, v.rows, row)
             b == MakeNormal(a, v.rows)
             h == Invalidate(b, v.rows)
  <2>1. GridBase(a)
    BY UpdateRowBase, PairRows
  <2> HIDE DEF a
  <2>2. GridBase(b)
    BY <2>1, NormalDraws DEF Framed
  <2> HIDE DEF b
  <2>3. Sequence(v.rows)
    BY <1>3 DEF ViewInv, Ready, RowsForm
  <2>4. Current(h, v.rows)
    BY <2>2, <2>3, InvalidateDraws
  <2>5. d = [v |-> v, g |-> h]
    BY DEF Drawn, h, b, a
  <2> HIDE DEF h, d
  <2> QED BY <1>3, <2>4, <2>5, PairDrawn
<1> HIDE DEF d
<1>5. DrawnPair(r)
  BY <1>4, RefreshedDraws DEF RefreshedUnless
<1> DEFINE b == Cancel(s)
<1>6. \E t \in {s, b, r}, ok \in BOOLEAN : c = [ok |-> ok, s |-> t]
  BY <1>1
<1>7. DrawnPair(s) /\ DrawnPair(b) /\ DrawnPair(r)
  BY <1>2, <1>5
<1> HIDE DEF r, b, c
<1>8. DrawnPair(c.s) /\ c.ok \in BOOLEAN
  BY <1>6, <1>7
<1> QED BY <1>8 DEF c

LEMMA ActivatedDraws ==
  ASSUME NEW s, DrawnPair(s), NEW row, NEW col PROVE DrawnPair(Activated(s, row, col))
<1> DEFINE a == ScrollCellIntoView(s.g, s.v.rows, row, col)
           b == SetActive(a, s.v.rows, row, col, TRUE)
<1>1. Current(a, s.v.rows)
  BY ScrollCellCurrent, PairRows DEF DrawnPair
<1> HIDE DEF a
<1>2. Current(b, s.v.rows)
  BY <1>1, SetActiveCurrent
<1>3. Activated(s, row, col) = [s EXCEPT !.g = b]
  BY DEF Activated, b, a
<1> HIDE DEF b
<1> QED BY <1>2, <1>3, GridDrawn

LEMMA GotoCellDraws ==
  ASSUME NEW s, DrawnPair(s), NEW row, NEW col PROVE DrawnPair(GotoCell(s, row, col))
<1> DEFINE c == Commit(s)
<1>1. DrawnPair(c.s)
  BY CommitDraws
<1> HIDE DEF c
<1>2. DrawnPair(Activated(c.s, row, col))
  BY <1>1, ActivatedDraws
<1> QED BY <1>1, <1>2 DEF GotoCell, IfCommitted, c

LEMMA FoldedDraws ==
  ASSUME NEW s, DrawnPair(s), NEW status, NEW collapse PROVE DrawnPair(Folded(s, status, collapse))
<1>1. Moves(s.v, ExpandCollapseGroup(s.v, <<status>>, collapse))
  BY LookMoves, PairRows
<1> QED BY <1>1, WithDraws DEF Folded

LEMMA FoldAllDraws == ASSUME NEW s, DrawnPair(s), NEW collapse PROVE DrawnPair(FoldAll(s, collapse))
<1>1. \A t, status, fold : DrawnPair(t) => DrawnPair(Folded(t, status, fold))
  BY FoldedDraws
<1>2. ASSUME NEW a, NEW b, NEW c, NEW fold PROVE DrawnPair(Folded(Folded(Folded(s, a, fold), b, fold), c, fold))
  <2> DEFINE t == Folded(s, a, fold)
             u == Folded(t, b, fold)
  <2>1. DrawnPair(t)
    BY <1>1
  <2> HIDE DEF t
  <2>2. DrawnPair(u)
    BY <1>1, <2>1
  <2> HIDE DEF u
  <2>3. DrawnPair(Folded(u, c, fold))
    BY <1>1, <2>2
  <2> QED BY <2>3 DEF u, t
<1> QED BY <1>2 DEF FoldAll

-----------------------------------------------------------------------------
(* what is drawn: the steps *)

LEMMA LandsDrawn ==
  ASSUME NEW t, DrawnPair(t), view' = t.v, grid' = t.g PROVE DrawnPair(Now')
<1>1. DOMAIN [v |-> view', g |-> grid'] = {"v", "g"} /\ [v |-> view', g |-> grid'].v = view' /\ [v |-> view', g |-> grid'].g = grid'
  OBVIOUS
<1> DEFINE n == [v |-> view', g |-> grid']
<1> HIDE DEF n
<1>2. DOMAIN n = {"v", "g"} /\ n.v = t.v /\ n.g = t.g
  BY <1>1 DEF n
<1>3. DrawnPair(n)
  BY <1>2, PairDrawn DEF DrawnPair
<1> QED BY <1>3, NowIs DEF n

LEMMA BecomesDrawn == ASSUME NEW t, DrawnPair(t), Becomes(t) PROVE DrawnPair(Now')
BY LandsDrawn DEF Becomes

LEMMA GridBecomes ==
  ASSUME DrawnPair(Now), NEW h, Current(h, view.rows), Becomes([Now EXCEPT !.g = h]) PROVE DrawnPair(Now')
<1>1. DrawnPair([Now EXCEPT !.g = h])
  BY NowIs, GridDrawn
<1> QED BY <1>1, BecomesDrawn

LEMMA NowDrawn ==
  ASSUME DrawnPair(Now) PROVE Sequence(view.rows) /\ GridBase(grid) /\ Current(grid, view.rows) /\ ViewInv(view) /\ Ready(view)
BY NowIs, PairRows DEF DrawnPair

LEMMA ScrollDraws ==
  ASSUME DrawnPair(Now), ScrollDown \/ ScrollSideways \/ RenderTimer \/ FollowTimer \/ PageKey PROVE DrawnPair(Now')
<1>0. Sequence(view.rows) /\ GridBase(grid) /\ Current(grid, view.rows)
  BY NowDrawn
<1>1. CASE ScrollDown
  <2>1. PICK top \in TopStops :
          Becomes([Now EXCEPT !.g = HandleScroll(grid, view.rows, LeastOf(top, MaxTop(view.rows)), grid.left)])
    BY <1>1, NowIs DEF ScrollDown
  <2>2. LeastOf(top, MaxTop(view.rows)) \in Nat
    <3>1. Len(view.rows) \in Nat /\ ViewRows \in Nat /\ top \in Nat
      BY <1>0, SeqFacts, SizesAre, ScrollAssumption
    <3> QED BY <3>1 DEF LeastOf, MaxTop, GreatestOf, AllRows
  <2> QED BY <1>0, <2>1, <2>2, HandleScrollCurrent, GridBecomes
<1>2. CASE ScrollSideways
  <2>1. PICK left \in LeftStops : Becomes([Now EXCEPT !.g = HandleScroll(grid, view.rows, grid.top, left)])
    BY <1>2, NowIs DEF ScrollSideways
  <2> QED BY <1>0, <2>1, HandleScrollCurrent, GridBecomes DEF GridBase
<1>3. CASE RenderTimer
  <2>1. Becomes([Now EXCEPT !.g = Render(grid, view.rows)])
    BY <1>3, NowIs DEF RenderTimer
  <2> QED BY <1>0, <2>1, RenderCurrent, GridBecomes DEF Current
<1>4. CASE FollowTimer
  <2>1. Becomes([Now EXCEPT !.g = ScrollActiveCellIntoView(grid, view.rows)])
    BY <1>4, NowIs DEF FollowTimer
  <2> QED BY <1>0, <2>1, ScrollActiveCurrent, GridBecomes
<1>5. CASE PageKey
  <2>1. PICK dir \in {-1, 1} : Becomes([Now EXCEPT !.g = ScrollPage(grid, view.rows, dir)])
    BY <1>5, NowIs DEF PageKey
  <2>2. dir \in Int
    OBVIOUS
  <2> QED BY <1>0, <2>1, <2>2, ScrollPageCurrent, GridBecomes
<1> QED BY <1>1, <1>2, <1>3, <1>4, <1>5

LEMMA ClickDraws == ASSUME DrawnPair(Now), Click PROVE DrawnPair(Now')
<1>1. PICK row \in OnScreen : \E col \in DOMAIN grid.cache[row] : Becomes(GotoCell(Now, row, col))
  BY DEF Click
<1>2. PICK col \in DOMAIN grid.cache[row] : Becomes(GotoCell(Now, row, col))
  BY <1>1
<1> QED BY <1>2, GotoCellDraws, BecomesDrawn

LEMMA MovesOnDraws == ASSUME DrawnPair(Now), NEW dir, MovesOn(Commit(Now), dir) PROVE DrawnPair(Now')
<1> DEFINE c == Commit(Now)
           h == Navigate(c.s.g, c.s.v.rows, dir)
<1>1. DrawnPair(c.s)
  BY CommitDraws
<1>2. Becomes([c.s EXCEPT !.g = h])
  BY DEF MovesOn
<1> HIDE DEF c
<1>3. Current(h, c.s.v.rows)
  BY <1>1, PairRows, NavigateCurrent DEF DrawnPair
<1> HIDE DEF h
<1>4. DrawnPair([c.s EXCEPT !.g = h])
  BY <1>1, <1>3, GridDrawn
<1> QED BY <1>2, <1>4, BecomesDrawn

LEMMA KeysDraw == ASSUME DrawnPair(Now), ArrowKey \/ EnterKey PROVE DrawnPair(Now')
<1>1. ASSUME ~grid.editor.open, Becomes([Now EXCEPT !.g = MakeEditable(@, view.rows)]) PROVE DrawnPair(Now')
  <2> DEFINE h == MakeEditable(grid, view.rows)
  <2>1. Framed(grid, h) /\ CellsRight(h, view.rows, {})
    BY <1>1, NowDrawn, EditableDraws DEF Current
  <2>2. Becomes([Now EXCEPT !.g = h])
    BY <1>1, NowIs
  <2> HIDE DEF h
  <2> QED BY <2>1, <2>2, NowDrawn, FramedCurrent, GridBecomes
<1>2. CASE ArrowKey
  BY <1>2, MovesOnDraws DEF ArrowKey
<1>3. CASE EnterKey
  BY <1>1, <1>3, MovesOnDraws DEF EnterKey
<1> QED BY <1>2, <1>3

LEMMA TypeDraws == ASSUME DrawnPair(Now), Type PROVE DrawnPair(Now')
<1>1. PICK text \in Typed : grid' = [grid EXCEPT !.editor.text = text]
  BY DEF Type
<1> DEFINE e == [grid.editor EXCEPT !.text = text]
           h == [grid EXCEPT !.editor = e]
<1>2. grid.editor.open /\ view' = view /\ grid' = h
  BY <1>1 DEF Type
<1>3. Sequence(view.rows) /\ GridBase(grid) /\ Current(grid, view.rows)
  BY NowDrawn
<1>4. DOMAIN e = EditorFields /\ e.open = grid.editor.open
  BY <1>2, <1>3 DEF GridBase, GridForm, EditorFields
<1> HIDE DEF e
<1>5. /\ GridForm(h) /\ h.cache = grid.cache /\ h.active = grid.active /\ h.node = grid.node /\ h.top = grid.top
      /\ h.drawnTop = grid.drawnTop /\ h.timer = grid.timer /\ h.editor = e
  BY <1>2, <1>3, <1>4 DEF GridBase, GridForm, GridFields
<1> HIDE DEF h
<1>6. GridBase(h)
  BY <1>3, <1>5 DEF GridBase, HasCell, Cached
<1>7. CellsRight(h, view.rows, {}) /\ InView(h, view.rows)
  BY <1>3, <1>4, <1>5 DEF Current, CellsRight, CellRight, InView, Cached
<1>8. Current(h, view.rows)
  BY <1>6, <1>7 DEF Current
<1>9. DrawnPair([Now EXCEPT !.g = h]) /\ [Now EXCEPT !.g = h].v = view /\ [Now EXCEPT !.g = h].g = h
  BY <1>8, NowIs, GridDrawn
<1> DEFINE t == [Now EXCEPT !.g = h]
<1> HIDE DEF t
<1>10. DrawnPair(t) /\ view' = t.v /\ grid' = t.g
  BY <1>2, <1>9 DEF t
<1> QED BY <1>10, LandsDrawn

LEMMA WithBecomes == ASSUME DrawnPair(Now), NEW w, Moves(view, w), Becomes(With(Now, w)) PROVE DrawnPair(Now')
<1>1. DrawnPair(With(Now, w))
  BY NowIs, WithDraws
<1> QED BY <1>1, BecomesDrawn

LEMMA FoldsDraw == ASSUME DrawnPair(Now), ClickToggle \/ SpaceKey PROVE DrawnPair(Now')
<1>1. ASSUME NEW row, Becomes(Toggle(row)) PROVE DrawnPair(Now')
  <2> DEFINE w == ExpandCollapseGroup(view, view.rows[row + 1].key, ~view.rows[row + 1].collapsed)
  <2>1. Moves(view, w)
    BY NowDrawn, LookMoves
  <2>2. Becomes(With(Now, w))
    BY <1>1 DEF Toggle
  <2> HIDE DEF w
  <2> QED BY <2>1, <2>2, WithBecomes
<1> QED BY <1>1 DEF ClickToggle, SpaceKey

LEMMA CancelsDraw == ASSUME DrawnPair(Now), EscapeKey \/ Answer PROVE DrawnPair(Now')
BY CancelDraws, RedrawnDraws, BecomesDrawn DEF EscapeKey, Answer

\* Another filter shows nothing yet.
LEMMA FilterKept ==
  ASSUME NEW v, ViewInv(v), NEW filter
  PROVE  LET w == [v EXCEPT !.filter = filter] IN ViewInv(w) /\ w.rows = v.rows /\ w.idx = v.idx
BY DEF ViewInv, Settling, Ready, ViewForm, ViewFields, ListRight, Levels, Paged, Fresh

LEMMA ViewBecomes ==
  ASSUME DrawnPair(Now), NEW w, ViewInv(w), w.rows = view.rows PROVE DrawnPair([Now EXCEPT !.v = w])
<1> DEFINE t == [Now EXCEPT !.v = w]
<1>1. DOMAIN t = {"v", "g"} /\ t.v = w /\ t.g = grid
  BY NowIs
<1> HIDE DEF t
<1>2. DrawnPair(t)
  BY <1>1, NowDrawn, PairDrawn
<1> QED BY <1>2 DEF t

LEMMA SearchDraws == ASSUME DrawnPair(Now), Search PROVE DrawnPair(Now')
<1>1. PICK filter : Becomes(Redrawn(Refreshed(FoldAll(Cancel([Now EXCEPT !.v.filter = filter]), filter = NoFilter))))
  BY DEF Search
<1> DEFINE w == [view EXCEPT !.filter = filter]
           a == [Now EXCEPT !.v = w]
           b == Cancel(a)
           c == FoldAll(b, filter = NoFilter)
           d == Refreshed(c)
           t == Redrawn(d)
<1>2. ViewInv(w) /\ w.rows = view.rows
  BY NowDrawn, FilterKept
<1>3. [Now EXCEPT !.v.filter = filter] = a
  BY NowIs
<1> HIDE DEF w
<1>4. DrawnPair(a)
  BY <1>2, ViewBecomes
<1> HIDE DEF a
<1>5. DrawnPair(b)
  BY <1>4, CancelDraws
<1> HIDE DEF b
<1>6. DrawnPair(c)
  BY <1>5, FoldAllDraws
<1> HIDE DEF c
<1>7. DrawnPair(d)
  BY <1>6, RefreshedDraws
<1> HIDE DEF d
<1>8. DrawnPair(t)
  BY <1>7, RedrawnDraws
<1>9. Becomes(t)
  BY <1>1, <1>3 DEF d, c, b
<1> HIDE DEF t
<1> QED BY <1>8, <1>9, BecomesDrawn

\* What may be added is in no row: a row of an item that is gone stays only while
\* an update is unfinished.
LEMMA AddableIs == ASSUME ViewInv(view), NEW id, Addable(id) PROVE id \notin DOMAIN view.idx /\ NoRow(view, id)
<1>1. CASE ~view.suspended
  BY <1>1 DEF ViewInv, Settling, Addable, NoRow
<1>2. CASE view.suspended
  <2> DEFINE I == {i \in 1..Len(view.rows) : IsItem(view.rows[i]) /\ view.rows[i].id = id}
  <2>1. RowById(view, id) = IF I # {} THEN Max(I) ELSE 0
    BY DEF RowById, SelectLastInSeq
  <2>2. RowById(view, id) = 0
    BY <1>2 DEF Addable
  <2>3. I # {} => Max(I) \in I
    <3>1. I \in SUBSET (1..Len(view.rows)) /\ Len(view.rows) \in Nat
      BY SeqFacts DEF ViewInv, Ready, RowsForm
    <3> HIDE DEF I
    <3> QED BY <3>1, HasMax
  <2>4. I = {}
    <3>1. 0 \notin I
      OBVIOUS
    <3> HIDE DEF I
    <3> QED BY <2>1, <2>2, <2>3, <3>1
  <2>5. DOMAIN view.rows = 1..Len(view.rows)
    BY SeqFacts DEF ViewInv, Ready, RowsForm
  <2> QED BY <2>4, <2>5 DEF NoRow, Addable
<1> QED BY <1>1, <1>2

LEMMA CreateDraws == ASSUME DrawnPair(Now), Create PROVE DrawnPair(Now')
<1> DEFINE f == [view EXCEPT !.filter = NoFilter]
           cleared == ExpandCollapseAll(f, {1, 2}, FALSE)
           a == With(Now, cleared)
           w == InsertItem(a.v, 1, NewItem)
           b == With(a, w)
           c == GotoCell(b, 2, Min(EditCols))
           t == Refreshed(c)
           id == NewItem.id
<1>1. Addable(id) /\ Becomes(t)
  BY DEF Create
<1>2. ViewInv(f) /\ f.rows = view.rows /\ f.idx = view.idx
  BY NowDrawn, FilterKept
<1>3. id \notin DOMAIN f.idx /\ NoRow(f, id)
  BY <1>1, <1>2, NowDrawn, AddableIs DEF NoRow
<1> HIDE DEF f, id
<1>4. Moves(view, cleared) /\ cleared.idx = view.idx /\ NoRow(cleared, id)
  <2> DEFINE levels == {1, 2}
             w1 == ExpandCollapseAll(f, levels, FALSE)
  <2> HIDE DEF levels
  <2>1. Moves(f, w1) /\ NoRow(w1, id)
    BY <1>2, <1>3, FoldAllMoves DEF ViewInv
  <2>2. Reported(view, w1) /\ SameItems(f, w1)
    <3>1. ViewForm(f) /\ ListRight(f) /\ f.rows = view.rows
      BY <1>2 DEF ViewInv, Ready
    <3> QED BY <3>1, FoldAllStep
  <2> HIDE DEF w1
  <2>3. Moves(view, w1) /\ w1.idx = view.idx
    BY <1>2, <2>1, <2>2 DEF Moves, SameItems
  <2> QED BY <2>1, <2>3 DEF levels, w1
<1> HIDE DEF cleared
<1>5. DrawnPair(a) /\ a.v.idx = view.idx /\ a.v.rows = cleared.rows
  BY <1>4, NowIs, WithDraws
<1> HIDE DEF a
<1>6. Moves(a.v, w)
  <2>1. Ready(a.v) /\ 1 \in 1..(Len(a.v.items) + 1)
    <3>1. Ready(a.v)
      BY <1>5, PairRows
    <3>2. Len(a.v.items) \in Nat
      BY <3>1, SeqFacts DEF Ready, ListRight, ItemList
    <3> QED BY <3>1, <3>2
  <2>2. ItemForm(NewItem)
    BY ItemsAssumption DEF ItemForm
  <2>3. NewItem.id \notin DOMAIN a.v.idx /\ NoRow(a.v, NewItem.id)
    BY <1>2, <1>3, <1>4, <1>5 DEF NoRow, id
  <2> QED BY <2>1, <2>2, <2>3, ItemMoves
<1> HIDE DEF w
<1>7. DrawnPair(b)
  BY <1>5, <1>6, WithDraws
<1> HIDE DEF b
<1>8. DrawnPair(c)
  BY <1>7, GotoCellDraws
<1> HIDE DEF c
<1>9. DrawnPair(t)
  BY <1>8, RefreshedDraws
<1> HIDE DEF t
<1> QED BY <1>1, <1>9, BecomesDrawn

LEMMA DataCallDraws == ASSUME DrawnPair(Now), DataCall PROVE DrawnPair(Now')
<1>1. Ready(view) /\ ViewInv(view) /\ ListRight(view)
  BY NowDrawn DEF Ready
<1>2. ASSUME NEW ascending, Becomes(With(Now, SortItems(view, "value", ascending))) PROVE DrawnPair(Now')
  BY <1>1, <1>2, ItemMoves, WithBecomes
<1>3. ASSUME NEW size \in {0, 2}, Becomes(With(Now, SetPagesize(view, size))) PROVE DrawnPair(Now')
  <2>1. size \in Nat
    OBVIOUS
  <2> QED BY <1>1, <1>3, <2>1, PagingMoves, WithBecomes
<1>4. ASSUME view.pagesize > 0, NEW n \in 0..1, Becomes(With(Now, SetPagenum(view, n))) PROVE DrawnPair(Now')
  <2>1. n \in Nat
    OBVIOUS
  <2> QED BY <1>1, <1>4, <2>1, PagingMoves, WithBecomes
<1>5. ASSUME NEW i \in ToSet(view.items), NEW value,
             Becomes(With(Now, UpdateItem(view, [i EXCEPT !.value = value])))
      PROVE  DrawnPair(Now')
  <2> DEFINE x == [i EXCEPT !.value = value]
  <2>1. ItemForm(i) /\ i.id \in DOMAIN view.idx
    BY <1>1, <1>5 DEF ToSet, ListRight, ItemList, IndexInv
  <2>2. ItemForm(x) /\ x.id = i.id
    BY <2>1 DEF ItemForm, IsItem
  <2>3. Moves(view, UpdateItem(view, x))
    BY <1>1, <2>1, <2>2, ItemMoves
  <2> HIDE DEF x
  <2>4. Becomes(With(Now, UpdateItem(view, x)))
    BY <1>5 DEF x
  <2> QED BY <2>3, <2>4, WithBecomes
<1>6. ASSUME NEW i \in ToSet(Loaded), Addable(i.id), Becomes(With(Now, AddItem(view, i))) PROVE DrawnPair(Now')
  <2>1. ItemForm(i)
    BY <1>6, ItemsAssumption DEF ItemForm
  <2>2. i.id \notin DOMAIN view.idx /\ NoRow(view, i.id)
    BY <1>1, <1>6, AddableIs
  <2> QED BY <1>1, <1>6, <2>1, <2>2, ItemMoves, WithBecomes
<1>7. ASSUME NEW id \in DOMAIN view.idx, Becomes(With(Now, DeleteItem(view, id))) PROVE DrawnPair(Now')
  BY <1>1, <1>7, ItemMoves, WithBecomes
<1>8. ASSUME NEW levels \in {<<>>, ByStatus}, Becomes(With(Now, SetGrouping(view, levels))) PROVE DrawnPair(Now')
  BY <1>1, <1>8, LookMoves, WithBecomes
<1>9. ASSUME NEW filter, Becomes(With(Now, SetFilter(view, filter))) PROVE DrawnPair(Now')
  BY <1>1, <1>9, LookMoves, WithBecomes
<1>10. ASSUME Becomes([Now EXCEPT !.v = BeginUpdate(@)]) PROVE DrawnPair(Now')
  <2> DEFINE w == BeginUpdate(view)
  <2>1. ViewInv(w) /\ w.rows = view.rows
    BY <1>1 DEF BeginUpdate, ViewInv, Settling, Ready, ViewForm, ViewFields, ListRight, Levels, Paged, Fresh
  <2>2. Becomes([Now EXCEPT !.v = w])
    BY <1>10, NowIs
  <2> HIDE DEF w
  <2> QED BY <2>1, <2>2, ViewBecomes, BecomesDrawn
<1>11. ASSUME Becomes(With(Now, EndUpdate(view))) PROVE DrawnPair(Now')
  BY <1>1, <1>11, LookMoves, WithBecomes
<1> QED BY <1>2, <1>3, <1>4, <1>5, <1>6, <1>7, <1>8, <1>9, <1>10, <1>11 DEF DataCall

LEMMA StartDrawn == ASSUME Init PROVE DrawnPair(Now)
<1> DEFINE idx == Indexed(<<>>, Loaded, 1)
           u == [EmptyView EXCEPT !.items = Loaded, !.idx = idx]
           a == SetItems(EmptyView, Loaded)
           b == SetGrouping(a, ByStatus)
           x == [b EXCEPT !.told = Quiet]
           h == Render(EmptyGrid, view.rows)
<1>1. ItemList(Loaded)
  <2>1. Sequence(Loaded)
    BY ItemsAssumption, SeqFacts
  <2> QED BY <2>1, ItemsAssumption DEF ItemList, ItemForm, ToSet
<1>2. IndexInv(idx, Loaded)
  BY <1>1, AnewRight
<1> HIDE DEF idx
<1>3. Ready(u)
  <2>1. ViewForm(u) /\ u.items = Loaded /\ u.idx = idx /\ u.rows = <<>> /\ u.grouping = <<>> /\ Paged(u)
    BY DEF ViewForm, ViewFields, EmptyView, Paged
  <2> HIDE DEF u
  <2>2. RowsForm(u.rows) /\ Fresh(u)
    BY <2>1, EmptyIs DEF RowsForm, Fresh
  <2> QED BY <1>1, <1>2, <2>1, <2>2 DEF Ready, ListRight, Levels
<1>4. a = Refresh(u)
  BY DEF SetItems, u, idx
<1> HIDE DEF u
<1>5. Ready(a)
  BY <1>3, <1>4, RefreshShows DEF ViewInv
<1> HIDE DEF a
<1>6. ViewInv(b)
  BY <1>5, LookMoves DEF Moves
<1>7. view = x
  BY DEF Init, LoadedView, b, a
<1> HIDE DEF b
<1>8. ViewInv(view)
  BY <1>6, <1>7 DEF ViewInv, Settling, Ready, ViewForm, ViewFields, ListRight, Levels, Paged, Fresh
<1> HIDE DEF x
<1>9. GridBase(EmptyGrid) /\ \A d : CellsRight(EmptyGrid, d, {})
  <2>1. EmptyGrid.cache = <<>> /\ EmptyGrid.node = "none" /\ EmptyGrid.top = 0 /\ EmptyGrid.drawnTop = 0
    BY DEF EmptyGrid
  <2>2. DOMAIN EmptyGrid.cache = {}
    BY <2>1, EmptyIs
  <2>3. DOMAIN EmptyGrid = GridFields /\ EmptyGrid.active = [row |-> -1, cell |-> -1] /\ EmptyGrid.editor = [open |-> FALSE]
    BY DEF EmptyGrid, GridFields, NoCell, NoEditor
  <2> QED BY <2>1, <2>2, <2>3 DEF GridBase, GridForm, CellsRight
<1>10. Current(h, view.rows)
  BY <1>8, <1>9, RenderCurrent DEF ViewInv, Ready, RowsForm
<1>11. grid = h
  <2>1. view = LoadedView /\ grid = Render(EmptyGrid, LoadedView.rows)
    BY DEF Init
  <2> QED BY <2>1
<1> HIDE DEF h
<1> QED BY <1>8, <1>10, <1>11, NowIs, PairDrawn

ScreenInv == DrawnPair(Now)

LEMMA ScreenSteps == ASSUME ScreenInv, [Next]_vars PROVE DrawnPair(Now')
<1>1. DrawnPair(Now)
  BY DEF ScreenInv
<1>2. CASE UNCHANGED vars
  BY <1>1, <1>2, NowIs, LandsDrawn DEF vars
<1>3. CASE ScrollDown \/ ScrollSideways \/ RenderTimer \/ FollowTimer \/ PageKey
  BY <1>1, <1>3, ScrollDraws
<1>4. CASE Click
  BY <1>1, <1>4, ClickDraws
<1>5. CASE ClickToggle \/ SpaceKey
  BY <1>1, <1>5, FoldsDraw
<1>6. CASE Type
  BY <1>1, <1>6, TypeDraws
<1>7. CASE ArrowKey \/ EnterKey
  BY <1>1, <1>7, KeysDraw
<1>8. CASE EscapeKey \/ Answer
  BY <1>1, <1>8, CancelsDraw
<1>9. CASE Search
  BY <1>1, <1>9, SearchDraws
<1>10. CASE Create
  BY <1>1, <1>10, CreateDraws
<1>11. CASE DataCall
  BY <1>1, <1>11, DataCallDraws
<1> QED BY <1>2, <1>3, <1>4, <1>5, <1>6, <1>7, <1>8, <1>9, <1>10, <1>11 DEF Next

\* The screen shows what the data view holds: although only the rows the data
\* view reports are drawn again, every drawn cell is right, and the viewport is
\* drawn or a timer will draw it (GridView.ScreenCurrent).
THEOREM ScreenIsCurrent == Spec => []ScreenCurrent
<1>1. Init => ScreenInv
  BY StartDrawn DEF ScreenInv
<1>2. ScreenInv /\ [Next]_vars => ScreenInv'
  BY ScreenSteps DEF ScreenInv
<1>3. ScreenInv => ScreenCurrent
  BY NowDrawn DEF ScreenInv, Current, CellsRight, CellRight, InView, ScreenCurrent
<1> QED BY <1>1, <1>2, <1>3, PTL DEF Spec
=============================================================================
