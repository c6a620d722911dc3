----------------------------- MODULE GridColumns -----------------------------
(***************************************************************************)
(* The columns of a grid (war/SlickGrid-master/slick.grid.frozen.js): which *)
(* are shown and in which order, how wide they are, which stay on the left,*)
(* and by which the rows are sorted.  What is on the screen - headers,     *)
(* positions, style rules, panes - is kept beside them and brought up to   *)
(* date by each operation for itself.  One handler is one action.  There   *)
(* are no frozen rows, no header row and no top panel, and the widths of a *)
(* drag reach the cells when it ends (syncColumnCellResize is off).        *)
(***************************************************************************)
EXTENDS Integers, SequencesExt, FiniteSetsExt

CONSTANTS
  MinWidth, MaxWidth,  \* of each column; no maximum is 0
  Resizable, Sortable, Rerendered,  \* the columns with these options
  Lists,        \* the lists of columns the page shows in turn, with their widths
  FirstList,
  AbsMin,       \* absoluteColumnMinWidth: what padding and borders take
  Bar,          \* the width of a scrollbar
  Slack,        \* how much longer a strip of headers is (1000 in the code)
  Windows,      \* widths of the window
  Pulls,        \* how far a header's edge is dragged
  MaxSort,      \* columns sorted by at a time: a bound of the model
  MaxTotal,     \* the width at which no more drags begin: a bound of the model
  ColumnJobs    \* what is done to the columns in one session

VARIABLE head

Shorter(a, b) == IF a < b THEN a ELSE b
Longer(a, b)  == IF a < b THEN b ELSE a
Unlimited == 100000
NoDrag == [col |-> 0]

\* The narrowest a column can be made.
Narrowest(id) == Longer(MinWidth[id], AbsMin)

ColumnsAssumption ==
  /\ DOMAIN MinWidth = DOMAIN MaxWidth
  /\ \A id \in DOMAIN MinWidth : MinWidth[id] \in Nat /\ MaxWidth[id] \in Nat
  /\ \A l \in DOMAIN Lists : Lists[l] \in Seq([id : DOMAIN MinWidth, width : Nat])
  /\ Resizable \cup Sortable \cup Rerendered \subseteq DOMAIN MinWidth
  /\ \A l \in DOMAIN Lists : \A i \in DOMAIN Lists[l] : Lists[l][i].width >= Narrowest(Lists[l][i].id)
  /\ FirstList \in DOMAIN Lists
ASSUME ColumnsAssumption

-----------------------------------------------------------------------------
(* widths and positions *)

\* The definitions the grid shows are those of the list, so a width that is
\* changed is changed in the list; columns put in another order are copies.
Columns(h)  == h.lists[h.shown]
Count(h)  == Len(Columns(h))
Width(h, i) == Columns(h)[i].width
WithWidths(h, w) == [h EXCEPT !.lists[h.shown] = [i \in DOMAIN @ |-> [@[i] EXCEPT !.width = w[i]]]]

\* frozen is the number of frozen columns: the option, an index, plus one.
OnRight(h, i) == h.frozen > 0 /\ i > h.frozen
SameSide(h, i, j) == OnRight(h, i) = OnRight(h, j)
WidthOf(h, cols) == SumFunctionOnSet([i \in cols |-> Width(h, i)], cols)
Total(h) == WidthOf(h, 1..Count(h))
LeftEdge(h, i) == WidthOf(h, {j \in 1..(i - 1) : SameSide(h, i, j)})
RightColumns(h) == {i \in 1..Count(h) : OnRight(h, i)}
Available(h) == IF h.vscroll THEN h.viewW - Bar ELSE h.viewW

CanvasWidth(h) == [l |-> Total(h) - WidthOf(h, RightColumns(h)), r |-> WidthOf(h, RightColumns(h))]

HeadersWidth(h) ==
  LET c == CanvasWidth(h)
      l == c.l + Slack
  IN  IF h.frozen > 0 THEN [l |-> l, r |-> Longer(c.r, h.viewW) + l + Bar]
      ELSE [l |-> Longer(c.l + Bar, h.viewW) + Slack, r |-> 0]

Positions(h) ==
  [i \in 1..Count(h) |-> [left |-> LeftEdge(h, i), right |-> LeftEdge(h, i) + Width(h, i)]]

UpdateColumnCaches(h) == [h EXCEPT !.pos = Positions(h)]

\* The style rules of a column hold the distances of its cells from both ends
\* of their canvas.  They are made empty, and found again by the column's place.
NoRule == [left |-> 0, right |-> 0]
CreateCssRules(h) == [h EXCEPT !.rules = [i \in 1..Count(h) |-> NoRule]]

RuleOf(h, i) ==
  [left |-> LeftEdge(h, i),
   right |-> (IF OnRight(h, i) THEN h.canvas.r ELSE h.canvas.l) - LeftEdge(h, i) - Width(h, i)]

\* Mutant of ApplyColumnWidths: only the rules that are empty are found again.
ApplyFirstWidths(h) ==
  [h EXCEPT !.rules = [i \in DOMAIN @ |-> IF i <= Count(h) /\ @[i] = NoRule THEN RuleOf(h, i) ELSE @[i]]]

ApplyColumnWidths(h) ==
  [h EXCEPT !.rules = [i \in DOMAIN @ |-> IF i <= Count(h) THEN RuleOf(h, i) ELSE @[i]]]

ApplyColumnHeaderWidths(h) == UpdateColumnCaches([h EXCEPT !.headers = Columns(h)])

\* Without frozen columns there is one pane, as wide as the grid.
Panes(h) ==
  IF h.frozen > 0 THEN [header |-> h.canvas.l, body |-> h.canvas.l, width |-> h.viewW - h.canvas.l]
  ELSE [header |-> 0, body |-> 0, width |-> 0]

SizePanes(h) ==
  [h EXCEPT !.strip = HeadersWidth(h), !.panes = Panes(h), !.hscroll = Total(h) > h.viewW - Bar]

UpdateCanvasWidth(h, force) ==
  LET changed == CanvasWidth(h) # h.canvas
      sized(c) == IF changed \/ h.frozen > 0 THEN SizePanes(c) ELSE c
      applied(c) == IF changed \/ force THEN ApplyColumnWidths(c) ELSE c
  IN  applied(sized([h EXCEPT !.canvas = CanvasWidth(h)]))

\* The rows are drawn anew; a cell that is being edited is closed as it is.
InvalidateAllRows(h) == [h EXCEPT !.edit = "none"]

-----------------------------------------------------------------------------
(* autosizeColumns *)

\* One round takes from each column its share of what is too much, at least 1.
\* The quotients are exact here; the code's may be rounded.
ShrinkRound(h, s) ==
  LET take(t, i) ==
        LET id   == Columns(h)[i].id
            most == t.w[i] - Narrowest(id)
            part == ((s.total - Available(h)) * most) \div s.leeway
            size == Shorter(IF part = 0 THEN 1 ELSE part, most)
        IN  IF t.total <= Available(h) \/ id \notin Resizable \/ most <= 0 THEN t
            ELSE [w |-> [t.w EXCEPT ![i] = @ - size], total |-> t.total - size, leeway |-> t.leeway - size]
  IN  FoldLeft(take, s, [i \in DOMAIN s.w |-> i])

\* Every round grows the columns by what they were at first, so a column may
\* come out wider than its maximum.
GrowRound(h, s) ==
  LET give(t, i) ==
        LET id   == Columns(h)[i].id
            w    == Width(h, i)
            most == IF MaxWidth[id] = 0 THEN 1000000 ELSE MaxWidth[id] - w
            part == Shorter((Available(h) * w) \div s.total - w, most)
            size == IF part = 0 THEN 1 ELSE part
        IN  IF t.total >= Available(h) \/ id \notin Resizable \/ most <= 0 THEN t
            ELSE [t EXCEPT !.w[i] = @ + size, !.total = @ + size]
  IN  FoldLeft(give, s, [i \in DOMAIN s.w |-> i])

\* Rounds until there is nothing to take or to give, one unit each at the least.
Fitted(h) ==
  LET leeway == MapThenSumSet(LAMBDA i : Width(h, i) - Narrowest(Columns(h)[i].id),
                              {i \in 1..Count(h) : Columns(h)[i].id \in Resizable})
      s == [w |-> [i \in 1..Count(h) |-> Width(h, i)], total |-> Total(h), leeway |-> leeway]
      rounds == [i \in 1..Longer(Total(h) - Available(h), Available(h) - Total(h)) |-> i]
      shrunk == FoldLeft(LAMBDA t, i : IF t.total <= Available(h) \/ t.leeway = 0 THEN t
                                       ELSE ShrinkRound(h, t), s, rounds)
  IN  FoldLeft(LAMBDA t, i : IF t.total < Available(h) THEN GrowRound(h, t) ELSE t,
               shrunk, [i \in 1..Longer(0, Available(h) - shrunk.total) |-> i]).w

ApplyWidths(h, new) ==
  LET again == \E i \in 1..Count(h) : Columns(h)[i].id \in Rerendered /\ new[i] # Width(h, i)
      redrawn(k) == IF again THEN InvalidateAllRows(k) ELSE k
  IN  redrawn(UpdateCanvasWidth(ApplyColumnHeaderWidths(WithWidths(h, new)), TRUE))

AutosizeColumns(h) == ApplyWidths(h, Fitted(h))

\* Mutant of CountRows: the columns are not fitted to the room the bar leaves.
CountRowsAsIs(h) == UpdateCanvasWidth([h EXCEPT !.vscroll = h.tall], FALSE)

\* updateRowCount: the vertical scrollbar comes or goes with the rows.
CountRows(h) ==
  LET k == [h EXCEPT !.vscroll = h.tall]
  IN  UpdateCanvasWidth(IF h.fit /\ h.tall # h.vscroll THEN AutosizeColumns(k) ELSE k, FALSE)

ResizeCanvas(h) == CountRows(IF h.fit THEN AutosizeColumns(h) ELSE h)

-----------------------------------------------------------------------------
(* the headers *)

Known(h, id) == \E i \in 1..Count(h) : Columns(h)[i].id = id
Marks(h) == {m \in ToSet(h.sort) : Known(h, m.id)}
SetSortColumns(h, sort) == [h EXCEPT !.sort = sort, !.marks = Marks([h EXCEPT !.sort = sort])]

CreateColumnHeaders(h) ==
  SetSortColumns([h EXCEPT !.headers = Columns(h), !.strip = HeadersWidth(h)], h.sort)

\* An index that is no column's freezes none.
SetFrozenOptions(h) == [h EXCEPT !.frozen = IF @ \in 1..Count(h) THEN @ ELSE 0]

\* Which of the viewports the others follow when it is scrolled.
SetScroller(h) == [h EXCEPT !.scroller = IF h.frozen > 0 THEN "right" ELSE "left"]

SetPaneVisibility(h) == [h EXCEPT !.split = h.frozen > 0]

InLimits(c) ==
  LET w == Longer(c.width, MinWidth[c.id])
  IN  [c EXCEPT !.width = IF MaxWidth[c.id] # 0 THEN Shorter(w, MaxWidth[c.id]) ELSE w]

\* setColumns: how many columns are frozen is not looked at again.
SetColumns(h, list, cols) ==
  LET new == [h EXCEPT !.shown = list, !.lists[list] = [i \in DOMAIN cols |-> InLimits(cols[i])]]
      prepared(k) == CreateColumnHeaders(InvalidateAllRows(SetPaneVisibility(UpdateColumnCaches(k))))
  IN  ApplyColumnWidths(UpdateCanvasWidth(ResizeCanvas(CreateCssRules(prepared(new))), FALSE))

\* init, as far as the columns go; the panes have no width yet.
FirstColumns(frozen, fit, multi, window, jobs) ==
  LET h == [lists |-> [l \in DOMAIN Lists \cup {"own"} |-> IF l = "own" THEN <<>> ELSE Lists[l]],
            shown |-> FirstList, frozen |-> frozen, fit |-> fit, multi |-> multi,
            viewW |-> window, tall |-> FALSE, vscroll |-> FALSE, hscroll |-> FALSE,
            headers |-> <<>>, pos |-> <<>>, rules |-> <<>>, canvas |-> [l |-> 0, r |-> 0],
            strip |-> [l |-> 0, r |-> 0], panes |-> [header |-> 0, body |-> 0, width |-> 0],
            split |-> FALSE, scroller |-> "left", sort |-> <<>>, marks |-> {},
            drag |-> NoDrag, edit |-> "none", jobs |-> jobs]
      limited == [h EXCEPT !.lists[FirstList] = [i \in DOMAIN @ |-> InLimits(@[i])]]
      split(k) == SetScroller(SetPaneVisibility(SetFrozenOptions(k)))
  IN  ResizeCanvas(CreateCssRules(CreateColumnHeaders(UpdateColumnCaches(split(limited)))))

ColumnsInit ==
  \E frozen \in 0..2, fit \in BOOLEAN, jobs \in ColumnJobs, multi \in BOOLEAN :
    /\ multi => "sort" \in jobs
    /\ head = FirstColumns(frozen, fit, multi, Min(Windows), jobs)

-----------------------------------------------------------------------------
(* the handlers *)

Does(job) == job \in head.jobs

\* The grid commits what is being edited first, and goes no further with a
\* value that is refused.
Committed(h) == [h EXCEPT !.edit = "none"]

\* The page's check box: the edit is cancelled and the other list is shown.
ShowColumns ==
  /\ Does("hide")
  /\ head.drag = NoDrag
  /\ \E l \in DOMAIN Lists : head' = SetColumns([head EXCEPT !.edit = "none"], l, head.lists[l])

\* setOptions of the frozen columns and of forceFitColumns.
SetOptions(frozen, fit) ==
  /\ head.edit # "refused"
  /\ LET h == SetScroller(SetFrozenOptions([Committed(head) EXCEPT !.frozen = frozen, !.fit = fit]))
     IN  head' = SetColumns(h, h.shown, Columns(h))

ChangeOptions ==
  /\ Does("options")
  /\ head.drag = NoDrag
  /\ \E frozen \in 0..2, fit \in BOOLEAN : SetOptions(frozen, fit)

WindowResize ==
  /\ Does("window")
  /\ head.drag = NoDrag
  /\ \E w \in Windows : head' = ResizeCanvas([head EXCEPT !.viewW = w])

\* The data view has more or fewer rows, at any time: an answer of the server.
RowsChange ==
  /\ Does("rows")
  /\ head' = CountRows([head EXCEPT !.tall = ~@])

\* setupColumnSort: what a click makes of the sort columns.  The control key
\* takes a column out, the shift key adds one, else it becomes the only one.
Sorted(h, id, meta, shift) ==
  LET at == SelectInSeq(h.sort, LAMBDA s : s.id = id)
      turned == IF at = 0 THEN h.sort ELSE [h.sort EXCEPT ![at].asc = ~@]
      rest == IF h.multi /\ (shift \/ meta) THEN turned ELSE <<>>
  IN  IF meta /\ h.multi THEN IF at = 0 THEN h.sort ELSE RemoveAt(turned, at)
      ELSE IF at = 0 THEN Append(rest, [id |-> id, asc |-> TRUE])
      ELSE IF rest = <<>> THEN <<turned[at]>> ELSE rest

HeaderClick ==
  /\ Does("sort")
  /\ head.drag = NoDrag
  /\ head.edit # "refused"
  /\ \E i \in 1..Count(head), meta, shift \in BOOLEAN :
       /\ Columns(head)[i].id \in Sortable
       /\ LET sort == Sorted(head, Columns(head)[i].id, meta, shift)
          IN  /\ Len(sort) <= MaxSort
              /\ head' = SetSortColumns(Committed(head), sort)

\* The headers as they stand after one was moved, left strip first.
Swapped(h, i) == [h.headers EXCEPT ![i] = h.headers[i + 1], ![i + 1] = h.headers[i]]

\* A header is dropped next to where it was, in its own strip.  A refused value
\* puts it back.
Reorder ==
  /\ Does("reorder")
  /\ head.drag = NoDrag
  /\ head.edit # "refused"
  /\ \E i \in 1..(Count(head) - 1) :
       /\ SameSide(head, i, i + 1)
       /\ head' = SetColumns(Committed(head), "own", Swapped(head, i))

\* A header has a handle from the first column on that can be resized; in a
\* grid that always fits, not from the last one on.
Handles(h) ==
  LET may == {i \in 1..Count(h) : Columns(h)[i].id \in Resizable}
  IN  {i \in 1..Count(h) : may # {} /\ i >= Min(may) /\ (h.fit => i < Max(may))}

\* How far a set of columns can shrink or stretch, from their widths now.
Shrinkable(h, cols) ==
  MapThenSumSet(LAMBDA i : Width(h, i) - Narrowest(Columns(h)[i].id),
                {i \in cols : Columns(h)[i].id \in Resizable})
Stretchable(h, cols) ==
  LET may == {i \in cols : Columns(h)[i].id \in Resizable}
  IN  IF \E i \in may : MaxWidth[Columns(h)[i].id] = 0 THEN Unlimited
      ELSE MapThenSumSet(LAMBDA i : MaxWidth[Columns(h)[i].id] - Width(h, i), may)

\* Mutant of DragStart: the columns on the right may be pushed below their least.
DragStartFree ==
  /\ Does("drag") /\ head.drag = NoDrag /\ head.edit # "refused" /\ Total(head) < MaxTotal
  /\ \E i \in Handles(head) :
       head' = [Committed(head) EXCEPT !.drag =
         [col |-> i, most |-> Stretchable(head, 1..i), least |-> -Shrinkable(head, 1..i),
          widths |-> [j \in 1..Count(head) |-> Width(head, j)]]]

\* The drag ends where a column, of those left of the edge or in a grid that
\* always fits right of it, is at its limit.
DragStart ==
  /\ Does("drag") /\ head.drag = NoDrag /\ head.edit # "refused" /\ Total(head) < MaxTotal
  /\ \E i \in Handles(head) :
       LET right == (i + 1)..Count(head)
           most  == Shorter(IF head.fit THEN Shrinkable(head, right) ELSE Unlimited, Stretchable(head, 1..i))
           least == Shorter(Shrinkable(head, 1..i), IF head.fit THEN Stretchable(head, right) ELSE Unlimited)
       IN  head' = [Committed(head) EXCEPT !.drag =
             [col |-> i, most |-> most, least |-> -least,
              widths |-> [j \in 1..Count(head) |-> Width(head, j)]]]

\* x is shared out over the columns in an order: each takes what it can.
ShareX(h, order, x) ==
  LET share(t, i) ==
        LET id  == Columns(h)[i].id
            old == h.drag.widths[i]
            stop == IF t.x < 0 THEN Narrowest(id) ELSE MaxWidth[id]
            all == \/ t.x = 0
                   \/ t.x < 0 /\ old + t.x >= stop
                   \/ t.x > 0 /\ (stop = 0 \/ stop - old >= t.x)
        IN  IF id \notin Resizable THEN t
            ELSE IF all THEN [w |-> [t.w EXCEPT ![i] = old + t.x], x |-> 0]
            ELSE [w |-> [t.w EXCEPT ![i] = stop], x |-> t.x - (stop - old)]
  IN  FoldLeft(share, [w |-> [i \in 1..Count(h) |-> Width(h, i)], x |-> x], order).w

Dragged(h, d) ==
  LET i == h.drag.col
      left(k) == WithWidths(k, ShareX(k, [n \in 1..i |-> i + 1 - n], d))
      right(k) == IF h.fit THEN WithWidths(k, ShareX(k, [n \in 1..(Count(h) - i) |-> i + n], -d)) ELSE k
  IN  right(left(h))

\* Only the headers follow the edge.  The strips are moved apart by a width
\* that leaves out frozen columns right of the edge that cannot be resized.
MoveApart(h, l) ==
  IF h.frozen = 0 \/ l = h.canvas.l THEN h ELSE [h EXCEPT !.strip.l = l + Slack, !.panes.header = l]
PassedOver(h) ==
  {j \in 1..Count(h) : ~OnRight(h, j) /\ (h.fit /\ j > h.drag.col => Columns(h)[j].id \in Resizable)}

Drag ==
  /\ head.drag # NoDrag
  /\ \E pull \in Pulls :
       LET d == Shorter(head.drag.most, Longer(head.drag.least, pull))
           followed(h) == ApplyColumnHeaderWidths(MoveApart(h, WidthOf(h, PassedOver(h))))
       IN  head' = followed(Dragged(head, d))

DragEnd ==
  /\ head.drag # NoDrag
  /\ head' = UpdateCanvasWidth([head EXCEPT !.drag = NoDrag], TRUE)

\* A cell is edited: its text is one the column takes, or one it refuses.
EditCell ==
  /\ Does("edit")
  /\ head.drag = NoDrag
  /\ \E edit \in {"accepted", "refused"} : head' = [head EXCEPT !.edit = edit]

ColumnsNext ==
  \/ ShowColumns \/ ChangeOptions \/ WindowResize \/ RowsChange \/ HeaderClick \/ Reorder
  \/ DragStart \/ Drag \/ DragEnd \/ EditCell

ColumnsSpec == ColumnsInit /\ [][ColumnsNext]_head

-----------------------------------------------------------------------------
(* properties *)

\* Types of the variable.
ColumnsTypeOK ==
  /\ head.shown \in DOMAIN Lists \cup {"own"}
  /\ \A i \in 1..Count(head) : Width(head, i) \in Nat \ {0}
  /\ head.frozen \in 0..2 /\ {head.fit, head.vscroll, head.hscroll, head.split} \subseteq BOOLEAN
  /\ head.drag = NoDrag \/ head.drag.col \in 1..Count(head)
  /\ head.edit \in {"none", "accepted", "refused"}

\* Whatever has been changed, and by which way, what is on the screen belongs
\* to the columns as they are: headers with their sort marks, cell positions,
\* style rules, canvases and panes (createColumnHeaders, updateColumnCaches,
\* applyColumnWidths, updateCanvasWidth) - except while a header is dragged.
ColumnsOnScreen ==
  head.drag = NoDrag =>
    /\ head.headers = Columns(head)
    /\ head.pos = Positions(head)
    /\ head.rules = [i \in 1..Count(head) |-> RuleOf(head, i)]
    /\ head.canvas = CanvasWidth(head)
    /\ head.split = (head.frozen > 0) /\ (head.scroller = "right") = head.split
    /\ head.split => /\ head.panes = Panes(head) /\ head.strip = HeadersWidth(head)
                     /\ head.hscroll = (Total(head) > head.viewW - Bar)
    /\ head.marks = Marks(head)

\* No way of resizing leaves a column narrower than its minimum, nor, unless
\* it is stretched to fit the window, wider than its maximum.
WidthsInLimits ==
  \A i \in 1..Count(head) :
    LET id == Columns(head)[i].id
    IN  /\ Width(head, i) >= MinWidth[id]
        /\ MaxWidth[id] # 0 /\ ~head.fit => Width(head, i) <= MaxWidth[id]

\* A grid that fits its columns to the window fills it, unless they are all at
\* their limits (autosizeColumns); as every column grows by one at least, it may
\* be one too wide for each but the last.  The rows must not change during a
\* drag: the widths that the drag started with are brought back then.
FitsWindow ==
  LET left == {i \in 1..Count(head) : Columns(head)[i].id \in Resizable}
      id(i) == Columns(head)[i].id
  IN  (head.fit /\ ~({"rows", "drag"} \subseteq head.jobs)) =>
        \/ Total(head) \in Available(head)..(Available(head) + Count(head) - 1)
        \/ Total(head) > Available(head) /\ \A i \in left : Width(head, i) = Narrowest(id(i))
        \/ /\ Total(head) < Available(head)
           /\ \A i \in left : MaxWidth[id(i)] # 0 /\ Width(head, i) >= MaxWidth[id(i)]

\* However columns, window, options and header edges were moved, the widths are
\* ones that the columns may have and that the window asks for.
WidthsRight == WidthsInLimits /\ FitsWindow

\* What the drag of an edge takes from the columns on one side, in a grid that
\* fits its columns, the others get; else no column right of the edge changes.
DragGivesAndTakes ==
  [][Drag => IF head.fit THEN Total(head') = Total(head) \/ "rows" \in head.jobs
             ELSE \A j \in (head.drag.col + 1)..Count(head) : Width(head', j) = Width(head, j)]_head
=============================================================================
