------------------------------ MODULE DataView ------------------------------
(***************************************************************************)
(* The data view of the budget page: Slick.Data.DataView                   *)
(* (war/SlickGrid-master/slick.dataview.js).  It keeps the items of the    *)
(* page and computes from them the rows the grid shows: filtered, cut to a *)
(* page, and grouped under headers and totals rows.  Every operation ends  *)
(* in refresh(), which tells the listeners what has changed, so an         *)
(* operation is an operator from a view to the view after it, and the      *)
(* notifications it gave are the field "told" of the view it returns.      *)
(*                                                                         *)
(* Positions and rows count from 1, pages from 0.  The refresh hints,      *)
(* which no caller sets, and the compilation of the filter are left out.   *)
(***************************************************************************)
EXTENDS Integers, FiniteSets, SequencesExt, SeqFilter

\* An item is a record with kind "item", an id, the fields it is grouped and
\* filtered by, its value, and the three fields the page's sum looks at
\* (forecast, dotted, multi).
IsItem(r)   == r.kind = "item"
IsGroup(r)  == r.kind = "group"
IsTotals(r) == r.kind = "totals"

\* One level of grouping; sums says that it has aggregators.
Level(field, sums, collapsed) ==
  [field |-> field, sums |-> sums, aggregateCollapsed |-> sums, collapsed |-> collapsed]

Quiet == [paging |-> FALSE, count |-> FALSE, changed |-> {}]

NoFilter == [on |-> "none"]

EmptyView ==
  [items |-> <<>>, idx |-> <<>>, rows |-> <<>>, filter |-> NoFilter,
   grouping |-> <<>>, toggled |-> <<>>, pagesize |-> 0, pagenum |-> 0,
   totalRows |-> 0, suspended |-> FALSE, updated |-> {}, told |-> Quiet]

CeilDiv(a, b) == (a + b - 1) \div b
Smaller(a, b) == IF a < b THEN a ELSE b
Larger(a, b)  == IF a < b THEN b ELSE a

-----------------------------------------------------------------------------
(* filtering, paging and grouping *)

\* The filter is a field and the value it must have.
Passes(filter, item) == filter.on = "none" \/ item[filter.on] = filter.value

Filtered(v) == OnlyIn(v.items, {r \in ToSet(v.items) : Passes(v.filter, r)})

\* The page number is corrected only when the page begins after the last item,
\* and then to the page that begins at or before it.
PageOf(v, n) ==
  IF v.pagesize > 0 /\ n < v.pagenum * v.pagesize THEN n \div v.pagesize ELSE v.pagenum

PageRows(v, kept) ==
  LET first == v.pagesize * PageOf(v, Len(kept))
  IN  IF v.pagesize = 0 THEN kept
      ELSE SubSeq(kept, first + 1, Smaller(first + v.pagesize, Len(kept)))

\* The values of a field, in the order in which the rows show them first.
ValuesOf(rows, field) ==
  FoldLeft(LAMBDA vals, r : IF Contains(vals, r[field]) THEN vals ELSE Append(vals, r[field]),
           <<>>, rows)

\* The page's Sum aggregator: forecasts only, and of a multi-brand project only
\* the rows of its brands.
Counted(r) == r.forecast /\ r.dotted = r.multi
SumOf(rows) == FoldLeft(LAMBDA sum, r : IF Counted(r) THEN sum + r.value ELSE sum, 0, rows)

GroupRow(level, key, rows, collapsed, sums) ==
  [kind |-> "group", level |-> level, key |-> key, count |-> Len(rows), collapsed |-> collapsed,
   title |-> IF sums THEN Len(ValuesOf(rows, "project")) ELSE 0]

TotalsRow(key, rows) == [kind |-> "totals", key |-> key, sum |-> SumOf(rows)]

Collapsed(v, level, key) == v.grouping[level].collapsed # (key \in v.toggled[level])

\* Items that are still to be divided, all with the values in key.
Bunch(key, rows) == [kind |-> "bunch", key |-> key, rows |-> rows]

GroupOf(v, level, bunch, value) ==
  LET gi     == v.grouping[level]
      key    == Append(bunch.key, value)
      own    == OnlyIn(bunch.rows, {r \in ToSet(bunch.rows) : r[gi.field] = value})
      hidden == Collapsed(v, level, key)
  IN  <<GroupRow(level, key, own, hidden, gi.sums)>>
      \o (IF hidden THEN <<>> ELSE <<Bunch(key, own)>>)
      \o (IF gi.sums /\ (~hidden \/ gi.aggregateCollapsed) THEN <<TotalsRow(key, own)>> ELSE <<>>)

Divided(v, level, bunch) ==
  LET vals == ValuesOf(bunch.rows, v.grouping[level].field)
  IN  FlattenSeq([i \in DOMAIN vals |-> GroupOf(v, level, bunch, vals[i])])

\* The code goes down into a group before it takes up the next, here all groups
\* of a level are divided at a time; the rows are the same.
DividedAll(v, level, s) ==
  FlattenSeq([i \in DOMAIN s |-> IF s[i].kind = "bunch" THEN Divided(v, level, s[i]) ELSE <<s[i]>>])
Opened(s) == FlattenSeq([i \in DOMAIN s |-> IF s[i].kind = "bunch" THEN s[i].rows ELSE <<s[i]>>])

Grouped(v, rows) ==
  Opened(FoldLeft(LAMBDA s, level : DividedAll(v, level, s), <<Bunch(<<>>, rows)>>, [l \in DOMAIN v.grouping |-> l]))

RowsOf(v) == Grouped(v, PageRows(v, Filtered(v)))

-----------------------------------------------------------------------------
(* recalc and refresh *)

SameGroup(a, b) ==
  IsGroup(b) /\ \A f \in {"count", "collapsed", "title"} : a[f] = b[f] /\ Last(a.key) = Last(b.key)

\* Mutant of Differs: a totals row is compared like an item, by its id.
DiffersTotalsAlike(v, new, old) ==
  \/ new.kind # old.kind
  \/ IsGroup(new) /\ ~SameGroup(new, old)
  \/ IsItem(new) /\ (new.id # old.id \/ new.id \in v.updated)

\* getRowDiffs: what counts as a change of one row.
Differs(v, new, old) ==
  LET special == v.grouping # <<>> /\ ~(IsItem(new) /\ IsItem(old))
  IN  \/ special /\ IsGroup(new) # IsGroup(old)
      \/ IsGroup(new) /\ ~SameGroup(new, old)
      \/ special /\ (IsTotals(new) \/ IsTotals(old))
      \/ IsItem(new) # IsItem(old)
      \/ IsItem(new) /\ (new.id # old.id \/ new.id \in v.updated)

RowDiffs(v, new) ==
  {i \in DOMAIN new : i \notin DOMAIN v.rows \/ Differs(v, new[i], v.rows[i])}

Refresh(v) ==
  IF v.suspended THEN [v EXCEPT !.told = Quiet]
  ELSE LET new == RowsOf(v)
           n   == Len(Filtered(v))
       IN  [v EXCEPT !.rows = new, !.totalRows = n, !.pagenum = PageOf(v, n), !.updated = {},
                     !.told = [paging  |-> n # v.totalRows,
                               count   |-> Len(new) # Len(v.rows),
                               changed |-> RowDiffs(v, new)]]

-----------------------------------------------------------------------------
(* the operations *)

BeginUpdate(v) == [v EXCEPT !.suspended = TRUE, !.told = Quiet]

\* Mutant of EndUpdate: the suspended refresh is not made up for.
EndUpdateOnly(v) == [v EXCEPT !.suspended = FALSE, !.told = Quiet]

EndUpdate(v) == Refresh([v EXCEPT !.suspended = FALSE])

\* updateIdxById: the positions from the given one on are entered again.
Indexed(idx, items, from) ==
  LET at == [id \in {items[i].id : i \in from..Len(items)} |->
               SelectLastInSeq(items, LAMBDA r : r.id = id)]
  IN  [id \in DOMAIN idx \cup DOMAIN at |-> IF id \in DOMAIN at THEN at[id] ELSE idx[id]]

SetItems(v, items) ==
  Refresh([v EXCEPT !.items = items, !.idx = Indexed(<<>>, items, 1)])

PageBelow(v, pagenum, pagesize) ==
  Smaller(pagenum, Larger(0, CeilDiv(v.totalRows, pagesize) - 1))

SetPagesize(v, size) ==
  LET w == [v EXCEPT !.pagesize = size,
                     !.pagenum = IF size = 0 THEN 0 ELSE PageBelow(v, v.pagenum, size)]
      r == Refresh(w)
  IN  [r EXCEPT !.told.paging = TRUE]

SetPagenum(v, n) ==
  LET r == Refresh([v EXCEPT !.pagenum = PageBelow(v, n, v.pagesize)])
  IN  [r EXCEPT !.told.paging = TRUE]

\* Rows of the same value stay in their order.
SortedBy(field, s) ==
  FoldLeft(LAMBDA t, r : InsertAt(t, 1 + Cardinality({i \in DOMAIN t : t[i][field] <= r[field]}), r), <<>>, s)

SortItems(v, field, ascending) ==
  LET items == IF ascending THEN SortedBy(field, v.items) ELSE Reverse(SortedBy(field, Reverse(v.items)))
  IN  Refresh([v EXCEPT !.items = items, !.idx = Indexed(<<>>, items, 1)])

SetFilter(v, filter) == Refresh([v EXCEPT !.filter = filter])

SetGrouping(v, levels) ==
  Refresh([v EXCEPT !.grouping = levels, !.toggled = [l \in DOMAIN levels |-> {}]])

UpdateItem(v, item) ==
  Refresh([v EXCEPT !.items[v.idx[item.id]] = item, !.updated = @ \cup {item.id}])

InsertItem(v, before, item) ==
  LET items == InsertAt(v.items, before, item)
  IN  Refresh([v EXCEPT !.items = items, !.idx = Indexed(@, items, before)])

AddItem(v, item) == InsertItem(v, Len(v.items) + 1, item)

DeleteItem(v, id) ==
  LET items == RemoveAt(v.items, v.idx[id])
      left  == [i \in DOMAIN v.idx \ {id} |-> v.idx[i]]
  IN  Refresh([v EXCEPT !.items = items, !.idx = Indexed(left, items, v.idx[id])])

ExpandCollapseAll(v, levels, collapse) ==
  Refresh([v EXCEPT
    !.toggled  = [l \in DOMAIN @ |-> IF l \in levels THEN {} ELSE @[l]],
    !.grouping = [l \in DOMAIN @ |-> IF l \in levels THEN [@[l] EXCEPT !.collapsed = collapse]
                                     ELSE @[l]]])

\* The toggle of a group is relative to its level: exclusive or.
ExpandCollapseGroup(v, key, collapse) ==
  LET l == Len(key)
  IN  Refresh([v EXCEPT !.toggled[l] = IF v.grouping[l].collapsed # collapse
                                       THEN @ \cup {key} ELSE @ \ {key}])

\* The page changes the fields of an item it holds: items and rows refer to the
\* same object, and nobody is told.
ChangeInPlace(v, id, value) ==
  LET Set(s) == [i \in DOMAIN s |-> IF IsItem(s[i]) /\ s[i].id = id
                                    THEN [s[i] EXCEPT !.value = value] ELSE s[i]]
  IN  [v EXCEPT !.items = Set(@), !.rows = Set(@), !.told = Quiet]

-----------------------------------------------------------------------------
(* looking up *)

RowById(v, id) == SelectLastInSeq(v.rows, LAMBDA r : IsItem(r) /\ r.id = id)
=============================================================================
