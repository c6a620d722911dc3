----------------------------- MODULE MCGridView -----------------------------
(***************************************************************************)
(* The grid on its data view, and the grid's own parts that do not need    *)
(* the data: columns, selection and editors.  A session is about one of    *)
(* them; the others wait.                                                  *)
(***************************************************************************)
EXTENDS GridView, GridColumns, GridSelection, CellEditors, TLC

Item(id, status, project) ==
  [kind |-> "item", id |-> id, status |-> status, project |-> project, value |-> 0,
   forecast |-> id # "b", dotted |-> FALSE, multi |-> FALSE]

MCLoaded == <<Item("a", "New", "p"), Item("b", "New", "q"), Item("c", "Closed", "p")>>
MCNewItem == Item("n", "New", "none")
MCEditCols == {1, 4}
MCTopStops == {0, 1, 5}
MCLeftStops == {0, 3}
Parts == {{"columns"}, {"selection"}, {"editors"}}
\* What one user does together; the space of all of it at once is too large.
MCSessions ==
  {{"create", "click", "type", "fold"}, {"search", "click", "type", "fold"},
   {"keys", "type"}, {"keys", "fold"}, {"page", "click", "type"},
   {"scroll", "click", "type"}, {"scroll", "fold", "click"}, {"scroll", "sideways"},
   {"sideways", "click", "type", "keys"},
   {"items", "paging", "click"}, {"items", "batch", "filter"},
   {"sort", "group", "filter", "click"}, {"paging", "fold", "click"}} \cup Parts

Column(id, width) == [id |-> id, width |-> width]
MCMinWidth == ("a" :> 2 @@ "b" :> 3 @@ "c" :> 1 @@ "d" :> 2)
MCMaxWidth == ("a" :> 0 @@ "b" :> 5 @@ "c" :> 0 @@ "d" :> 6)
MCLists == [all |-> <<Column("a", 4), Column("b", 4), Column("c", 3), Column("d", 3)>>,
            few |-> <<Column("a", 3), Column("d", 3)>>]
MCPulls == {-4, -1, 3}
MCColumnJobs ==
  {{"drag", "rows"}, {"drag", "hide", "window"}, {"sort", "hide", "edit"}, {"reorder", "hide"},
   {"reorder", "options"}, {"edit", "hide", "window", "options"}, {"window", "rows", "options"}}

MCRowLists == {<<"h", "x", "y">>, <<"h", "y">>, <<"h", "x", "h", "y", "z">>}
MCSelectionJobs ==
  {{"click", "arrow", "drag"}, {"click", "arrow", "rows"}, {"drag", "rows", "select"},
   {"flags", "select", "rows", "scroll"}, {"click", "scroll", "rows", "arrow"},
   {"drag", "scroll"}, {"drag", "flags"}}

MCNaN == -1
Fact(number, whole, decimal, length, dotted) ==
  [number |-> number, whole |-> whole, decimal |-> decimal, length |-> length, dotted |-> dotted]
Word(length) == Fact(-1, -1, -1, length, FALSE)
\* Numbers are in tenths.
MCFacts ==
  ("" :> Fact(0, -1, -1, 0, FALSE) @@ "7" :> Fact(70, 70, 70, 1, FALSE)
   @@ "7.5" :> Fact(75, 70, 75, 3, TRUE) @@ "0" :> Fact(0, 0, 0, 1, FALSE)
   @@ "7x" :> Fact(-1, 70, 70, 2, FALSE) @@ "1e1" :> Fact(100, 10, 100, 3, FALSE) @@ "1" :> Fact(10, 10, 10, 1, FALSE)
   @@ "10" :> Fact(100, 100, 100, 2, FALSE)
   @@ "123456" :> Fact(1234560, 1234560, 1234560, 6, FALSE)
   @@ " " :> Fact(0, -1, -1, 1, FALSE) @@ "x" :> Word(1) @@ "<" :> Word(1) @@ "&lt;" :> Word(4) @@ "yes" :> Word(3) @@ "no" :> Word(2))
MCNumberText == (0 :> "0" @@ 10 :> "1" @@ 70 :> "7" @@ 75 :> "7.5" @@ 100 :> "10" @@ 1234560 :> "123456")
Swap(s, from, to) == IF s = from THEN to ELSE s
MCEscape == [s \in DOMAIN MCFacts |-> Swap(Swap(s, "<", "&lt;"), " ", "")]
MCUnescape == [s \in DOMAIN MCFacts |-> Swap(s, "&lt;", "<")]
MCTypedIn ==
  [Auto |-> {"x", "<"}, Text |-> {"", "x", "<"}, Integer |-> {"", "7.5", "7x", "1e1"}, Date |-> {"", "x"},
   YesNoSelect |-> {"yes", "no"}, Checkbox |-> {"yes", "no"}, PercentComplete |-> {"", "7x", "x"},
   LongText |-> {"x", " ", "<", "&lt;"}, FloatText |-> {"", "7", "x", "7.5"}, GMemoriText |-> {"", "123456", "7", "7x"},
   PONumberText |-> {"", "1e1", "7.5"}, PercentageAllocationText |-> {"", "7.5", "7x"}]
Pair(k1, v1, k2, v2) == [kind |-> [main |-> k1, popup |-> k2], value |-> [main |-> v1, popup |-> v2]]
MCCellPairs ==
  {Pair("GMemoriText", v, "Text", Text("x")) : v \in {Number(0), Missing, Text("123456")}}
  \cup {Pair("FloatText", v, "PercentageAllocationText", w) : v \in {Missing, Number(75), Text("x")}, w \in {Text("7"), Missing}}
  \cup {Pair("LongText", v, "Auto", Number(0)) : v \in {Missing, Text(" "), Text("&lt;"), Text("x")}}
  \cup {Pair("PONumberText", v, "PercentComplete", w) : v \in {Text("10"), Missing}, w \in {Number(75), Number(70)}}
  \cup {Pair("Integer", v, "YesNoSelect", Missing) : v \in {Text("7"), Missing}}
  \cup {Pair("Date", Missing, "Checkbox", Missing)}

-----------------------------------------------------------------------------
IdleColumns   == head = FirstColumns(0, FALSE, FALSE, Min(Windows), {})
IdleSelection == sel = FirstSelection(<<"h", "y">>, "no", {})
IdleEditors   == cell = FirstEditors(Pair("Date", Missing, "Checkbox", Missing), FALSE)

MCInit ==
  /\ Init
  /\ IF doing = {"columns"} THEN ColumnsInit ELSE IdleColumns
  /\ IF doing = {"selection"} THEN SelectionInit ELSE IdleSelection
  /\ IF doing = {"editors"} THEN EditorsInit ELSE IdleEditors

InGrid == doing \notin Parts /\ UNCHANGED <<head, sel, cell>>
InColumns == doing = {"columns"} /\ UNCHANGED <<vars, sel, cell>>
InSelection == doing = {"selection"} /\ UNCHANGED <<vars, head, cell>>
InEditors == doing = {"editors"} /\ UNCHANGED <<vars, head, sel>>

MCNext ==
  \/ InGrid /\ ScrollDown
  \/ InGrid /\ ScrollSideways
  \/ InGrid /\ RenderTimer
  \/ InGrid /\ FollowTimer
  \/ InGrid /\ Click
  \/ InGrid /\ ClickToggle
  \/ InGrid /\ SpaceKey
  \/ InGrid /\ Type
  \/ InGrid /\ ArrowKey
  \/ InGrid /\ EnterKey
  \/ InGrid /\ EscapeKey
  \/ InGrid /\ PageKey
  \/ InGrid /\ Search
  \/ InGrid /\ Create
  \/ InGrid /\ Answer
  \/ InGrid /\ DataCall
  \/ InColumns /\ ShowColumns
  \/ InColumns /\ ChangeOptions
  \/ InColumns /\ WindowResize
  \/ InColumns /\ RowsChange
  \/ InColumns /\ HeaderClick
  \/ InColumns /\ Reorder
  \/ InColumns /\ DragStart
  \/ InColumns /\ Drag
  \/ InColumns /\ DragEnd
  \/ InColumns /\ EditCell
  \/ InSelection /\ ClickCell
  \/ InSelection /\ EndEdit
  \/ InSelection /\ ShiftArrow
  \/ InSelection /\ DragBegin
  \/ InSelection /\ DragOver
  \/ InSelection /\ DragFinish
  \/ InSelection /\ ItemsChange
  \/ InSelection /\ ScrollRows
  \/ InSelection /\ SetFlags
  \/ InSelection /\ RemoveFlags
  \/ InSelection /\ SelectRows
  \/ InEditors /\ ShowPopup
  \/ InEditors /\ HidePopup
  \/ InEditors /\ ClickEditable
  \/ InEditors /\ Leave
  \/ InEditors /\ SaveLongText
  \/ InEditors /\ EnterCell
  \/ InEditors /\ CancelEdit
  \/ InEditors /\ TypeText
  \/ InEditors /\ ScrollEditor
  \/ InEditors /\ DrawAnew
  \/ InEditors /\ LoadEditor

MCSpec == MCInit /\ [][MCNext]_<<vars, head, sel, cell>>

\* The types of all four parts.
TypesOK == TypeOK /\ ColumnsTypeOK /\ SelTypeOK /\ EditorsTypeOK
=============================================================================
