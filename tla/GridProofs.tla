----------------------------- MODULE GridProofs -----------------------------
(***************************************************************************)
(* The editors of the grid: one is open at a time, a value that its editor *)
(* rejects is kept there and not stored, and one it accepts is stored as   *)
(* it was typed, for any texts, any meaning of them and any cells, whether *)
(* editors are opened at once or by timers.  The columns: what is on the   *)
(* screen belongs to them, for any lists of columns, widths and windows.   *)
(* The selection: it is shown as it is and follows its items, for any      *)
(* lists of items and any session.                                         *)
(***************************************************************************)
EXTENDS CellEditors, GridColumns, GridSelection, DataLemmas

Fields == {"front", "lock", "async", "thrown", "kind", "value", "at", "timer", "editor"}

\* The form of the state, which all steps keep ...
Form(c) ==
  /\ DOMAIN c = Fields
  /\ DOMAIN c.editor = Grids /\ DOMAIN c.timer = Grids /\ DOMAIN c.at = Grids /\ DOMAIN c.value = Grids
  /\ \A g \in Grids : "open" \in DOMAIN c.editor[g]
  /\ \A g \in Grids : c.kind[g] \in DOMAIN Editors
  /\ c.lock \in Grids \cup {"none"} /\ c.front \in Grids

\* ... and what makes one editor at a time hold: an editor is open in the grid
\* that has the lock, and only where timers open editors can one find it taken.
Exclusive(c) ==
  /\ \A g \in Grids : c.editor[g].open <=> c.lock = g
  /\ c.thrown => c.async
  /\ \A g \in Grids : c.timer[g] => c.async /\ c.lock # g

Good(c) == Form(c) /\ Exclusive(c)

-----------------------------------------------------------------------------
(* what the operations on a grid do *)

LEMMA NormalGood ==
  ASSUME NEW c, Good(c), NEW g \in Grids
  PROVE  LET n == MakeActiveCellNormal(c, g)
         IN  /\ Good(n) /\ n.async = c.async /\ n.value = c.value
             /\ n.lock = IF c.lock = g THEN "none" ELSE c.lock
BY DEF Good, Form, Exclusive, Fields, MakeActiveCellNormal, OpenIn, Closed, Grids

LEMMA EditableGood ==
  ASSUME NEW c, Good(c), NEW g \in Grids, c.lock \in {"none", g} \/ c.async
  PROVE  Good(MakeActiveCellEditable(c, g))
<1> DEFINE e == [open |-> TRUE, before |-> LoadedValue(KindOf(c, g), c.value[g]), typed |-> FALSE,
                 text |-> ShownText(KindOf(c, g), LoadedValue(KindOf(c, g), c.value[g]))]
<1>1. "open" \in DOMAIN e /\ e.open
  OBVIOUS
<1>2. CASE c.at[g] = "cell" /\ c.lock \in {"none", g}
  <2> DEFINE n == [c EXCEPT !.timer[g] = FALSE, !.lock = g, !.editor[g] = e]
  <2>1. MakeActiveCellEditable(c, g) = n
    BY <1>2 DEF MakeActiveCellEditable
  <2> HIDE DEF e
  <2>2. /\ DOMAIN n = Fields /\ n.lock = g
        /\ n.timer = [c.timer EXCEPT ![g] = FALSE] /\ n.editor = [c.editor EXCEPT ![g] = e]
        /\ n.kind = c.kind /\ n.front = c.front /\ n.async = c.async /\ n.thrown = c.thrown
        /\ n.at = c.at /\ n.value = c.value
    BY DEF Good, Form, Fields
  <2> HIDE DEF n
  <2>3. Form(n)
    BY <1>1, <2>2 DEF Good, Form
  <2>4. Exclusive(n)
    BY <1>1, <1>2, <2>2 DEF Good, Form, Exclusive, Grids
  <2> QED BY <2>1, <2>3, <2>4 DEF Good
<1>3. CASE ~(c.at[g] = "cell" /\ c.lock \in {"none", g})
  BY <1>3 DEF MakeActiveCellEditable, Good, Form, Exclusive, Fields, Grids
<1> QED BY <1>2, <1>3

LEMMA TextGood ==
  ASSUME NEW c, Good(c), NEW g \in Grids, NEW x
  PROVE  LET n == [c EXCEPT !.editor[g].text = x]
         IN  Good(n) /\ n.value = c.value /\ n.async = c.async /\ n.lock = c.lock
BY DEF Good, Form, Exclusive, Fields

LEMMA ValueGood ==
  ASSUME NEW c, Good(c), NEW g \in Grids, NEW x
  PROVE  LET n == [c EXCEPT !.value[g] = x]
         IN  Good(n) /\ n.async = c.async /\ n.lock = c.lock
BY DEF Good, Form, Exclusive, Fields

\* The edit of a grid is committed: its lock is free then, or it is refused.
LEMMA CommitGood ==
  ASSUME NEW c, Good(c), NEW g \in Grids
  PROVE  LET r == CommitCurrentEdit(c, g)
         IN  /\ Good(r.c) /\ r.c.async = c.async
             /\ r.ok => r.c.lock = IF c.lock = g THEN "none" ELSE c.lock
             /\ Rejected(c, g) => ~r.ok /\ r.c.value = c.value /\ r.c.lock = c.lock
<1> DEFINE shown == [c EXCEPT !.editor[g].text = ShownText(KindOf(c, g), c.editor[g].before)]
           kept == IF KindOf(c, g).resets THEN shown ELSE c
           new == [c EXCEPT !.value[g] = SerializeValue(KindOf(c, g), c.editor[g].text)]
           store == OpenIn(c, g) /\ IsValueChanged(KindOf(c, g), c.editor[g].text, c.editor[g].before)
           stored == IF store THEN new ELSE c
<1>1. Good(kept) /\ kept.value = c.value /\ kept.async = c.async /\ kept.lock = c.lock
  <2>1. Good(shown) /\ shown.value = c.value /\ shown.async = c.async /\ shown.lock = c.lock
    BY TextGood
  <2> HIDE DEF shown
  <2> QED BY <2>1
<1>2. Good(stored) /\ stored.async = c.async /\ stored.lock = c.lock
  <2>1. Good(new) /\ new.async = c.async /\ new.lock = c.lock
    BY ValueGood
  <2> HIDE DEF new, store
  <2> QED BY <2>1
<1>3. CommitCurrentEdit(c, g) = IF Rejected(c, g) THEN [ok |-> FALSE, c |-> kept]
                                ELSE [ok |-> TRUE, c |-> MakeActiveCellNormal(stored, g)]
  BY DEF CommitCurrentEdit
<1> HIDE DEF kept, stored
<1>4. CASE Rejected(c, g)
  BY <1>1, <1>3, <1>4
<1>5. CASE ~Rejected(c, g)
  BY <1>2, <1>3, <1>5, NormalGood
<1> QED BY <1>4, <1>5

LEMMA LockCommitGood ==
  ASSUME NEW c, Good(c)
  PROVE  LET r == LockCommit(c)
         IN  /\ Good(r.c) /\ r.c.async = c.async
             /\ r.ok => r.c.lock = "none"
             /\ \A h \in Grids : Rejected(c, h) => ~r.ok /\ r.c.value = c.value /\ r.c.lock = h
<1>1. \A h \in Grids : Rejected(c, h) => c.lock = h
  BY DEF Rejected, OpenIn, Good, Exclusive
<1>2. CASE c.lock = "none"
  BY <1>1, <1>2 DEF LockCommit, Grids
<1>3. CASE c.lock \in Grids
  BY <1>1, <1>3, CommitGood DEF LockCommit, Grids
<1> QED BY <1>2, <1>3 DEF Good, Form

LEMMA SetActiveGood ==
  ASSUME NEW c, Good(c), NEW g \in Grids, c.lock = "none", NEW at
  PROVE  Good(SetActiveCell(c, g, at))
<1> DEFINE n == MakeActiveCellNormal(c, g)
           s == [n EXCEPT !.at[g] = at]
           t == [s EXCEPT !.timer[g] = TRUE]
<1>1. Good(n) /\ n.lock = "none" /\ n.async = c.async
  BY NormalGood
<1> HIDE DEF n
<1>2. Good(s) /\ s.lock = "none" /\ s.async = c.async
  BY <1>1 DEF Good, Form, Exclusive, Fields
<1> HIDE DEF s
<1>3. c.async => Good(t)
  BY <1>2 DEF Good, Form, Exclusive, Fields, Grids
<1>4. Good(MakeActiveCellEditable(s, g))
  BY <1>2, EditableGood
<1> HIDE DEF t
<1>5. SetActiveCell(c, g, at) \in {s, MakeActiveCellEditable(s, g)} \/ (c.async /\ SetActiveCell(c, g, at) = t)
  BY <1>2 DEF SetActiveCell, s, n, t
<1> QED BY <1>2, <1>3, <1>4, <1>5

LEMMA GoToGood ==
  ASSUME NEW c, Good(c), NEW g \in Grids, NEW at
  PROVE  LET n == GoTo(c, g, at)
         IN  Good(n) /\ \A h \in Grids : Rejected(c, h) => n.value = c.value /\ n.lock = h
BY LockCommitGood, SetActiveGood DEF GoTo

-----------------------------------------------------------------------------
(* the invariant and the theorems *)

EditorsInv == Good(cell)

LEMMA InitGood == EditorsInit => EditorsInv
<1> SUFFICES ASSUME NEW start \in CellPairs, NEW async \in Asynchronous,
                    cell = FirstEditors(start, async)
             PROVE  Good(cell)
  BY DEF EditorsInit, EditorsInv
<1> QED BY CellsAssumption DEF FirstEditors, Good, Form, Exclusive, Fields, Closed, Grids

\* What a step does: it keeps the state good, and a rejected value where it is.
Kept(c, n) == \A h \in Grids : Rejected(c, h) => n.value[h] = c.value[h] /\ OpenIn(n, h)

LEMMA Holder == ASSUME NEW c, Good(c), NEW h \in Grids, OpenIn(c, h) PROVE c.lock = h
BY DEF Good, Exclusive, OpenIn

LEMMA GoToKept ==
  ASSUME NEW c, Good(c), NEW g \in Grids, NEW at
  PROVE  Good(GoTo(c, g, at)) /\ Kept(c, GoTo(c, g, at))
BY GoToGood DEF Kept, Good, Exclusive, OpenIn

\* The editor of long texts accepts all.
LEMMA EscapesAccepts ==
  ASSUME NEW c, Good(c), NEW g \in Grids, KindOf(c, g).escapes
  PROVE  ~Rejected(c, g)
<1>1. LongTextEditor.accepts = "all"
  BY DEF LongTextEditor, EditorOf
<1>2. /\ ~AutoCompleteEditor.escapes /\ ~TextEditor.escapes /\ ~IntegerEditor.escapes
      /\ ~DateEditor.escapes /\ ~YesNoSelectEditor.escapes /\ ~CheckboxEditor.escapes
      /\ ~PercentCompleteEditor.escapes /\ ~FloatEditor.escapes /\ ~GMemoriEditor.escapes
      /\ ~PONumberEditor.escapes /\ ~PercentageAllocationEditor.escapes
  BY DEF EditorOf, AutoCompleteEditor, TextEditor, IntegerEditor, DateEditor, YesNoSelectEditor,
         CheckboxEditor, PercentCompleteEditor, FloatEditor, GMemoriEditor, PONumberEditor,
         PercentageAllocationEditor
<1>3. \A k \in DOMAIN Editors : Editors[k].escapes => Editors[k] = LongTextEditor
  BY <1>2 DEF Editors
<1>4. KindOf(c, g).accepts = "all"
  BY <1>1, <1>3 DEF Good, Form, KindOf
<1> QED BY <1>4 DEF Rejected, Validate

\* Only the grid with the lock can have a rejected value.
LEMMA KeptByHolder ==
  ASSUME NEW c, Good(c), NEW g \in Grids, OpenIn(c, g), ~Rejected(c, g), NEW n
  PROVE  Kept(c, n)
BY DEF Kept, Rejected, OpenIn, Good, Exclusive

LEMMA StepGood ==
  ASSUME Good(cell), EditorsNext
  PROVE  Good(cell') /\ (Kept(cell, cell') \/ ((CancelEdit \/ DrawAnew) /\ cell'.value = cell.value))
<1>1. cell.front \in Grids
  BY DEF Good, Form
<1>2. CASE ShowPopup
  <2> DEFINE n == GoTo(cell, "main", "other")
  <2>1. Good(n) /\ Kept(cell, n)
    BY GoToKept DEF Grids
  <2> HIDE DEF n
  <2>2. cell' = [n EXCEPT !.front = "popup"]
    BY <1>2 DEF ShowPopup, n
  <2> QED BY <2>1, <2>2 DEF Good, Form, Exclusive, Fields, Kept, OpenIn, Grids
<1>3. CASE HidePopup
  BY <1>3 DEF HidePopup, Good, Form, Exclusive, Fields, Kept, OpenIn, Rejected, Grids
<1>4. CASE ClickEditable
  BY <1>1, <1>4, GoToKept DEF ClickEditable
<1>5. CASE Leave
  BY <1>1, <1>5, GoToKept DEF Leave
<1>6. CASE SaveLongText
  <2> DEFINE g == cell.front
             e == Escaped(cell, g)
  <2>1. Good(e)
    BY <1>1, TextGood DEF Escaped
  <2> HIDE DEF e
  <2>2. Good(cell')
    BY <1>1, <1>6, <2>1, GoToGood DEF SaveLongText, e
  <2>3. ~Rejected(cell, g)
    BY <1>1, <1>6, EscapesAccepts DEF SaveLongText
  <2>4. Kept(cell, cell')
    BY <1>1, <1>6, <2>3, KeptByHolder DEF SaveLongText
  <2> QED BY <2>2, <2>4
<1>7. CASE EnterCell
  <2> DEFINE g == cell.front
             r == LockCommit(cell)
  <2>1. CASE OpenIn(cell, g)
    BY <1>1, <1>7, <2>1, GoToKept DEF EnterCell
  <2>2. CASE ~OpenIn(cell, g)
    <3>1. /\ Good(r.c)
          /\ r.ok => r.c.lock = "none"
          /\ \A h \in Grids : Rejected(cell, h) => ~r.ok /\ r.c.value = cell.value /\ r.c.lock = h
      BY LockCommitGood
    <3> HIDE DEF r
    <3>2. cell' = IF r.ok THEN MakeActiveCellEditable(r.c, g) ELSE r.c
      BY <1>7, <2>2 DEF EnterCell, r
    <3>3. Good(cell')
      BY <1>1, <3>1, <3>2, EditableGood
    <3>4. Kept(cell, cell')
      BY <3>1, <3>2 DEF Kept, Good, Exclusive, OpenIn
    <3> QED BY <3>3, <3>4
  <2> QED BY <2>1, <2>2
<1>8. CASE CancelEdit
  BY <1>8, NormalGood DEF CancelEdit, Good, Form
<1>9. CASE TypeText
  <2> DEFINE g == cell.front
  <2>1. PICK s \in TypedIn[cell.kind[g]] : cell' = [cell EXCEPT !.editor[g].text = s, !.editor[g].typed = TRUE]
    BY <1>9 DEF TypeText
  <2> QED BY <1>1, <2>1 DEF Good, Form, Exclusive, Fields, Kept, OpenIn, Rejected
<1>10. CASE ScrollEditor
  <2> DEFINE g == cell.front
  <2>1. Good(cell')
    BY <1>1, <1>10, TextGood DEF ScrollEditor
  <2>2. ~Rejected(cell, g) /\ OpenIn(cell, g)
    BY <1>1, <1>10, EscapesAccepts DEF ScrollEditor
  <2> QED BY <1>1, <2>1, <2>2, KeptByHolder
<1>11. CASE DrawAnew
  BY <1>11, NormalGood DEF DrawAnew
<1>12. CASE LoadEditor
  <2>1. PICK g \in Grids : cell.timer[g] /\ cell' = MakeActiveCellEditable([cell EXCEPT !.timer[g] = FALSE], g)
    BY <1>12 DEF LoadEditor
  <2> DEFINE n == [cell EXCEPT !.timer[g] = FALSE]
  <2>2. Good(n) /\ n.async /\ n.lock = cell.lock /\ n.value = cell.value /\ n.editor = cell.editor
    BY <2>1 DEF Good, Form, Exclusive, Fields
  <2>3. cell.lock # g
    BY <2>1 DEF Good, Exclusive
  <2> HIDE DEF n
  <2>4. Good(cell')
    BY <2>1, <2>2, EditableGood DEF n
  <2>5. ASSUME NEW h \in Grids, Rejected(cell, h)
        PROVE  cell'.value[h] = cell.value[h] /\ OpenIn(cell', h)
    <3>1. OpenIn(cell, h)
      BY <2>5 DEF Rejected
    <3>2. n.lock \notin {"none", g}
      BY <2>2, <2>3, <3>1, Holder DEF Grids
    <3>3. cell' = n \/ cell' = [n EXCEPT !.timer[g] = FALSE, !.thrown = TRUE]
      BY <2>1, <3>2 DEF MakeActiveCellEditable, n
    <3> QED BY <2>2, <3>1, <3>3 DEF Good, Form, Fields, OpenIn
  <2> QED BY <2>4, <2>5 DEF Kept
<1> QED BY <1>2, <1>3, <1>4, <1>5, <1>6, <1>7, <1>8, <1>9, <1>10, <1>11, <1>12 DEF EditorsNext

\* However clicks, keys and timers interleave in the two grids, no two editors are
\* open, the open one has the lock, and without timers nothing is thrown.
THEOREM OneEditorAtATime == EditorsSpec => []OneEditor
<1>1. EditorsInv /\ [EditorsNext]_cell => EditorsInv'
  BY StepGood DEF EditorsInv
<1>2. EditorsInv => OneEditor
  BY DEF EditorsInv, Good, Exclusive, OneEditor, OpenIn
<1> QED BY InitGood, <1>1, <1>2, PTL DEF EditorsSpec

\* A value that its editor rejects stays there, whatever the user does next in
\* either grid, until the edit is given up; it is never stored.
THEOREM RejectedIsKept == EditorsSpec => RejectedKept
<1> DEFINE A == \A g \in Grids : Rejected(cell, g) =>
                  /\ cell'.value[g] = cell.value[g]
                  /\ OpenIn(cell', g) \/ CancelEdit \/ DrawAnew
<1>1. EditorsInv /\ [EditorsNext]_cell => EditorsInv'
  BY StepGood DEF EditorsInv
<1>2. EditorsInv /\ [EditorsNext]_cell => [A]_cell
  BY StepGood DEF EditorsInv, Kept
<1> HIDE DEF A
<1>3. [][A]_cell => RejectedKept
  BY PTL DEF RejectedKept, A
<1> QED BY InitGood, <1>1, <1>2, <1>3, PTL DEF EditorsSpec

-----------------------------------------------------------------------------
(* what the editors do with a value *)

\* How the kinds of editors differ, as far as a value is concerned.
Acts(e, loads, compares, stores) ==
  e.loads = loads /\ e.compares = compares /\ e.stores = stores /\ ~e.escapes

LEMMA Kinds ==
  ASSUME NEW k \in DOMAIN Editors
  PROVE  LET e == Editors[k]
         IN  \/ /\ k \notin {"YesNoSelect", "PercentComplete"}
                /\ \/ Acts(e, "true values", "text", "text")
                   \/ \E s \in {"text", "whole", "decimal"} : Acts(e, "all", "text", s)
                   \/ Acts(e, "nonzero", "text", "whole")
                   \/ Acts(e, "truth", "choice", "choice")
             \/ k = "YesNoSelect" /\ Acts(e, "all", "text", "choice")
             \/ k = "PercentComplete" /\ Acts(e, "all", "whole", "whole")
             \/ /\ k = "LongText"
                /\ e.loads = "all" /\ e.compares = "text" /\ e.stores = "text" /\ e.escapes
<1>1. /\ Editors["Auto"] = AutoCompleteEditor /\ Editors["Text"] = TextEditor
      /\ Editors["Integer"] = IntegerEditor /\ Editors["Date"] = DateEditor
      /\ Editors["YesNoSelect"] = YesNoSelectEditor /\ Editors["Checkbox"] = CheckboxEditor
      /\ Editors["PercentComplete"] = PercentCompleteEditor /\ Editors["LongText"] = LongTextEditor
      /\ Editors["FloatText"] = FloatEditor /\ Editors["GMemoriText"] = GMemoriEditor
      /\ Editors["PONumberText"] = PONumberEditor
      /\ Editors["PercentageAllocationText"] = PercentageAllocationEditor
  BY DEF Editors
<1>2. k \in {"Auto", "Text", "Integer", "Date", "YesNoSelect", "Checkbox", "PercentComplete", "LongText",
             "FloatText", "GMemoriText", "PONumberText", "PercentageAllocationText"}
  BY DEF Editors
<1>3. /\ Acts(AutoCompleteEditor, "true values", "text", "text")
      /\ Acts(TextEditor, "true values", "text", "text")
      /\ Acts(IntegerEditor, "all", "text", "whole") /\ Acts(DateEditor, "all", "text", "text")
      /\ Acts(YesNoSelectEditor, "all", "text", "choice")
      /\ Acts(CheckboxEditor, "truth", "choice", "choice")
  BY DEF Acts, EditorOf, AutoCompleteEditor, TextEditor, IntegerEditor, DateEditor, YesNoSelectEditor,
         CheckboxEditor
<1>4. /\ Acts(PercentCompleteEditor, "all", "whole", "whole")
      /\ Acts(FloatEditor, "all", "text", "decimal") /\ Acts(GMemoriEditor, "nonzero", "text", "whole")
      /\ Acts(PONumberEditor, "all", "text", "whole")
      /\ Acts(PercentageAllocationEditor, "all", "text", "decimal")
  BY DEF Acts, EditorOf, PercentCompleteEditor, FloatEditor, GMemoriEditor, PONumberEditor,
         PercentageAllocationEditor
<1>5. LET e == LongTextEditor
      IN  e.loads = "all" /\ e.compares = "text" /\ e.stores = "text" /\ e.escapes
  BY DEF LongTextEditor, EditorOf
<1> QED BY <1>1, <1>2, <1>3, <1>4, <1>5

\* The values of JavaScript are told apart.
LEMMA ValuesDiffer ==
  /\ \A s : /\ "text" \in DOMAIN Text(s) /\ "number" \notin DOMAIN Text(s) /\ Text(s).text = s
            /\ Text(s) # Missing
  /\ \A n : /\ "text" \notin DOMAIN Number(n) /\ "number" \in DOMAIN Number(n) /\ Number(n).number = n
            /\ Number(n) # Missing
  /\ \A b : "text" \notin DOMAIN Truth(b) /\ "number" \notin DOMAIN Truth(b) /\ Truth(b) # Missing
  /\ "text" \notin DOMAIN Missing /\ "number" \notin DOMAIN Missing
<1>1. /\ \A s : DOMAIN Text(s) = {"text"} /\ Text(s).text = s
      /\ \A n : DOMAIN Number(n) = {"number"} /\ Number(n).number = n
      /\ \A b : DOMAIN Truth(b) = {"truth"}
      /\ DOMAIN Missing = {"missing"}
  BY DEF Text, Number, Truth, Missing
<1> QED BY <1>1

LEMMA FalsyText == \A s : Falsy(Text(s)) => s = ""
<1> SUFFICES ASSUME NEW s, Falsy(Text(s)) PROVE s = ""
  OBVIOUS
<1>1. "text" \in DOMAIN Text(s) /\ "text" \notin DOMAIN Number(0) /\ "text" \notin DOMAIN Truth(FALSE)
  BY ValuesDiffer
<1>2. "text" \notin DOMAIN Missing
  BY ValuesDiffer
<1>3. Text(s) = Text("")
  BY <1>1, <1>2 DEF Falsy
<1>4. Text(s).text = s /\ Text("").text = ""
  BY ValuesDiffer
<1> QED BY <1>3, <1>4

\* A cell's value, as loaded, is one that a cell of its kind may hold.
LEMMA LoadedMayHold ==
  ASSUME NEW k \in DOMAIN Editors, NEW v, MayHold(k, v)
  PROVE  MayHold(k, LoadedValue(Editors[k], v))
<1> DEFINE e == Editors[k]
<1>1. CASE e.loads = "true values"
  <2>1. LoadedValue(e, v) \in {v, Text("")} /\ e.stores = "text"
    BY <1>1, Kinds DEF LoadedValue, Acts
  <2> QED BY <2>1, TextsAssumption, ZenonT(40) DEF MayHold
<1>2. CASE e.loads = "nonzero"
  <2>1. LoadedValue(e, v) \in {v, Text("")} /\ e.stores = "whole"
    BY <1>2, Kinds DEF LoadedValue, Acts
  <2> QED BY <2>1, TextsAssumption, ZenonT(40) DEF MayHold
<1>3. CASE e.loads = "truth"
  <2>1. LoadedValue(e, v) \in {Truth(TRUE), Truth(FALSE)} /\ e.stores = "choice"
    BY <1>3, Kinds DEF LoadedValue, Acts
  <2> QED BY <2>1 DEF MayHold
<1>4. CASE e.loads = "all"
  BY <1>4 DEF LoadedValue
<1> QED BY <1>1, <1>2, <1>3, <1>4, Kinds DEF Acts

\* The text of a value that is no choice: no text, the text, or the number's.
TextOf(v, t) ==
  \/ v = Missing /\ t = ""
  \/ v = Text(t)
  \/ \E n \in DOMAIN NumberText : v = Number(n) /\ t = NumberText[n]

LEMMA ShownIsTextOf ==
  ASSUME NEW k \in DOMAIN Editors, NEW v, MayHold(k, v), Editors[k].stores # "choice"
  PROVE  \E t \in DOMAIN Facts :
           TextOf(v, t) /\ ShownText(Editors[k], v) = IF Editors[k].escapes THEN Unescape[t] ELSE t
<1>1. CASE v = Missing
  <2>1. "text" \notin DOMAIN v /\ "number" \notin DOMAIN v
    BY <1>1, ValuesDiffer
  <2>2. ShownText(Editors[k], v) = IF Editors[k].escapes THEN Unescape[""] ELSE ""
    BY <2>1 DEF ShownText
  <2> QED BY <1>1, <2>2, TextsAssumption DEF TextOf
<1>2. ASSUME NEW t \in DOMAIN Facts, v = Text(t)
      PROVE  ShownText(Editors[k], v) = IF Editors[k].escapes THEN Unescape[t] ELSE t
  <2>1. "text" \in DOMAIN v /\ v.text = t /\ "number" \notin DOMAIN v
    BY <1>2, ValuesDiffer
  <2> QED BY <2>1 DEF ShownText
<1>3. ASSUME NEW n \in DOMAIN NumberText, v = Number(n)
      PROVE  ShownText(Editors[k], v) = IF Editors[k].escapes THEN Unescape[NumberText[n]] ELSE NumberText[n]
  <2>1. "text" \notin DOMAIN v /\ "number" \in DOMAIN v /\ v.number = n
    BY <1>3, ValuesDiffer
  <2> QED BY <2>1 DEF ShownText
<1>4. \A n \in DOMAIN NumberText : NumberText[n] \in DOMAIN Facts
  BY TextsAssumption
<1>5. ASSUME NEW t \in DOMAIN Facts, v = Text(t)
      PROVE  TextOf(v, t)
  BY <1>5 DEF TextOf
<1>6. ASSUME NEW n \in DOMAIN NumberText, v = Number(n)
      PROVE  TextOf(v, NumberText[n])
  BY <1>6 DEF TextOf
<1> QED BY <1>1, <1>2, <1>3, <1>4, <1>5, <1>6 DEF MayHold

LEMMA ShownIsText ==
  ASSUME NEW k \in DOMAIN Editors, NEW v, MayHold(k, v)
  PROVE  ShownText(Editors[k], v) \in DOMAIN Facts
<1>1. CASE Editors[k].stores = "choice"
  <2>1. "text" \notin DOMAIN v /\ "number" \notin DOMAIN v
    BY <1>1, ValuesDiffer DEF MayHold
  <2>2. ~Editors[k].escapes
    BY <1>1, Kinds DEF Acts
  <2> QED BY <1>1, <2>1, <2>2, TextsAssumption DEF ShownText
<1>2. CASE Editors[k].stores # "choice"
  <2>1. \A t \in DOMAIN Facts : Unescape[t] \in DOMAIN Facts
    BY TextsAssumption
  <2> QED BY <1>2, <2>1, ShownIsTextOf
<1> QED BY <1>1, <1>2

\* A value is what its text is compared with.
LEMMA TextIsNoChange ==
  ASSUME NEW v, NEW t \in DOMAIN Facts, TextOf(v, t)
  PROVE  LooselyEqual(t, v) \/ (t = "" /\ v = Missing)
<1>1. \A n \in DOMAIN NumberText : NumberText[n] \in DOMAIN Facts /\ Facts[NumberText[n]].number = n
  BY TextsAssumption
<1>2. \A n : "number" \in DOMAIN Number(n) /\ Number(n).number = n
  BY ValuesDiffer
<1>3. ASSUME NEW n \in DOMAIN NumberText, v = Number(n), t = NumberText[n]
      PROVE  LooselyEqual(t, v)
  BY <1>1, <1>2, <1>3 DEF LooselyEqual
<1> QED BY <1>3 DEF TextOf, LooselyEqual

\* What is shown when the cell is opened is no change, if it can be restored.
LEMMA ShownIsNoChange ==
  ASSUME NEW c, NEW g \in Grids, c.kind[g] \in DOMAIN Editors, MayHold(c.kind[g], c.value[g]), Restored(c, g)
  PROVE  LET kind   == KindOf(c, g)
             before == LoadedValue(kind, c.value[g])
             s      == ShownText(kind, before)
         IN  /\ ~IsValueChanged(kind, s, before)
             /\ kind.escapes => Escape[s] = s /\ Unescape[s] = s
<1> DEFINE k == c.kind[g]
           v == c.value[g]
           kind == Editors[k]
           before == LoadedValue(kind, v)
           s == ShownText(kind, before)
<1>1. /\ k # "YesNoSelect"
      /\ k = "PercentComplete" => "number" \in DOMAIN v /\ v.number % 10 = 0
      /\ kind.escapes => ("text" \in DOMAIN v => {Escape[v.text], Unescape[v.text]} = {v.text})
  <2>1. kind.escapes => k \notin {"YesNoSelect", "PercentComplete"}
    BY Kinds DEF Acts
  <2> QED BY <2>1 DEF Restored, KindOf
<1>2. MayHold(k, before)
  BY LoadedMayHold
<1>3. PICK t \in DOMAIN Facts :
        kind.stores # "choice" => TextOf(before, t) /\ s = IF kind.escapes THEN Unescape[t] ELSE t
  <2>1. CASE kind.stores # "choice"
    BY <1>2, <2>1, ShownIsTextOf
  <2> QED BY <2>1, TextsAssumption
<1>4. CASE kind.compares = "text" /\ ~kind.escapes
  <2>1. kind.stores # "choice"
    BY <1>1, <1>4, Kinds DEF Acts
  <2> QED BY <1>3, <1>4, <2>1, TextIsNoChange DEF IsValueChanged, KindOf
<1>5. CASE kind.escapes
  <2>1. kind.loads = "all" /\ kind.compares = "text" /\ kind.stores = "text" /\ k = "LongText"
    BY <1>5, Kinds DEF Acts
  <2>2. before = v
    BY <2>1 DEF LoadedValue
  <2>3. Escape[t] = t /\ Unescape[t] = t
    <3>1. CASE v = Text(t)
      <4>1. "text" \in DOMAIN v /\ v.text = t
        BY <3>1, ValuesDiffer
      <4>2. {Escape[t], Unescape[t]} = {t}
        BY <1>1, <1>5, <4>1
      <4> QED BY <4>2
    <3>2. CASE v # Text(t)
      BY <1>3, <2>1, <2>2, <3>2, TextsAssumption, ZenonT(40) DEF TextOf
    <3> QED BY <3>1, <3>2
  <2>4. s = t
    BY <1>3, <1>5, <2>1, <2>3
  <2> QED BY <1>3, <2>1, <2>3, <2>4, TextIsNoChange DEF IsValueChanged, KindOf
<1>6. CASE Acts(kind, "all", "whole", "whole")
  <2>1. before = v /\ k = "PercentComplete"
    BY <1>6, Kinds DEF LoadedValue, Acts
  <2>2. "number" \in DOMAIN v /\ v.number % 10 = 0
    BY <1>1, <2>1
  <2>3. PICK n \in DOMAIN NumberText : v = Number(n) /\ t = NumberText[n]
    BY <1>3, <1>6, <2>1, <2>2, ValuesDiffer DEF TextOf, Acts
  <2>4. n % 10 = 0
    BY <2>2, <2>3, ValuesDiffer
  <2>5. Facts[t].whole = n /\ n # NaN
    BY <2>3, <2>4, TextsAssumption
  <2>6. s = t
    BY <1>3, <1>6 DEF Acts
  <2> QED BY <1>6, <2>1, <2>3, <2>5, <2>6 DEF IsValueChanged, KindOf, Acts, OrZero, EqualsNumber
<1>7. CASE Acts(kind, "truth", "choice", "choice")
  <2>1. before = IF Falsy(v) THEN Truth(FALSE) ELSE Truth(TRUE)
    BY <1>7 DEF LoadedValue, Acts
  <2>2. Falsy(before) <=> Falsy(v)
    <3>1. Falsy(Truth(FALSE))
      BY DEF Falsy
    <3>2. Truth(TRUE) \notin {Text(""), Number(0), Missing}
      BY ValuesDiffer
    <3>3. Truth(TRUE) # Truth(FALSE)
      BY DEF Truth
    <3> QED BY <2>1, <3>1, <3>2, <3>3 DEF Falsy
  <2>3. "text" \notin DOMAIN before /\ "number" \notin DOMAIN before
    BY <2>1, ValuesDiffer
  <2>4. s = IF Falsy(before) THEN "no" ELSE "yes"
    BY <1>7, <2>3 DEF ShownText, Acts
  <2>5. SerializeValue(kind, s) = Truth(s = "yes")
    BY <1>7 DEF SerializeValue, Acts
  <2>6. IF Falsy(v) THEN (s = "yes") = FALSE ELSE (s = "yes") = TRUE
    BY <2>2, <2>4
  <2>7. SerializeValue(kind, s) = before
    BY <2>1, <2>5, <2>6
  <2> QED BY <1>7, <2>7 DEF IsValueChanged, KindOf, Acts
<1> QED BY <1>1, <1>4, <1>5, <1>6, <1>7, Kinds DEF KindOf, Acts

\* What is stored is what a cell of its kind may hold.
LEMMA StoredMayHold ==
  ASSUME NEW k \in DOMAIN Editors, NEW s \in DOMAIN Facts
  PROVE  MayHold(k, SerializeValue(Editors[k], s))
<1> DEFINE e == Editors[k]
<1>1. \A n \in DOMAIN NumberText \cup {NaN} : OrZero(n) \in DOMAIN NumberText
  BY TextsAssumption DEF OrZero
<1>2. Facts[s].whole \in DOMAIN NumberText \cup {NaN} /\ Facts[s].decimal \in DOMAIN NumberText \cup {NaN}
  BY TextsAssumption
<1>3. CASE e.stores = "whole"
  <2>1. SerializeValue(e, s) = Number(OrZero(Facts[s].whole))
    BY <1>3 DEF SerializeValue
  <2> QED BY <1>1, <1>2, <1>3, <2>1 DEF MayHold
<1>4. CASE e.stores = "decimal"
  <2>1. SerializeValue(e, s) = Number(OrZero(Facts[s].decimal))
    BY <1>4 DEF SerializeValue
  <2> QED BY <1>1, <1>2, <1>4, <2>1 DEF MayHold
<1>5. CASE e.stores = "choice"
  <2>1. SerializeValue(e, s) = Truth(s = "yes")
    BY <1>5 DEF SerializeValue
  <2>2. (s = "yes") = TRUE \/ (s = "yes") = FALSE
    OBVIOUS
  <2>3. SerializeValue(e, s) = Truth(TRUE) \/ SerializeValue(e, s) = Truth(FALSE)
    BY <2>1, <2>2
  <2> QED BY <1>5, <2>3 DEF MayHold
<1>6. CASE e.stores = "text"
  <2>1. SerializeValue(e, s) = Text(s)
    BY <1>6 DEF SerializeValue
  <2> QED BY <1>6, <2>1 DEF MayHold
<1> QED BY <1>3, <1>4, <1>5, <1>6, Kinds DEF Acts

-----------------------------------------------------------------------------
(* what is in a cell while it is edited, and what a commit makes of it *)

\* While an editor is open its cell has the value the editor was opened with, and
\* if nothing was typed the text is the one shown then.
SoundIn(c, g) ==
  LET e == c.editor[g]
  IN  /\ MayHold(c.kind[g], c.value[g])
      /\ OpenIn(c, g) =>
           /\ {"open", "text", "typed", "before"} \subseteq DOMAIN e
           /\ e.text \in DOMAIN Facts /\ e.before = LoadedValue(KindOf(c, g), c.value[g])
           /\ (~e.typed /\ Restored(c, g)) => e.text = ShownText(KindOf(c, g), e.before)

Sound(c) == Good(c) /\ \A g \in Grids : SoundIn(c, g)

\* The edit of a grid is to be stored, ...
ToStore(c, g) ==
  /\ OpenIn(c, g) /\ ~Rejected(c, g)
  /\ IsValueChanged(KindOf(c, g), c.editor[g].text, c.editor[g].before)

\* ... and n comes from c by storing edits: none is given up.
Stores(c, n) ==
  \A g \in Grids :
    LET new == SerializeValue(KindOf(c, g), c.editor[g].text)
    IN  /\ n.value[g] = c.value[g] \/ (ToStore(c, g) /\ n.value[g] = new)
        /\ ToStore(c, g) /\ ~OpenIn(n, g) => n.value[g] = new

LEMMA SoundAlike ==
  ASSUME NEW c, NEW n, NEW g \in Grids, SoundIn(c, g), n.kind = c.kind, n.value[g] = c.value[g],
         n.editor[g] = c.editor[g] \/ ~OpenIn(n, g)
  PROVE  SoundIn(n, g)
BY DEF SoundIn, OpenIn, KindOf, Restored

\* What an editor that is closed leaves as it is.
LEMMA NormalOnly ==
  ASSUME NEW c, Good(c), NEW g \in Grids
  PROVE  LET n == MakeActiveCellNormal(c, g)
         IN  /\ Good(n) /\ n.value = c.value /\ n.kind = c.kind /\ ~OpenIn(n, g)
             /\ \A h \in Grids \ {g} : n.editor[h] = c.editor[h]
<1>1. Good(MakeActiveCellNormal(c, g))
  BY NormalGood
<1>2. LET n == MakeActiveCellNormal(c, g)
      IN  /\ n.value = c.value /\ n.kind = c.kind /\ ~OpenIn(n, g)
          /\ \A h \in Grids \ {g} : n.editor[h] = c.editor[h]
  BY DEF Good, Form, Fields, MakeActiveCellNormal, OpenIn, Closed, Grids
<1> QED BY <1>1, <1>2

LEMMA NormalSound ==
  ASSUME NEW c, Sound(c), NEW g \in Grids
  PROVE  Sound(MakeActiveCellNormal(c, g))
<1> DEFINE n == MakeActiveCellNormal(c, g)
<1>1. /\ Good(n) /\ n.value = c.value /\ n.kind = c.kind /\ ~OpenIn(n, g)
      /\ \A h \in Grids \ {g} : n.editor[h] = c.editor[h]
  BY NormalOnly DEF Sound
<1> HIDE DEF n
<1>2. \A h \in Grids : SoundIn(n, h)
  BY <1>1, SoundAlike DEF Sound
<1> QED BY <1>1, <1>2 DEF Sound, n

LEMMA EditableSound ==
  ASSUME NEW c, Sound(c), NEW g \in Grids, c.lock \in {"none", g} \/ c.async
  PROVE  LET n == MakeActiveCellEditable(c, g)
         IN  /\ Sound(n) /\ n.value = c.value /\ n.kind = c.kind
             /\ \A h \in Grids : OpenIn(c, h) => OpenIn(n, h)
<1> DEFINE n == MakeActiveCellEditable(c, g)
           before == LoadedValue(KindOf(c, g), c.value[g])
           e == [open |-> TRUE, before |-> before, typed |-> FALSE, text |-> ShownText(KindOf(c, g), before)]
<1>1. Good(n)
  BY EditableGood DEF Sound
<1>2. /\ DOMAIN c = Fields /\ DOMAIN c.editor = Grids /\ c.kind[g] \in DOMAIN Editors
  BY DEF Sound, Good, Form
<1>3. ShownText(KindOf(c, g), before) \in DOMAIN Facts
  <2>1. MayHold(c.kind[g], c.value[g])
    BY DEF Sound, SoundIn
  <2> QED BY <1>2, <2>1, LoadedMayHold, ShownIsText DEF KindOf
<1>4. /\ e.open /\ {"open", "text", "typed", "before"} \subseteq DOMAIN e
      /\ e.text = ShownText(KindOf(c, g), before) /\ e.before = before
  OBVIOUS
<1>5. n.value = c.value /\ n.kind = c.kind /\ (n.editor = c.editor \/ n.editor = [c.editor EXCEPT ![g] = e])
  BY <1>2 DEF MakeActiveCellEditable, Fields
<1> HIDE DEF n, e
<1>6. \A h \in Grids : n.editor[h] = c.editor[h] \/ (h = g /\ n.editor[h] = e)
  BY <1>2, <1>5
<1>7. \A h \in Grids : n.editor[h] = c.editor[h] => SoundIn(n, h)
  BY <1>5, SoundAlike DEF Sound
<1>8. n.editor[g] = e => SoundIn(n, g)
  <2> HIDE DEF before
  <2>1. MayHold(c.kind[g], c.value[g])
    BY DEF Sound, SoundIn
  <2>2. KindOf(n, g) = KindOf(c, g) /\ n.value[g] = c.value[g] /\ n.kind[g] = c.kind[g]
    BY <1>5 DEF KindOf
  <2> QED BY <1>3, <1>4, <2>1, <2>2 DEF SoundIn, before
<1> QED BY <1>1, <1>4, <1>5, <1>6, <1>7, <1>8 DEF Sound, OpenIn, n

\* A text is put into an editor, as one that was typed or as the one shown at first.
LEMMA TextSound ==
  ASSUME NEW c, Sound(c), NEW g \in Grids, OpenIn(c, g), NEW s \in DOMAIN Facts, NEW n,
         Good(n), n.kind = c.kind, n.value = c.value,
         n.editor \in {[c.editor EXCEPT ![g].text = s], [c.editor EXCEPT ![g].text = s, ![g].typed = TRUE]},
         \/ n.editor[g].typed
         \/ Restored(c, g) => s = ShownText(KindOf(c, g), c.editor[g].before)
  PROVE  Sound(n) /\ \A h \in Grids : OpenIn(c, h) => OpenIn(n, h)
<1>1. DOMAIN c.editor = Grids
  BY DEF Sound, Good, Form
<1>2. {"open", "text", "typed", "before"} \subseteq DOMAIN c.editor[g]
  BY DEF Sound, SoundIn
<1>3. \A h \in Grids \ {g} : n.editor[h] = c.editor[h]
  BY <1>1
<1>4. /\ DOMAIN n.editor[g] = DOMAIN c.editor[g] /\ n.editor[g].text = s
      /\ n.editor[g].open = c.editor[g].open /\ n.editor[g].before = c.editor[g].before
  BY <1>1, <1>2
<1>5. SoundIn(n, g)
  <2>1. MayHold(c.kind[g], c.value[g]) /\ c.editor[g].before = LoadedValue(KindOf(c, g), c.value[g])
    BY DEF Sound, SoundIn
  <2>2. KindOf(n, g) = KindOf(c, g) /\ (Restored(n, g) <=> Restored(c, g))
    BY DEF KindOf, Restored
  <2>3. Restored(c, g) /\ ~n.editor[g].typed => s = ShownText(KindOf(c, g), c.editor[g].before)
    OBVIOUS
  <2> QED BY <1>2, <1>4, <2>1, <2>2, <2>3 DEF SoundIn
<1>6. \A h \in Grids \ {g} : SoundIn(n, h)
  BY <1>3, SoundAlike DEF Sound
<1> QED BY <1>3, <1>4, <1>5, <1>6 DEF Sound, OpenIn

\* What a commit of the edit of a grid does: it is stored, or refused and nothing changes.
LEMMA CommitSound ==
  ASSUME NEW c, Sound(c), NEW g \in Grids, OpenIn(c, g)
  PROVE  LET r == CommitCurrentEdit(c, g)
         IN  /\ Sound(r.c) /\ r.c.kind = c.kind /\ Stores(c, r.c)
             /\ IF r.ok THEN ~OpenIn(r.c, g) ELSE \A h \in Grids : OpenIn(c, h) => OpenIn(r.c, h)
<1> DEFINE e == c.editor[g]
           s == ShownText(KindOf(c, g), e.before)
           shown == [c EXCEPT !.editor[g].text = s]
           kept == IF KindOf(c, g).resets THEN shown ELSE c
           store == OpenIn(c, g) /\ IsValueChanged(KindOf(c, g), e.text, e.before)
           new == [c EXCEPT !.value[g] = SerializeValue(KindOf(c, g), e.text)]
           stored == IF store THEN new ELSE c
           n == MakeActiveCellNormal(stored, g)
<1>1. CommitCurrentEdit(c, g) = IF Rejected(c, g) THEN [ok |-> FALSE, c |-> kept] ELSE [ok |-> TRUE, c |-> n]
  BY DEF CommitCurrentEdit
<1>2. /\ Good(c) /\ DOMAIN c = Fields /\ DOMAIN c.editor = Grids /\ DOMAIN c.value = Grids
      /\ c.kind[g] \in DOMAIN Editors /\ MayHold(c.kind[g], c.value[g])
      /\ e.text \in DOMAIN Facts /\ e.before = LoadedValue(KindOf(c, g), c.value[g])
      /\ \A h \in Grids \ {g} : ~OpenIn(c, h)
  BY DEF Sound, SoundIn, Good, Form, Exclusive, OpenIn
<1>3. Sound(kept) /\ kept.kind = c.kind /\ kept.value = c.value /\ \A h \in Grids : OpenIn(c, h) => OpenIn(kept, h)
  <2>1. s \in DOMAIN Facts
    BY <1>2, LoadedMayHold, ShownIsText DEF KindOf
  <2>2. Good(shown) /\ shown.value = c.value
    BY <1>2, TextGood
  <2>3. shown.editor = [c.editor EXCEPT ![g].text = s] /\ shown.kind = c.kind
    BY <1>2 DEF Fields
  <2> HIDE DEF shown, s
  <2>4. Sound(shown) /\ \A h \in Grids : OpenIn(c, h) => OpenIn(shown, h)
    BY <2>1, <2>2, <2>3, TextSound, ZenonT(40) DEF s
  <2> QED BY <2>2, <2>3, <2>4
<1>4. /\ Good(stored) /\ stored.kind = c.kind /\ stored.editor = c.editor
      /\ \A h \in Grids \ {g} : stored.value[h] = c.value[h]
      /\ stored.value[g] = IF store THEN SerializeValue(KindOf(c, g), e.text) ELSE c.value[g]
  <2>1. Good(new)
    BY <1>2, ValueGood
  <2>2. /\ new.kind = c.kind /\ new.editor = c.editor
        /\ new.value = [c.value EXCEPT ![g] = SerializeValue(KindOf(c, g), e.text)]
    BY <1>2 DEF Fields
  <2> HIDE DEF new
  <2> QED BY <1>2, <2>1, <2>2
<1> HIDE DEF stored, kept
<1>5. /\ Good(n) /\ n.value = stored.value /\ n.kind = stored.kind /\ ~OpenIn(n, g)
      /\ \A h \in Grids \ {g} : n.editor[h] = stored.editor[h]
  BY <1>4, NormalOnly
<1> HIDE DEF n
<1>6. Sound(n)
  <2>1. \A h \in Grids \ {g} : SoundIn(n, h)
    BY <1>4, <1>5, SoundAlike DEF Sound
  <2>2. MayHold(n.kind[g], n.value[g])
    BY <1>2, <1>4, <1>5, StoredMayHold DEF KindOf
  <2>3. SoundIn(n, g)
    BY <1>5, <2>2 DEF SoundIn
  <2> QED BY <1>5, <2>1, <2>3 DEF Sound
<1>7. CASE Rejected(c, g)
  <2>1. Stores(c, kept)
    BY <1>3, <1>7 DEF Stores, ToStore
  <2> QED BY <1>1, <1>3, <1>7, <2>1
<1>8. CASE ~Rejected(c, g)
  <2>1. Stores(c, n)
    BY <1>2, <1>4, <1>5, <1>8 DEF Stores, ToStore
  <2> QED BY <1>1, <1>4, <1>5, <1>6, <1>8, <2>1
<1> QED BY <1>7, <1>8

LEMMA LockCommitSound ==
  ASSUME NEW c, Sound(c)
  PROVE  LET r == LockCommit(c)
         IN  /\ Sound(r.c) /\ Stores(c, r.c)
             /\ IF r.ok THEN r.c.lock = "none" /\ \A h \in Grids : ~OpenIn(r.c, h)
                ELSE \A h \in Grids : OpenIn(c, h) => OpenIn(r.c, h)
<1> DEFINE r == LockCommit(c)
<1>1. Good(r.c) /\ (r.ok => r.c.lock = "none")
  BY LockCommitGood DEF Sound
<1>2. Good(r.c) /\ r.c.lock = "none" => \A h \in Grids : ~OpenIn(r.c, h)
  BY DEF Good, Exclusive, OpenIn, Grids
<1>3. CASE c.lock = "none"
  <2>1. r.c = c /\ r.ok
    BY <1>3 DEF LockCommit
  <2>2. Stores(c, c)
    BY <1>3 DEF Stores, ToStore, Sound, Good, Exclusive, OpenIn, Grids
  <2> QED BY <1>1, <1>2, <2>1, <2>2
<1>4. CASE c.lock # "none"
  <2> DEFINE g == c.lock
  <2>1. g \in Grids /\ OpenIn(c, g)
    BY <1>4 DEF Sound, Good, Form, Exclusive, OpenIn
  <2>2. r = CommitCurrentEdit(c, g)
    BY <1>4 DEF LockCommit
  <2> HIDE DEF r
  <2>3. Sound(r.c) /\ Stores(c, r.c) /\ (~r.ok => \A h \in Grids : OpenIn(c, h) => OpenIn(r.c, h))
    BY <2>1, <2>2, CommitSound
  <2> QED BY <1>1, <1>2, <2>3 DEF r
<1> QED BY <1>3, <1>4

LEMMA SetActiveSound ==
  ASSUME NEW c, Sound(c), NEW g \in Grids, c.lock = "none", NEW at
  PROVE  Sound(SetActiveCell(c, g, at)) /\ SetActiveCell(c, g, at).value = c.value
<1> DEFINE n == MakeActiveCellNormal(c, g)
           s == [n EXCEPT !.at[g] = at]
           t == [s EXCEPT !.timer[g] = TRUE]
<1>1. Sound(n) /\ n.value = c.value
  BY NormalSound, NormalOnly DEF Sound
<1>2. n.lock = "none"
  BY NormalGood DEF Sound
<1> HIDE DEF n
<1>3. /\ DOMAIN n = Fields /\ DOMAIN s = Fields
      /\ s.value = n.value /\ s.kind = n.kind /\ s.editor = n.editor /\ s.lock = n.lock
      /\ t.value = n.value /\ t.kind = n.kind /\ t.editor = n.editor
  BY <1>1 DEF Sound, Good, Form, Fields
<1>4. Good(s) /\ s.async = n.async /\ (s.async => Good(t))
  BY <1>1, <1>2 DEF Sound, Good, Form, Exclusive, Fields, Grids
<1> HIDE DEF s, t
<1>5. Sound(s) /\ (s.async => Sound(t))
  BY <1>1, <1>3, <1>4, SoundAlike DEF Sound
<1>6. Sound(MakeActiveCellEditable(s, g)) /\ MakeActiveCellEditable(s, g).value = s.value
  BY <1>2, <1>3, <1>5, EditableSound
<1>7. SetActiveCell(c, g, at) \in {s, MakeActiveCellEditable(s, g)} \/ (s.async /\ SetActiveCell(c, g, at) = t)
  BY <1>4, NormalGood DEF SetActiveCell, s, n, t, Sound
<1> QED BY <1>1, <1>3, <1>5, <1>6, <1>7

\* Wherever the user goes, in either grid, the edit there is is stored first or
\* stays open.
LEMMA GoToSound ==
  ASSUME NEW c, Sound(c), NEW g \in Grids, NEW at
  PROVE  Sound(GoTo(c, g, at)) /\ Stores(c, GoTo(c, g, at))
<1> DEFINE r == LockCommit(c)
           n == SetActiveCell(r.c, g, at)
<1>1. /\ Sound(r.c) /\ Stores(c, r.c)
      /\ r.ok => r.c.lock = "none" /\ \A h \in Grids : ~OpenIn(r.c, h)
  BY LockCommitSound
<1>2. GoTo(c, g, at) = IF r.ok THEN n ELSE r.c
  BY DEF GoTo
<1> HIDE DEF r
<1>3. CASE r.ok
  <2>1. Sound(n) /\ n.value = r.c.value
    BY <1>1, <1>3, SetActiveSound
  <2> HIDE DEF n
  <2>2. Stores(c, n)
    BY <1>1, <1>3, <2>1 DEF Stores
  <2> QED BY <1>2, <1>3, <2>1, <2>2
<1>4. CASE ~r.ok
  BY <1>1, <1>2, <1>4
<1> QED BY <1>3, <1>4

\* The text of an editor of long texts is escaped, or what is escaped in it is put
\* back: of an untouched one that can be restored neither changes anything.
LEMMA EscapedSound ==
  ASSUME NEW c, Sound(c), NEW g \in Grids, OpenIn(c, g), KindOf(c, g).escapes, NEW s \in DOMAIN Facts,
         s \in {Escape[c.editor[g].text], Unescape[c.editor[g].text]}
  PROVE  LET n == [c EXCEPT !.editor[g].text = s]
         IN  /\ Sound(n) /\ n.value = c.value /\ n.kind = c.kind
             /\ n.editor = [c.editor EXCEPT ![g].text = s]
             /\ \A h \in Grids : OpenIn(c, h) => OpenIn(n, h)
             /\ (~c.editor[g].typed /\ Restored(c, g)) => s = c.editor[g].text
<1> DEFINE e == c.editor[g]
           n == [c EXCEPT !.editor[g].text = s]
<1>1. /\ Good(c) /\ DOMAIN c = Fields /\ DOMAIN c.editor = Grids /\ c.kind[g] \in DOMAIN Editors
      /\ MayHold(c.kind[g], c.value[g]) /\ {"open", "text", "typed", "before"} \subseteq DOMAIN e
      /\ e.before = LoadedValue(KindOf(c, g), c.value[g])
      /\ ~e.typed /\ Restored(c, g) => e.text = ShownText(KindOf(c, g), e.before)
  BY DEF Sound, SoundIn, Good, Form
<1>2. Good(n) /\ n.value = c.value
  BY <1>1, TextGood
<1>3. n.kind = c.kind /\ n.editor = [c.editor EXCEPT ![g].text = s]
  BY <1>1 DEF Fields
<1>4. (~e.typed /\ Restored(c, g)) => s = e.text
  BY <1>1, ShownIsNoChange
<1> HIDE DEF n
<1>5. n.editor[g].typed = e.typed
  BY <1>1, <1>3
<1>6. n.editor[g].typed \/ (Restored(c, g) => s = ShownText(KindOf(c, g), e.before))
  BY <1>1, <1>4, <1>5
<1>7. Sound(n) /\ \A h \in Grids : OpenIn(c, h) => OpenIn(n, h)
  BY <1>2, <1>3, <1>6, TextSound
<1> QED BY <1>2, <1>3, <1>4, <1>7 DEF n

\* Nothing is stored and no editor is closed.
LEMMA StoresNothing ==
  ASSUME NEW c, NEW n, n.value = c.value, \A h \in Grids : OpenIn(c, h) => OpenIn(n, h)
  PROVE  Stores(c, n)
BY DEF Stores, ToStore

LEMMA StepSound ==
  ASSUME Sound(cell), EditorsNext
  PROVE  /\ Sound(cell')
         /\ \/ Stores(cell, cell')
            \/ (CancelEdit \/ DrawAnew) /\ cell'.value = cell.value
            \/ SaveLongText /\ Stores(Escaped(cell, cell.front), cell')
<1>1. Good(cell) /\ cell.front \in Grids /\ Good(cell')
  BY StepGood DEF Sound, Good, Form
<1>2. CASE ShowPopup
  <2> DEFINE n == GoTo(cell, "main", "other")
  <2>1. Sound(n) /\ Stores(cell, n)
    BY GoToSound DEF Grids
  <2> HIDE DEF n
  <2>2. cell' = [n EXCEPT !.front = "popup"]
    BY <1>2 DEF ShowPopup, n
  <2>3. cell'.value = n.value /\ cell'.kind = n.kind /\ cell'.editor = n.editor
    BY <2>1, <2>2 DEF Sound, Good, Form, Fields
  <2>4. \A h \in Grids : SoundIn(cell', h)
    BY <2>1, <2>3, SoundAlike DEF Sound
  <2> QED BY <1>1, <2>1, <2>3, <2>4 DEF Sound, Stores, OpenIn
<1>3. CASE HidePopup
  <2>1. cell'.value = cell.value /\ cell'.kind = cell.kind /\ cell'.editor = cell.editor
    BY <1>1, <1>3 DEF HidePopup, Good, Form, Fields
  <2>2. \A h \in Grids : SoundIn(cell', h)
    BY <2>1, SoundAlike DEF Sound
  <2> QED BY <1>1, <2>1, <2>2, StoresNothing DEF Sound, OpenIn
<1>4. CASE ClickEditable
  BY <1>1, <1>4, GoToSound DEF ClickEditable
<1>5. CASE Leave
  BY <1>1, <1>5, GoToSound DEF Leave
<1>6. CASE SaveLongText
  <2> DEFINE g == cell.front
             s == Escape[cell.editor[g].text]
  <2>1. OpenIn(cell, g) /\ KindOf(cell, g).escapes
    BY <1>6 DEF SaveLongText
  <2>2. s \in DOMAIN Facts
    BY <1>1, <2>1, TextsAssumption DEF Sound, SoundIn
  <2>3. Sound(Escaped(cell, g))
    BY <1>1, <2>1, <2>2, EscapedSound DEF Escaped
  <2>4. cell' = GoTo(Escaped(cell, g), g, "other")
    BY <1>6 DEF SaveLongText
  <2> QED BY <1>1, <1>6, <2>3, <2>4, GoToSound
<1>7. CASE EnterCell
  <2> DEFINE g == cell.front
             r == LockCommit(cell)
  <2>1. CASE OpenIn(cell, g)
    BY <1>1, <1>7, <2>1, GoToSound DEF EnterCell
  <2>2. CASE ~OpenIn(cell, g)
    <3>1. Sound(r.c) /\ Stores(cell, r.c) /\ (r.ok => r.c.lock = "none" /\ \A h \in Grids : ~OpenIn(r.c, h))
      BY LockCommitSound
    <3> HIDE DEF r
    <3>2. cell' = IF r.ok THEN MakeActiveCellEditable(r.c, g) ELSE r.c
      BY <1>7, <2>2 DEF EnterCell, r
    <3>3. CASE r.ok
      <4>1. Sound(cell') /\ cell'.value = r.c.value
        BY <1>1, <3>1, <3>2, <3>3, EditableSound
      <4>2. Stores(cell, cell')
        BY <3>1, <3>3, <4>1 DEF Stores
      <4> QED BY <4>1, <4>2
    <3>4. CASE ~r.ok
      BY <3>1, <3>2, <3>4
    <3> QED BY <3>3, <3>4
  <2> QED BY <2>1, <2>2
<1>8. CASE CancelEdit
  <2>1. cell.lock \in Grids
    BY <1>1, <1>8 DEF CancelEdit, Good, Form
  <2> QED BY <1>1, <1>8, <2>1, NormalSound, NormalGood DEF CancelEdit
<1>9. CASE TypeText
  <2> DEFINE g == cell.front
  <2>1. PICK s \in TypedIn[cell.kind[g]] : cell' = [cell EXCEPT !.editor[g].text = s, !.editor[g].typed = TRUE]
    BY <1>9 DEF TypeText
  <2>2. s \in DOMAIN Facts /\ OpenIn(cell, g)
    BY <1>1, <1>9, <2>1, CellsAssumption DEF Good, Form, TypeText
  <2>3. /\ cell'.value = cell.value /\ cell'.kind = cell.kind
        /\ cell'.editor = [cell.editor EXCEPT ![g].text = s, ![g].typed = TRUE]
    BY <1>1, <2>1 DEF Good, Form, Fields
  <2>4. cell'.editor[g].typed
    BY <1>1, <2>2, <2>3 DEF Sound, SoundIn, Good, Form
  <2>5. Sound(cell') /\ \A h \in Grids : OpenIn(cell, h) => OpenIn(cell', h)
    BY <1>1, <2>2, <2>3, <2>4, TextSound
  <2> QED BY <2>3, <2>5, StoresNothing
<1>10. CASE ScrollEditor
  <2> DEFINE g == cell.front
             s == Unescape[cell.editor[g].text]
  <2>1. /\ OpenIn(cell, g) /\ KindOf(cell, g).escapes /\ cell' = [cell EXCEPT !.editor[g].text = s]
    BY <1>10 DEF ScrollEditor
  <2>2. s \in DOMAIN Facts
    BY <1>1, <2>1, TextsAssumption DEF Sound, SoundIn
  <2>3. Sound(cell') /\ cell'.value = cell.value /\ \A h \in Grids : OpenIn(cell, h) => OpenIn(cell', h)
    BY <1>1, <2>1, <2>2, EscapedSound
  <2> QED BY <2>3, StoresNothing
<1>11. CASE DrawAnew
  BY <1>1, <1>11, NormalSound, NormalGood DEF DrawAnew
<1>12. CASE LoadEditor
  <2>1. PICK g \in Grids : cell.timer[g] /\ cell' = MakeActiveCellEditable([cell EXCEPT !.timer[g] = FALSE], g)
    BY <1>12 DEF LoadEditor
  <2> DEFINE n == [cell EXCEPT !.timer[g] = FALSE]
  <2>2. /\ Good(n) /\ n.async /\ n.value = cell.value /\ n.editor = cell.editor /\ n.kind = cell.kind
    BY <1>1, <2>1 DEF Good, Form, Exclusive, Fields
  <2> HIDE DEF n
  <2>3. Sound(n)
    BY <2>2, SoundAlike DEF Sound
  <2>4. Sound(cell') /\ cell'.value = n.value /\ \A h \in Grids : OpenIn(n, h) => OpenIn(cell', h)
    BY <2>1, <2>2, <2>3, EditableSound DEF n
  <2>5. \A h \in Grids : OpenIn(cell, h) => OpenIn(cell', h)
    BY <2>2, <2>4 DEF OpenIn
  <2> QED BY <2>2, <2>4, <2>5, StoresNothing
<1> QED BY <1>2, <1>3, <1>4, <1>5, <1>6, <1>7, <1>8, <1>9, <1>10, <1>11, <1>12 DEF EditorsNext

\* A text that is stored escaped: it is in the cell, unless that says the same as before.
LEMMA EscapedStored ==
  ASSUME NEW c, Sound(c), NEW g \in Grids, OpenIn(c, g), KindOf(c, g).escapes,
         NEW n, ~OpenIn(n, g), Stores(Escaped(c, g), n)
  PROVE  LET kind == KindOf(c, g)
             s    == Escape[c.editor[g].text]
         IN  \/ n.value[g] = SerializeValue(kind, s)
             \/ ~IsValueChanged(kind, s, c.editor[g].before) /\ n.value[g] = c.value[g]
<1> DEFINE kind == KindOf(c, g)
           before == c.editor[g].before
           text == c.editor[g].text
           s == Escape[text]
           e == Escaped(c, g)
<1>1. /\ DOMAIN c.editor = Grids /\ {"open", "text", "typed", "before"} \subseteq DOMAIN c.editor[g]
      /\ text \in DOMAIN Facts
  BY DEF Sound, SoundIn, Good, Form
<1>2. s \in DOMAIN Facts
  BY <1>1, TextsAssumption
<1>3. Sound(e) /\ e.value = c.value /\ e.kind = c.kind /\ e.editor = [c.editor EXCEPT ![g].text = s]
  BY <1>2, EscapedSound DEF Escaped
<1> HIDE DEF e
<1>4. KindOf(e, g) = kind /\ e.editor[g].text = s /\ e.editor[g].before = before /\ OpenIn(e, g)
  BY <1>1, <1>3 DEF KindOf, OpenIn
<1>5. ~Rejected(e, g)
  BY <1>3, <1>4, EscapesAccepts DEF Sound
<1>6. CASE IsValueChanged(kind, s, before)
  <2>1. ToStore(e, g)
    BY <1>4, <1>5, <1>6 DEF ToStore
  <2> QED BY <1>4, <2>1 DEF Stores, e
<1>7. CASE ~IsValueChanged(kind, s, before)
  BY <1>3, <1>4, <1>7 DEF Stores, ToStore, e
<1> QED BY <1>6, <1>7

LEMMA StepStores ==
  ASSUME Sound(cell), EditorsNext, NEW g \in Grids
  PROVE  Untouched(g) /\ TypedStored(g)
<1> DEFINE e == cell.editor[g]
           kind == KindOf(cell, g)
<1>1. OpenIn(cell, g) /\ ~e.typed /\ Restored(cell, g) => ~IsValueChanged(kind, e.text, e.before)
  BY ShownIsNoChange DEF Sound, SoundIn, Good, Form
<1>2. CASE Stores(cell, cell')
  <2>1. Untouched(g)
    BY <1>1, <1>2 DEF Stores, ToStore, Untouched
  <2>2. e.text \in Written(kind, e.text)
    BY DEF Written
  <2>3. OpenIn(cell, g) /\ ~OpenIn(cell', g) /\ ~Rejected(cell, g) =>
          cell'.value[g] = SerializeValue(kind, e.text) \/ (~IsValueChanged(kind, e.text, e.before) /\ cell'.value[g] = cell.value[g])
    BY <1>2 DEF Stores, ToStore
  <2> QED BY <2>1, <2>2, <2>3 DEF TypedStored
<1>3. CASE (CancelEdit \/ DrawAnew) /\ cell'.value = cell.value
  BY <1>3 DEF Untouched, TypedStored
<1>4. CASE SaveLongText /\ Stores(Escaped(cell, cell.front), cell')
  <2>1. cell.front \in Grids /\ OpenIn(cell, cell.front) /\ KindOf(cell, cell.front).escapes
    BY <1>4 DEF SaveLongText, Sound, Good, Form
  <2>2. CASE g # cell.front
    <3>1. ~OpenIn(cell, g)
      BY <2>1, <2>2 DEF Sound, Good, Exclusive, OpenIn
    <3> QED BY <3>1 DEF Untouched, TypedStored
  <2>3. CASE g = cell.front
    <3> DEFINE s == Escape[e.text]
               c == Escaped(cell, g)
    <3>1. TypedStored(g)
      BY <1>4, <2>1, <2>3, EscapedStored DEF TypedStored, Written
    <3>2. s \in DOMAIN Facts
      BY <2>1, <2>3, TextsAssumption DEF Sound, SoundIn
    <3>3. /\ c.value = cell.value /\ c.kind = cell.kind /\ c.editor = [cell.editor EXCEPT ![g].text = s]
      BY <2>1, <2>3, <3>2, EscapedSound DEF Escaped
    <3>8. (~e.typed /\ Restored(cell, g)) => s = e.text
      BY <2>1, <2>3, <3>2, EscapedSound
    <3>4. /\ DOMAIN cell.editor = Grids /\ {"open", "text", "typed", "before"} \subseteq DOMAIN e
      BY <2>1, <2>3 DEF Sound, SoundIn, Good, Form
    <3>5. Stores(c, cell')
      BY <1>4, <2>3
    <3> HIDE DEF c
    <3>6. KindOf(c, g) = kind /\ c.editor[g].text = s /\ c.editor[g].before = e.before
      BY <3>3, <3>4 DEF KindOf
    <3>7. Untouched(g)
      BY <1>1, <3>3, <3>5, <3>6, <3>8 DEF Untouched, Stores, ToStore
    <3> QED BY <3>1, <3>7
  <2> QED BY <2>2, <2>3
<1> QED BY <1>2, <1>3, <1>4, StepSound

LEMMA InitSound == EditorsInit => Sound(cell)
<1> SUFFICES ASSUME NEW start \in CellPairs, NEW async \in Asynchronous,
                    cell = FirstEditors(start, async)
             PROVE  Sound(cell)
  BY DEF EditorsInit
<1>1. Good(cell)
  BY InitGood DEF EditorsInit, EditorsInv
<1>2. \A g \in Grids : MayHold(cell.kind[g], cell.value[g]) /\ ~OpenIn(cell, g)
  BY CellsAssumption DEF FirstEditors, OpenIn, Closed
<1> QED BY <1>1, <1>2 DEF Sound, SoundIn

EditorsSound == Sound(cell)

\* What was typed and accepted is in the cell when its editor has gone, and what was
\* only looked at is as it was, whatever ends the edit: a click, a key, the popup,
\* or a timer, in this grid or the other.
THEOREM StoredIsAsTyped == EditorsSpec => StoredAsTyped
<1> DEFINE A == \A g \in Grids : Untouched(g) /\ TypedStored(g)
<1>1. EditorsInit => EditorsSound
  BY InitSound DEF EditorsSound
<1>2. EditorsSound /\ [EditorsNext]_cell => EditorsSound'
  BY StepSound DEF EditorsSound
<1>3. EditorsSound /\ [EditorsNext]_cell => [A]_cell
  BY StepStores DEF EditorsSound
<1> HIDE DEF A
<1>4. [][A]_cell => StoredAsTyped
  BY PTL DEF StoredAsTyped, A
<1> QED BY <1>1, <1>2, <1>3, <1>4, PTL DEF EditorsSpec

-----------------------------------------------------------------------------
(* columns: what is on the screen *)

HeadFields ==
  {"lists", "shown", "frozen", "fit", "multi", "viewW", "tall", "vscroll", "hscroll", "headers", "pos", "rules",
   "canvas", "strip", "panes", "split", "scroller", "sort", "marks", "drag", "edit", "jobs"}

ListForm(list) == Sequence(list) /\ \A i \in DOMAIN list : DOMAIN list[i] = {"id", "width"}
HeadForm(h) ==
  /\ DOMAIN h = HeadFields
  /\ DOMAIN h.lists = DOMAIN Lists \cup {"own"} /\ h.shown \in DOMAIN h.lists
  /\ \A l \in DOMAIN h.lists : ListForm(h.lists[l])

\* A step changes the fields of C only.
Keeps(h, k, C) == \A f \in HeadFields \ C : k[f] = h[f]

\* What headers, positions, rules and canvases are made from.
Source == {"lists", "shown", "frozen"}

RightRules(h) == [i \in 1..Count(h) |-> RuleOf(h, i)]

\* What each operation keeps up to date, also while a header is dragged ...
Following(h) ==
  /\ h.headers = Columns(h) /\ h.pos = Positions(h) /\ DOMAIN h.rules = 1..Count(h)
  /\ h.split = (h.frozen > 0) /\ (h.scroller = "right") = h.split
  /\ h.marks = Marks(h)

\* ... and what the end of a drag makes right again.
Placed(h) ==
  h.frozen > 0 => h.panes = Panes(h) /\ h.strip = HeadersWidth(h) /\ h.hscroll = (Total(h) > h.viewW - Bar)
Settled(h) == h.rules = RightRules(h) /\ h.canvas = CanvasWidth(h) /\ Placed(h)

ColumnsInv(h) == HeadForm(h) /\ Following(h) /\ (h.drag = NoDrag => Settled(h))

LEMMA CountIs == ASSUME NEW h, HeadForm(h) PROVE Count(h) \in Nat /\ DOMAIN Columns(h) = 1..Count(h)
BY SeqFacts DEF HeadForm, ListForm, Columns, Count

LEMMA SameSource ==
  ASSUME NEW h, NEW k, k.lists = h.lists, k.shown = h.shown, k.frozen = h.frozen
  PROVE  /\ Columns(k) = Columns(h) /\ Count(k) = Count(h) /\ Positions(k) = Positions(h)
         /\ CanvasWidth(k) = CanvasWidth(h) /\ Total(k) = Total(h)
         /\ k.canvas = h.canvas => RightRules(k) = RightRules(h)
         /\ (k.canvas = h.canvas /\ k.viewW = h.viewW) => Panes(k) = Panes(h)
         /\ k.viewW = h.viewW => HeadersWidth(k) = HeadersWidth(h)
         /\ k.sort = h.sort => Marks(k) = Marks(h)
<1>1. Columns(k) = Columns(h)
  BY DEF Columns
<1>2. Count(k) = Count(h) /\ \A i : Width(k, i) = Width(h, i)
  BY <1>1 DEF Count, Width
<1>3. \A c : WidthOf(k, c) = WidthOf(h, c)
  <2> SUFFICES ASSUME NEW c PROVE WidthOf(k, c) = WidthOf(h, c)
    OBVIOUS
  <2>1. [i \in c |-> Width(k, i)] = [i \in c |-> Width(h, i)]
    BY <1>2
  <2> QED BY <2>1 DEF WidthOf
<1>4. \A i : OnRight(k, i) <=> OnRight(h, i)
  BY DEF OnRight
<1>5. \A i : LeftEdge(k, i) = LeftEdge(h, i)
  <2> SUFFICES ASSUME NEW i PROVE LeftEdge(k, i) = LeftEdge(h, i)
    OBVIOUS
  <2>1. {j \in 1..(i - 1) : SameSide(k, i, j)} = {j \in 1..(i - 1) : SameSide(h, i, j)}
    <3>1. \A j : SameSide(k, i, j) = SameSide(h, i, j)
      BY DEF SameSide, OnRight
    <3> QED BY <3>1
  <2> QED BY <1>3, <2>1 DEF LeftEdge
<1>6. RightColumns(k) = RightColumns(h)
  BY <1>2, <1>4 DEF RightColumns
<1>7. Total(k) = Total(h) /\ CanvasWidth(k) = CanvasWidth(h)
  BY <1>2, <1>3, <1>6 DEF Total, CanvasWidth
<1>8. Positions(k) = Positions(h)
  BY <1>2, <1>5 DEF Positions
<1>9. k.canvas = h.canvas => RightRules(k) = RightRules(h)
  BY <1>2, <1>4, <1>5 DEF RightRules, RuleOf
<1>10. (k.canvas = h.canvas /\ k.viewW = h.viewW) => Panes(k) = Panes(h)
  BY DEF Panes
<1>11. k.viewW = h.viewW => HeadersWidth(k) = HeadersWidth(h)
  BY <1>7 DEF HeadersWidth
<1>12. k.sort = h.sort => Marks(k) = Marks(h)
  BY <1>1, <1>2 DEF Marks, Known
<1> QED BY <1>1, <1>2, <1>7, <1>8, <1>9, <1>10, <1>11, <1>12

LEMMA UpdateCanvasIs ==
  ASSUME NEW h, HeadForm(h), DOMAIN h.rules = 1..Count(h), NEW force \in BOOLEAN
  PROVE  LET k == UpdateCanvasWidth(h, force)
         IN  /\ HeadForm(k) /\ Keeps(h, k, {"canvas", "strip", "panes", "hscroll", "rules"})
             /\ k.canvas = CanvasWidth(k) /\ (k.frozen > 0 => Placed(k))
             /\ k.rules = RightRules(k) \/ (~force /\ k.rules = h.rules /\ k.canvas = h.canvas)
<1> DEFINE changed == CanvasWidth(h) # h.canvas
           a == [h EXCEPT !.canvas = CanvasWidth(h)]
           b == IF changed \/ h.frozen > 0 THEN SizePanes(a) ELSE a
           k == IF changed \/ force THEN ApplyColumnWidths(b) ELSE b
<1>0. UpdateCanvasWidth(h, force) = k
  BY DEF UpdateCanvasWidth
<1>1. DOMAIN a = HeadFields /\ a.canvas = CanvasWidth(h) /\ Keeps(h, a, {"canvas"})
  BY DEF HeadForm, HeadFields, Keeps
<1> HIDE DEF a
<1>2. DOMAIN b = HeadFields /\ Keeps(a, b, {"strip", "panes", "hscroll"})
  BY <1>1 DEF SizePanes, HeadFields, Keeps
<1>3. changed \/ h.frozen > 0 => b.strip = HeadersWidth(a) /\ b.panes = Panes(a) /\ b.hscroll = (Total(a) > a.viewW - Bar)
  BY <1>1 DEF SizePanes, HeadFields
<1> HIDE DEF b
<1>4. DOMAIN k = HeadFields /\ Keeps(b, k, {"rules"})
  BY <1>2 DEF ApplyColumnWidths, HeadFields, Keeps
<1>5. /\ b.lists = h.lists /\ b.shown = h.shown /\ b.frozen = h.frozen /\ b.rules = h.rules
      /\ b.canvas = CanvasWidth(h) /\ b.viewW = h.viewW /\ a.canvas = CanvasWidth(h) /\ a.viewW = h.viewW
      /\ a.lists = h.lists /\ a.shown = h.shown /\ a.frozen = h.frozen
  BY <1>1, <1>2 DEF Keeps, HeadFields
<1>6. /\ k.lists = h.lists /\ k.shown = h.shown /\ k.frozen = h.frozen /\ k.canvas = CanvasWidth(h)
      /\ k.viewW = h.viewW /\ k.strip = b.strip /\ k.panes = b.panes /\ k.hscroll = b.hscroll
  BY <1>4, <1>5 DEF Keeps, HeadFields
<1>7. Keeps(h, k, {"canvas", "strip", "panes", "hscroll", "rules"})
  BY <1>1, <1>2, <1>4 DEF Keeps, HeadFields
<1>8. changed \/ force => k.rules = [i \in 1..Count(h) |-> IF i <= Count(b) THEN RuleOf(b, i) ELSE h.rules[i]]
  BY <1>2, <1>5 DEF ApplyColumnWidths, HeadFields
<1>9. ~(changed \/ force) => k.rules = h.rules /\ k.canvas = h.canvas
  BY <1>5
<1> HIDE DEF k, changed
<1>10. CanvasWidth(k) = CanvasWidth(h)
  BY <1>6, SameSource
<1>11. changed \/ force => k.rules = RightRules(k)
  <2> SUFFICES ASSUME changed \/ force PROVE k.rules = RightRules(k)
    OBVIOUS
  <2>1. Count(b) = Count(h) /\ Count(k) = Count(h) /\ RightRules(k) = RightRules(b)
    BY <1>5, <1>6, SameSource
  <2>2. k.rules = [i \in 1..Count(h) |-> RuleOf(b, i)]
    <3>1. Count(h) \in Nat
      BY CountIs
    <3>2. \A i \in 1..Count(h) : i <= Count(b)
      BY <2>1, <3>1
    <3> QED BY <1>8, <3>2
  <2> QED BY <2>1, <2>2 DEF RightRules
<1>12. h.frozen > 0 => Placed(k)
  <2> SUFFICES ASSUME h.frozen > 0 PROVE Placed(k)
    OBVIOUS
  <2>1. Panes(k) = Panes(a) /\ HeadersWidth(k) = HeadersWidth(a) /\ Total(k) = Total(a)
    BY <1>5, <1>6, SameSource
  <2> QED BY <1>3, <1>5, <1>6, <2>1 DEF Placed
<1>13. HeadForm(k)
  BY <1>4, <1>6 DEF HeadForm
<1> QED BY <1>0, <1>6, <1>7, <1>9, <1>10, <1>11, <1>12, <1>13

LEMMA WithWidthsIs ==
  ASSUME NEW h, HeadForm(h), NEW w
  PROVE  LET k == WithWidths(h, w)
         IN  HeadForm(k) /\ Keeps(h, k, {"lists"}) /\ Count(k) = Count(h) /\ Marks(k) = Marks(h)
<1> DEFINE k == WithWidths(h, w)
           old == h.lists[h.shown]
           new == [i \in DOMAIN old |-> [old[i] EXCEPT !.width = w[i]]]
<1>1. ListForm(old)
  BY DEF HeadForm
<1>2. new = [i \in DOMAIN old |-> new[i]] /\ \A i \in DOMAIN old : DOMAIN new[i] = {"id", "width"} /\ new[i].id = old[i].id
  BY <1>1 DEF ListForm
<1>3. k = [h EXCEPT !.lists[h.shown] = new]
  BY DEF WithWidths
<1> HIDE DEF new
<1>4. ListForm(new) /\ DOMAIN new = DOMAIN old /\ Len(new) = Len(old)
  <2>1. Sequence(new) /\ DOMAIN new = DOMAIN old /\ Len(new) = Len(old)
    BY <1>1, <1>2, MappedIsSeq DEF ListForm
  <2> QED BY <1>2, <2>1 DEF ListForm
<1>5. /\ DOMAIN k = HeadFields /\ Keeps(h, k, {"lists"}) /\ k.lists = [h.lists EXCEPT ![h.shown] = new]
  BY <1>3 DEF HeadForm, HeadFields, Keeps
<1> HIDE DEF k
<1>6. k.shown = h.shown /\ k.sort = h.sort /\ DOMAIN k.lists = DOMAIN h.lists /\ k.lists[h.shown] = new
      /\ \A l \in DOMAIN h.lists : k.lists[l] = h.lists[l] \/ k.lists[l] = new
  BY <1>5 DEF HeadForm, HeadFields, Keeps
<1>7. HeadForm(k)
  BY <1>4, <1>5, <1>6 DEF HeadForm
<1>8. Columns(k) = new /\ Columns(h) = old /\ Count(k) = Count(h)
  BY <1>4, <1>6 DEF Columns, Count
<1>9. \A id : Known(k, id) <=> Known(h, id)
  <2> SUFFICES ASSUME NEW id PROVE Known(k, id) <=> Known(h, id)
    OBVIOUS
  <2>1. DOMAIN old = 1..Count(h) /\ \A i \in DOMAIN old : new[i].id = old[i].id
    BY <1>2, <1>8, CountIs
  <2> HIDE DEF old
  <2> QED BY <1>8, <2>1 DEF Known
<1>10. Marks(k) = Marks(h)
  BY <1>6, <1>9 DEF Marks
<1> QED BY <1>5, <1>7, <1>8, <1>10 DEF k

\* What the fitting of columns changes.
Fields3 == {"lists", "headers", "pos", "canvas", "strip", "panes", "hscroll", "rules", "edit"}

\* The fields that are kept up to date by what a step does not touch.
LEMMA FollowsStill ==
  ASSUME NEW h, NEW k, Following(h), Keeps(h, k, Fields3 \cup {"viewW", "vscroll"}), Count(k) = Count(h), Marks(k) = Marks(h),
         k.headers = Columns(k), k.pos = Positions(k), DOMAIN k.rules = 1..Count(k)
  PROVE  Following(k)
<1>1. k.split = h.split /\ k.frozen = h.frozen /\ k.scroller = h.scroller /\ k.marks = h.marks
  BY DEF Keeps, HeadFields, Fields3
<1> QED BY <1>1 DEF Following

LEMMA RulesHaveColumns == ASSUME NEW h PROVE DOMAIN RightRules(h) = 1..Count(h)
BY DEF RightRules

LEMMA ApplyWidthsIs ==
  ASSUME NEW h, HeadForm(h), Following(h), NEW new
  PROVE  LET k == ApplyWidths(h, new)
         IN  HeadForm(k) /\ Keeps(h, k, Fields3) /\ Following(k) /\ Settled(k)
<1> DEFINE a == WithWidths(h, new)
           b == ApplyColumnHeaderWidths(a)
           c == UpdateCanvasWidth(b, TRUE)
           k == ApplyWidths(h, new)
<1>1. HeadForm(a) /\ Keeps(h, a, {"lists"}) /\ Count(a) = Count(h) /\ Marks(a) = Marks(h)
  BY WithWidthsIs
<1> HIDE DEF a
<1>2. /\ DOMAIN b = HeadFields /\ Keeps(a, b, {"headers", "pos"}) /\ b.headers = Columns(a)
      /\ b.pos = Positions([a EXCEPT !.headers = Columns(a)])
  BY <1>1 DEF ApplyColumnHeaderWidths, UpdateColumnCaches, HeadForm, HeadFields, Keeps
<1> HIDE DEF b
<1>3. b.lists = a.lists /\ b.shown = a.shown /\ b.frozen = a.frozen /\ b.sort = a.sort /\ b.rules = h.rules
  BY <1>1, <1>2 DEF Keeps, HeadFields
<1>4. HeadForm(b)
  BY <1>1, <1>2, <1>3 DEF HeadForm
<1>5. b.headers = Columns(b) /\ b.pos = Positions(b) /\ Count(b) = Count(h) /\ Marks(b) = Marks(h)
  <2> DEFINE a2 == [a EXCEPT !.headers = Columns(a)]
  <2>1. a2.lists = a.lists /\ a2.shown = a.shown /\ a2.frozen = a.frozen
    BY <1>1 DEF HeadForm, HeadFields
  <2> HIDE DEF a2
  <2>2. Positions(a2) = Positions(a)
    BY <2>1, SameSource
  <2>3. b.pos = Positions(a)
    BY <1>2, <2>2 DEF a2
  <2> QED BY <1>1, <1>2, <1>3, <2>3, SameSource
<1>6. DOMAIN b.rules = 1..Count(b)
  BY <1>3, <1>5 DEF Following
<1>7. /\ HeadForm(c) /\ Keeps(b, c, {"canvas", "strip", "panes", "hscroll", "rules"})
      /\ c.canvas = CanvasWidth(c) /\ (c.frozen > 0 => Placed(c)) /\ c.rules = RightRules(c)
  BY <1>4, <1>6, UpdateCanvasIs
<1> HIDE DEF c
<1>8. k = c \/ k = [c EXCEPT !.edit = "none"]
  BY DEF ApplyWidths, InvalidateAllRows, a, b, c
<1> HIDE DEF k
<1>9. DOMAIN k = HeadFields /\ Keeps(c, k, {"edit"})
  BY <1>7, <1>8 DEF HeadForm, HeadFields, Keeps
<1>10. Keeps(h, k, Fields3)
  BY <1>1, <1>2, <1>7, <1>9 DEF Keeps, HeadFields, Fields3
<1>11. /\ k.lists = c.lists /\ k.shown = c.shown /\ k.frozen = c.frozen /\ k.sort = c.sort /\ k.rules = c.rules
       /\ k.canvas = c.canvas /\ k.panes = c.panes /\ k.strip = c.strip /\ k.hscroll = c.hscroll /\ k.viewW = c.viewW
       /\ k.headers = b.headers /\ k.pos = b.pos /\ c.lists = b.lists /\ c.shown = b.shown /\ c.frozen = b.frozen
       /\ c.sort = b.sort
  BY <1>7, <1>9 DEF Keeps, HeadFields
<1>12. /\ Columns(k) = Columns(b) /\ Positions(k) = Positions(b) /\ Count(k) = Count(b) /\ Marks(k) = Marks(b)
       /\ RightRules(k) = RightRules(c) /\ CanvasWidth(k) = CanvasWidth(c) /\ Panes(k) = Panes(c)
       /\ HeadersWidth(k) = HeadersWidth(c) /\ Total(k) = Total(c) /\ Count(k) = Count(c)
  BY <1>11, SameSource
<1>13. HeadForm(k)
  BY <1>7, <1>9, <1>11 DEF HeadForm
<1>14. DOMAIN k.rules = 1..Count(k)
  BY <1>7, <1>11, <1>12, RulesHaveColumns
<1>15. Following(k)
  <2>1. Keeps(h, k, Fields3 \cup {"viewW", "vscroll"})
    BY <1>10 DEF Keeps
  <2> QED BY <1>5, <1>11, <1>12, <1>14, <2>1, FollowsStill
<1>16. Settled(k)
  BY <1>7, <1>11, <1>12 DEF Settled, Placed
<1> QED BY <1>10, <1>13, <1>15, <1>16 DEF k

\* Rules and canvases are right, and so are the panes after the next update.
Ready(h) == h.rules = RightRules(h) /\ h.canvas = CanvasWidth(h)

LEMMA CanvasFollows ==
  ASSUME NEW h, HeadForm(h), Following(h), NEW force \in BOOLEAN
  PROVE  LET k == UpdateCanvasWidth(h, force)
         IN  /\ HeadForm(k) /\ Following(k) /\ Keeps(h, k, {"canvas", "strip", "panes", "hscroll", "rules"})
             /\ force \/ Ready(h) => Settled(k)
             /\ k.canvas = CanvasWidth(k) /\ Placed(k)
<1> DEFINE k == UpdateCanvasWidth(h, force)
<1>1. /\ HeadForm(k) /\ Keeps(h, k, {"canvas", "strip", "panes", "hscroll", "rules"})
      /\ k.canvas = CanvasWidth(k) /\ (k.frozen > 0 => Placed(k))
      /\ k.rules = RightRules(k) \/ (~force /\ k.rules = h.rules /\ k.canvas = h.canvas)
  BY UpdateCanvasIs DEF Following
<1> HIDE DEF k
<1>2. k.lists = h.lists /\ k.shown = h.shown /\ k.frozen = h.frozen /\ k.sort = h.sort /\ k.headers = h.headers /\ k.pos = h.pos
  BY <1>1 DEF Keeps, HeadFields
<1>3. /\ Columns(k) = Columns(h) /\ Count(k) = Count(h) /\ Positions(k) = Positions(h) /\ Marks(k) = Marks(h)
      /\ k.canvas = h.canvas => RightRules(k) = RightRules(h)
  BY <1>2, SameSource
<1>4. DOMAIN k.rules = 1..Count(k)
  BY <1>1, <1>3, RulesHaveColumns DEF Following
<1>5. Following(k)
  <2>1. Keeps(h, k, Fields3 \cup {"viewW", "vscroll"})
    BY <1>1 DEF Keeps, Fields3
  <2>2. k.headers = Columns(k) /\ k.pos = Positions(k)
    BY <1>2, <1>3 DEF Following
  <2> QED BY <1>3, <1>4, <2>1, <2>2, FollowsStill
<1>6. Placed(k)
  BY <1>1 DEF Placed
<1>7. force \/ Ready(h) => Settled(k)
  BY <1>1, <1>3, <1>6 DEF Settled, Ready
<1> QED BY <1>1, <1>5, <1>6, <1>7 DEF k

LEMMA CountRowsIs ==
  ASSUME NEW h, HeadForm(h), Following(h)
  PROVE  LET k == CountRows(h)
         IN  /\ HeadForm(k) /\ Following(k) /\ Keeps(h, k, Fields3 \cup {"vscroll"})
             /\ Ready(h) => Settled(k)
             /\ k.canvas = CanvasWidth(k) /\ Placed(k)
<1> DEFINE a == [h EXCEPT !.vscroll = h.tall]
           b == IF h.fit /\ h.tall # h.vscroll THEN AutosizeColumns(a) ELSE a
           k == UpdateCanvasWidth(b, FALSE)
<1>1. DOMAIN a = HeadFields /\ Keeps(h, a, {"vscroll"})
  BY DEF HeadForm, HeadFields, Keeps
<1> HIDE DEF a
<1>2. /\ a.lists = h.lists /\ a.shown = h.shown /\ a.frozen = h.frozen /\ a.sort = h.sort /\ a.rules = h.rules
      /\ a.canvas = h.canvas /\ a.headers = h.headers /\ a.pos = h.pos
  BY <1>1 DEF Keeps, HeadFields
<1>3. /\ Columns(a) = Columns(h) /\ Count(a) = Count(h) /\ Positions(a) = Positions(h) /\ Marks(a) = Marks(h)
      /\ RightRules(a) = RightRules(h) /\ CanvasWidth(a) = CanvasWidth(h)
  BY <1>2, SameSource
<1>4. HeadForm(a)
  BY <1>1, <1>2 DEF HeadForm
<1>5. Following(a)
  <2>1. Keeps(h, a, Fields3 \cup {"viewW", "vscroll"})
    BY <1>1 DEF Keeps
  <2>2. a.headers = Columns(a) /\ a.pos = Positions(a) /\ DOMAIN a.rules = 1..Count(a)
    BY <1>2, <1>3 DEF Following
  <2> QED BY <1>3, <2>1, <2>2, FollowsStill
<1>6. Ready(h) => Ready(a)
  BY <1>2, <1>3 DEF Ready
<1>7. HeadForm(b) /\ Following(b) /\ Keeps(a, b, Fields3) /\ (Ready(a) => Ready(b))
  <2>1. CASE b = a
    BY <1>4, <1>5, <2>1 DEF Keeps
  <2>2. CASE b = AutosizeColumns(a)
    BY <1>4, <1>5, <2>2, ApplyWidthsIs DEF AutosizeColumns, Settled, Ready
  <2> QED BY <2>1, <2>2
<1> HIDE DEF b
<1>8. /\ HeadForm(k) /\ Following(k) /\ Keeps(b, k, {"canvas", "strip", "panes", "hscroll", "rules"})
      /\ Ready(b) => Settled(k)
      /\ k.canvas = CanvasWidth(k) /\ Placed(k)
  BY <1>7, CanvasFollows
<1>9. CountRows(h) = k
  BY DEF CountRows, a, b
<1> HIDE DEF k
<1>10. Keeps(h, k, Fields3 \cup {"vscroll"})
  BY <1>1, <1>7, <1>8 DEF Keeps, Fields3
<1> QED BY <1>6, <1>7, <1>8, <1>9, <1>10

LEMMA ResizeCanvasIs ==
  ASSUME NEW h, HeadForm(h), Following(h)
  PROVE  LET k == ResizeCanvas(h)
         IN  /\ HeadForm(k) /\ Following(k) /\ Keeps(h, k, Fields3 \cup {"vscroll"})
             /\ h.fit \/ Ready(h) => Settled(k)
             /\ k.canvas = CanvasWidth(k) /\ Placed(k)
<1>1. CASE h.fit
  <2> DEFINE a == AutosizeColumns(h)
             k == CountRows(a)
  <2>1. HeadForm(a) /\ Keeps(h, a, Fields3) /\ Following(a) /\ Settled(a)
    BY ApplyWidthsIs DEF AutosizeColumns
  <2> HIDE DEF a
  <2>2. Ready(a)
    BY <2>1 DEF Settled, Ready
  <2>3. HeadForm(k) /\ Following(k) /\ Keeps(a, k, Fields3 \cup {"vscroll"}) /\ Settled(k) /\ k.canvas = CanvasWidth(k) /\ Placed(k)
    BY <2>1, <2>2, CountRowsIs
  <2>4. ResizeCanvas(h) = k
    BY <1>1 DEF ResizeCanvas, a
  <2> HIDE DEF k
  <2>5. Keeps(h, k, Fields3 \cup {"vscroll"})
    BY <2>1, <2>3 DEF Keeps
  <2> QED BY <2>3, <2>4, <2>5
<1>2. CASE ~h.fit
  BY <1>2, CountRowsIs DEF ResizeCanvas
<1> QED BY <1>1, <1>2

\* Headers, marks and empty rules are made anew.
LEMMA HeadersMade ==
  ASSUME NEW g, HeadForm(g), g.pos = Positions(g), g.split = (g.frozen > 0), (g.scroller = "right") = g.split
  PROVE  LET k == CreateCssRules(CreateColumnHeaders(g))
         IN  /\ HeadForm(k) /\ Following(k) /\ Keeps(g, k, {"headers", "strip", "marks", "rules"})
             /\ k.rules = [i \in 1..Count(k) |-> NoRule]
<1> DEFINE a == [g EXCEPT !.headers = Columns(g), !.strip = HeadersWidth(g)]
           b == [a EXCEPT !.sort = g.sort]
           c == [a EXCEPT !.sort = g.sort, !.marks = Marks(b)]
           k == [c EXCEPT !.rules = [i \in 1..Count(c) |-> NoRule]]
<1>1. CreateCssRules(CreateColumnHeaders(g)) = k
  BY DEF CreateCssRules, CreateColumnHeaders, SetSortColumns
<1>2. DOMAIN a = HeadFields /\ Keeps(g, a, {"headers", "strip"}) /\ a.headers = Columns(g)
  BY DEF HeadForm, HeadFields, Keeps
<1> HIDE DEF a
<1>3. DOMAIN b = HeadFields /\ Keeps(a, b, {"sort"}) /\ b.sort = g.sort
  BY <1>2 DEF HeadFields, Keeps
<1> HIDE DEF b
<1>4. DOMAIN c = HeadFields /\ Keeps(a, c, {"sort", "marks"}) /\ c.sort = g.sort /\ c.marks = Marks(b)
  BY <1>2 DEF HeadFields, Keeps
<1> HIDE DEF c
<1>5. DOMAIN k = HeadFields /\ Keeps(c, k, {"rules"}) /\ k.rules = [i \in 1..Count(c) |-> NoRule]
  BY <1>4 DEF HeadFields, Keeps
<1> HIDE DEF k
<1>6. /\ k.lists = g.lists /\ k.shown = g.shown /\ k.frozen = g.frozen /\ k.sort = g.sort /\ k.pos = g.pos
      /\ k.split = g.split /\ k.scroller = g.scroller /\ k.headers = Columns(g) /\ k.marks = Marks(b)
      /\ b.lists = g.lists /\ b.shown = g.shown /\ b.frozen = g.frozen /\ b.sort = g.sort
      /\ c.lists = g.lists /\ c.shown = g.shown /\ c.frozen = g.frozen
  BY <1>2, <1>3, <1>4, <1>5 DEF Keeps, HeadFields
<1>7. /\ Columns(k) = Columns(g) /\ Count(k) = Count(g) /\ Positions(k) = Positions(g) /\ Marks(k) = Marks(g)
      /\ Marks(b) = Marks(g) /\ Count(c) = Count(g)
  BY <1>6, SameSource
<1>8. Keeps(g, k, {"headers", "strip", "marks", "rules"})
  BY <1>2, <1>4, <1>5 DEF Keeps, HeadFields
<1>9. HeadForm(k)
  BY <1>5, <1>6 DEF HeadForm
<1>10. DOMAIN k.rules = 1..Count(k) /\ k.rules = [i \in 1..Count(k) |-> NoRule]
  BY <1>5, <1>7
<1>11. Following(k)
  BY <1>6, <1>7, <1>10 DEF Following
<1> QED BY <1>1, <1>8, <1>9, <1>10, <1>11

LEMMA LimitedForm ==
  ASSUME NEW cols, ListForm(cols)
  PROVE  /\ ListForm([i \in DOMAIN cols |-> InLimits(cols[i])])
         /\ DOMAIN [i \in DOMAIN cols |-> InLimits(cols[i])] = DOMAIN cols
<1> DEFINE new == [i \in DOMAIN cols |-> InLimits(cols[i])]
<1>1. new = [i \in DOMAIN cols |-> new[i]] /\ \A i \in DOMAIN cols : DOMAIN new[i] = {"id", "width"}
  BY DEF ListForm, InLimits
<1> HIDE DEF new
<1>2. Sequence(new) /\ DOMAIN new = DOMAIN cols
  BY <1>1, MappedIsSeq DEF ListForm
<1> QED BY <1>1, <1>2 DEF ListForm, new

LEMMA SetColumnsIs ==
  ASSUME NEW h, HeadForm(h), (h.scroller = "right") = (h.frozen > 0), h.drag = NoDrag,
         NEW list \in DOMAIN h.lists, NEW cols, ListForm(cols)
  PROVE  ColumnsInv(SetColumns(h, list, cols))
<1> DEFINE new == [i \in DOMAIN cols |-> InLimits(cols[i])]
           a == [h EXCEPT !.shown = list, !.lists[list] = new]
           b == [a EXCEPT !.pos = Positions(a)]
           c == [b EXCEPT !.split = b.frozen > 0]
           d == [c EXCEPT !.edit = "none"]
           e == CreateCssRules(CreateColumnHeaders(d))
           f == ResizeCanvas(e)
           g == UpdateCanvasWidth(f, FALSE)
           k == [g EXCEPT !.rules = [i \in DOMAIN @ |-> IF i <= Count(g) THEN RuleOf(g, i) ELSE @[i]]]
<1>1. SetColumns(h, list, cols) = k
  BY DEF SetColumns, UpdateColumnCaches, SetPaneVisibility, InvalidateAllRows, ApplyColumnWidths
<1>2. ListForm(new)
  BY LimitedForm
<1> HIDE DEF new
<1>3. HeadForm(a) /\ Keeps(h, a, {"shown", "lists"})
  BY <1>2 DEF HeadForm, HeadFields, Keeps
<1> HIDE DEF a
<1>4. DOMAIN b = HeadFields /\ Keeps(a, b, {"pos"}) /\ b.pos = Positions(a)
  BY <1>3 DEF HeadForm, HeadFields, Keeps
<1> HIDE DEF b
<1>5. DOMAIN c = HeadFields /\ Keeps(b, c, {"split"}) /\ c.split = (b.frozen > 0)
  BY <1>4 DEF HeadFields, Keeps
<1> HIDE DEF c
<1>6. DOMAIN d = HeadFields /\ Keeps(c, d, {"edit"})
  BY <1>5 DEF HeadFields, Keeps
<1> HIDE DEF d
<1>7. /\ d.lists = a.lists /\ d.shown = a.shown /\ d.frozen = a.frozen /\ d.pos = Positions(a)
      /\ d.split = (d.frozen > 0) /\ d.scroller = h.scroller /\ d.frozen = h.frozen /\ d.drag = h.drag
  BY <1>3, <1>4, <1>5, <1>6 DEF Keeps, HeadFields
<1>8. HeadForm(d) /\ d.pos = Positions(d)
  <2>1. Positions(d) = Positions(a)
    BY <1>7, SameSource
  <2> QED BY <1>3, <1>6, <1>7, <2>1 DEF HeadForm
<1>9. HeadForm(e) /\ Following(e) /\ Keeps(d, e, {"headers", "strip", "marks", "rules"})
  BY <1>7, <1>8, HeadersMade
<1> HIDE DEF e
<1>10. HeadForm(f) /\ Following(f) /\ Keeps(e, f, Fields3 \cup {"vscroll"})
  BY <1>9, ResizeCanvasIs
<1> HIDE DEF f
<1>11. /\ HeadForm(g) /\ Following(g) /\ g.canvas = CanvasWidth(g) /\ Placed(g)
  BY <1>10, CanvasFollows
<1> HIDE DEF g
<1>12. DOMAIN k = HeadFields /\ Keeps(g, k, {"rules"}) /\ k.rules = [i \in 1..Count(g) |-> IF i <= Count(g) THEN RuleOf(g, i) ELSE g.rules[i]]
  BY <1>11 DEF HeadForm, HeadFields, Keeps, Following
<1>13. k.rules = RightRules(g)
  <2>1. Count(g) \in Nat
    BY <1>11, CountIs
  <2> QED BY <1>12, <2>1 DEF RightRules
<1> HIDE DEF k
<1>14. k.lists = g.lists /\ k.shown = g.shown /\ k.frozen = g.frozen /\ k.sort = g.sort /\ k.pos = g.pos
      /\ k.split = g.split /\ k.scroller = g.scroller /\ k.headers = g.headers /\ k.marks = g.marks
      /\ k.canvas = g.canvas /\ k.viewW = g.viewW /\ k.panes = g.panes /\ k.strip = g.strip /\ k.hscroll = g.hscroll
  BY <1>12 DEF Keeps, HeadFields
<1>15. /\ Columns(k) = Columns(g) /\ Positions(k) = Positions(g) /\ Count(k) = Count(g) /\ Marks(k) = Marks(g)
       /\ RightRules(k) = RightRules(g) /\ CanvasWidth(k) = CanvasWidth(g) /\ Panes(k) = Panes(g)
       /\ HeadersWidth(k) = HeadersWidth(g) /\ Total(k) = Total(g)
  BY <1>14, SameSource
<1>16. HeadForm(k)
  BY <1>11, <1>12, <1>14 DEF HeadForm
<1>17. DOMAIN k.rules = 1..Count(k)
  BY <1>13, <1>15, RulesHaveColumns
<1>18. Following(k)
  BY <1>11, <1>14, <1>15, <1>17 DEF Following
<1>19. Settled(k)
  BY <1>11, <1>13, <1>14, <1>15 DEF Settled, Placed
<1> QED BY <1>1, <1>16, <1>18, <1>19 DEF ColumnsInv

\* What the columns do not depend on may change.
LEMMA OthersChanged ==
  ASSUME NEW h, NEW k, HeadForm(h), Following(h), DOMAIN k = HeadFields,
         Keeps(h, k, {"drag", "edit", "viewW", "tall", "fit"})
  PROVE  /\ HeadForm(k) /\ Following(k) /\ (Ready(h) => Ready(k))
         /\ (Settled(h) /\ k.viewW = h.viewW) => Settled(k)
<1>1. /\ k.lists = h.lists /\ k.shown = h.shown /\ k.frozen = h.frozen /\ k.sort = h.sort /\ k.pos = h.pos
      /\ k.split = h.split /\ k.scroller = h.scroller /\ k.headers = h.headers /\ k.marks = h.marks
      /\ k.canvas = h.canvas /\ k.rules = h.rules /\ k.panes = h.panes /\ k.strip = h.strip /\ k.hscroll = h.hscroll
  BY DEF Keeps, HeadFields
<1>2. /\ Columns(k) = Columns(h) /\ Positions(k) = Positions(h) /\ Count(k) = Count(h) /\ Marks(k) = Marks(h)
      /\ RightRules(k) = RightRules(h) /\ CanvasWidth(k) = CanvasWidth(h) /\ Total(k) = Total(h)
      /\ k.viewW = h.viewW => Panes(k) = Panes(h) /\ HeadersWidth(k) = HeadersWidth(h)
  BY <1>1, SameSource
<1>3. HeadForm(k)
  BY <1>1 DEF HeadForm
<1>4. Following(k)
  BY <1>1, <1>2 DEF Following
<1>5. Ready(h) => Ready(k)
  BY <1>1, <1>2 DEF Ready
<1>6. (Settled(h) /\ k.viewW = h.viewW) => Settled(k)
  BY <1>1, <1>2 DEF Settled, Placed
<1> QED BY <1>3, <1>4, <1>5, <1>6

LEMMA SettledIsReady == ASSUME NEW h, Settled(h) PROVE Ready(h)
BY DEF Settled, Ready

LEMMA ShowColumnsIs == ASSUME ColumnsInv(head), ShowColumns PROVE ColumnsInv(head')
<1> DEFINE h == [head EXCEPT !.edit = "none"]
<1>1. PICK l \in DOMAIN Lists : head' = SetColumns(h, l, head.lists[l])
  BY DEF ShowColumns
<1>2. head.drag = NoDrag
  BY DEF ShowColumns
<1>3. DOMAIN h = HeadFields /\ Keeps(head, h, {"edit"})
  BY DEF ColumnsInv, HeadForm, HeadFields, Keeps
<1> HIDE DEF h
<1>4. HeadForm(h) /\ Following(h)
  <2>1. Keeps(head, h, {"drag", "edit", "viewW", "tall", "fit"})
    BY <1>3 DEF Keeps
  <2> QED BY <1>3, <2>1, OthersChanged DEF ColumnsInv
<1>5. h.drag = NoDrag /\ h.lists = head.lists
  BY <1>2, <1>3 DEF Keeps, HeadFields
<1>6. (h.scroller = "right") = (h.frozen > 0)
  BY <1>4 DEF Following
<1>7. l \in DOMAIN h.lists /\ ListForm(head.lists[l])
  BY <1>4, <1>5 DEF HeadForm
<1> QED BY <1>1, <1>4, <1>5, <1>6, <1>7, SetColumnsIs

LEMMA ChangeOptionsIs == ASSUME ColumnsInv(head), ChangeOptions PROVE ColumnsInv(head')
<1>1. PICK frozen \in 0..2, fit \in BOOLEAN : SetOptions(frozen, fit)
  BY DEF ChangeOptions
<1> DEFINE a == [head EXCEPT !.edit = "none"]
           b == [a EXCEPT !.frozen = frozen, !.fit = fit]
           c == [b EXCEPT !.frozen = IF @ \in 1..Count(b) THEN @ ELSE 0]
           h == [c EXCEPT !.scroller = IF c.frozen > 0 THEN "right" ELSE "left"]
<1>2. head' = SetColumns(h, h.shown, head.lists[head.shown])
  BY <1>1 DEF SetOptions, SetScroller, SetFrozenOptions, Committed, Columns
<1>3. DOMAIN a = HeadFields /\ Keeps(head, a, {"edit"})
  BY DEF ColumnsInv, HeadForm, HeadFields, Keeps
<1> HIDE DEF a
<1>4. DOMAIN b = HeadFields /\ Keeps(a, b, {"frozen", "fit"})
  BY <1>3 DEF HeadFields, Keeps
<1> HIDE DEF b
<1>5. DOMAIN c = HeadFields /\ Keeps(b, c, {"frozen"})
  BY <1>4 DEF HeadFields, Keeps
<1> HIDE DEF c
<1>6. DOMAIN h = HeadFields /\ Keeps(c, h, {"scroller"}) /\ h.scroller = IF c.frozen > 0 THEN "right" ELSE "left"
  BY <1>5 DEF HeadFields, Keeps
<1> HIDE DEF h
<1>7. h.lists = head.lists /\ h.shown = head.shown /\ h.drag = head.drag /\ h.frozen = c.frozen
  BY <1>3, <1>4, <1>5, <1>6 DEF HeadFields, Keeps
<1>8. (h.scroller = "right") = (h.frozen > 0)
  BY <1>6, <1>7
<1>9. HeadForm(h)
  BY <1>6, <1>7 DEF ColumnsInv, HeadForm
<1>10. h.drag = NoDrag
  BY <1>7 DEF ChangeOptions
<1>11. h.shown \in DOMAIN h.lists /\ ListForm(head.lists[head.shown])
  BY <1>7, <1>9 DEF HeadForm
<1> QED BY <1>2, <1>8, <1>9, <1>10, <1>11, SetColumnsIs

LEMMA WindowResizeIs == ASSUME ColumnsInv(head), WindowResize PROVE ColumnsInv(head')
<1>1. PICK w \in Windows : head' = ResizeCanvas([head EXCEPT !.viewW = w])
  BY DEF WindowResize
<1> DEFINE h == [head EXCEPT !.viewW = w]
<1>2. DOMAIN h = HeadFields /\ Keeps(head, h, {"drag", "edit", "viewW", "tall", "fit"})
  BY DEF ColumnsInv, HeadForm, HeadFields, Keeps
<1> HIDE DEF h
<1>3. Ready(head)
  BY SettledIsReady DEF ColumnsInv, WindowResize
<1>4. HeadForm(h) /\ Following(h) /\ Ready(h)
  BY <1>2, <1>3, OthersChanged DEF ColumnsInv
<1>5. head' = ResizeCanvas(h)
  BY <1>1 DEF h
<1> QED BY <1>4, <1>5, ResizeCanvasIs DEF ColumnsInv

LEMMA RowsChangeIs == ASSUME ColumnsInv(head), RowsChange PROVE ColumnsInv(head')
<1> DEFINE h == [head EXCEPT !.tall = ~@]
<1>1. head' = CountRows(h)
  BY DEF RowsChange
<1>2. DOMAIN h = HeadFields /\ Keeps(head, h, {"tall"})
  BY DEF ColumnsInv, HeadForm, HeadFields, Keeps
<1> HIDE DEF h
<1>3. HeadForm(h) /\ Following(h) /\ (Ready(head) => Ready(h))
  <2>1. Keeps(head, h, {"drag", "edit", "viewW", "tall", "fit"})
    BY <1>2 DEF Keeps
  <2> QED BY <1>2, <2>1, OthersChanged DEF ColumnsInv
<1>4. HeadForm(head') /\ Following(head') /\ Keeps(h, head', Fields3 \cup {"vscroll"}) /\ (Ready(h) => Settled(head'))
  BY <1>1, <1>3, CountRowsIs
<1>5. head'.drag = head.drag
  BY <1>2, <1>4 DEF Keeps, HeadFields, Fields3
<1> QED BY <1>3, <1>4, <1>5, SettledIsReady DEF ColumnsInv

LEMMA HeaderClickIs == ASSUME ColumnsInv(head), HeaderClick PROVE ColumnsInv(head')
<1>1. PICK sort : head' = SetSortColumns(Committed(head), sort)
  BY DEF HeaderClick
<1> DEFINE a == [head EXCEPT !.edit = "none"]
           b == [a EXCEPT !.sort = sort]
           k == [a EXCEPT !.sort = sort, !.marks = Marks(b)]
<1>2. head' = k
  BY <1>1 DEF SetSortColumns, Committed
<1>3. DOMAIN a = HeadFields /\ Keeps(head, a, {"edit"})
  BY DEF ColumnsInv, HeadForm, HeadFields, Keeps
<1> HIDE DEF a
<1>4. DOMAIN b = HeadFields /\ Keeps(a, b, {"sort"}) /\ b.sort = sort
  BY <1>3 DEF HeadFields, Keeps
<1> HIDE DEF b
<1>5. DOMAIN k = HeadFields /\ Keeps(a, k, {"sort", "marks"}) /\ k.sort = sort /\ k.marks = Marks(b)
  BY <1>3 DEF HeadFields, Keeps
<1> HIDE DEF k
<1>6. /\ k.lists = head.lists /\ k.shown = head.shown /\ k.frozen = head.frozen /\ k.sort = b.sort /\ k.pos = head.pos
      /\ k.split = head.split /\ k.scroller = head.scroller /\ k.headers = head.headers /\ k.viewW = head.viewW
      /\ k.canvas = head.canvas /\ k.rules = head.rules /\ k.panes = head.panes /\ k.strip = head.strip
      /\ k.hscroll = head.hscroll /\ k.drag = head.drag
      /\ b.lists = head.lists /\ b.shown = head.shown /\ b.frozen = head.frozen
  BY <1>3, <1>4, <1>5 DEF Keeps, HeadFields
<1>7. /\ Columns(k) = Columns(head) /\ Positions(k) = Positions(head) /\ Count(k) = Count(head)
      /\ RightRules(k) = RightRules(head) /\ CanvasWidth(k) = CanvasWidth(head) /\ Total(k) = Total(head)
      /\ Panes(k) = Panes(head) /\ HeadersWidth(k) = HeadersWidth(head)
  BY <1>6, SameSource
<1>8. Marks(k) = Marks(b)
  BY <1>6, SameSource
<1>9. HeadForm(k)
  BY <1>5, <1>6 DEF HeadForm, ColumnsInv
<1>10. Following(k)
  BY <1>5, <1>6, <1>7, <1>8 DEF Following, ColumnsInv
<1>11. k.drag = NoDrag => Settled(k)
  BY <1>6, <1>7 DEF Settled, Placed, ColumnsInv
<1> QED BY <1>2, <1>9, <1>10, <1>11 DEF ColumnsInv

LEMMA ReorderIs == ASSUME ColumnsInv(head), Reorder PROVE ColumnsInv(head')
<1>1. PICK i \in 1..(Count(head) - 1) : head' = SetColumns(Committed(head), "own", Swapped(head, i))
  BY DEF Reorder
<1> DEFINE h == [head EXCEPT !.edit = "none"]
           old == Columns(head)
           new == Swapped(head, i)
<1>2. DOMAIN h = HeadFields /\ Keeps(head, h, {"drag", "edit", "viewW", "tall", "fit"})
  BY DEF ColumnsInv, HeadForm, HeadFields, Keeps
<1>3. head' = SetColumns(h, "own", new)
  BY <1>1 DEF Committed
<1> HIDE DEF h
<1>4. HeadForm(h) /\ Following(h)
  BY <1>2, OthersChanged DEF ColumnsInv
<1>5. h.drag = NoDrag
  <2>1. h.drag = head.drag
    BY DEF h, ColumnsInv, HeadForm, HeadFields
  <2> QED BY <2>1 DEF Reorder
<1>6. (h.scroller = "right") = (h.frozen > 0) /\ "own" \in DOMAIN h.lists
  BY <1>4 DEF Following, HeadForm
<1>7. ListForm(old) /\ DOMAIN old = 1..Count(head) /\ Count(head) \in Nat
  BY CountIs DEF ColumnsInv, HeadForm, Columns
<1>8. new = [old EXCEPT ![i] = old[i + 1], ![i + 1] = old[i]]
  BY DEF Swapped, ColumnsInv, Following
<1> HIDE DEF old, new
<1>9. new = [j \in DOMAIN old |-> new[j]] /\ \A j \in DOMAIN old : DOMAIN new[j] = {"id", "width"}
  <2>1. i \in DOMAIN old /\ i + 1 \in DOMAIN old
    BY <1>7
  <2>2. \A j \in DOMAIN old : new[j] \in {old[j], old[i], old[i + 1]}
    BY <1>8
  <2> QED BY <1>7, <1>8, <2>1, <2>2 DEF ListForm
<1>10. ListForm(new)
  <2>1. Sequence(new) /\ DOMAIN new = DOMAIN old
    BY <1>7, <1>9, MappedIsSeq DEF ListForm
  <2> QED BY <1>9, <2>1 DEF ListForm
<1> QED BY <1>3, <1>4, <1>5, <1>6, <1>10, SetColumnsIs

LEMMA DragStartIs == ASSUME ColumnsInv(head), DragStart PROVE ColumnsInv(head')
<1> DEFINE h == [head EXCEPT !.edit = "none"]
<1>1. PICK drag : head' = [h EXCEPT !.drag = drag]
  BY DEF DragStart, Committed
<1>2. DOMAIN h = HeadFields /\ Keeps(head, h, {"edit"})
  BY DEF ColumnsInv, HeadForm, HeadFields, Keeps
<1> HIDE DEF h
<1>3. DOMAIN head' = HeadFields /\ Keeps(h, head', {"drag"})
  BY <1>1, <1>2 DEF HeadFields, Keeps
<1>4. Keeps(head, head', {"drag", "edit", "viewW", "tall", "fit"}) /\ head'.viewW = head.viewW
  BY <1>2, <1>3 DEF HeadFields, Keeps
<1>5. HeadForm(head) /\ Following(head) /\ Settled(head)
  BY DEF ColumnsInv, DragStart
<1>6. HeadForm(head') /\ Following(head') /\ Settled(head')
  BY <1>3, <1>4, <1>5, OthersChanged
<1> QED BY <1>6 DEF ColumnsInv

LEMMA MovedApart ==
  ASSUME NEW h, HeadForm(h), NEW l
  PROVE  HeadForm(MoveApart(h, l)) /\ Keeps(h, MoveApart(h, l), {"strip", "panes"})
<1> DEFINE k == [h EXCEPT !.strip.l = l + Slack, !.panes.header = l]
<1>1. MoveApart(h, l) \in {h, k}
  BY DEF MoveApart
<1>2. DOMAIN k = HeadFields /\ Keeps(h, k, {"strip", "panes"})
  BY DEF HeadForm, HeadFields, Keeps
<1>3. Keeps(h, h, {"strip", "panes"})
  BY DEF Keeps
<1> HIDE DEF k
<1>4. HeadForm(k)
  <2>1. k.lists = h.lists /\ k.shown = h.shown
    BY <1>2 DEF Keeps, HeadFields
  <2> QED BY <1>2, <2>1 DEF HeadForm
<1> QED BY <1>1, <1>2, <1>3, <1>4

LEMMA DragIs == ASSUME ColumnsInv(head), Drag PROVE ColumnsInv(head')
<1>0. HeadForm(head) /\ Following(head)
  BY DEF ColumnsInv
<1>1. PICK d : head' = ApplyColumnHeaderWidths(MoveApart(Dragged(head, d), WidthOf(Dragged(head, d), PassedOver(Dragged(head, d)))))
  BY DEF Drag
<1> DEFINE w == ShareX(head, [n \in 1..head.drag.col |-> head.drag.col + 1 - n], d)
           a == WithWidths(head, w)
           v == ShareX(a, [n \in 1..(Count(head) - head.drag.col) |-> head.drag.col + n], -d)
           b == IF head.fit THEN WithWidths(a, v) ELSE a
           c == MoveApart(b, WidthOf(b, PassedOver(b)))
           e == [c EXCEPT !.headers = Columns(c)]
           k == [e EXCEPT !.pos = Positions(e)]
<1>2. Dragged(head, d) = b
  BY DEF Dragged
<1>3. head' = k
  BY <1>1, <1>2 DEF ApplyColumnHeaderWidths, UpdateColumnCaches
<1> HIDE DEF w, v
<1>4. HeadForm(a) /\ Keeps(head, a, {"lists"}) /\ Count(a) = Count(head) /\ Marks(a) = Marks(head)
  BY <1>0, WithWidthsIs
<1> HIDE DEF a
<1>5. HeadForm(b) /\ Keeps(a, b, {"lists"}) /\ Count(b) = Count(a) /\ Marks(b) = Marks(a)
  <2>1. CASE b = a
    BY <1>4, <2>1 DEF Keeps
  <2>2. CASE b = WithWidths(a, v)
    BY <1>4, <2>2, WithWidthsIs
  <2> QED BY <2>1, <2>2
<1> HIDE DEF b
<1>6. HeadForm(c) /\ Keeps(b, c, {"strip", "panes"})
  BY <1>5, MovedApart
<1> HIDE DEF c
<1>7. DOMAIN e = HeadFields /\ Keeps(c, e, {"headers"}) /\ e.headers = Columns(c)
  BY <1>6 DEF HeadForm, HeadFields, Keeps
<1> HIDE DEF e
<1>8. DOMAIN k = HeadFields /\ Keeps(e, k, {"pos"}) /\ k.pos = Positions(e)
  BY <1>7 DEF HeadFields, Keeps
<1> HIDE DEF k
<1>9. /\ k.lists = c.lists /\ k.shown = c.shown /\ k.frozen = c.frozen /\ k.sort = c.sort /\ k.headers = Columns(c)
      /\ e.lists = c.lists /\ e.shown = c.shown /\ e.frozen = c.frozen
      /\ c.lists = b.lists /\ c.shown = b.shown /\ c.frozen = b.frozen /\ c.sort = b.sort
      /\ k.rules = head.rules /\ k.drag = head.drag
  BY <1>4, <1>5, <1>6, <1>7, <1>8 DEF Keeps, HeadFields
<1>10. /\ Columns(k) = Columns(c) /\ Count(k) = Count(c) /\ Positions(k) = Positions(c) /\ Marks(k) = Marks(c)
       /\ Positions(e) = Positions(c) /\ Count(c) = Count(b) /\ Marks(c) = Marks(b)
  BY <1>9, SameSource
<1>11. HeadForm(k)
  BY <1>6, <1>8, <1>9 DEF HeadForm
<1>12. Keeps(head, k, Fields3 \cup {"viewW", "vscroll"})
  BY <1>4, <1>5, <1>6, <1>7, <1>8 DEF Keeps, HeadFields, Fields3
<1>13. DOMAIN k.rules = 1..Count(k) /\ Count(k) = Count(head) /\ Marks(k) = Marks(head)
  BY <1>0, <1>4, <1>5, <1>9, <1>10 DEF Following
<1>14. k.headers = Columns(k) /\ k.pos = Positions(k)
  BY <1>8, <1>9, <1>10
<1>15. Following(k)
  BY <1>0, <1>12, <1>13, <1>14, FollowsStill
<1>16. k.drag # NoDrag
  BY <1>9 DEF Drag
<1> QED BY <1>3, <1>11, <1>15, <1>16 DEF ColumnsInv

LEMMA DragEndIs == ASSUME ColumnsInv(head), DragEnd PROVE ColumnsInv(head')
<1> DEFINE h == [head EXCEPT !.drag = NoDrag]
<1>1. DOMAIN h = HeadFields /\ Keeps(head, h, {"drag", "edit", "viewW", "tall", "fit"})
  BY DEF ColumnsInv, HeadForm, HeadFields, Keeps
<1>2. head' = UpdateCanvasWidth(h, TRUE)
  BY DEF DragEnd
<1> HIDE DEF h
<1>3. HeadForm(h) /\ Following(h)
  BY <1>1, OthersChanged DEF ColumnsInv
<1> QED BY <1>2, <1>3, CanvasFollows DEF ColumnsInv

LEMMA EditCellIs == ASSUME ColumnsInv(head), EditCell PROVE ColumnsInv(head')
<1>1. PICK edit : head' = [head EXCEPT !.edit = edit]
  BY DEF EditCell
<1>2. /\ DOMAIN head' = HeadFields /\ Keeps(head, head', {"drag", "edit", "viewW", "tall", "fit"})
      /\ head'.drag = head.drag /\ head'.viewW = head.viewW
  BY <1>1 DEF ColumnsInv, HeadForm, HeadFields, Keeps
<1> QED BY <1>2, OthersChanged DEF ColumnsInv

\* Where a style rule is empty because the canvases are, the columns have no width.
LEMMA NoWidth ==
  ASSUME NEW h, HeadForm(h), \A i \in 1..Count(h) : Width(h, i) \in Nat,
         CanvasWidth(h) = [l |-> 0, r |-> 0], h.canvas = CanvasWidth(h)
  PROVE  \A i \in 1..Count(h) : RuleOf(h, i) = NoRule
<1> DEFINE N == 1..Count(h)
           w == [i \in N |-> Width(h, i)]
<1>1. Count(h) \in Nat /\ IsFiniteSet(N) /\ \A i \in N : w[i] \in Nat /\ w[i] \in Int
  <2>1. Count(h) \in Nat
    BY CountIs
  <2>2. IsFiniteSet(N)
    BY <2>1, FS_Interval
  <2> QED BY <2>1, <2>2
<1> HIDE DEF w
<1>2. \A T \in SUBSET N : WidthOf(h, T) = SumFunctionOnSet(w, T)
  <2> SUFFICES ASSUME NEW T \in SUBSET N PROVE WidthOf(h, T) = SumFunctionOnSet(w, T)
    OBVIOUS
  <2> DEFINE v == [i \in T |-> Width(h, i)]
  <2>1. \A i \in T : v[i] = w[i]
    BY DEF w
  <2>2. IsFiniteSet(T)
    BY <1>1, FS_Subset
  <2>3. WidthOf(h, T) = SumFunctionOnSet(v, T)
    BY DEF WidthOf
  <2> HIDE DEF v
  <2> QED BY <2>1, <2>2, <2>3, SumSame
<1>3. \A T \in SUBSET N : WidthOf(h, T) \in Nat /\ WidthOf(h, T) <= WidthOf(h, N)
  <2>1. \A T \in SUBSET N : SumFunctionOnSet(w, T) \in Nat
    BY <1>1, SumNat
  <2>2. \A T \in SUBSET N : SumFunctionOnSet(w, T) <= SumFunctionOnSet(w, N)
    BY <1>1, SumPart
  <2> QED BY <1>2, <2>1, <2>2
<1>4. WidthOf(h, N) = 0
  <2>1. Total(h) - WidthOf(h, RightColumns(h)) = 0 /\ WidthOf(h, RightColumns(h)) = 0
    BY DEF CanvasWidth
  <2>2. Total(h) \in Nat
    BY <1>3 DEF Total
  <2> QED BY <2>1, <2>2 DEF Total
<1>5. \A T \in SUBSET N : WidthOf(h, T) = 0
  BY <1>3, <1>4
<1> SUFFICES ASSUME NEW i \in N PROVE RuleOf(h, i) = NoRule
  OBVIOUS
<1>6. Width(h, i) = 0
  <2>1. SumFunctionOnSet(w, {i}) = w[i] + SumFunctionOnSet(w, {i} \ {i})
    <3>1. IsFiniteSet({i}) /\ \A x \in {i} : w[x] \in Int
      BY <1>1, FS_Singleton
    <3> QED BY <3>1, SumRemove
  <2>2. {i} \ {i} = {} /\ {i} \in SUBSET N
    OBVIOUS
  <2>3. SumFunctionOnSet(w, {i} \ {i}) = 0
    BY <2>2, SumEmpty
  <2>4. SumFunctionOnSet(w, {i}) = 0
    BY <1>2, <1>5, <2>2
  <2>5. w[i] \in Nat /\ 0 = w[i] + 0
    BY <1>1, <2>1, <2>3, <2>4
  <2> QED BY <2>5 DEF w
<1>7. LeftEdge(h, i) = 0
  <2>1. {j \in 1..(i - 1) : SameSide(h, i, j)} \in SUBSET N
    BY <1>1
  <2> QED BY <1>5, <2>1 DEF LeftEdge
<1>8. h.canvas.l = 0 /\ h.canvas.r = 0
  OBVIOUS
<1> QED BY <1>6, <1>7, <1>8 DEF RuleOf, NoRule

LEMMA FirstWidths ==
  ASSUME NEW i \in DOMAIN Lists[FirstList]
  PROVE  InLimits(Lists[FirstList][i]).width \in Nat
<1> DEFINE c == Lists[FirstList][i]
<1>1. c \in [id : DOMAIN MinWidth, width : Nat]
  <2> DEFINE list == Lists[FirstList]
             S == [id : DOMAIN MinWidth, width : Nat]
  <2>1. list \in Seq(S)
    BY ColumnsAssumption DEF ColumnsAssumption
  <2> HIDE DEF list, S
  <2>2. \A j \in DOMAIN list : list[j] \in S
    BY <2>1
  <2> QED BY <2>2 DEF list, S
<1>2. MinWidth[c.id] \in Nat /\ MaxWidth[c.id] \in Nat /\ c.width \in Nat /\ DOMAIN c = {"id", "width"}
  BY <1>1, ColumnsAssumption DEF ColumnsAssumption
<1> HIDE DEF c
<1>3. InLimits(c).width \in Nat
  BY <1>2 DEF InLimits, Longer, Shorter
<1> QED BY <1>3 DEF c

LEMMA ListsForm == ASSUME NEW l \in DOMAIN Lists PROVE ListForm(Lists[l])
<1> DEFINE list == Lists[l]
           S == [id : DOMAIN MinWidth, width : Nat]
<1>1. list \in Seq(S)
  BY ColumnsAssumption DEF ColumnsAssumption
<1>2. \A x \in S : DOMAIN x = {"id", "width"}
  OBVIOUS
<1> HIDE DEF list, S
<1>3. Sequence(list) /\ \A j \in DOMAIN list : list[j] \in S
  <2>1. Sequence(list)
    BY <1>1, SeqFacts
  <2>2. \A j \in DOMAIN list : list[j] \in S
    BY <1>1
  <2> QED BY <2>1, <2>2
<1>4. ListForm(list)
  BY <1>2, <1>3 DEF ListForm
<1> QED BY <1>4 DEF list

LEMMA InitIs == ASSUME ColumnsInit PROVE ColumnsInv(head)
<1>1. PICK frozen \in 0..2, fit \in BOOLEAN, jobs \in ColumnJobs, multi \in BOOLEAN :
        head = FirstColumns(frozen, fit, multi, Min(Windows), jobs)
  BY DEF ColumnsInit
<1> DEFINE h == [lists |-> [l \in DOMAIN Lists \cup {"own"} |-> IF l = "own" THEN <<>> ELSE Lists[l]],
                 shown |-> FirstList, frozen |-> frozen, fit |-> fit, multi |-> multi,
                 viewW |-> Min(Windows), tall |-> FALSE, vscroll |-> FALSE, hscroll |-> FALSE,
                 headers |-> <<>>, pos |-> <<>>, rules |-> <<>>, canvas |-> [l |-> 0, r |-> 0],
                 strip |-> [l |-> 0, r |-> 0], panes |-> [header |-> 0, body |-> 0, width |-> 0],
                 split |-> FALSE, scroller |-> "left", sort |-> <<>>, marks |-> {},
                 drag |-> NoDrag, edit |-> "none", jobs |-> jobs]
           new == [i \in DOMAIN h.lists[FirstList] |-> InLimits(h.lists[FirstList][i])]
           a == [h EXCEPT !.lists[FirstList] = new]
           b == [a EXCEPT !.frozen = IF @ \in 1..Count(a) THEN @ ELSE 0]
           c == [b EXCEPT !.split = b.frozen > 0]
           d == [c EXCEPT !.scroller = IF c.frozen > 0 THEN "right" ELSE "left"]
           e == [d EXCEPT !.pos = Positions(d)]
           f == CreateCssRules(CreateColumnHeaders(e))
<1>2. head = ResizeCanvas(f)
  BY <1>1 DEF FirstColumns, UpdateColumnCaches, SetScroller, SetPaneVisibility, SetFrozenOptions
<1>3. /\ DOMAIN h = HeadFields /\ h.shown = FirstList /\ h.drag = NoDrag /\ h.canvas = [l |-> 0, r |-> 0]
      /\ h.tall = FALSE /\ h.vscroll = FALSE /\ h.fit = fit /\ DOMAIN h.lists = DOMAIN Lists \cup {"own"}
      /\ \A l \in DOMAIN Lists \cup {"own"} : h.lists[l] = IF l = "own" THEN <<>> ELSE Lists[l]
  BY DEF HeadFields
<1>4. FirstList \in DOMAIN Lists
  BY ColumnsAssumption DEF ColumnsAssumption
<1> HIDE DEF h
<1>5. HeadForm(h)
  <2>1. ListForm(<<>>)
    <3>1. <<>> \in Seq({}) /\ DOMAIN <<>> = {}
      OBVIOUS
    <3>2. Sequence(<<>>)
      BY <3>1, SeqFacts
    <3> QED BY <3>1, <3>2 DEF ListForm
  <2>2. \A l \in DOMAIN h.lists : ListForm(h.lists[l])
    BY <1>3, <2>1, ListsForm
  <2> QED BY <1>3, <1>4, <2>2 DEF HeadForm
<1>6. ListForm(new) /\ DOMAIN new = DOMAIN h.lists[FirstList]
  BY <1>3, <1>4, <1>5, LimitedForm DEF HeadForm
<1> HIDE DEF new
<1>7. HeadForm(a) /\ Keeps(h, a, {"lists"}) /\ a.lists[FirstList] = new
  BY <1>3, <1>4, <1>5, <1>6 DEF HeadForm, HeadFields, Keeps
<1> HIDE DEF a
<1>8. DOMAIN b = HeadFields /\ Keeps(a, b, {"frozen"})
  BY <1>7 DEF HeadForm, HeadFields, Keeps
<1> HIDE DEF b
<1>9. DOMAIN c = HeadFields /\ Keeps(b, c, {"split"}) /\ c.split = (b.frozen > 0)
  BY <1>8 DEF HeadFields, Keeps
<1> HIDE DEF c
<1>10. DOMAIN d = HeadFields /\ Keeps(c, d, {"scroller"}) /\ d.scroller = IF c.frozen > 0 THEN "right" ELSE "left"
  BY <1>9 DEF HeadFields, Keeps
<1> HIDE DEF d
<1>11. DOMAIN e = HeadFields /\ Keeps(d, e, {"pos"}) /\ e.pos = Positions(d)
  BY <1>10 DEF HeadFields, Keeps
<1> HIDE DEF e
<1>12. /\ e.lists = a.lists /\ e.shown = FirstList /\ e.drag = NoDrag /\ e.canvas = [l |-> 0, r |-> 0]
       /\ e.tall = FALSE /\ e.vscroll = FALSE /\ e.fit = fit /\ e.frozen = c.frozen /\ e.split = c.split /\ c.frozen = b.frozen
       /\ e.scroller = d.scroller /\ d.lists = e.lists /\ d.shown = e.shown /\ d.frozen = e.frozen /\ a.shown = FirstList
  BY <1>3, <1>7, <1>8, <1>9, <1>10, <1>11 DEF HeadFields, Keeps
<1>13. HeadForm(e) /\ e.pos = Positions(e)
  <2>1. Positions(e) = Positions(d)
    BY <1>12, SameSource
  <2> QED BY <1>7, <1>11, <1>12, <2>1 DEF HeadForm
<1>14. e.split = (e.frozen > 0) /\ (e.scroller = "right") = e.split
  BY <1>9, <1>10, <1>12
<1>15. /\ HeadForm(f) /\ Following(f) /\ Keeps(e, f, {"headers", "strip", "marks", "rules"})
       /\ f.rules = [i \in 1..Count(f) |-> NoRule]
  BY <1>13, <1>14, HeadersMade
<1> HIDE DEF f
<1>16. /\ f.lists = a.lists /\ f.shown = FirstList /\ f.drag = NoDrag /\ f.canvas = [l |-> 0, r |-> 0]
       /\ f.tall = FALSE /\ f.vscroll = FALSE /\ f.fit = fit
  BY <1>12, <1>15 DEF HeadFields, Keeps
<1>17. \A i \in 1..Count(f) : Width(f, i) \in Nat
  <2>1. Columns(f) = new /\ DOMAIN Columns(f) = 1..Count(f)
    BY <1>7, <1>15, <1>16, CountIs DEF Columns
  <2>2. h.lists[FirstList] = Lists[FirstList] \/ h.lists[FirstList] = <<>>
    BY <1>3, <1>4
  <2>3. \A i \in DOMAIN new : new[i].width \in Nat
    BY <1>6, <2>2, FirstWidths DEF new
  <2> QED BY <2>1, <2>3 DEF Width
<1>18. HeadForm(head) /\ Following(head) /\ Keeps(f, head, Fields3 \cup {"vscroll"}) /\ (fit => Settled(head))
  BY <1>2, <1>15, <1>16, ResizeCanvasIs
<1>19. head.drag = NoDrag
  BY <1>16, <1>18 DEF Keeps, HeadFields, Fields3
<1>20. ASSUME ~fit PROVE Settled(head)
  <2> DEFINE g == [f EXCEPT !.vscroll = f.tall]
  <2>1. head = UpdateCanvasWidth(g, FALSE)
    BY <1>2, <1>16, <1>20 DEF ResizeCanvas, CountRows
  <2>2. DOMAIN g = HeadFields /\ Keeps(f, g, {"drag", "edit", "viewW", "tall", "fit"})
    BY <1>15, <1>16 DEF HeadForm, HeadFields, Keeps
  <2> HIDE DEF g
  <2>3. HeadForm(g) /\ Following(g)
    BY <1>15, <2>2, OthersChanged
  <2>4. /\ HeadForm(head) /\ Keeps(g, head, {"canvas", "strip", "panes", "hscroll", "rules"})
        /\ head.canvas = CanvasWidth(head) /\ (Ready(g) => Settled(head)) /\ Placed(head)
    BY <2>1, <2>3, CanvasFollows
  <2>5. head.rules = RightRules(head) \/ (head.rules = g.rules /\ head.canvas = g.canvas)
    BY <2>1, <2>3, UpdateCanvasIs DEF Following
  <2>6. CASE head.rules = RightRules(head)
    BY <2>4, <2>6 DEF Settled
  <2>7. CASE head.rules = g.rules /\ head.canvas = g.canvas
    <3>1. head.lists = g.lists /\ head.shown = g.shown /\ head.frozen = g.frozen
      BY <2>4 DEF Keeps, HeadFields
    <3>2. /\ f.lists = g.lists /\ f.shown = g.shown /\ f.frozen = g.frozen /\ f.canvas = g.canvas
          /\ f.rules = g.rules
      BY <2>2 DEF Keeps, HeadFields
    <3>3. CanvasWidth(g) = CanvasWidth(head) /\ CanvasWidth(g) = CanvasWidth(f) /\ RightRules(g) = RightRules(f)
      BY <3>1, <3>2, SameSource
    <3>4. \A i \in 1..Count(f) : RuleOf(f, i) = NoRule
      BY <1>15, <1>16, <1>17, <2>4, <2>7, <3>2, <3>3, NoWidth
    <3>5. f.rules = RightRules(f)
      BY <1>15, <3>4 DEF RightRules
    <3> QED BY <2>4, <2>7, <3>2, <3>3, <3>5 DEF Ready
  <2> QED BY <2>5, <2>6, <2>7
<1> QED BY <1>18, <1>19, <1>20 DEF ColumnsInv

ColumnsSettled == ColumnsInv(head)

\* However columns are shown, hidden, reordered, resized, frozen and fitted, what
\* is on the screen belongs to the columns as they are, except while a header is
\* dragged.
THEOREM ScreenFollowsColumns == ColumnsSpec => []ColumnsOnScreen
<1>1. ColumnsInit => ColumnsSettled
  BY InitIs DEF ColumnsSettled
<1>2. ColumnsSettled /\ [ColumnsNext]_head => ColumnsSettled'
  <2> SUFFICES ASSUME ColumnsInv(head), [ColumnsNext]_head PROVE ColumnsInv(head')
    BY DEF ColumnsSettled
  <2>1. CASE UNCHANGED head
    BY <2>1
  <2> QED BY <2>1, ShowColumnsIs, ChangeOptionsIs, WindowResizeIs, RowsChangeIs, HeaderClickIs, ReorderIs,
             DragStartIs, DragIs, DragEndIs, EditCellIs DEF ColumnsNext
<1>3. ColumnsSettled => ColumnsOnScreen
  <2> SUFFICES ASSUME ColumnsInv(head), head.drag = NoDrag PROVE ColumnsOnScreen
    BY DEF ColumnsSettled, ColumnsOnScreen
  <2>1. Following(head) /\ Settled(head)
    BY DEF ColumnsInv
  <2> QED BY <2>1 DEF ColumnsOnScreen, Following, Settled, Placed, RightRules
<1> QED BY <1>1, <1>2, <1>3, PTL DEF ColumnsSpec

-----------------------------------------------------------------------------
(* the rows of ranges *)

\* A range of rows, and a sequence of such.
Span(r) == r.fromRow \in Int /\ r.toRow \in Int
Spans(s) == Sequence(s) /\ \A i \in DOMAIN s : Span(s[i])
RowsIn(r) == r.fromRow..r.toRow

LEMMA RowSeqIs ==
  ASSUME NEW r, Span(r)
  PROVE  Sequence(RowSeq(r)) /\ ToSet(RowSeq(r)) = RowsIn(r) /\ IsInjective(RowSeq(r))
<1> DEFINE n == r.toRow - r.fromRow + 1
           s == [i \in 1..n |-> r.fromRow + i - 1]
<1>0. r.fromRow \in Int /\ r.toRow \in Int /\ n \in Int
  BY DEF Span
<1>1. RowSeq(r) = s
  BY DEF RowSeq
<1>2. PICK m \in Nat : 1..n = 1..m
  <2>1. CASE n \in Nat
    BY <2>1
  <2>2. CASE n \notin Nat
    <3>1. 1..n = {} /\ 1..0 = {}
      BY <1>0, <2>2
    <3> QED BY <3>1
  <2> QED BY <2>1, <2>2
<1>3. s \in [1..m -> Int]
  BY <1>0, <1>2
<1>4. Sequence(s)
  <2> HIDE DEF s
  <2> QED BY <1>3, FunctionIsSeq
<1>5. {s[i] : i \in DOMAIN s} = RowsIn(r)
  <2>1. ASSUME NEW x \in RowsIn(r) PROVE \E i \in DOMAIN s : s[i] = x
    <3>1. x - r.fromRow + 1 \in 1..n
      BY <1>0 DEF RowsIn
    <3>2. s[x - r.fromRow + 1] = x
      BY <1>0, <3>1 DEF RowsIn
    <3> QED BY <3>1, <3>2
  <2>2. ASSUME NEW i \in DOMAIN s PROVE s[i] \in RowsIn(r)
    BY <1>0 DEF RowsIn
  <2> HIDE DEF s
  <2> QED BY <2>1, <2>2
<1>6. IsInjective(s)
  BY <1>0 DEF IsInjective
<1> HIDE DEF s
<1> QED BY <1>1, <1>4, <1>5, <1>6 DEF ToSet

\* One range more.
AddRows(rows, r) == rows \o OnlyIn(RowSeq(r), (r.fromRow..r.toRow) \ ToSet(rows))

LEMMA AddRowsIs ==
  ASSUME NEW rows, Sequence(rows), NEW r, Span(r)
  PROVE  LET t == AddRows(rows, r)
         IN  Sequence(t) /\ ToSet(t) = ToSet(rows) \cup RowsIn(r) /\ (IsInjective(rows) => IsInjective(t))
<1> DEFINE T == (r.fromRow..r.toRow) \ ToSet(rows)
           b == OnlyIn(RowSeq(r), T)
<1>1. Sequence(b) /\ ToSet(b) = ToSet(RowSeq(r)) \cap T /\ IsInjective(b)
  BY RowSeqIs, OnlyInIs
<1>2. ToSet(b) = RowsIn(r) \ ToSet(rows)
  BY <1>1, RowSeqIs DEF RowsIn
<1>3. AddRows(rows, r) = rows \o b
  BY DEF AddRows
<1> HIDE DEF b, T
<1> QED BY <1>1, <1>2, <1>3, ConcatSets

AddSteps(g, s) == g[0] = <<>> /\ \A k \in 1..Len(s) : g[k] = AddRows(g[k - 1], s[k])

LEMMA SelectedRowsSteps ==
  ASSUME NEW s, Spans(s)
  PROVE  \E g : AddSteps(g, s) /\ SelectedRowsOf(s) = g[Len(s)]
<1> DEFINE n == Len(s)
           A == Seq(Int)
           F == [i \in 1..n |-> [a \in A |-> AddRows(a, s[i])]]
           Eq(h) == h = [t \in SUBSET DOMAIN s |->
                           IF t = {} THEN <<>> ELSE AddRows(h[t \ {Max(t)}], s[Max(t)])]
           c == CHOOSE h : Eq(h)
<1>1. n \in Nat /\ DOMAIN s = 1..n
  BY SeqFacts DEF Spans
<1>2. SelectedRowsOf(s) = c[DOMAIN s]
  BY Zenon DEF SelectedRowsOf, FoldLeft, MapThenFoldSet, AddRows
<1>3. <<>> \in A /\ F \in [1..n -> [A -> A]]
  <2>1. ASSUME NEW i \in 1..n, NEW a \in A PROVE AddRows(a, s[i]) \in A
    <3> DEFINE b == AddRows(a, s[i])
    <3>1. Sequence(a) /\ Span(s[i]) /\ ToSet(a) \subseteq Int
      <4>1. Sequence(a)
        BY SeqFacts
      <4>2. ToSet(a) \subseteq Int
        BY <4>1, SeqFacts, ElementOfSeq DEF ToSet
      <4> QED BY <1>1, <4>1, <4>2 DEF Spans
    <3>2. Sequence(b) /\ ToSet(b) = ToSet(a) \cup RowsIn(s[i])
      BY <3>1, AddRowsIs
    <3>3. RowsIn(s[i]) \subseteq Int
      BY <3>1 DEF RowsIn, Span
    <3> HIDE DEF b
    <3>4. \A k \in DOMAIN b : b[k] \in Int
      BY <3>1, <3>2, <3>3 DEF ToSet
    <3>5. b \in Seq(Int)
      BY <3>2, <3>4, SeqIn
    <3> QED BY <3>5 DEF b
  <2>2. <<>> \in A
    BY EmptySeq
  <2> HIDE DEF A
  <2> QED BY <2>1, <2>2
<1> HIDE DEF n, A
<1>4. PICK h \in [SUBSET (1..n) -> A] : Folds(h, <<>>, F, SUBSET (1..n))
  BY <1>1, <1>3, FoldExists
<1>5. ASSUME NEW t \in SUBSET (1..n), t # {} PROVE Max(t) \in 1..n /\ t \ {Max(t)} \in SUBSET (1..n)
  BY <1>1, HasMax, <1>5
<1>6. Eq(h)
  <2>1. ASSUME NEW t \in SUBSET (1..n), t # {} PROVE h[t] = AddRows(h[t \ {Max(t)}], s[Max(t)])
    <3>1. h[t] = F[Max(t)][h[t \ {Max(t)}]]
      BY <1>4, <2>1 DEF Folds
    <3>2. Max(t) \in 1..n /\ h[t \ {Max(t)}] \in A
      BY <1>4, <1>5, <2>1
    <3> QED BY <3>1, <3>2
  <2>2. h[{}] = <<>>
    BY <1>4 DEF Folds
  <2> QED BY <1>1, <1>4, <2>1, <2>2
<1>7. Eq(c)
  <2> HIDE DEF Eq
  <2> QED BY <1>6
<1> HIDE DEF c
<1> DEFINE g == [k \in 0..n |-> c[1..k]]
<1>8. g[0] = <<>>
  <2>1. 1..0 = {} /\ 0 \in 0..n
    BY <1>1
  <2> QED BY <1>7, <2>1
<1>9. ASSUME NEW k \in 1..n PROVE g[k] = AddRows(g[k - 1], s[k])
  <2>1. 1..k # {} /\ 1..k \in SUBSET (1..n) /\ Max(1..k) = k /\ (1..k) \ {k} = 1..(k - 1)
    BY <1>1, MaxOfFirst
  <2>2. c[1..k] = AddRows(c[1..(k - 1)], s[k])
    BY <1>1, <1>7, <2>1
  <2> QED BY <1>1, <2>2
<1>10. SelectedRowsOf(s) = g[n]
  BY <1>1, <1>2
<1> HIDE DEF g
<1> QED BY <1>8, <1>9, <1>10 DEF AddSteps, n

\* The rows of the ranges, each once.
LEMMA SelectedRowsAre ==
  ASSUME NEW s, Spans(s)
  PROVE  LET t == SelectedRowsOf(s)
         IN  Sequence(t) /\ ToSet(t) = UNION {RowsIn(r) : r \in ToSet(s)} /\ IsInjective(t)
<1>1. PICK g : AddSteps(g, s) /\ SelectedRowsOf(s) = g[Len(s)]
  BY SelectedRowsSteps
<1>2. Len(s) \in Nat /\ DOMAIN s = 1..Len(s) /\ \A i \in 1..Len(s) : Span(s[i])
  BY SeqFacts DEF Spans
<1> DEFINE First(k) == UNION {RowsIn(s[i]) : i \in 1..k}
           G == {k \in 0..Len(s) : Sequence(g[k]) /\ ToSet(g[k]) = First(k) /\ IsInjective(g[k])}
<1>3. 0 \in G
  <2>1. First(0) = {}
    OBVIOUS
  <2> QED BY <1>1, <1>2, <2>1, EmptyIs DEF AddSteps
<1>4. ASSUME NEW k \in 1..Len(s), k - 1 \in G PROVE k \in G
  <2>1. Sequence(g[k - 1]) /\ ToSet(g[k - 1]) = First(k - 1) /\ IsInjective(g[k - 1])
    BY <1>4
  <2>2. First(k) = First(k - 1) \cup RowsIn(s[k])
    <3>1. 1..k = (1..(k - 1)) \cup {k}
      BY <1>2
    <3> QED BY <3>1
  <2>3. k \in 0..Len(s) /\ Span(s[k]) /\ g[k] = AddRows(g[k - 1], s[k])
    BY <1>1, <1>2 DEF AddSteps
  <2> HIDE DEF First
  <2>4. Sequence(g[k]) /\ ToSet(g[k]) = First(k) /\ IsInjective(g[k])
    BY <2>1, <2>2, <2>3, AddRowsIs
  <2> QED BY <2>3, <2>4
<1>5. Len(s) \in G
  <2> HIDE DEF G
  <2>1. \A i \in 1..Len(s) : i - 1 \in G => i \in G
    BY <1>4
  <2>2. \A i \in 0..Len(s) : i \in G
    BY <1>2, <1>3, <2>1, CountUp
  <2> QED BY <1>2, <2>2
<1>6. First(Len(s)) = UNION {RowsIn(r) : r \in ToSet(s)}
  BY <1>2 DEF ToSet
<1> QED BY <1>1, <1>5, <1>6

-----------------------------------------------------------------------------
(* the form of the state, and ranges *)

SelFields == {"rows", "top", "active", "editing", "ranges", "selected", "css", "drawn", "drag", "box", "sync",
              "ids", "flags", "jobs"}

\* n differs from s in these fields at most.
Alike(s, n, F) == DOMAIN n = SelFields /\ \A f \in SelFields \ F : n[f] = s[f]

\* Styles name cells, ...
Styles(css) == DOMAIN css = Keys /\ \A key \in Keys : \A r \in DOMAIN css[key] : css[key][r] \subseteq Cells
Place(at) == at.row \in Int /\ at.cell \in Int
DragForm(d) == d.on => DOMAIN d = {"on", "start", "to"} /\ Place(d.start) /\ Place(d.to)
SpanRange(r) ==
  Span(r) /\ r.fromCell \in Int /\ r.toCell \in Int /\ r.fromRow <= r.toRow /\ r.fromCell <= r.toCell
Ranges(s) == Sequence(s) /\ \A i \in DOMAIN s : SpanRange(s[i])

\* ... and everything else is of its kind.
SelForm(s) ==
  /\ DOMAIN s = SelFields
  /\ Styles(s.css) /\ \A id \in DOMAIN s.flags : s.flags[id] \subseteq Cells
  /\ Sequence(s.rows) /\ Ranges(s.ranges) /\ Sequence(s.ids) /\ Sequence(s.selected)
  /\ Place(s.active) /\ DragForm(s.drag)

Marked(s) == \A row \in DOMAIN s.drawn : s.drawn[row] = DrawnWith(s, row)
Once(s) ==
  /\ ToSet(s.selected) = UNION {r.fromRow..r.toRow : r \in ToSet(s.ranges)}
  /\ IsInjective(s.selected)

Shows(s) == SelForm(s) /\ Marked(s) /\ Once(s)

\* Ranges and numbers.
LEMMA RangesAre == ASSUME NEW s, Ranges(s) PROVE Spans(s) /\ Sequence(s)
BY DEF Ranges, Spans, SpanRange

LEMMA LeastOfTwo ==
  ASSUME NEW a \in Int, NEW b \in Int
  PROVE  Min({a, b}) = (IF a <= b THEN a ELSE b) /\ Max({a, b}) = (IF a <= b THEN b ELSE a)
<1> DEFINE x == IF a <= b THEN a ELSE b
           y == IF a <= b THEN b ELSE a
<1>1. x \in {a, b} /\ (\A m \in {a, b} : x <= m) /\ \A k \in {a, b} : (\A m \in {a, b} : k <= m) => k = x
  OBVIOUS
<1>2. y \in {a, b} /\ (\A m \in {a, b} : y >= m) /\ \A k \in {a, b} : (\A m \in {a, b} : k >= m) => k = y
  OBVIOUS
<1> HIDE DEF x, y
<1>3. Min({a, b}) = CHOOSE k \in {a, b} : \A m \in {a, b} : k <= m
  BY Zenon DEF Min
<1>4. Max({a, b}) = CHOOSE k \in {a, b} : \A m \in {a, b} : k >= m
  BY Zenon DEF Max
<1>5. Min({a, b}) = x
  BY ONLY <1>1, <1>3
<1>6. Max({a, b}) = y
  BY ONLY <1>2, <1>4
<1> QED BY <1>5, <1>6 DEF x, y

LEMMA Range2Is ==
  ASSUME NEW r1 \in Int, NEW c1 \in Int, NEW r2 \in Int, NEW c2 \in Int
  PROVE  LET r == Range2(r1, c1, r2, c2)
         IN  /\ SpanRange(r)
             /\ r.fromRow = (IF r1 <= r2 THEN r1 ELSE r2) /\ r.toRow = (IF r1 <= r2 THEN r2 ELSE r1)
             /\ r.fromCell = (IF c1 <= c2 THEN c1 ELSE c2) /\ r.toCell = (IF c1 <= c2 THEN c2 ELSE c1)
<1> DEFINE r == Range2(r1, c1, r2, c2)
<1>1. /\ r.fromRow = Min({r1, r2}) /\ r.toRow = Max({r1, r2})
      /\ r.fromCell = Min({c1, c2}) /\ r.toCell = Max({c1, c2})
  BY DEF Range2
<1> HIDE DEF r
<1>2. /\ r.fromRow = (IF r1 <= r2 THEN r1 ELSE r2) /\ r.toRow = (IF r1 <= r2 THEN r2 ELSE r1)
      /\ r.fromCell = (IF c1 <= c2 THEN c1 ELSE c2) /\ r.toCell = (IF c1 <= c2 THEN c2 ELSE c1)
  BY <1>1, LeastOfTwo
<1> QED BY <1>2 DEF SpanRange, Span, r

LEMMA OneRange == ASSUME NEW r, SpanRange(r) PROVE Ranges(<<r>>)
BY OneIsSeq DEF Ranges

LEMMA NoRanges == Ranges(<<>>)
BY EmptyIs DEF Ranges

\* A part of the ranges is ranges.
LEMMA RangesPart == ASSUME NEW s, Ranges(s), NEW t, Sequence(t), ToSet(t) \subseteq ToSet(s) PROVE Ranges(t)
BY DEF Ranges, ToSet

LEMMA ValidRanges == ASSUME NEW s, NEW ranges, Ranges(ranges) PROVE Ranges(RemoveInvalidRanges(s, ranges))
<1> DEFINE T == {r \in ToSet(ranges) : ValidRange(s, r)}
           t == OnlyIn(ranges, T)
<1>1. RemoveInvalidRanges(s, ranges) = t
  BY DEF RemoveInvalidRanges
<1>2. Sequence(t) /\ ToSet(t) = ToSet(ranges) \cap T
  <2> HIDE DEF T
  <2> QED BY RangesAre, OnlyInIs
<1> HIDE DEF t, T
<1> QED BY <1>1, <1>2, RangesPart

-----------------------------------------------------------------------------
(* the marks on the screen *)

\* The marks of rows that are drawn depend on the styles only.
LEMMA MarksStay ==
  ASSUME NEW s, NEW n, n.css = s.css, Marked(s),
         \A row \in DOMAIN n.drawn : (row \in DOMAIN s.drawn /\ n.drawn[row] = s.drawn[row])
                                     \/ n.drawn[row] = DrawnWith(s, row)
  PROVE  Marked(n)
BY DEF Marked, DrawnWith

LEMMA DrawRowsIs ==
  ASSUME NEW s, SelForm(s), Marked(s)
  PROVE  LET n == DrawRows(s) IN Alike(s, n, {"drawn"}) /\ Marked(n)
<1> DEFINE D == (s.top..Min({s.top + DrawnRows - 1, Len(s.rows) - 1})) \cup ({s.active.row} \cap DOMAIN s.drawn)
           drawn == [r \in D |-> IF r \in DOMAIN s.drawn THEN s.drawn[r] ELSE DrawnWith(s, r)]
           n == [s EXCEPT !.drawn = drawn]
<1>1. DrawRows(s) = n
  BY DEF DrawRows, SelForm, SelFields
<1>2. \A r \in DOMAIN drawn : (r \in DOMAIN s.drawn /\ drawn[r] = s.drawn[r]) \/ drawn[r] = DrawnWith(s, r)
  OBVIOUS
<1> HIDE DEF drawn
<1>3. Alike(s, n, {"drawn"}) /\ n.drawn = drawn /\ n.css = s.css
  BY DEF SelForm, SelFields, Alike
<1> HIDE DEF n
<1> QED BY <1>1, <1>2, <1>3, MarksStay

LEMMA UndrawIs ==
  ASSUME NEW s, SelForm(s), Marked(s), NEW gone
  PROVE  LET n == Undraw(s, gone) IN Alike(s, n, {"drawn"}) /\ Marked(n)
<1> DEFINE drawn == [r \in DOMAIN s.drawn \ gone |-> s.drawn[r]]
           n == [s EXCEPT !.drawn = drawn]
<1>1. Undraw(s, gone) = n
  BY DEF Undraw, SelForm, SelFields
<1>2. \A r \in DOMAIN drawn : r \in DOMAIN s.drawn /\ drawn[r] = s.drawn[r]
  OBVIOUS
<1> HIDE DEF drawn
<1>3. Alike(s, n, {"drawn"}) /\ n.drawn = drawn /\ n.css = s.css
  BY DEF SelForm, SelFields, Alike
<1> HIDE DEF n
<1> QED BY <1>1, <1>2, <1>3, MarksStay

\* Only the differences of two hashes are applied, and every cell is marked as if drawn now.
LEMMA StylesIs ==
  ASSUME NEW s, SelForm(s), Marked(s), NEW key \in Keys, NEW hash, \A r \in DOMAIN hash : hash[r] \subseteq Cells
  PROVE  LET n == SetCellCssStyles(s, key, hash)
         IN  /\ Alike(s, n, {"drawn", "css"}) /\ Marked(n)
             /\ n.css = [s.css EXCEPT ![key] = hash] /\ Styles(n.css)
<1> DEFINE old(r) == Styled(s.css[key], r)
           new(r) == Styled(hash, r)
           drawn == [r \in DOMAIN s.drawn |->
                      (s.drawn[r] \ ({key} \X (old(r) \ new(r)))) \cup ({key} \X (new(r) \ old(r)))]
           css == [s.css EXCEPT ![key] = hash]
           n == [[s EXCEPT !.drawn = drawn] EXCEPT !.css = css]
<1>1. SetCellCssStyles(s, key, hash) = n
  BY DEF SetCellCssStyles, UpdateCellCssStylesOnRenderedRows, SelForm, SelFields
<1>2. DOMAIN css = Keys /\ css[key] = hash /\ \A k \in Keys \ {key} : css[k] = s.css[k]
  BY DEF SelForm, Styles
<1>3. \A r \in DOMAIN drawn : r \in DOMAIN s.drawn
        /\ drawn[r] = (s.drawn[r] \ ({key} \X (old(r) \ new(r)))) \cup ({key} \X (new(r) \ old(r)))
  OBVIOUS
<1> HIDE DEF drawn, css
<1>4. Alike(s, n, {"drawn", "css"}) /\ n.drawn = drawn /\ n.css = css
  BY DEF SelForm, SelFields, Alike
<1> HIDE DEF n
<1>5. Styles(css)
  BY <1>2 DEF SelForm, Styles
<1>6. ASSUME NEW r \in DOMAIN drawn PROVE drawn[r] = {m \in Keys \X Cells : m[2] \in Styled(css[m[1]], r)}
  <2>1. s.drawn[r] = {m \in Keys \X Cells : m[2] \in Styled(s.css[m[1]], r)}
    BY <1>3 DEF Marked, DrawnWith
  <2>2. new(r) \subseteq Cells
    BY DEF Styled
  <2>3. Styled(css[key], r) = new(r) /\ \A k \in Keys \ {key} : Styled(css[k], r) = Styled(s.css[k], r)
    BY <1>2
  <2>4. drawn[r] = (s.drawn[r] \ ({key} \X (old(r) \ new(r)))) \cup ({key} \X (new(r) \ old(r)))
    BY <1>3
  <2> HIDE DEF new
  <2>5. ASSUME NEW k \in Keys, NEW c \in Cells
        PROVE  <<k, c>> \in drawn[r] <=> c \in Styled(css[k], r)
    <3>1. <<k, c>> \in s.drawn[r] <=> c \in Styled(s.css[k], r)
      BY <2>1
    <3>2. CASE k = key
      <4>1. <<k, c>> \in {key} \X (old(r) \ new(r)) <=> c \in old(r) \ new(r)
        BY <3>2
      <4>2. <<k, c>> \in {key} \X (new(r) \ old(r)) <=> c \in new(r) \ old(r)
        BY <3>2
      <4> QED BY <2>3, <2>4, <3>1, <3>2, <4>1, <4>2
    <3>3. CASE k # key
      BY <2>3, <2>4, <3>1, <3>3
    <3> QED BY <3>2, <3>3
  <2>6. drawn[r] \subseteq Keys \X Cells
    BY <2>1, <2>2, <2>4
  <2> QED BY <2>5, <2>6
<1>7. Marked(n)
  BY <1>4, <1>6 DEF Marked, DrawnWith
<1> QED BY <1>1, <1>4, <1>5, <1>7 DEF css

-----------------------------------------------------------------------------
(* what selecting does *)

\* What stays of the form when only some fields change.
LEMMA FormStays ==
  ASSUME NEW s, SelForm(s), NEW n, Alike(s, n, {"drawn", "top", "editing", "box", "jobs", "sync"})
  PROVE  SelForm(n)
BY DEF SelForm, SelFields, Alike

\* The hash of the rows that are selected.
SelectedHash(s, ranges) ==
  [row \in ToSet(SelectedRowsOf(ranges)) |->
     {c \in Cells : /\ CanCellBeSelected(s, row, c)
                    /\ \E r \in ToSet(ranges) : Holds(r, [row |-> row, cell |-> c])}]

LEMMA PutRangesIs ==
  ASSUME NEW s, SelForm(s), Marked(s), NEW ranges, Ranges(ranges)
  PROVE  LET n == PutRanges(s, ranges)
         IN  /\ Alike(s, n, {"drawn", "css", "ranges", "selected"}) /\ Shows(n)
             /\ n.ranges = RemoveInvalidRanges(s, ranges) /\ n.selected = SelectedRowsOf(n.ranges)
             /\ n.css["flag"] = s.css["flag"]
<1> DEFINE valid == RemoveInvalidRanges(s, ranges)
           a == [s EXCEPT !.ranges = valid]
           rows == SelectedRowsOf(valid)
           hash == SelectedHash(a, valid)
           b == SetCellCssStyles(a, "selected", hash)
           n == [b EXCEPT !.selected = rows]
<1>1. PutRanges(s, ranges) = n
  BY DEF PutRanges, HandleSelectedRangesChanged, SelectedHash
<1>2. Ranges(valid)
  BY ValidRanges
<1>3. Sequence(rows) /\ ToSet(rows) = UNION {RowsIn(r) : r \in ToSet(valid)} /\ IsInjective(rows)
  <2> HIDE DEF valid
  <2> QED BY <1>2, RangesAre, SelectedRowsAre
<1>4. \A r \in DOMAIN hash : hash[r] \subseteq Cells
  BY DEF SelectedHash
<1> HIDE DEF valid, rows, hash
<1>5. Alike(s, a, {"ranges"}) /\ a.ranges = valid /\ a.css = s.css /\ a.drawn = s.drawn
  BY DEF SelForm, SelFields, Alike
<1> HIDE DEF a
<1>6. SelForm(a) /\ Marked(a)
  BY <1>2, <1>5 DEF SelForm, SelFields, Alike, Marked, DrawnWith
<1>7. /\ Alike(a, b, {"drawn", "css"}) /\ Marked(b)
      /\ b.css = [a.css EXCEPT !["selected"] = hash] /\ Styles(b.css)
  BY <1>4, <1>6, StylesIs DEF Keys
<1> HIDE DEF b
<1>8. Alike(b, n, {"selected"}) /\ n.selected = rows
  BY <1>7 DEF Alike, SelFields
<1> HIDE DEF n
<1>9. /\ Alike(s, n, {"drawn", "css", "ranges", "selected"}) /\ n.ranges = valid
      /\ n.css = b.css /\ n.drawn = b.drawn
  BY <1>5, <1>7, <1>8 DEF Alike, SelFields
<1>10. SelForm(n)
  BY <1>2, <1>3, <1>7, <1>8, <1>9 DEF SelForm, SelFields, Alike
<1>11. Marked(n)
  BY <1>7, <1>9 DEF Marked, DrawnWith
<1>12. Once(n)
  BY <1>3, <1>8, <1>9 DEF Once, RowsIn
<1>13. n.css["flag"] = s.css["flag"]
  BY <1>5, <1>6, <1>7, <1>9 DEF SelForm, Styles, Keys
<1> QED BY <1>1, <1>8, <1>9, <1>10, <1>11, <1>12, <1>13 DEF Shows, valid, rows

LEMMA IdsAreSeq == ASSUME NEW s, NEW rows, Sequence(rows) PROVE Sequence(IdsOfRows(s, rows))
<1> DEFINE there == OnlyIn(rows, 0..(Len(s.rows) - 1))
           t == [i \in 1..Len(there) |-> s.rows[there[i] + 1]]
<1>1. Sequence(there)
  BY OnlyInIs
<1>2. IdsOfRows(s, rows) = t
  BY DEF IdsOfRows
<1> HIDE DEF there
<1>3. Len(there) \in Nat
  BY <1>1, SeqFacts
<1>4. t \in [1..Len(there) -> {t[i] : i \in DOMAIN t}] /\ DOMAIN t = 1..Len(there)
  OBVIOUS
<1> HIDE DEF t
<1> QED BY <1>2, <1>3, <1>4 DEF Sequence

LEMMA HeardIs ==
  ASSUME NEW s, Shows(s)
  PROVE  LET n == Heard(s)
         IN  /\ Alike(s, n, {"ids"}) /\ Shows(n)
             /\ n.ids = IF s.sync = "no" THEN s.ids ELSE IdsOfRows(s, s.selected)
<1>1. CASE s.sync = "no"
  BY <1>1 DEF Heard, Alike, Shows, SelForm
<1>2. CASE s.sync # "no"
  <2> DEFINE ids == IdsOfRows(s, s.selected)
             n == [s EXCEPT !.ids = ids]
  <2>1. Heard(s) = n
    BY <1>2 DEF Heard
  <2>2. Sequence(ids)
    BY IdsAreSeq DEF Shows, SelForm
  <2> HIDE DEF ids
  <2>3. Alike(s, n, {"ids"}) /\ n.ids = ids
    BY DEF Shows, SelForm, SelFields, Alike
  <2> HIDE DEF n
  <2>4. SelForm(n)
    BY <2>2, <2>3 DEF Shows, SelForm, SelFields, Alike
  <2>5. n.css = s.css /\ n.drawn = s.drawn /\ n.selected = s.selected /\ n.ranges = s.ranges
    BY <2>3 DEF Alike, SelFields
  <2>6. Marked(n) /\ Once(n)
    BY <2>5 DEF Shows, Marked, DrawnWith, Once
  <2> QED BY <1>2, <2>1, <2>3, <2>4, <2>6 DEF Shows, ids
<1> QED BY <1>1, <1>2

LEMMA SetRangesIs ==
  ASSUME NEW s, SelForm(s), Marked(s), NEW ranges, Ranges(ranges)
  PROVE  LET n == SetSelectedRanges(s, ranges)
         IN  /\ Alike(s, n, {"drawn", "css", "ranges", "selected", "ids"}) /\ Shows(n)
             /\ n.ranges = RemoveInvalidRanges(s, ranges) /\ n.selected = SelectedRowsOf(n.ranges)
             /\ n.css["flag"] = s.css["flag"]
             /\ n.ids = IF s.sync = "no" THEN s.ids ELSE IdsOfRows(s, n.selected)
<1> DEFINE a == PutRanges(s, ranges)
           n == Heard(a)
<1>1. /\ Alike(s, a, {"drawn", "css", "ranges", "selected"}) /\ Shows(a)
      /\ a.ranges = RemoveInvalidRanges(s, ranges) /\ a.selected = SelectedRowsOf(a.ranges)
      /\ a.css["flag"] = s.css["flag"]
  BY PutRangesIs
<1>2. SetSelectedRanges(s, ranges) = n
  BY DEF SetSelectedRanges
<1> HIDE DEF a
<1>3. /\ Alike(a, n, {"ids"}) /\ Shows(n)
      /\ n.ids = IF a.sync = "no" THEN a.ids ELSE IdsOfRows(a, a.selected)
  BY <1>1, HeardIs
<1> HIDE DEF n
<1>4. Alike(s, n, {"drawn", "css", "ranges", "selected", "ids"})
  BY <1>1, <1>3 DEF Alike, SelFields
<1>5. /\ n.ranges = a.ranges /\ n.selected = a.selected /\ n.css = a.css
      /\ a.sync = s.sync /\ a.ids = s.ids /\ a.rows = s.rows
  BY <1>1, <1>3 DEF Alike, SelFields
<1>6. IdsOfRows(a, a.selected) = IdsOfRows(s, n.selected)
  BY <1>5 DEF IdsOfRows
<1> QED BY <1>1, <1>2, <1>3, <1>4, <1>5, <1>6

LEMMA RowRanges ==
  ASSUME LastCell \in Nat, NEW rows, Sequence(rows), ToSet(rows) \subseteq Int
  PROVE  LET t == RowsToRanges(rows)
         IN  /\ Ranges(t) /\ DOMAIN t = DOMAIN rows
             /\ \A i \in DOMAIN rows : t[i].fromRow = rows[i] /\ t[i].toRow = rows[i]
                                       /\ t[i].fromCell = 0 /\ t[i].toCell = LastCell
<1> DEFINE t == [i \in 1..Len(rows) |-> Range2(rows[i], 0, rows[i], LastCell)]
<1>1. RowsToRanges(rows) = t
  BY DEF RowsToRanges
<1>2. Len(rows) \in Nat /\ DOMAIN rows = 1..Len(rows)
  BY SeqFacts
<1>3. DOMAIN t = DOMAIN rows /\ \A i \in DOMAIN rows : t[i] = Range2(rows[i], 0, rows[i], LastCell)
  BY <1>2
<1>4. t \in [1..Len(rows) -> {t[i] : i \in DOMAIN t}]
  BY <1>2
<1> HIDE DEF t
<1>5. Sequence(t)
  BY <1>2, <1>4 DEF Sequence
<1>6. \A i \in DOMAIN rows : rows[i] \in Int
  BY DEF ToSet
<1>7. ASSUME NEW i \in DOMAIN rows
      PROVE  /\ SpanRange(t[i]) /\ t[i].fromRow = rows[i] /\ t[i].toRow = rows[i]
             /\ t[i].fromCell = 0 /\ t[i].toCell = LastCell
  <2> DEFINE q == rows[i]
  <2>1. q \in Int /\ 0 \in Int /\ LastCell \in Int /\ 0 <= LastCell /\ t[i] = Range2(q, 0, q, LastCell)
    BY <1>3, <1>6
  <2> HIDE DEF q
  <2>2. /\ SpanRange(t[i]) /\ t[i].fromRow = q /\ t[i].toRow = q
        /\ t[i].fromCell = 0 /\ t[i].toCell = LastCell
    BY <2>1, Range2Is
  <2> QED BY <2>2 DEF q
<1> QED BY <1>1, <1>3, <1>5, <1>7 DEF Ranges

\* The row of each id that is shown, the last one with it.
LastWith(s, id) == Max({k \in 1..Len(s.rows) : s.rows[k] = id}) - 1
LEMMA LastWithIs ==
  ASSUME NEW s, Sequence(s.rows), NEW id \in ToSet(s.rows)
  PROVE  LET r == LastWith(s, id) IN r \in 0..(Len(s.rows) - 1) /\ s.rows[r + 1] = id
<1> DEFINE K == {k \in 1..Len(s.rows) : s.rows[k] = id}
<1>1. Len(s.rows) \in Nat /\ DOMAIN s.rows = 1..Len(s.rows)
  BY SeqFacts
<1>2. K \in SUBSET (1..Len(s.rows)) /\ K # {}
  BY <1>1 DEF ToSet
<1>3. Max(K) \in K
  <2> HIDE DEF K
  <2> QED BY <1>1, <1>2, HasMax
<1>4. LastWith(s, id) = Max(K) - 1
  BY DEF LastWith
<1>5. Max(K) \in 1..Len(s.rows) /\ s.rows[Max(K)] = id
  BY <1>3
<1> HIDE DEF K
<1> QED BY <1>1, <1>4, <1>5

LEMMA RowsOfIdsAre ==
  ASSUME NEW s, Sequence(s.rows), NEW ids, Sequence(ids)
  PROVE  LET rows == RowsOfIds(s, ids)
         IN  Sequence(rows) /\ ToSet(rows) = {LastWith(s, id) : id \in ToSet(ids) \cap ToSet(s.rows)}
<1> DEFINE there == OnlyIn(ids, ToSet(s.rows))
           t == [i \in 1..Len(there) |-> LastWith(s, there[i])]
<1>1. Sequence(there) /\ ToSet(there) = ToSet(ids) \cap ToSet(s.rows)
  BY OnlyInIs
<1>2. RowsOfIds(s, ids) = t
  BY DEF RowsOfIds, LastWith
<1> HIDE DEF there
<1>3. Len(there) \in Nat /\ DOMAIN there = 1..Len(there)
  BY <1>1, SeqFacts
<1>4. t \in [1..Len(there) -> {t[i] : i \in DOMAIN t}] /\ DOMAIN t = 1..Len(there)
  OBVIOUS
<1>5. \A i \in 1..Len(there) : t[i] = LastWith(s, there[i])
  OBVIOUS
<1> HIDE DEF t
<1>6. ToSet(t) = {LastWith(s, id) : id \in ToSet(there)}
  BY <1>3, <1>4, <1>5 DEF ToSet
<1> QED BY <1>1, <1>2, <1>3, <1>4, <1>6 DEF Sequence

-----------------------------------------------------------------------------
(* what the data view does after a change *)

\* The data view puts the selection back, ...
LEMMA UpdateSelectionIs ==
  ASSUME LastCell \in Nat, NEW s, Shows(s)
  PROVE  LET n == UpdateSelection(s)
             rows == RowsOfIds(s, s.ids)
         IN  /\ Alike(s, n, {"drawn", "css", "ranges", "selected", "ids"}) /\ Shows(n)
             /\ n.css["flag"] = s.css["flag"]
             /\ s.sync = "no" \/ s.ids = <<>> => n = s
             /\ s.sync # "no" /\ s.ids # <<>> =>
                  /\ n.ranges = RemoveInvalidRanges(s, RowsToRanges(rows)) /\ n.selected = SelectedRowsOf(n.ranges)
                  /\ n.ids = IF s.sync = "keep" THEN s.ids ELSE IdsOfRows(s, rows)
<1> DEFINE rows == RowsOfIds(s, s.ids)
           ids == IF s.sync = "keep" THEN s.ids ELSE IdsOfRows(s, rows)
           t == IF s.sync = "keep" THEN s ELSE [s EXCEPT !.ids = IdsOfRows(s, rows)]
           ranges == RowsToRanges(rows)
           n == PutRanges(t, ranges)
<1>1. CASE s.sync = "no" \/ s.ids = <<>>
  BY <1>1 DEF UpdateSelection, Alike, Shows, SelForm
<1>2. CASE s.sync # "no" /\ s.ids # <<>>
  <2>1. UpdateSelection(s) = n
    BY <1>2 DEF UpdateSelection
  <2>2. Sequence(rows) /\ ToSet(rows) \subseteq Int
    <3>1. Sequence(s.rows) /\ Sequence(s.ids)
      BY DEF Shows, SelForm
    <3>2. Sequence(rows) /\ ToSet(rows) = {LastWith(s, id) : id \in ToSet(s.ids) \cap ToSet(s.rows)}
      BY <3>1, RowsOfIdsAre
    <3>3. \A id \in ToSet(s.rows) : LastWith(s, id) \in 0..(Len(s.rows) - 1)
      BY <3>1, LastWithIs
    <3> QED BY <3>2, <3>3
  <2>3. Sequence(ids)
    <3> HIDE DEF rows
    <3> QED BY <2>2, IdsAreSeq DEF Shows, SelForm
  <2>4. Ranges(ranges)
    <3> HIDE DEF rows
    <3> QED BY <2>2, RowRanges
  <2> HIDE DEF rows, ranges
  <2>5. Alike(s, t, {"ids"}) /\ t.ids = ids
    BY DEF Shows, SelForm, SelFields, Alike
  <2> HIDE DEF t, ids
  <2>6. SelForm(t) /\ Marked(t)
    BY <2>3, <2>5 DEF Shows, SelForm, SelFields, Alike, Marked, DrawnWith
  <2>7. /\ Alike(t, n, {"drawn", "css", "ranges", "selected"}) /\ Shows(n)
        /\ n.ranges = RemoveInvalidRanges(t, ranges) /\ n.selected = SelectedRowsOf(n.ranges)
        /\ n.css["flag"] = t.css["flag"]
    BY <2>4, <2>6, PutRangesIs
  <2> HIDE DEF n
  <2>8. Alike(s, n, {"drawn", "css", "ranges", "selected", "ids"}) /\ n.ids = ids /\ t.css = s.css /\ t.rows = s.rows
    BY <2>5, <2>7 DEF Alike, SelFields
  <2>9. RemoveInvalidRanges(t, ranges) = RemoveInvalidRanges(s, ranges)
    BY <2>8 DEF RemoveInvalidRanges, ValidRange, CanCellBeSelected, CellExists
  <2> QED BY <1>2, <2>1, <2>7, <2>8, <2>9 DEF ids, rows, ranges
<1> QED BY <1>1, <1>2

\* ... and the styles of the items that are shown.
FlagHash(s) ==
  [r \in {LastWith(s, id) : id \in {i \in DOMAIN s.flags : i \in ToSet(s.rows)}} |-> s.flags[s.rows[r + 1]]]

LEMMA UpdateFlagsIs ==
  ASSUME NEW s, Shows(s)
  PROVE  LET n == UpdateFlags(s)
         IN  /\ Alike(s, n, {"drawn", "css"}) /\ Shows(n)
             /\ n.css["flag"] = IF s.sync = "no" THEN s.css["flag"] ELSE FlagHash(s)
<1> DEFINE hash == FlagHash(s)
           n == SetCellCssStyles(s, "flag", hash)
<1>1. CASE s.sync = "no"
  BY <1>1 DEF UpdateFlags, Alike, Shows, SelForm
<1>2. CASE s.sync # "no"
  <2>1. UpdateFlags(s) = n
    BY <1>2 DEF UpdateFlags, FlagHash, LastWith
  <2>2. ASSUME NEW r \in DOMAIN hash PROVE hash[r] \subseteq Cells
    <3>1. PICK id \in DOMAIN s.flags : id \in ToSet(s.rows) /\ r = LastWith(s, id)
      BY DEF FlagHash
    <3>2. s.rows[r + 1] = id
      BY <3>1, LastWithIs DEF Shows, SelForm
    <3>3. hash[r] = s.flags[id]
      BY <3>2 DEF FlagHash
    <3> QED BY <3>3 DEF Shows, SelForm
  <2> HIDE DEF hash
  <2>3. /\ Alike(s, n, {"drawn", "css"}) /\ Marked(n)
        /\ n.css = [s.css EXCEPT !["flag"] = hash] /\ Styles(n.css)
    BY <2>2, StylesIs DEF Shows, Keys
  <2> HIDE DEF n
  <2>4. SelForm(n) /\ Once(n)
    BY <2>3 DEF Shows, SelForm, SelFields, Alike, Once
  <2>5. n.css["flag"] = hash
    BY <2>3 DEF Shows, SelForm, Styles, Keys
  <2> QED BY <1>2, <2>1, <2>3, <2>4, <2>5 DEF Shows, hash
<1> QED BY <1>1, <1>2

LEMMA UpdateShows ==
  ASSUME LastCell \in Nat, NEW s, Shows(s)
  PROVE  LET n == Update(s) IN Alike(s, n, {"drawn", "css", "ranges", "selected", "ids"}) /\ Shows(n)
<1> DEFINE a == UpdateSelection(s)
           n == UpdateFlags(a)
<1>1. Alike(s, a, {"drawn", "css", "ranges", "selected", "ids"}) /\ Shows(a)
  BY UpdateSelectionIs
<1> HIDE DEF a
<1>2. Alike(a, n, {"drawn", "css"}) /\ Shows(n)
  BY <1>1, UpdateFlagsIs
<1>3. Update(s) = n
  BY DEF Update, a
<1> HIDE DEF n
<1> QED BY <1>1, <1>2, <1>3 DEF Alike, SelFields

\* What drawing and scrolling change.
LEMMA ShowsStays ==
  ASSUME NEW s, Shows(s), NEW n, Alike(s, n, {"drawn", "top", "editing", "box", "jobs", "sync"}), Marked(n)
  PROVE  Shows(n)
<1>1. SelForm(n)
  BY FormStays DEF Shows
<1> QED BY <1>1 DEF Shows, Alike, SelFields, Once

LEMMA DrawShows ==
  ASSUME NEW s, Shows(s)
  PROVE  LET n == DrawRows(s) IN Alike(s, n, {"drawn"}) /\ Shows(n)
<1> DEFINE n == DrawRows(s)
<1>1. Alike(s, n, {"drawn"}) /\ Marked(n)
  BY DrawRowsIs DEF Shows
<1> HIDE DEF n
<1>2. Alike(s, n, {"drawn", "top", "editing", "box", "jobs", "sync"})
  BY <1>1 DEF Alike
<1> QED BY <1>1, <1>2, ShowsStays DEF n

LEMMA UndrawShows ==
  ASSUME NEW s, Shows(s), NEW gone
  PROVE  LET n == Undraw(s, gone) IN Alike(s, n, {"drawn"}) /\ Shows(n)
<1> DEFINE n == Undraw(s, gone)
<1>1. Alike(s, n, {"drawn"}) /\ Marked(n)
  BY UndrawIs DEF Shows
<1> HIDE DEF n
<1>2. Alike(s, n, {"drawn", "top", "editing", "box", "jobs", "sync"})
  BY <1>1 DEF Alike
<1> QED BY <1>1, <1>2, ShowsStays DEF n

\* ... and what changes nothing that is drawn or styled.
LEMMA ShowsElse ==
  ASSUME NEW s, Shows(s), NEW n, Alike(s, n, {"top", "editing", "box", "active", "drag", "rows", "flags"}),
         Place(n.active), DragForm(n.drag), Sequence(n.rows),
         \A id \in DOMAIN n.flags : n.flags[id] \subseteq Cells
  PROVE  Shows(n)
<1>1. /\ n.css = s.css /\ n.drawn = s.drawn /\ n.selected = s.selected /\ n.ranges = s.ranges /\ n.ids = s.ids
      /\ DOMAIN n = SelFields
  BY DEF Alike, SelFields
<1> QED BY <1>1 DEF Shows, SelForm, Marked, DrawnWith, Once

-----------------------------------------------------------------------------
(* the rows that exist *)

LEMMA ValidAre ==
  ASSUME NEW s, NEW ranges, Ranges(ranges)
  PROVE  /\ ToSet(RemoveInvalidRanges(s, ranges)) = {r \in ToSet(ranges) : ValidRange(s, r)}
         /\ \A T : (\A r \in ToSet(ranges) : r \in T <=> ValidRange(s, r)) => RemoveInvalidRanges(s, ranges) = OnlyIn(ranges, T)
<1> DEFINE V == {r \in ToSet(ranges) : ValidRange(s, r)}
<1>1. RemoveInvalidRanges(s, ranges) = OnlyIn(ranges, V)
  BY DEF RemoveInvalidRanges
<1>2. Sequence(ranges)
  BY RangesAre
<1>3. \A r \in ToSet(ranges) : r \in V <=> ValidRange(s, r)
  OBVIOUS
<1>4. V \subseteq ToSet(ranges)
  OBVIOUS
<1> HIDE DEF V
<1>5. ToSet(OnlyIn(ranges, V)) = V
  BY <1>2, <1>4, OnlyInIs
<1>6. ASSUME NEW T, \A r \in ToSet(ranges) : r \in T <=> ValidRange(s, r)
      PROVE  RemoveInvalidRanges(s, ranges) = OnlyIn(ranges, T)
  BY <1>1, <1>2, <1>3, <1>6, OnlyInSame
<1> QED BY <1>1, <1>5, <1>6 DEF V

\* The rows that are selected exist.
LEMMA SelectedExist ==
  ASSUME NEW s, NEW ranges, Ranges(ranges)
  PROVE  LET rows == SelectedRowsOf(RemoveInvalidRanges(s, ranges))
         IN  Sequence(rows) /\ ToSet(rows) \subseteq 0..(Len(s.rows) - 1)
<1> DEFINE valid == RemoveInvalidRanges(s, ranges)
           rows == SelectedRowsOf(valid)
<1>1. Ranges(valid) /\ ToSet(valid) = {r \in ToSet(ranges) : ValidRange(s, r)}
  BY ValidRanges, ValidAre
<1> HIDE DEF valid
<1>2. Sequence(rows) /\ ToSet(rows) = UNION {RowsIn(r) : r \in ToSet(valid)}
  BY <1>1, RangesAre, SelectedRowsAre
<1>3. ASSUME NEW r \in ToSet(valid) PROVE RowsIn(r) \subseteq 0..(Len(s.rows) - 1)
  BY <1>1 DEF ValidRange, CanCellBeSelected, CellExists, RowsIn
<1> QED BY <1>2, <1>3 DEF valid

LEMMA IdsAre ==
  ASSUME NEW s, NEW rows, Sequence(rows)
  PROVE  ToSet(IdsOfRows(s, rows)) = {s.rows[r + 1] : r \in ToSet(rows) \cap (0..(Len(s.rows) - 1))}
<1> DEFINE there == OnlyIn(rows, 0..(Len(s.rows) - 1))
           t == [i \in 1..Len(there) |-> s.rows[there[i] + 1]]
<1>1. Sequence(there) /\ ToSet(there) = ToSet(rows) \cap (0..(Len(s.rows) - 1))
  BY OnlyInIs
<1>2. IdsOfRows(s, rows) = t
  BY DEF IdsOfRows
<1> HIDE DEF there
<1>3. DOMAIN there = 1..Len(there)
  BY <1>1, SeqFacts
<1>4. ToSet(t) = {s.rows[r + 1] : r \in ToSet(there)}
  BY <1>3 DEF ToSet
<1> HIDE DEF t
<1> QED BY <1>1, <1>2, <1>4

-----------------------------------------------------------------------------
(* what is remembered of the selection, the box of a drag and the styles *)

\* When no item is remembered as selected none is.
Linked(s) == s.sync # "no" /\ s.ids = <<>> => ToSet(s.selected) = {}

\* The box of a drag ends where it was seen to.
Boxed(s) ==
  s.drag.on /\ "rows" \notin s.jobs =>
    /\ s.box = BoxOver(s.drag.start, s.drag.to)
    /\ CellExists(s, s.drag.start.row, s.drag.start.cell)
    /\ s.drag.to = s.drag.start \/ CanCellBeSelected(s, s.drag.to.row, s.drag.to.cell)

\* The styles of the rows are those of their items, unless they were taken away.
Item(s, r) == s.rows[r + 1]
Flagged(s) ==
  s.sync # "no" /\ s.css["flag"] # NoHash =>
    \A r \in 0..(Len(s.rows) - 1) :
      Item(s, r) \notin Headings => Styled(s.css["flag"], r) = Styled(s.flags, Item(s, r))

SelInv(s) == Shows(s) /\ s.rows \in RowLists /\ Linked(s) /\ Boxed(s) /\ Flagged(s)

LEMMA ListsAre ==
  ASSUME NEW rows \in RowLists
  PROVE  Sequence(rows) /\ DOMAIN rows = 1..Len(rows) /\ Len(rows) \in Nat
BY SelectionAssumption, SeqFacts

\* An item is in one row.
LEMMA OneRow ==
  ASSUME NEW s, s.rows \in RowLists, NEW r \in 0..(Len(s.rows) - 1), Item(s, r) \notin Headings
  PROVE  /\ LastWith(s, Item(s, r)) = r /\ Item(s, r) \in ToSet(s.rows)
         /\ \A n \in 0..(Len(s.rows) - 1) : Item(s, n) = Item(s, r) => n = r
<1> DEFINE rows == s.rows
           x == Item(s, r)
<1>1. Sequence(rows) /\ DOMAIN rows = 1..Len(rows) /\ Len(rows) \in Nat
  BY ListsAre
<1>2. \A i, j \in 1..Len(rows) : rows[i] = rows[j] => i = j \/ rows[i] \in Headings
  BY <1>1, SelectionAssumption
<1>3. r + 1 \in 1..Len(rows) /\ rows[r + 1] = x
  BY <1>1 DEF Item
<1>4. \A n \in 0..(Len(rows) - 1) : rows[n + 1] = x => n = r
  <2> SUFFICES ASSUME NEW n \in 0..(Len(rows) - 1), rows[n + 1] = x PROVE n = r
    OBVIOUS
  <2>1. n + 1 \in 1..Len(rows)
    BY <1>1
  <2>2. n + 1 = r + 1
    BY <1>2, <1>3, <2>1
  <2> QED BY <2>2
<1>5. x \in ToSet(rows)
  BY <1>1, <1>3 DEF ToSet
<1>6. LastWith(s, x) \in 0..(Len(rows) - 1) /\ rows[LastWith(s, x) + 1] = x
  BY <1>1, <1>5, LastWithIs
<1> QED BY <1>4, <1>5, <1>6 DEF Item

\* The styles that the data view gives the rows are those of their items.
LEMMA FlagsAre ==
  ASSUME NEW s, s.rows \in RowLists, NEW r \in 0..(Len(s.rows) - 1), Item(s, r) \notin Headings
  PROVE  Styled(FlagHash(s), r) = Styled(s.flags, Item(s, r))
<1> DEFINE x == Item(s, r)
<1>1. LastWith(s, x) = r /\ x \in ToSet(s.rows) /\ s.rows[r + 1] = x
  BY OneRow DEF Item
<1>2. r \in DOMAIN FlagHash(s) => x \in DOMAIN s.flags
  <2> SUFFICES ASSUME NEW id \in DOMAIN s.flags, id \in ToSet(s.rows), r = LastWith(s, id)
               PROVE  x \in DOMAIN s.flags
    BY DEF FlagHash
  <2>1. s.rows[r + 1] = id
    BY ListsAre, LastWithIs
  <2> QED BY <1>1, <2>1
<1>3. x \in DOMAIN s.flags => r \in DOMAIN FlagHash(s)
  BY <1>1 DEF FlagHash
<1>4. r \in DOMAIN FlagHash(s) => FlagHash(s)[r] = s.flags[x]
  BY <1>1 DEF FlagHash
<1> QED BY <1>2, <1>3, <1>4 DEF Styled

LEMMA LastCellIs == LastCell \in Nat
BY SelectionAssumption

LEMMA BoxFlagsStay ==
  ASSUME NEW s, Boxed(s), Flagged(s), NEW n,
         Alike(s, n, {"drawn", "css", "ranges", "selected", "ids", "top", "active", "editing"}),
         n.css["flag"] = s.css["flag"]
  PROVE  Boxed(n) /\ Flagged(n)
<1>1. /\ n.rows = s.rows /\ n.drag = s.drag /\ n.box = s.box /\ n.jobs = s.jobs
      /\ n.sync = s.sync /\ n.flags = s.flags
  BY DEF Alike, SelFields
<1>2. Boxed(n)
  BY <1>1 DEF Boxed, CanCellBeSelected, CellExists
<1>3. Flagged(n)
  BY <1>1 DEF Flagged, Item
<1> QED BY <1>2, <1>3

\* Selecting keeps the invariant, whatever was remembered before.
LEMMA SelectKeeps ==
  ASSUME NEW s, Shows(s), s.rows \in RowLists, Boxed(s), Flagged(s), NEW ranges, Ranges(ranges)
  PROVE  SelInv(SetSelectedRanges(s, ranges))
<1> DEFINE n == SetSelectedRanges(s, ranges)
<1>1. /\ Alike(s, n, {"drawn", "css", "ranges", "selected", "ids"}) /\ Shows(n)
      /\ n.ranges = RemoveInvalidRanges(s, ranges) /\ n.selected = SelectedRowsOf(n.ranges)
      /\ n.css["flag"] = s.css["flag"]
      /\ n.ids = IF s.sync = "no" THEN s.ids ELSE IdsOfRows(s, n.selected)
  BY SetRangesIs DEF Shows
<1> HIDE DEF n
<1>2. n.rows = s.rows /\ n.sync = s.sync
  BY <1>1 DEF Alike, SelFields
<1>3. Boxed(n) /\ Flagged(n)
  <2>1. Alike(s, n, {"drawn", "css", "ranges", "selected", "ids", "top", "active", "editing"})
    BY <1>1 DEF Alike
  <2> QED BY <1>1, <2>1, BoxFlagsStay
<1>4. Linked(n)
  <2> SUFFICES ASSUME s.sync # "no", n.ids = <<>> PROVE ToSet(n.selected) = {}
    BY <1>2 DEF Linked
  <2>1. Sequence(n.selected) /\ ToSet(n.selected) \subseteq 0..(Len(s.rows) - 1)
    BY <1>1, SelectedExist
  <2>2. ToSet(n.ids) = {s.rows[r + 1] : r \in ToSet(n.selected) \cap (0..(Len(s.rows) - 1))}
    BY <1>1, <2>1, IdsAre
  <2>3. ToSet(n.ids) = {}
    BY EmptyIs
  <2> QED BY <2>1, <2>2, <2>3
<1> QED BY <1>1, <1>2, <1>3, <1>4 DEF SelInv, n

-----------------------------------------------------------------------------
(* what the data view puts back *)

\* After rows have changed the selected rows are those of the items remembered.
Followed(s, n) ==
  s.sync # "no" =>
    /\ {Item(s, r) : r \in ToSet(n.selected)} = (ToSet(s.ids) \cap ToSet(s.rows)) \ Headings
    /\ ToSet(n.ids) \cap ToSet(s.rows) = ToSet(s.ids) \cap ToSet(s.rows)
    /\ s.sync = "keep" => n.ids = s.ids
    /\ n.css["flag"] = FlagHash(s)

Updated(s, n) ==
  /\ Alike(s, n, {"drawn", "css", "ranges", "selected", "ids", "top", "active", "editing"})
  /\ Shows(n) /\ Linked(n) /\ Flagged(n) /\ Followed(s, n)

\* The selected rows are those of ids that are shown, but for headings.
LEMMA PutBackAre ==
  ASSUME NEW s, Shows(s)
  PROVE  LET rows == RowsOfIds(s, s.ids)
             selected == SelectedRowsOf(RemoveInvalidRanges(s, RowsToRanges(rows)))
             shown == ToSet(s.ids) \cap ToSet(s.rows)
         IN  /\ {Item(s, r) : r \in ToSet(selected)} = shown \ Headings
             /\ ToSet(IdsOfRows(s, rows)) = shown
<1> DEFINE rows == RowsOfIds(s, s.ids)
           ranges == RowsToRanges(rows)
           valid == RemoveInvalidRanges(s, ranges)
           selected == SelectedRowsOf(valid)
           shown == ToSet(s.ids) \cap ToSet(s.rows)
<1>1. Sequence(s.rows) /\ Sequence(s.ids)
  BY DEF Shows, SelForm
<1>2. Sequence(rows) /\ ToSet(rows) = {LastWith(s, id) : id \in shown}
  BY <1>1, RowsOfIdsAre
<1>3. \A id \in shown : LastWith(s, id) \in 0..(Len(s.rows) - 1) /\ Item(s, LastWith(s, id)) = id
  BY <1>1, LastWithIs DEF Item
<1> HIDE DEF rows, shown
<1>4. Len(s.rows) \in Nat /\ ToSet(rows) \subseteq 0..(Len(s.rows) - 1)
  BY <1>1, <1>2, <1>3, SeqFacts
<1>5. ToSet(IdsOfRows(s, rows)) = shown
  <2>1. ToSet(IdsOfRows(s, rows)) = {s.rows[r + 1] : r \in ToSet(rows) \cap (0..(Len(s.rows) - 1))}
    BY <1>2, IdsAre
  <2> QED BY <1>2, <1>3, <1>4, <2>1 DEF Item
<1>6. /\ Ranges(ranges) /\ DOMAIN ranges = DOMAIN rows
      /\ \A i \in DOMAIN rows : ranges[i].fromRow = rows[i] /\ ranges[i].toRow = rows[i]
                                /\ ranges[i].fromCell = 0 /\ ranges[i].toCell = LastCell
  <2>1. ToSet(rows) \subseteq Int
    BY <1>4
  <2> QED BY <1>2, <2>1, RowRanges, LastCellIs
<1> HIDE DEF ranges
<1>7. Ranges(valid) /\ ToSet(valid) = {r \in ToSet(ranges) : ValidRange(s, r)}
  BY <1>6, ValidRanges, ValidAre
<1> HIDE DEF valid
<1>8. ToSet(selected) = UNION {RowsIn(r) : r \in ToSet(valid)}
  BY <1>7, RangesAre, SelectedRowsAre
<1> HIDE DEF selected
<1>9. ASSUME NEW i \in DOMAIN rows
      PROVE  /\ RowsIn(ranges[i]) = {rows[i]}
             /\ ValidRange(s, ranges[i]) <=> Item(s, rows[i]) \notin Headings
  <2>1. rows[i] \in 0..(Len(s.rows) - 1)
    BY <1>4 DEF ToSet
  <2>2. RowsIn(ranges[i]) = rows[i]..rows[i]
    BY <1>6 DEF RowsIn
  <2>3. 0 \in Cells /\ LastCell \in Cells
    BY LastCellIs DEF Cells
  <2>4. ValidRange(s, ranges[i]) <=> Item(s, rows[i]) \notin Headings
    BY <1>6, <2>1, <2>3 DEF ValidRange, CanCellBeSelected, CellExists, Item
  <2> QED BY <2>1, <2>2, <2>4
<1>10. ToSet(selected) = {r \in ToSet(rows) : Item(s, r) \notin Headings}
  <2>1. ASSUME NEW r \in ToSet(selected) PROVE r \in ToSet(rows) /\ Item(s, r) \notin Headings
    <3>1. PICK i \in DOMAIN ranges : ValidRange(s, ranges[i]) /\ r \in RowsIn(ranges[i])
      BY <1>7, <1>8 DEF ToSet
    <3> QED BY <1>6, <1>9, <3>1 DEF ToSet
  <2>2. ASSUME NEW r \in ToSet(rows), Item(s, r) \notin Headings PROVE r \in ToSet(selected)
    <3>1. PICK i \in DOMAIN rows : rows[i] = r
      BY DEF ToSet
    <3>2. ranges[i] \in ToSet(valid) /\ r \in RowsIn(ranges[i])
      BY <1>6, <1>7, <1>9, <2>2, <3>1 DEF ToSet
    <3> QED BY <1>8, <3>2
  <2> QED BY <2>1, <2>2
<1>11. {Item(s, r) : r \in ToSet(selected)} = shown \ Headings
  BY <1>2, <1>3, <1>10
<1> QED BY <1>5, <1>11 DEF selected, valid, ranges, rows, shown

LEMMA UpdateFollows ==
  ASSUME NEW s, Shows(s), s.rows \in RowLists, Linked(s)
  PROVE  Updated(s, Update(s))
<1> DEFINE a == UpdateSelection(s)
           n == UpdateFlags(a)
           rows == RowsOfIds(s, s.ids)
           shown == ToSet(s.ids) \cap ToSet(s.rows)
<1>1. /\ Alike(s, a, {"drawn", "css", "ranges", "selected", "ids"}) /\ Shows(a)
      /\ a.css["flag"] = s.css["flag"]
      /\ s.sync = "no" \/ s.ids = <<>> => a = s
      /\ s.sync # "no" /\ s.ids # <<>> =>
           /\ a.selected = SelectedRowsOf(RemoveInvalidRanges(s, RowsToRanges(rows)))
           /\ a.ids = IF s.sync = "keep" THEN s.ids ELSE IdsOfRows(s, rows)
  BY UpdateSelectionIs, LastCellIs
<1> HIDE DEF a
<1>2. /\ Alike(a, n, {"drawn", "css"}) /\ Shows(n)
      /\ n.css["flag"] = IF a.sync = "no" THEN a.css["flag"] ELSE FlagHash(a)
  BY <1>1, UpdateFlagsIs
<1>3. Update(s) = n
  BY DEF Update, a
<1> HIDE DEF n
<1>4. /\ n.rows = s.rows /\ n.sync = s.sync /\ n.flags = s.flags /\ n.selected = a.selected /\ n.ids = a.ids
      /\ a.rows = s.rows /\ a.sync = s.sync /\ a.flags = s.flags
      /\ Alike(s, n, {"drawn", "css", "ranges", "selected", "ids", "top", "active", "editing"})
  BY <1>1, <1>2 DEF Alike, SelFields
<1>5. FlagHash(a) = FlagHash(s) /\ FlagHash(n) = FlagHash(s)
  BY <1>4 DEF FlagHash, LastWith
<1>6. ASSUME s.sync # "no"
      PROVE  /\ {Item(s, r) : r \in ToSet(n.selected)} = shown \ Headings
             /\ ToSet(n.ids) \cap ToSet(s.rows) = shown
             /\ s.sync = "keep" => n.ids = s.ids
  <2>1. CASE s.ids = <<>>
    <3>1. ToSet(n.selected) = {} /\ n.ids = s.ids /\ ToSet(s.ids) = {}
      BY <1>1, <1>4, <1>6, <2>1, EmptyIs DEF Linked
    <3> QED BY <3>1
  <2>2. CASE s.ids # <<>>
    <3>1. /\ {Item(s, r) : r \in ToSet(n.selected)} = shown \ Headings
          /\ ToSet(IdsOfRows(s, rows)) = shown
      <4> HIDE DEF rows
      <4>1. /\ {Item(s, r) : r \in ToSet(SelectedRowsOf(RemoveInvalidRanges(s, RowsToRanges(rows))))} = shown \ Headings
            /\ ToSet(IdsOfRows(s, rows)) = shown
        BY PutBackAre DEF rows
      <4> QED BY <1>1, <1>4, <1>6, <2>2, <4>1
    <3>2. n.ids = IF s.sync = "keep" THEN s.ids ELSE IdsOfRows(s, rows)
      BY <1>1, <1>4, <1>6, <2>2
    <3> HIDE DEF rows
    <3> QED BY <3>1, <3>2
  <2> QED BY <2>1, <2>2
<1>7. Followed(s, n)
  BY <1>2, <1>4, <1>5, <1>6 DEF Followed
<1>8. Linked(n)
  <2> SUFFICES ASSUME s.sync # "no", n.ids = <<>> PROVE ToSet(n.selected) = {}
    BY <1>4 DEF Linked
  <2>1. shown = {}
    BY <1>6, EmptyIs
  <2> QED BY <1>6, <2>1
<1>9. Flagged(n)
  <2> SUFFICES ASSUME n.sync # "no", NEW r \in 0..(Len(n.rows) - 1), Item(n, r) \notin Headings
               PROVE  Styled(n.css["flag"], r) = Styled(n.flags, Item(n, r))
    BY DEF Flagged
  <2>1. n.css["flag"] = FlagHash(n)
    BY <1>2, <1>4, <1>5
  <2> QED BY <1>4, <2>1, FlagsAre
<1> QED BY <1>2, <1>3, <1>4, <1>7, <1>8, <1>9 DEF Updated

LEMMA UpdatedTwice ==
  ASSUME NEW s, NEW a, NEW n, Updated(s, a), Updated(a, n)
  PROVE  Updated(s, n)
<1>1. /\ a.rows = s.rows /\ a.flags = s.flags /\ a.sync = s.sync
      /\ Alike(s, n, {"drawn", "css", "ranges", "selected", "ids", "top", "active", "editing"})
  BY DEF Updated, Alike, SelFields
<1>2. FlagHash(a) = FlagHash(s)
  BY <1>1 DEF FlagHash, LastWith
<1>3. ASSUME s.sync # "no"
      PROVE  /\ {Item(s, r) : r \in ToSet(n.selected)} = (ToSet(s.ids) \cap ToSet(s.rows)) \ Headings
             /\ ToSet(n.ids) \cap ToSet(s.rows) = ToSet(s.ids) \cap ToSet(s.rows)
             /\ s.sync = "keep" => n.ids = s.ids
             /\ n.css["flag"] = FlagHash(s)
  BY <1>1, <1>2, <1>3 DEF Updated, Followed, Item
<1> QED BY <1>1, <1>3 DEF Updated, Followed

\* Drawing before an update changes nothing of it.
LEMMA UpdatedDrawn ==
  ASSUME NEW s, s.rows \in RowLists, Linked(s), NEW b, Shows(b),
         Alike(s, b, {"drawn", "top", "active", "editing"})
  PROVE  Updated(s, Update(b))
<1> DEFINE n == Update(b)
<1>1. /\ b.rows = s.rows /\ b.flags = s.flags /\ b.sync = s.sync /\ b.ids = s.ids /\ b.selected = s.selected
  BY DEF Alike, SelFields
<1>2. Updated(b, n)
  BY <1>1, UpdateFollows DEF Linked
<1> HIDE DEF n
<1>3. Alike(s, n, {"drawn", "css", "ranges", "selected", "ids", "top", "active", "editing"})
  BY <1>2 DEF Updated, Alike, SelFields
<1>4. FlagHash(b) = FlagHash(s)
  BY <1>1 DEF FlagHash, LastWith
<1>5. Followed(s, n)
  BY <1>1, <1>2, <1>4 DEF Updated, Followed, Item
<1> QED BY <1>2, <1>3, <1>5 DEF Updated, n

LEMMA EditEnds ==
  ASSUME NEW s, Shows(s)
  PROVE  LET n == [s EXCEPT !.editing = FALSE] IN Shows(n) /\ Alike(s, n, {"editing"})
<1> DEFINE n == [s EXCEPT !.editing = FALSE]
<1>1. Alike(s, n, {"editing"})
  BY DEF Shows, SelForm, SelFields, Alike
<1> HIDE DEF n
<1>2. Alike(s, n, {"drawn", "top", "editing", "box", "jobs", "sync"}) /\ n.css = s.css /\ n.drawn = s.drawn
  BY <1>1 DEF Alike, SelFields
<1>3. Marked(n)
  BY <1>2 DEF Shows, Marked, DrawnWith
<1> QED BY <1>1, <1>2, <1>3, ShowsStays DEF n

LEMMA TopMoves ==
  ASSUME NEW s, Shows(s), NEW top
  PROVE  LET n == [s EXCEPT !.top = top] IN Shows(n) /\ Alike(s, n, {"top"})
<1> DEFINE n == [s EXCEPT !.top = top]
<1>1. Alike(s, n, {"top"})
  BY DEF Shows, SelForm, SelFields, Alike
<1> HIDE DEF n
<1>2. Alike(s, n, {"drawn", "top", "editing", "box", "jobs", "sync"}) /\ n.css = s.css /\ n.drawn = s.drawn
  BY <1>1 DEF Alike, SelFields
<1>3. Marked(n)
  BY <1>2 DEF Shows, Marked, DrawnWith
<1> QED BY <1>1, <1>2, <1>3, ShowsStays DEF n

LEMMA ActiveLeft ==
  ASSUME NEW s, Shows(s)
  PROVE  LET n == [s EXCEPT !.active = Inactive, !.editing = FALSE]
         IN  Shows(n) /\ Alike(s, n, {"active", "editing"})
<1> DEFINE n == [s EXCEPT !.active = Inactive, !.editing = FALSE]
<1>1. Alike(s, n, {"active", "editing"}) /\ n.active = Inactive
  BY DEF Shows, SelForm, SelFields, Alike
<1> HIDE DEF n
<1>2. /\ Alike(s, n, {"top", "editing", "box", "active", "drag", "rows", "flags"})
      /\ n.drag = s.drag /\ n.rows = s.rows /\ n.flags = s.flags
  BY <1>1 DEF Alike, SelFields
<1>3. Place(n.active)
  BY <1>1 DEF Place, Inactive
<1> QED BY <1>1, <1>2, <1>3, ShowsElse DEF n, Shows, SelForm

LEMMA CountChangedIs ==
  ASSUME NEW s, Shows(s), s.rows \in RowLists, Linked(s)
  PROVE  Updated(s, CountChanged(s))
<1> DEFINE count == Len(s.rows)
           top == Min({s.top, Max({0, count - DrawnRows})})
           a == [s EXCEPT !.top = top]
           gone == {r \in DOMAIN s.drawn : r >= count}
           cut == Undraw(a, gone)
           left == IF s.active.row > count THEN [cut EXCEPT !.active = Inactive, !.editing = FALSE] ELSE cut
           b == DrawRows(left)
<1>1. CountChanged(s) = Update(b)
  BY DEF CountChanged, Shows, SelForm, SelFields
<1> HIDE DEF top, gone
<1>2. Shows(a) /\ Alike(s, a, {"top"})
  BY TopMoves
<1> HIDE DEF a
<1>3. Shows(cut) /\ Alike(a, cut, {"drawn"})
  BY <1>2, UndrawShows
<1> HIDE DEF cut
<1>4. Shows(left) /\ Alike(cut, left, {"active", "editing"})
  <2>1. CASE s.active.row > count
    BY <1>3, <2>1, ActiveLeft
  <2>2. CASE ~(s.active.row > count)
    BY <1>3, <2>2 DEF Alike
  <2> QED BY <2>1, <2>2
<1> HIDE DEF left
<1>5. Shows(b) /\ Alike(left, b, {"drawn"})
  BY <1>4, DrawShows
<1> HIDE DEF b
<1>6. Alike(s, b, {"drawn", "top", "active", "editing"})
  BY <1>2, <1>3, <1>4, <1>5 DEF Alike, SelFields
<1> QED BY <1>1, <1>5, <1>6, UpdatedDrawn

LEMMA RowsDrawnAnewIs ==
  ASSUME NEW s, Shows(s), s.rows \in RowLists, Linked(s), NEW rows
  PROVE  Updated(s, RowsDrawnAnew(s, rows))
<1> DEFINE given == IF s.active.row \in rows THEN [s EXCEPT !.editing = FALSE] ELSE s
           cut == Undraw(given, rows)
           b == DrawRows(cut)
<1>1. RowsDrawnAnew(s, rows) = Update(b)
  BY DEF RowsDrawnAnew
<1>2. Shows(given) /\ Alike(s, given, {"editing"})
  <2>1. CASE s.active.row \in rows
    BY <2>1, EditEnds
  <2>2. CASE s.active.row \notin rows
    BY <2>2 DEF Alike, Shows, SelForm
  <2> QED BY <2>1, <2>2
<1> HIDE DEF given
<1>3. Shows(cut) /\ Alike(given, cut, {"drawn"})
  BY <1>2, UndrawShows
<1> HIDE DEF cut
<1>4. Shows(b) /\ Alike(cut, b, {"drawn"})
  BY <1>3, DrawShows
<1> HIDE DEF b
<1>5. Alike(s, b, {"drawn", "top", "active", "editing"})
  BY <1>2, <1>3, <1>4 DEF Alike, SelFields
<1> QED BY <1>1, <1>4, <1>5, UpdatedDrawn

-----------------------------------------------------------------------------
(* the handlers *)

\* Rows that changed are followed.
LEMMA ItemsChangeIs ==
  ASSUME SelInv(sel), ItemsChange
  PROVE  SelInv(sel') /\ (sel.sync # "no" => SelectionFollows /\ (sel.css["flag"] # NoHash => StylesFollow))
<1>1. PICK rows \in RowLists \ {sel.rows} :
        LET with == [sel EXCEPT !.rows = rows]
            counted == IF Len(rows) # Len(sel.rows) THEN CountChanged(with) ELSE with
            changed == {r \in 0..(Len(rows) - 1) : r >= Len(sel.rows) \/ sel.rows[r + 1] # rows[r + 1]}
        IN  sel' = IF changed = {} THEN counted ELSE RowsDrawnAnew(counted, changed)
  BY DEF ItemsChange
<1> DEFINE with == [sel EXCEPT !.rows = rows]
           counted == IF Len(rows) # Len(sel.rows) THEN CountChanged(with) ELSE with
           changed == {r \in 0..(Len(rows) - 1) : r >= Len(sel.rows) \/ sel.rows[r + 1] # rows[r + 1]}
           n == sel'
<1>2. n = IF changed = {} THEN counted ELSE RowsDrawnAnew(counted, changed)
  BY <1>1
<1>3. Sequence(rows) /\ Sequence(sel.rows) /\ rows # sel.rows /\ "rows" \in sel.jobs
  BY ListsAre DEF SelInv, ItemsChange, Selecting
<1>4. Len(rows) # Len(sel.rows) \/ changed # {}
  <2> SUFFICES ASSUME Len(rows) = Len(sel.rows), changed = {} PROVE rows = sel.rows
    BY <1>3
  <2>1. DOMAIN rows = 1..Len(rows) /\ DOMAIN sel.rows = 1..Len(sel.rows) /\ Len(rows) \in Nat
    BY <1>3, SeqFacts
  <2>2. rows = [i \in DOMAIN rows |-> rows[i]] /\ sel.rows = [i \in DOMAIN sel.rows |-> sel.rows[i]]
    BY <1>3 DEF Sequence
  <2>3. ASSUME NEW i \in DOMAIN rows PROVE rows[i] = sel.rows[i]
    <3>1. i - 1 \in 0..(Len(rows) - 1) /\ i - 1 + 1 = i
      BY <2>1
    <3>2. i - 1 \notin changed
      OBVIOUS
    <3> QED BY <3>1, <3>2
  <2> QED BY <2>1, <2>2, <2>3
<1> HIDE DEF changed
<1>5. Alike(sel, with, {"rows"}) /\ with.rows = rows
  BY DEF SelInv, Shows, SelForm, SelFields, Alike
<1> HIDE DEF with
<1>6. /\ with.sync = sel.sync /\ with.ids = sel.ids /\ with.selected = sel.selected /\ with.css = sel.css
      /\ with.flags = sel.flags /\ with.active = sel.active /\ with.drag = sel.drag /\ with.jobs = sel.jobs
  BY <1>5 DEF Alike, SelFields
<1>7. Shows(with) /\ with.rows \in RowLists /\ Linked(with)
  <2>1. Alike(sel, with, {"top", "editing", "box", "active", "drag", "rows", "flags"})
    BY <1>5 DEF Alike
  <2>2. Shows(with)
    BY <1>3, <1>5, <1>6, <2>1, ShowsElse DEF SelInv, Shows, SelForm
  <2> QED BY <1>5, <1>6, <2>2 DEF SelInv, Linked
<1>8. Updated(with, n)
  <2>1. CASE Len(rows) = Len(sel.rows)
    <3>1. n = RowsDrawnAnew(with, changed)
      BY <1>2, <1>4, <2>1
    <3> QED BY <1>7, <3>1, RowsDrawnAnewIs
  <2>2. CASE Len(rows) # Len(sel.rows)
    <3> DEFINE c == CountChanged(with)
    <3>1. Updated(with, c) /\ n = IF changed = {} THEN c ELSE RowsDrawnAnew(c, changed)
      BY <1>2, <1>7, <2>2, CountChangedIs
    <3> HIDE DEF c
    <3>2. c.rows = with.rows
      BY <3>1 DEF Updated, Alike, SelFields
    <3>3. Updated(c, RowsDrawnAnew(c, changed))
      BY <1>7, <3>1, <3>2, RowsDrawnAnewIs DEF Updated
    <3> QED BY <3>1, <3>3, UpdatedTwice
  <2> QED BY <2>1, <2>2
<1>9. n.rows = rows /\ n.jobs = sel.jobs /\ n.sync = sel.sync /\ n.flags = sel.flags
  BY <1>5, <1>6, <1>8 DEF Updated, Alike, SelFields
<1>10. SelInv(n)
  BY <1>3, <1>8, <1>9 DEF SelInv, Updated, Boxed
<1>11. ASSUME sel.sync # "no" PROVE SelectionFollows
  <2>1. /\ {Item(with, r) : r \in ToSet(n.selected)} = (ToSet(with.ids) \cap ToSet(with.rows)) \ Headings
        /\ with.sync = "keep" => n.ids = with.ids
    BY <1>6, <1>8, <1>11 DEF Updated, Followed
  <2> QED BY <1>5, <1>6, <1>9, <2>1 DEF SelectionFollows, Item
<1>12. ASSUME sel.sync # "no", sel.css["flag"] # NoHash PROVE StylesFollow
  <2> SUFFICES ASSUME NEW r \in 0..(Len(sel.rows) - 1), NEW m \in 0..(Len(n.rows) - 1),
                      Item(sel, r) = Item(n, m), Item(sel, r) \notin Headings
               PROVE  Styled(n.css["flag"], m) = Styled(sel.css["flag"], r)
    BY DEF StylesFollow, Item
  <2>1. Styled(sel.css["flag"], r) = Styled(sel.flags, Item(sel, r))
    BY <1>12 DEF SelInv, Flagged
  <2>2. n.css["flag"] = FlagHash(with)
    BY <1>6, <1>8, <1>12 DEF Updated, Followed
  <2>3. Item(with, m) = Item(n, m)
    BY <1>5, <1>9 DEF Item
  <2>4. Styled(FlagHash(with), m) = Styled(with.flags, Item(with, m))
    BY <1>5, <1>7, <1>9, <2>3, FlagsAre
  <2> QED BY <1>6, <2>1, <2>2, <2>3, <2>4
<1> QED BY <1>10, <1>11, <1>12

-----------------------------------------------------------------------------
(* scrolling, clicking and selecting rows *)

LEMMA InvStays ==
  ASSUME NEW s, SelInv(s), NEW n, Shows(n), Alike(s, n, {"drawn", "top", "active", "editing"})
  PROVE  SelInv(n)
<1>1. n.rows = s.rows /\ n.sync = s.sync /\ n.ids = s.ids /\ n.selected = s.selected /\ n.css = s.css
  BY DEF Alike, SelFields
<1>2. Alike(s, n, {"drawn", "css", "ranges", "selected", "ids", "top", "active", "editing"})
  BY DEF Alike
<1>3. Boxed(n) /\ Flagged(n)
  BY <1>1, <1>2, BoxFlagsStay DEF SelInv
<1> QED BY <1>1, <1>3 DEF SelInv, Linked

LEMMA EndEditIs == ASSUME SelInv(sel), EndEdit PROVE SelInv(sel')
<1>1. Shows(sel') /\ Alike(sel, sel', {"editing"})
  BY EditEnds DEF EndEdit, SelInv
<1>2. Alike(sel, sel', {"drawn", "top", "active", "editing"})
  BY <1>1 DEF Alike
<1> QED BY <1>1, <1>2, InvStays

\* The grid scrolls to a row and draws what is there.
LEMMA ScrolledInv ==
  ASSUME NEW s, SelInv(s), NEW top, NEW gone
  PROVE  /\ SelInv(DrawRows(Undraw([s EXCEPT !.top = top], gone)))
         /\ SelInv(DrawRows([s EXCEPT !.top = top]))
         /\ Alike(s, DrawRows([s EXCEPT !.top = top]), {"drawn", "top"})
<1> DEFINE a == [s EXCEPT !.top = top]
           b == Undraw(a, gone)
           c == DrawRows(b)
           d == DrawRows(a)
<1>1. Shows(a) /\ Alike(s, a, {"top"})
  BY TopMoves DEF SelInv
<1> HIDE DEF a
<1>2. Shows(b) /\ Alike(a, b, {"drawn"})
  BY <1>1, UndrawShows
<1> HIDE DEF b
<1>3. Shows(c) /\ Alike(b, c, {"drawn"})
  BY <1>2, DrawShows
<1> HIDE DEF c
<1>4. Shows(d) /\ Alike(a, d, {"drawn"})
  BY <1>1, DrawShows
<1> HIDE DEF d
<1>5. Alike(s, c, {"drawn", "top", "active", "editing"}) /\ Alike(s, d, {"drawn", "top"})
  BY <1>1, <1>2, <1>3, <1>4 DEF Alike, SelFields
<1>6. Alike(s, d, {"drawn", "top", "active", "editing"})
  BY <1>5 DEF Alike
<1>7. SelInv(c) /\ SelInv(d)
  BY <1>3, <1>4, <1>5, <1>6, InvStays
<1> QED BY <1>5, <1>7 DEF a, b, c, d

LEMMA ScrollRowsIs == ASSUME SelInv(sel), ScrollRows PROVE SelInv(sel')
<1>1. PICK top \in 0..Max({0, Len(sel.rows) - DrawnRows}) \ {sel.top} :
        LET out == {r \in DOMAIN sel.drawn : r \notin top..(top + DrawnRows - 1)}
        IN  sel' = DrawRows(Undraw([sel EXCEPT !.top = top], out \ {sel.active.row}))
  BY DEF ScrollRows
<1> DEFINE gone == {r \in DOMAIN sel.drawn : r \notin top..(top + DrawnRows - 1)} \ {sel.active.row}
<1>2. sel' = DrawRows(Undraw([sel EXCEPT !.top = top], gone))
  BY <1>1
<1> HIDE DEF gone
<1> QED BY <1>2, ScrolledInv

LEMMA PointsAre ==
  ASSUME NEW at \in Points
  PROVE  Place(at) /\ at.row \in 0..(Len(sel.rows) - 1) /\ at.cell \in Cells /\ CellExists(sel, at.row, at.cell)
BY LastCellIs DEF Points, CellExists, Place, Cells

LEMMA CellRangeIs == ASSUME NEW at, Place(at) PROVE SpanRange(CellRange(at))
BY Range2Is DEF CellRange, Place

LEMMA ClickCellIs == ASSUME SelInv(sel), ClickCell PROVE SelInv(sel')
<1>1. PICK at \in Points : sel' = SetSelectedRanges(Activate(sel, at), <<CellRange(at)>>)
  BY DEF ClickCell
<1> DEFINE a == Activate(sel, at)
<1>2. Place(at)
  BY PointsAre
<1>3. Ranges(<<CellRange(at)>>)
  BY <1>2, CellRangeIs, OneRange
<1>4. Alike(sel, a, {"active", "editing"}) /\ a.active = at
  BY DEF Activate, SelInv, Shows, SelForm, SelFields, Alike
<1> HIDE DEF a
<1>5. /\ a.drag = sel.drag /\ a.rows = sel.rows /\ a.flags = sel.flags /\ a.css = sel.css
      /\ Alike(sel, a, {"top", "editing", "box", "active", "drag", "rows", "flags"})
      /\ Alike(sel, a, {"drawn", "css", "ranges", "selected", "ids", "top", "active", "editing"})
  BY <1>4 DEF Alike, SelFields
<1>6. Shows(a)
  BY <1>2, <1>4, <1>5, ShowsElse DEF SelInv, Shows, SelForm
<1>7. Boxed(a) /\ Flagged(a)
  BY <1>5, BoxFlagsStay DEF SelInv
<1>8. a.rows \in RowLists
  BY <1>5 DEF SelInv
<1> QED BY <1>1, <1>3, <1>6, <1>7, <1>8, SelectKeeps DEF a

LEMMA TwoIsSeq == ASSUME NEW x, NEW y PROVE Sequence(<<x, y>>) /\ ToSet(<<x, y>>) = {x, y}
<1> DEFINE t == <<x, y>>
<1>1. t \in [1..2 -> {x, y}] /\ t[1] = x /\ t[2] = y
  OBVIOUS
<1> HIDE DEF t
<1>2. Sequence(t) /\ DOMAIN t = 1..2
  BY <1>1, FunctionIsSeq
<1>3. ToSet(t) = {x, y}
  BY <1>1, <1>2 DEF ToSet
<1> QED BY <1>2, <1>3 DEF t

LEMMA SelectRowsIs == ASSUME SelInv(sel), SelectRows PROVE SelInv(sel')
<1>1. PICK rows \in {<<r>> : r \in 0..(Len(sel.rows) - 1)} \cup {<<r, 0>> : r \in 1..(Len(sel.rows) - 1)} :
        sel' = SetSelectedRanges(sel, RowsToRanges(rows))
  BY DEF SelectRows
<1>2. Len(sel.rows) \in Nat
  BY ListsAre DEF SelInv
<1>3. Sequence(rows) /\ ToSet(rows) \subseteq Int
  <2>1. CASE rows \in {<<r>> : r \in 0..(Len(sel.rows) - 1)}
    <3>1. PICK r \in 0..(Len(sel.rows) - 1) : rows = <<r>>
      BY <2>1
    <3>2. Sequence(rows) /\ DOMAIN rows = {1} /\ rows[1] = r
      BY <3>1, OneIsSeq
    <3> QED BY <1>2, <3>2 DEF ToSet
  <2>2. CASE rows \in {<<r, 0>> : r \in 1..(Len(sel.rows) - 1)}
    <3>1. PICK r \in 1..(Len(sel.rows) - 1) : rows = <<r, 0>>
      BY <2>2
    <3>2. Sequence(rows) /\ ToSet(rows) = {r, 0}
      BY <3>1, TwoIsSeq
    <3> QED BY <1>2, <3>2
  <2> QED BY <2>1, <2>2
<1>4. Ranges(RowsToRanges(rows))
  BY <1>3, RowRanges, LastCellIs
<1> QED BY <1>1, <1>4, SelectKeeps DEF SelInv

-----------------------------------------------------------------------------
(* the drag *)

LEMMA DragBeginIs == ASSUME SelInv(sel), DragBegin PROVE SelInv(sel')
<1>1. PICK start \in Points :
        sel' = [sel EXCEPT !.drag = [on |-> TRUE, start |-> start, to |-> start], !.box = BoxOver(start, start)]
  BY DEF DragBegin
<1> DEFINE n == sel'
           d == [on |-> TRUE, start |-> start, to |-> start]
<1>2. Place(start) /\ CellExists(sel, start.row, start.cell)
  BY PointsAre
<1>3. d.on = TRUE /\ d.start = start /\ d.to = start /\ DOMAIN d = {"on", "start", "to"}
  OBVIOUS
<1>4. n = [sel EXCEPT !.drag = d, !.box = BoxOver(start, start)]
  BY <1>1
<1> HIDE DEF d
<1>5. Alike(sel, n, {"drag", "box"}) /\ n.drag = d /\ n.box = BoxOver(start, start)
  BY <1>4 DEF SelInv, Shows, SelForm, SelFields, Alike
<1> HIDE DEF n
<1>6. /\ n.active = sel.active /\ n.rows = sel.rows /\ n.flags = sel.flags /\ n.css = sel.css
      /\ n.sync = sel.sync /\ n.ids = sel.ids /\ n.selected = sel.selected
      /\ Alike(sel, n, {"top", "editing", "box", "active", "drag", "rows", "flags"})
  BY <1>5 DEF Alike, SelFields
<1>7. Shows(n)
  BY <1>2, <1>3, <1>5, <1>6, ShowsElse DEF SelInv, Shows, SelForm, DragForm
<1>8. Boxed(n)
  BY <1>2, <1>3, <1>5, <1>6 DEF Boxed, CellExists
<1>9. Flagged(n)
  BY <1>6 DEF SelInv, Flagged, Item
<1> QED BY <1>6, <1>7, <1>8, <1>9 DEF SelInv, Linked, n

LEMMA DragOverIs == ASSUME SelInv(sel), DragOver PROVE SelInv(sel')
<1>1. PICK at \in Points :
        /\ CanCellBeSelected(sel, at.row, at.cell)
        /\ sel' = [sel EXCEPT !.drag.to = at,
                              !.box = IF CellExists(sel, sel.drag.start.row, sel.drag.start.cell)
                                      THEN BoxOver(sel.drag.start, at)
                                      ELSE @]
  BY DEF DragOver
<1> DEFINE n == sel'
           d == [sel.drag EXCEPT !.to = at]
           box == IF CellExists(sel, sel.drag.start.row, sel.drag.start.cell)
                  THEN BoxOver(sel.drag.start, at) ELSE sel.box
<1>2. Place(at)
  BY PointsAre
<1>3. n = [sel EXCEPT !.drag = d, !.box = box]
  BY <1>1 DEF SelInv, Shows, SelForm, SelFields
<1>4. sel.drag.on /\ DOMAIN sel.drag = {"on", "start", "to"} /\ Place(sel.drag.start)
  BY DEF DragOver, SelInv, Shows, SelForm, DragForm
<1>5. DOMAIN d = {"on", "start", "to"} /\ d.on = sel.drag.on /\ d.start = sel.drag.start /\ d.to = at
  BY <1>4
<1> HIDE DEF d, box
<1>6. Alike(sel, n, {"drag", "box"}) /\ n.drag = d /\ n.box = box
  BY <1>3 DEF SelInv, Shows, SelForm, SelFields, Alike
<1> HIDE DEF n
<1>7. /\ n.active = sel.active /\ n.rows = sel.rows /\ n.flags = sel.flags /\ n.css = sel.css
      /\ n.sync = sel.sync /\ n.ids = sel.ids /\ n.selected = sel.selected /\ n.jobs = sel.jobs
      /\ Alike(sel, n, {"top", "editing", "box", "active", "drag", "rows", "flags"})
  BY <1>6 DEF Alike, SelFields
<1>8. Shows(n)
  BY <1>2, <1>4, <1>5, <1>6, <1>7, ShowsElse DEF SelInv, Shows, SelForm, DragForm
<1>9. Boxed(n)
  <2> SUFFICES ASSUME "rows" \notin sel.jobs
               PROVE  /\ n.box = BoxOver(n.drag.start, n.drag.to)
                      /\ CellExists(n, n.drag.start.row, n.drag.start.cell)
                      /\ CanCellBeSelected(n, n.drag.to.row, n.drag.to.cell)
    BY <1>7 DEF Boxed
  <2>1. CellExists(sel, sel.drag.start.row, sel.drag.start.cell)
    BY <1>4 DEF SelInv, Boxed
  <2>2. box = BoxOver(sel.drag.start, at)
    BY <2>1 DEF box
  <2> QED BY <1>1, <1>5, <1>6, <1>7, <2>1, <2>2 DEF CellExists, CanCellBeSelected
<1>10. Flagged(n)
  BY <1>7 DEF SelInv, Flagged, Item
<1> QED BY <1>7, <1>8, <1>9, <1>10 DEF SelInv, Linked, n

\* What the drag showed is selected.
LEMMA DragFinishIs ==
  ASSUME SelInv(sel), DragFinish
  PROVE  /\ SelInv(sel')
         /\ "rows" \notin sel.jobs /\ CanCellBeSelected(sel, sel.drag.start.row, sel.drag.start.cell)
              => sel'.ranges = sel.box
<1> DEFINE d == sel.drag
           a == [sel EXCEPT !.drag = NotDragging, !.box = <<>>]
           r == Range2(d.start.row, d.start.cell, d.to.row, d.to.cell)
           n == SetSelectedRanges(a, <<r>>)
<1>1. sel' = n /\ d.on
  BY DEF DragFinish, BoxOver
<1>2. Alike(sel, a, {"drag", "box"}) /\ a.drag = NotDragging
  BY DEF SelInv, Shows, SelForm, SelFields, Alike
<1> HIDE DEF a
<1>3. /\ a.active = sel.active /\ a.rows = sel.rows /\ a.flags = sel.flags /\ a.css = sel.css /\ a.sync = sel.sync
      /\ Alike(sel, a, {"top", "editing", "box", "active", "drag", "rows", "flags"})
  BY <1>2 DEF Alike, SelFields
<1>4. NotDragging.on = FALSE
  BY DEF NotDragging
<1>5. Shows(a)
  BY <1>2, <1>3, <1>4, ShowsElse DEF SelInv, Shows, SelForm, DragForm
<1>6. Boxed(a) /\ Flagged(a)
  BY <1>2, <1>3, <1>4 DEF SelInv, Boxed, Flagged, Item
<1>7. Place(d.start) /\ Place(d.to)
  BY <1>1 DEF SelInv, Shows, SelForm, DragForm
<1>8. /\ SpanRange(r)
      /\ r.fromRow \in {d.start.row, d.to.row} /\ r.toRow \in {d.start.row, d.to.row}
      /\ r.fromCell \in {d.start.cell, d.to.cell} /\ r.toCell \in {d.start.cell, d.to.cell}
  <2> DEFINE r1 == d.start.row
             c1 == d.start.cell
             r2 == d.to.row
             c2 == d.to.cell
  <2>1. r1 \in Int /\ c1 \in Int /\ r2 \in Int /\ c2 \in Int
    BY <1>7 DEF Place
  <2>2. r = Range2(r1, c1, r2, c2)
    OBVIOUS
  <2> HIDE DEF r1, c1, r2, c2, r
  <2>3. /\ SpanRange(r)
        /\ r.fromRow \in {r1, r2} /\ r.toRow \in {r1, r2}
        /\ r.fromCell \in {c1, c2} /\ r.toCell \in {c1, c2}
    BY <2>1, <2>2, Range2Is
  <2> QED BY <2>3 DEF r1, c1, r2, c2
<1> HIDE DEF r
<1>9. Ranges(<<r>>)
  BY <1>8, OneRange
<1>10. SelInv(n)
  BY <1>3, <1>5, <1>6, <1>9, SelectKeeps DEF SelInv
<1>11. ASSUME "rows" \notin sel.jobs, CanCellBeSelected(sel, d.start.row, d.start.cell)
       PROVE  sel'.ranges = sel.box
  <2>1. sel.box = <<r>> /\ (d.to = d.start \/ CanCellBeSelected(sel, d.to.row, d.to.cell))
    BY <1>1, <1>11 DEF SelInv, Boxed, BoxOver, r
  <2>2. CanCellBeSelected(sel, d.to.row, d.to.cell)
    BY <1>11, <2>1
  <2>3. ValidRange(a, r)
    BY <1>3, <1>8, <1>11, <2>2 DEF ValidRange, CanCellBeSelected, CellExists
  <2>4. n.ranges = RemoveInvalidRanges(a, <<r>>)
    BY <1>5, <1>9, SetRangesIs DEF Shows
  <2>5. <<r>> = Append(<<>>, r) /\ ToSet(<<r>>) = {r}
    BY OneIsSeq DEF ToSet
  <2>6. OnlyIn(Append(<<>>, r), {r}) = Append(OnlyIn(<<>>, {r}), r)
    BY EmptyIs, OnlyInAppend
  <2>7. OnlyIn(<<>>, {r}) = <<>>
    BY OnlyInNone
  <2>8. RemoveInvalidRanges(a, <<r>>) = OnlyIn(<<r>>, {r})
    BY <1>9, <2>3, <2>5, ValidAre
  <2> QED BY <1>1, <2>1, <2>4, <2>5, <2>6, <2>7, <2>8
<1> QED BY <1>1, <1>10, <1>11

-----------------------------------------------------------------------------
(* styles that anyone gives and takes *)

LEMMA FlagKeeps ==
  ASSUME NEW s, SelInv(s), NEW hash, \A r \in DOMAIN hash : hash[r] \subseteq Cells
  PROVE  LET n == SetCellCssStyles(s, "flag", hash)
         IN  /\ Alike(s, n, {"drawn", "css"}) /\ Shows(n) /\ n.css["flag"] = hash
             /\ Linked(n) /\ Boxed(n) /\ n.rows \in RowLists
<1> DEFINE n == SetCellCssStyles(s, "flag", hash)
<1>1. /\ Alike(s, n, {"drawn", "css"}) /\ Marked(n)
      /\ n.css = [s.css EXCEPT !["flag"] = hash] /\ Styles(n.css)
  BY StylesIs DEF SelInv, Shows, Keys
<1> HIDE DEF n
<1>2. SelForm(n) /\ Once(n)
  BY <1>1 DEF SelInv, Shows, SelForm, SelFields, Alike, Once
<1>3. n.css["flag"] = hash
  BY <1>1 DEF SelInv, Shows, SelForm, Styles, Keys
<1>4. /\ n.rows = s.rows /\ n.drag = s.drag /\ n.box = s.box /\ n.jobs = s.jobs
      /\ n.sync = s.sync /\ n.ids = s.ids /\ n.selected = s.selected
  BY <1>1 DEF Alike, SelFields
<1>5. Boxed(n) /\ Linked(n)
  BY <1>4 DEF SelInv, Boxed, Linked, CanCellBeSelected, CellExists
<1> QED BY <1>1, <1>2, <1>3, <1>4, <1>5 DEF Shows, SelInv, n

LEMMA RemoveFlagsIs == ASSUME SelInv(sel), RemoveFlags PROVE SelInv(sel')
<1> DEFINE n == sel'
<1>1. n = SetCellCssStyles(sel, "flag", NoHash)
  BY DEF RemoveFlags
<1>2. \A r \in DOMAIN NoHash : NoHash[r] \subseteq Cells
  BY DEF NoHash
<1> HIDE DEF n
<1>3. Shows(n) /\ n.css["flag"] = NoHash /\ Linked(n) /\ Boxed(n) /\ n.rows \in RowLists
  BY <1>1, <1>2, FlagKeeps
<1>4. Flagged(n)
  BY <1>3 DEF Flagged
<1> QED BY <1>3, <1>4 DEF SelInv, n

LEMMA SetFlagsIs == ASSUME SelInv(sel), SetFlags PROVE SelInv(sel')
<1>1. PICK row \in 0..(Len(sel.rows) - 1), col \in Cells :
        LET hash == [r \in {row} |-> {col}]
            set == SetCellCssStyles(sel, "flag", hash)
        IN  sel' = IF sel.sync = "no" THEN set ELSE StoreCellCssStyles(set, hash)
  BY DEF SetFlags
<1> DEFINE n == sel'
           hash == [r \in {row} |-> {col}]
           set == SetCellCssStyles(sel, "flag", hash)
           x == Item(sel, row)
<1>2. n = IF sel.sync = "no" THEN set ELSE StoreCellCssStyles(set, hash)
  BY <1>1
<1>3. DOMAIN hash = {row} /\ hash[row] = {col} /\ \A r \in DOMAIN hash : hash[r] \subseteq Cells
  OBVIOUS
<1> HIDE DEF hash, n
<1>4. /\ Alike(sel, set, {"drawn", "css"}) /\ Shows(set) /\ set.css["flag"] = hash
      /\ Linked(set) /\ Boxed(set) /\ set.rows \in RowLists
  BY <1>3, FlagKeeps
<1> HIDE DEF set
<1>5. /\ set.rows = sel.rows /\ set.sync = sel.sync /\ set.active = sel.active /\ set.drag = sel.drag
      /\ Len(sel.rows) \in Nat
  BY <1>4, ListsAre DEF Alike, SelFields
<1>6. ASSUME sel.sync = "no" PROVE SelInv(n)
  BY <1>2, <1>4, <1>5, <1>6 DEF SelInv, Flagged
<1>7. ASSUME sel.sync # "no" PROVE SelInv(n)
  <2> DEFINE flags == [id \in {set.rows[r + 1] : r \in DOMAIN hash} |->
                         hash[Max({r \in DOMAIN hash : set.rows[r + 1] = id})]]
  <2>1. n = [set EXCEPT !.flags = flags]
    BY <1>2, <1>7 DEF StoreCellCssStyles
  <2>2. DOMAIN flags = {x} /\ flags[x] = {col}
    <3>1. {set.rows[r + 1] : r \in DOMAIN hash} = {x}
      BY <1>3, <1>5 DEF Item
    <3>2. {r \in DOMAIN hash : set.rows[r + 1] = x} = {row, row}
      BY <1>3, <1>5 DEF Item
    <3>3. Max({row, row}) = row
      <4>1. row \in Int /\ row <= row
        BY <1>5
      <4> QED BY <4>1, LeastOfTwo
    <3> QED BY <1>3, <3>1, <3>2, <3>3
  <2> HIDE DEF flags, x
  <2>3. Alike(set, n, {"flags"}) /\ n.flags = flags
    BY <1>4, <2>1 DEF Shows, SelForm, SelFields, Alike
  <2>4. /\ n.rows = sel.rows /\ n.sync = set.sync /\ n.ids = set.ids /\ n.selected = set.selected
        /\ n.drag = set.drag /\ n.box = set.box /\ n.jobs = set.jobs /\ n.css = set.css /\ n.active = set.active
        /\ Alike(set, n, {"top", "editing", "box", "active", "drag", "rows", "flags"})
    BY <1>5, <2>3 DEF Alike, SelFields
  <2>5. Shows(n)
    BY <1>4, <1>5, <2>2, <2>3, <2>4, ShowsElse DEF Shows, SelForm
  <2>6. Linked(n) /\ Boxed(n)
    BY <1>4, <1>5, <2>4 DEF Linked, Boxed, CanCellBeSelected, CellExists
  <2>7. Flagged(n)
    <3> SUFFICES ASSUME NEW r \in 0..(Len(sel.rows) - 1), Item(sel, r) \notin Headings
                 PROVE  Styled(hash, r) = Styled(flags, Item(sel, r))
      BY <1>4, <2>3, <2>4 DEF Flagged, Item
    <3>1. Item(sel, r) = x <=> r = row
      BY OneRow DEF SelInv, x
    <3> QED BY <1>3, <2>2, <3>1 DEF Styled
  <2> QED BY <1>4, <1>5, <2>4, <2>5, <2>6, <2>7 DEF SelInv
<1> QED BY <1>6, <1>7 DEF n

-----------------------------------------------------------------------------
(* the arrow keys *)

\* Where the edge opposite to c goes, with a step of k.
Edge(a, b, c, k) ==
  LET dir == IF c = a THEN 1 ELSE -1 IN c + dir * (b - a + dir * k)

\* One edge of a range moves by one, or no edge.
LEMMA EdgeMoves ==
  ASSUME NEW a \in Int, NEW b \in Int, a <= b, NEW c \in Int, NEW k \in {-1, 0, 1}
  PROVE  LET e  == Edge(a, b, c, k)
             lo == IF c <= e THEN c ELSE e
             hi == IF c <= e THEN e ELSE c
         IN  /\ e \in Int
             /\ c \in {a, b} => Moved(a, lo) + Moved(b, hi) <= (IF k = 0 THEN 0 ELSE 1)
<1> DEFINE e  == Edge(a, b, c, k)
           lo == IF c <= e THEN c ELSE e
           hi == IF c <= e THEN e ELSE c
<1>1. CASE c = a
  <2>1. e = c + (b - a + k)
    BY <1>1 DEF Edge
  <2> HIDE DEF e
  <2>2. c \in {a, b} => Moved(a, lo) + Moved(b, hi) <= (IF k = 0 THEN 0 ELSE 1)
    BY <1>1, <2>1 DEF Moved
  <2> QED BY <2>1, <2>2 DEF e
<1>2. CASE c # a
  <2>1. e = c - (b - a - k)
    BY <1>2 DEF Edge
  <2> HIDE DEF e
  <2>2. c \in {a, b} => Moved(a, lo) + Moved(b, hi) <= (IF k = 0 THEN 0 ELSE 1)
    BY <1>2, <2>1 DEF Moved
  <2> QED BY <2>1, <2>2 DEF e
<1> QED BY <1>1, <1>2

LEMMA ArrowIs ==
  ASSUME NEW last, SpanRange(last), NEW active, Place(active), NEW key \in {"left", "right", "up", "down"}
  PROVE  LET n == ArrowRange(last, active, key)
         IN  SpanRange(n) /\ (Corner(last, active) => ByOne(last, n))
<1> DEFINE kr == CASE key = "up" -> -1 [] key = "down" -> 1 [] OTHER -> 0
           kc == CASE key = "left" -> -1 [] key = "right" -> 1 [] OTHER -> 0
           row == active.row
           col == active.cell
           a == last.fromRow
           b == last.toRow
           c == last.fromCell
           d == last.toCell
           er == Edge(a, b, row, kr)
           ec == Edge(c, d, col, kc)
           n == Range2(row, col, er, ec)
<1>1. ArrowRange(last, active, key) = n
  BY DEF ArrowRange, Edge
<1>2. kr \in {-1, 0, 1} /\ kc \in {-1, 0, 1} /\ (kr = 0 \/ kc = 0)
  OBVIOUS
<1>3. /\ row \in Int /\ col \in Int /\ a \in Int /\ b \in Int /\ c \in Int /\ d \in Int
      /\ a <= b /\ c <= d
  BY DEF Place, SpanRange, Span
<1> HIDE DEF kr, kc, row, col, a, b, c, d
<1>4. /\ er \in Int
      /\ row \in {a, b} =>
           Moved(a, IF row <= er THEN row ELSE er) + Moved(b, IF row <= er THEN er ELSE row)
             <= (IF kr = 0 THEN 0 ELSE 1)
  BY <1>2, <1>3, EdgeMoves
<1>5. /\ ec \in Int
      /\ col \in {c, d} =>
           Moved(c, IF col <= ec THEN col ELSE ec) + Moved(d, IF col <= ec THEN ec ELSE col)
             <= (IF kc = 0 THEN 0 ELSE 1)
  BY <1>2, <1>3, EdgeMoves
<1> HIDE DEF er, ec
<1>6. /\ SpanRange(n)
      /\ n.fromRow = (IF row <= er THEN row ELSE er) /\ n.toRow = (IF row <= er THEN er ELSE row)
      /\ n.fromCell = (IF col <= ec THEN col ELSE ec) /\ n.toCell = (IF col <= ec THEN ec ELSE col)
  BY <1>3, <1>4, <1>5, Range2Is
<1> HIDE DEF n
<1>7. ASSUME Corner(last, active) PROVE ByOne(last, n)
  <2>1. row \in {a, b} /\ col \in {c, d}
    BY <1>7 DEF Corner, row, col, a, b, c, d
  <2>2. /\ Moved(a, n.fromRow) + Moved(b, n.toRow) <= (IF kr = 0 THEN 0 ELSE 1)
        /\ Moved(c, n.fromCell) + Moved(d, n.toCell) <= (IF kc = 0 THEN 0 ELSE 1)
    BY <1>4, <1>5, <1>6, <2>1
  <2>3. /\ Moved(a, n.fromRow) \in Int /\ Moved(b, n.toRow) \in Int
        /\ Moved(c, n.fromCell) \in Int /\ Moved(d, n.toCell) \in Int
    BY <1>3, <1>6 DEF Moved, SpanRange, Span
  <2>4. Moved(a, n.fromRow) + Moved(b, n.toRow) + Moved(c, n.fromCell) + Moved(d, n.toCell) <= 1
    BY <1>2, <2>2, <2>3
  <2> QED BY <2>4 DEF ByOne, a, b, c, d
<1> QED BY <1>1, <1>6, <1>7

\* The front of a sequence, and a last element after it.
LEMMA FrontIs ==
  ASSUME NEW s, Sequence(s), s # <<>>
  PROVE  /\ Len(s) >= 1 /\ Len(s) \in DOMAIN s
         /\ Sequence(Front(s)) /\ Len(Front(s)) = Len(s) - 1
         /\ \A i \in 1..(Len(s) - 1) : Front(s)[i] = s[i]
         /\ ToSet(Front(s)) \subseteq ToSet(s)
<1> DEFINE S == {s[i] : i \in DOMAIN s}
           f == SubSeq(s, 1, Len(s) - 1)
<1>1. s \in Seq(S) /\ Len(s) \in Nat /\ DOMAIN s = 1..Len(s)
  BY SeqFacts
<1> HIDE DEF S
<1>2. Len(s) >= 1
  BY <1>1
<1>3. f \in Seq(S) /\ Len(f) = Len(s) - 1 /\ \A i \in 1..(Len(s) - 1) : f[i] = s[i]
  BY <1>1, <1>2
<1>4. Front(s) = f
  BY DEF Front
<1> HIDE DEF f
<1>5. Sequence(f) /\ DOMAIN f = 1..Len(f)
  BY <1>3, SeqFacts
<1>6. ToSet(f) \subseteq ToSet(s)
  BY <1>1, <1>3, <1>5 DEF ToSet
<1>7. Len(s) \in DOMAIN s
  BY <1>1, <1>2
<1> HIDE DEF f
<1> QED BY ONLY <1>2, <1>3, <1>4, <1>5, <1>6, <1>7

LEMMA FrontAppended ==
  ASSUME NEW s, Sequence(s), NEW x
  PROVE  LET t == Append(s, x) IN Front(t) = s /\ Last(t) = x /\ t # <<>> /\ ToSet(t) = ToSet(s) \cup {x}
<1> DEFINE t == Append(s, x)
<1>1. /\ Sequence(t) /\ DOMAIN t = 1..(Len(s) + 1) /\ Len(t) = Len(s) + 1
      /\ \A i \in 1..Len(s) : t[i] = s[i]
      /\ t[Len(s) + 1] = x
  BY AppendIs
<1>2. Len(s) \in Nat /\ DOMAIN s = 1..Len(s) /\ s \in Seq({s[i] : i \in DOMAIN s})
  BY SeqFacts
<1> HIDE DEF t
<1>3. t # <<>>
  BY <1>1, <1>2, EmptyIs
<1>4. Sequence(Front(t)) /\ Len(Front(t)) = Len(s) /\ \A i \in 1..Len(s) : Front(t)[i] = s[i]
  <2>1. /\ Sequence(Front(t)) /\ Len(Front(t)) = Len(t) - 1
        /\ \A i \in 1..(Len(t) - 1) : Front(t)[i] = t[i]
    BY <1>1, <1>3, FrontIs
  <2>2. Len(t) - 1 = Len(s)
    BY <1>1, <1>2
  <2> QED BY <1>1, <2>1, <2>2
<1>5. Front(t) \in Seq({Front(t)[i] : i \in DOMAIN Front(t)}) /\ DOMAIN Front(t) = 1..Len(s)
  BY <1>4, SeqFacts
<1>6. Front(t) = s
  BY <1>2, <1>4, <1>5
<1>7. ToSet(t) = ToSet(s) \cup {x}
  BY <1>1, <1>2 DEF ToSet
<1> QED BY <1>1, <1>3, <1>6, <1>7 DEF Last, t

LEMMA WithLast == ASSUME NEW s, Ranges(s), NEW r, SpanRange(r) PROVE Ranges(Append(s, r))
<1>1. ToSet(Append(s, r)) = ToSet(s) \cup {r} /\ Sequence(Append(s, r))
  BY FrontAppended, AppendIs DEF Ranges
<1> DEFINE t == Append(s, r)
<1> HIDE DEF t
<1>2. \A i \in DOMAIN t : t[i] \in ToSet(s) \cup {r}
  BY <1>1 DEF t, ToSet
<1> QED BY <1>1, <1>2 DEF Ranges, ToSet, t

\* Of ranges the valid ones stay, the last one too.
LEMMA ValidAppended ==
  ASSUME NEW s, NEW ranges, Ranges(ranges), NEW r, SpanRange(r)
  PROVE  RemoveInvalidRanges(s, Append(ranges, r)) =
           IF ValidRange(s, r) THEN Append(RemoveInvalidRanges(s, ranges), r) ELSE RemoveInvalidRanges(s, ranges)
<1> DEFINE t == Append(ranges, r)
           V == {x \in ToSet(t) : ValidRange(s, x)}
<1>1. RemoveInvalidRanges(s, t) = OnlyIn(t, V)
  BY DEF RemoveInvalidRanges
<1>2. ToSet(t) = ToSet(ranges) \cup {r} /\ Sequence(ranges)
  BY FrontAppended DEF Ranges
<1>3. (r \in V <=> ValidRange(s, r)) /\ \A x \in ToSet(ranges) : x \in V <=> ValidRange(s, x)
  BY <1>2
<1> HIDE DEF V
<1>4. RemoveInvalidRanges(s, ranges) = OnlyIn(ranges, V)
  BY <1>3, ValidAre
<1>5. OnlyIn(t, V) = IF r \in V THEN Append(OnlyIn(ranges, V), r) ELSE OnlyIn(ranges, V)
  BY <1>2, OnlyInAppend
<1> HIDE DEF t
<1> QED BY <1>1, <1>3, <1>4, <1>5 DEF t

LEMMA OneValid ==
  ASSUME NEW s, NEW r, SpanRange(r)
  PROVE  RemoveInvalidRanges(s, <<r>>) # <<>> <=> ValidRange(s, r)
<1>1. Ranges(<<>>) /\ <<r>> = Append(<<>>, r) /\ RemoveInvalidRanges(s, <<>>) = <<>>
  BY NoRanges, OnlyInNone DEF RemoveInvalidRanges
<1>2. RemoveInvalidRanges(s, Append(<<>>, r)) = IF ValidRange(s, r) THEN Append(<<>>, r) ELSE <<>>
  <2> DEFINE e == <<>>
  <2>1. Ranges(e) /\ RemoveInvalidRanges(s, e) = e
    BY <1>1
  <2> HIDE DEF e
  <2>2. RemoveInvalidRanges(s, Append(e, r)) = IF ValidRange(s, r) THEN Append(e, r) ELSE e
    BY <2>1, ValidAppended
  <2> QED BY <2>2 DEF e
<1>3. Append(<<>>, r) # <<>>
  OBVIOUS
<1> QED BY <1>1, <1>2, <1>3

\* The range grows by one row or column, on the screen too.
LEMMA ShiftArrowIs ==
  ASSUME SelInv(sel), ShiftArrow
  PROVE  SelInv(sel') /\ GrowsByOne
<1> DEFINE ranges == IF sel.ranges = <<>> THEN <<CellRange(sel.active)>> ELSE sel.ranges
           last == IF Holds(Last(ranges), sel.active) THEN Last(ranges) ELSE CellRange(sel.active)
           edge(m) == IF sel.active.row = last.fromRow THEN m.toRow ELSE m.fromRow
           top(m) == CASE edge(m) < sel.top -> edge(m)
                       [] edge(m) >= sel.top + DrawnRows -> edge(m) - DrawnRows + 1
                       [] OTHER -> sel.top
<1>1. PICK key \in {"left", "right", "up", "down"} :
        LET moved == ArrowRange(last, sel.active, key)
            valid == RemoveInvalidRanges(sel, <<moved>>) # <<>>
            seen == IF valid THEN DrawRows([sel EXCEPT !.top = top(moved)]) ELSE sel
        IN  sel' = SetSelectedRanges(seen, Append(Front(ranges), IF valid THEN moved ELSE last))
  BY DEF ShiftArrow
<1> DEFINE moved == ArrowRange(last, sel.active, key)
           valid == RemoveInvalidRanges(sel, <<moved>>) # <<>>
           seen == IF valid THEN DrawRows([sel EXCEPT !.top = top(moved)]) ELSE sel
           new == IF valid THEN moved ELSE last
           n == SetSelectedRanges(seen, Append(Front(ranges), new))
<1>2. sel' = n
  BY <1>1
<1>3. Place(sel.active) /\ Ranges(sel.ranges)
  BY DEF SelInv, Shows, SelForm
<1>4. SpanRange(CellRange(sel.active))
  BY <1>3, CellRangeIs
<1>5. Ranges(ranges) /\ ranges # <<>>
  <2>1. <<CellRange(sel.active)>> # <<>>
    OBVIOUS
  <2> QED BY <1>3, <1>4, <2>1, OneRange
<1>6. (sel.ranges # <<>> => ranges = sel.ranges)
  OBVIOUS
<1> HIDE DEF ranges
<1>7. SpanRange(Last(ranges)) /\ Ranges(Front(ranges))
  <2>1. Sequence(ranges)
    BY <1>5 DEF Ranges
  <2>2. Len(ranges) \in DOMAIN ranges /\ Sequence(Front(ranges)) /\ ToSet(Front(ranges)) \subseteq ToSet(ranges)
    BY <1>5, <2>1, FrontIs
  <2> QED BY <1>5, <2>2, RangesPart DEF Ranges, Last
<1>8. SpanRange(last) /\ (Holds(Last(ranges), sel.active) => last = Last(ranges))
  BY <1>4, <1>7
<1> HIDE DEF last
<1>9. SpanRange(moved) /\ (Corner(last, sel.active) => ByOne(last, moved))
  BY <1>3, <1>8, ArrowIs
<1> HIDE DEF moved, top
<1>10. valid <=> ValidRange(sel, moved)
  BY <1>9, OneValid
<1> HIDE DEF valid
<1>11. SelInv(seen) /\ seen.rows = sel.rows
  <2>1. ASSUME valid PROVE SelInv(seen) /\ Alike(sel, seen, {"drawn", "top"})
    BY <2>1, ScrolledInv
  <2>2. ASSUME valid PROVE seen.rows = sel.rows
    BY <2>1, <2>2 DEF Alike, SelFields
  <2> HIDE DEF seen
  <2>3. ASSUME ~valid PROVE seen = sel
    BY <2>3 DEF seen
  <2> QED BY <2>1, <2>2, <2>3
<1> HIDE DEF seen
<1>12. SpanRange(new) /\ Ranges(Append(Front(ranges), new))
  <2>1. SpanRange(new)
    BY <1>8, <1>9
  <2> HIDE DEF new
  <2> QED BY <1>7, <2>1, WithLast
<1>13. SelInv(n)
  BY <1>11, <1>12, SelectKeeps DEF SelInv
<1>14. n.ranges = RemoveInvalidRanges(seen, Append(Front(ranges), new))
  BY <1>11, <1>12, SetRangesIs DEF SelInv, Shows
<1>15. \A r : ValidRange(seen, r) <=> ValidRange(sel, r)
  BY <1>11 DEF ValidRange, CanCellBeSelected, CellExists
<1> DEFINE others == RemoveInvalidRanges(sel, Front(ranges))
<1>16. RemoveInvalidRanges(seen, Front(ranges)) = others
  BY <1>15 DEF RemoveInvalidRanges
<1>17. n.ranges = IF ValidRange(sel, new) THEN Append(others, new) ELSE others
  <2> HIDE DEF new
  <2> QED BY <1>7, <1>12, <1>14, <1>15, <1>16, ValidAppended
<1>18. Sequence(others)
  <2>1. Ranges(others)
    BY <1>7, ValidRanges
  <2> QED BY <2>1 DEF Ranges
<1> HIDE DEF n, others
<1>19. ASSUME sel.ranges # <<>>, Corner(Last(sel.ranges), sel.active)
       PROVE  \/ /\ n.ranges # <<>> /\ Front(n.ranges) = others
                 /\ ByOne(Last(sel.ranges), Last(n.ranges))
              \/ n.ranges = others /\ ~ValidRange(sel, Last(sel.ranges))
  <2>1. Holds(Last(ranges), sel.active)
    BY <1>3, <1>6, <1>7, <1>19 DEF Corner, Holds, Place, SpanRange, Span
  <2>2. last = Last(sel.ranges)
    BY <1>6, <1>8, <1>19, <2>1
  <2>3. CASE ValidRange(sel, new)
    <3>1. n.ranges # <<>> /\ Front(n.ranges) = others /\ Last(n.ranges) = new
      BY <1>17, <1>18, <2>3, FrontAppended
    <3>2. ByOne(last, last)
      BY <1>8 DEF ByOne, Moved, SpanRange, Span
    <3>3. ByOne(last, new)
      BY <1>9, <1>19, <2>2, <3>2
    <3> QED BY <2>2, <3>1, <3>3
  <2>4. CASE ~ValidRange(sel, new)
    <3>1. new = last
      BY <1>10, <2>4
    <3> QED BY <1>17, <2>2, <2>4, <3>1
  <2> QED BY <2>3, <2>4
<1>20. GrowsByOne
  BY <1>2, <1>6, <1>19 DEF GrowsByOne, others
<1> QED BY <1>2, <1>13, <1>20

-----------------------------------------------------------------------------
(* the session *)

LEMMA FirstIs ==
  ASSUME NEW rows \in RowLists, NEW sync, NEW jobs
  PROVE  SelInv(FirstSelection(rows, sync, jobs))
<1> DEFINE s == [rows |-> rows, top |-> 0, active |-> Inactive, editing |-> FALSE,
                 ranges |-> <<>>, selected |-> <<>>, css |-> [key \in Keys |-> NoHash],
                 drawn |-> NoHash, drag |-> NotDragging, box |-> <<>>, sync |-> sync,
                 ids |-> <<>>, flags |-> NoHash, jobs |-> jobs]
           n == DrawRows(s)
<1>1. FirstSelection(rows, sync, jobs) = n
  BY DEF FirstSelection
<1>2. /\ DOMAIN s = SelFields /\ s.rows = rows /\ s.active = Inactive /\ s.ranges = <<>> /\ s.selected = <<>>
      /\ s.css = [key \in Keys |-> NoHash] /\ s.drawn = NoHash /\ s.drag = NotDragging /\ s.ids = <<>>
      /\ s.flags = NoHash
  BY DEF SelFields
<1> HIDE DEF s
<1>3. DOMAIN NoHash = {} /\ NotDragging.on = FALSE /\ Place(Inactive)
  BY DEF NoHash, NotDragging, Place, Inactive
<1>4. SelForm(s)
  BY <1>2, <1>3, ListsAre, EmptyIs, NoRanges DEF SelForm, Styles, DragForm
<1>5. Marked(s) /\ Once(s)
  BY <1>2, <1>3, EmptyIs DEF Marked, Once
<1>6. Shows(n) /\ Alike(s, n, {"drawn"})
  BY <1>4, <1>5, DrawShows DEF Shows
<1> HIDE DEF n
<1>7. /\ n.rows = rows /\ n.selected = <<>> /\ n.drag = NotDragging
      /\ n.css = [key \in Keys |-> NoHash]
  BY <1>2, <1>6 DEF Alike, SelFields
<1>8. Linked(n) /\ Boxed(n) /\ Flagged(n)
  BY <1>3, <1>7, EmptyIs DEF Linked, Boxed, Flagged, Keys
<1> QED BY <1>1, <1>6, <1>7, <1>8 DEF SelInv

SelectionInv == SelInv(sel)

LEMMA SelectionStarts == SelectionInit => SelectionInv
BY FirstIs DEF SelectionInit, SelectionInv

LEMMA SelectionSteps == SelectionInv /\ [SelectionNext]_sel => SelectionInv'
<1> SUFFICES ASSUME SelInv(sel), [SelectionNext]_sel PROVE SelInv(sel')
  BY DEF SelectionInv
<1>1. CASE UNCHANGED sel
  BY <1>1
<1> QED BY <1>1, ClickCellIs, EndEditIs, ShiftArrowIs, DragBeginIs, DragOverIs, DragFinishIs, ItemsChangeIs,
           ScrollRowsIs, SetFlagsIs, RemoveFlagsIs, SelectRowsIs DEF SelectionNext

\* Whatever is clicked, dragged, styled, scrolled and changed, in any lists of
\* items, the rows shown as selected are those that the ranges cover, and each
\* cell on the screen has the marks that it would have if it were drawn now.
THEOREM SelectedIsShown == SelectionSpec => []SelectionShown
<1>1. SelectionInv => SelectionShown
  BY DEF SelectionInv, SelInv, Shows, Marked, Once, SelectionShown, SelectedOnce, MarksRight
<1> QED BY SelectionStarts, SelectionSteps, <1>1, PTL DEF SelectionSpec

\* A gesture selects what it showed, and what is selected and styled follows
\* its items when the data view keeps them in step.
THEOREM SelectedIsKept == SelectionSpec => SelectionKept
<1> DEFINE A == /\ ShiftArrow => GrowsByOne
                /\ (DragFinish /\ "rows" \notin sel.jobs
                      /\ CanCellBeSelected(sel, sel.drag.start.row, sel.drag.start.cell)) => sel'.ranges = sel.box
           B == (ItemsChange /\ sel.sync # "no") =>
                  SelectionFollows /\ (sel.css["flag"] # NoHash => StylesFollow)
<1>1. SelectionInv /\ [SelectionNext]_sel => [A /\ B]_sel
  BY ShiftArrowIs, DragFinishIs, ItemsChangeIs DEF SelectionInv
<1> HIDE DEF A, B
<1>2. SelectionSpec => [][A]_sel /\ [][B]_sel
  BY SelectionStarts, SelectionSteps, <1>1, PTL DEF SelectionSpec
<1>3. [][A]_sel => SelectedAsShown
  BY PTL DEF SelectedAsShown, A
<1>4. [][B]_sel => ItemsFollowed
  BY PTL DEF ItemsFollowed, B
<1> QED BY <1>2, <1>3, <1>4 DEF SelectionKept
=============================================================================
