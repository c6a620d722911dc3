----------------------------- MODULE CellEditors -----------------------------
(***************************************************************************)
(* The editors of single cells (war/SlickGrid-master/slick.editors.js) and *)
(* the lock that lets one of them be open at a time (slick.core.js), for   *)
(* the two grids of the page: the main one and that of the multi-brand     *)
(* popup.  Each has one cell with an editor of some kind, and others       *)
(* without.  What a text is to JavaScript (Number, parseInt, parseFloat)   *)
(* is given; NaN is a number that no text or value has.                    *)
(***************************************************************************)
EXTENDS Integers

CONSTANTS
  Facts,      \* text -> number, whole, decimal, length, dotted
  NumberText, \* number -> text
  Escape,     \* text -> text: "<" becomes "&lt;", and a blank text the empty one
  Unescape,   \* text -> text: "&lt;" becomes "<"
  NaN, Greatest,     \* not a number; the greatest integer accepted
  RefusedTexts,      \* what the validators of text columns refuse
  TypedIn,    \* kind of editor -> what is typed into it
  CellPairs,  \* the cells of the two grids: kinds and values
  Asynchronous \* whether editors may be loaded by a timer

VARIABLE cell

Grids == {"main", "popup"}

\* JavaScript values.
Text(s)    == [text |-> s]
Number(n)  == [number |-> n]
Truth(b)   == [truth |-> b]
Missing    == [missing |-> TRUE]
Falsy(v)   == v \in {Text(""), Number(0), Truth(FALSE), Missing}
OrZero(n)  == IF n = NaN THEN 0 ELSE n

\* JavaScript's ==, of a text or of a number with a value.
LooselyEqual(s, v) ==
  \/ v = Text(s)
  \/ "number" \in DOMAIN v /\ Facts[s].number = v.number
EqualsNumber(n, v) ==
  \/ v = Number(n)
  \/ "text" \in DOMAIN v /\ Facts[v.text].number = n

-----------------------------------------------------------------------------
(* the editors *)

\* An editor by what it takes for the value before, what it compares to know of
\* a change, what it stores and what it accepts; two have ways of their own.
EditorOf(loads, compares, stores, accepts) ==
  [loads |-> loads, compares |-> compares, stores |-> stores, accepts |-> accepts,
   escapes |-> FALSE, resets |-> FALSE]

AutoCompleteEditor    == EditorOf("true values", "text", "text", "column")
TextEditor            == EditorOf("true values", "text", "text", "column")
IntegerEditor         == EditorOf("all", "text", "whole", "limited")
DateEditor            == EditorOf("all", "text", "text", "all")
YesNoSelectEditor     == EditorOf("all", "text", "choice", "all")
CheckboxEditor        == EditorOf("truth", "choice", "choice", "all")
PercentCompleteEditor == EditorOf("all", "whole", "whole", "whole")
LongTextEditor        == [EditorOf("all", "text", "text", "all") EXCEPT !.escapes = TRUE]
FloatEditor           == [EditorOf("all", "text", "decimal", "number") EXCEPT !.resets = TRUE]
GMemoriEditor         == EditorOf("nonzero", "text", "whole", "six digits")
PONumberEditor        == EditorOf("all", "text", "whole", "undotted")
PercentageAllocationEditor == EditorOf("all", "text", "decimal", "number")

Editors ==
  [Auto |-> AutoCompleteEditor, Text |-> TextEditor, Integer |-> IntegerEditor, Date |-> DateEditor,
   YesNoSelect |-> YesNoSelectEditor, Checkbox |-> CheckboxEditor,
   PercentComplete |-> PercentCompleteEditor, LongText |-> LongTextEditor,
   FloatText |-> FloatEditor, GMemoriText |-> GMemoriEditor, PONumberText |-> PONumberEditor,
   PercentageAllocationText |-> PercentageAllocationEditor]

\* loadValue: what an editor takes for the value before, ...
LoadedValue(e, v) ==
  CASE e.loads = "true values" -> IF Falsy(v) THEN Text("") ELSE v
    [] e.loads = "nonzero" -> IF EqualsNumber(0, v) THEN Text("") ELSE v
    [] e.loads = "truth" -> IF Falsy(v) THEN Truth(FALSE) ELSE Truth(TRUE)
    [] e.loads = "all" -> v

\* ... and what it shows.  The editor of long texts shows what is escaped as it
\* was typed.
ShownText(e, v) ==
  LET s == CASE e.stores = "choice" -> IF Falsy(v) THEN "no" ELSE "yes"
             [] "text" \in DOMAIN v -> v.text
             [] "number" \in DOMAIN v -> NumberText[v.number]
             [] OTHER -> ""
  IN  IF e.escapes THEN Unescape[s] ELSE s

SerializeValue(e, s) ==
  CASE e.stores = "whole" -> Number(OrZero(Facts[s].whole))
    [] e.stores = "decimal" -> Number(OrZero(Facts[s].decimal))
    [] e.stores = "choice" -> Truth(s = "yes")
    [] e.stores = "text" -> Text(s)

\* An untouched Yes/No is always changed: its text is no truth value.
IsValueChanged(e, s, before) ==
  CASE e.compares = "choice" -> SerializeValue(e, s) # before
    [] e.compares = "whole" -> ~EqualsNumber(OrZero(Facts[s].whole), before) /\ ~(s = "" /\ before = Missing)
    [] e.compares = "text" -> ~LooselyEqual(s, before) /\ ~(s = "" /\ before = Missing)

Validate(e, s) ==
  LET f == Facts[s]
      isNumber == f.number # NaN
  IN  CASE e.accepts = "limited" -> isNumber /\ f.number \in 0..Greatest
        [] e.accepts = "whole" -> f.whole # NaN
        [] e.accepts = "number" -> isNumber
        [] e.accepts = "six digits" -> s = "" \/ (isNumber /\ f.length >= 6 /\ ~f.dotted)
        [] e.accepts = "undotted" -> s = "" \/ (isNumber /\ ~f.dotted)
        [] e.accepts = "column" -> s \notin RefusedTexts
        [] e.accepts = "all" -> TRUE

-----------------------------------------------------------------------------
(* a grid as an edit controller, and the lock *)

\* Numbers are in tenths.  Written and read again they are the same, and those
\* without a fraction are to parseInt, too (a cell has none from 10^21, where the
\* text would have an exponent); no number has a sign to escape.
ASSUME TextsAssumption ==
  /\ {"", "yes", "no"} \subseteq DOMAIN Facts
  /\ Escape \in [DOMAIN Facts -> DOMAIN Facts] /\ Unescape \in [DOMAIN Facts -> DOMAIN Facts]
  /\ Escape[""] = "" /\ Unescape[""] = ""
  /\ 0 \in DOMAIN NumberText /\ NaN \notin DOMAIN NumberText
  /\ \A n \in DOMAIN NumberText :
       LET s == NumberText[n]
       IN  /\ s \in DOMAIN Facts /\ Facts[s].number = n
           /\ n % 10 = 0 => Facts[s].whole = n
           /\ Escape[s] = s /\ Unescape[s] = s
  /\ \A s \in DOMAIN Facts : {Facts[s].whole, Facts[s].decimal} \subseteq DOMAIN NumberText \cup {NaN}

\* What a cell may hold: those of a choice a truth value, the others none.
MayHold(k, v) ==
  \/ v = Missing
  \/ IF Editors[k].stores = "choice" THEN \E b \in BOOLEAN : v = Truth(b)
     ELSE \/ \E s \in DOMAIN Facts : v = Text(s)
          \/ \E n \in DOMAIN NumberText : v = Number(n)

ASSUME CellsAssumption ==
  /\ \A k \in DOMAIN Editors : TypedIn[k] \subseteq DOMAIN Facts
  /\ \A p \in CellPairs :
       /\ DOMAIN p.kind = Grids /\ DOMAIN p.value = Grids
       /\ \A g \in Grids : p.kind[g] \in DOMAIN Editors /\ MayHold(p.kind[g], p.value[g])

Closed == [open |-> FALSE]
OpenIn(c, g) == c.editor[g].open
KindOf(c, g) == Editors[c.kind[g]]

\* makeActiveCellNormal, with deactivate
MakeActiveCellNormal(c, g) ==
  IF OpenIn(c, g) THEN [c EXCEPT !.editor[g] = Closed, !.lock = IF @ = g THEN "none" ELSE @,
                                 !.thrown = @ \/ c.lock # g]
  ELSE c

\* makeActiveCellEditable, with activate.
MakeActiveCellEditable(c, g) ==
  LET before == LoadedValue(KindOf(c, g), c.value[g])
  IN  IF c.at[g] # "cell" THEN c
      ELSE IF c.lock \notin {"none", g} THEN [c EXCEPT !.timer[g] = FALSE, !.thrown = TRUE]
      ELSE [c EXCEPT !.timer[g] = FALSE, !.lock = g,
                     !.editor[g] = [open |-> TRUE, before |-> before, typed |-> FALSE,
                                    text |-> ShownText(KindOf(c, g), before)]]

Rejected(c, g) ==
  /\ OpenIn(c, g)
  /\ IsValueChanged(KindOf(c, g), c.editor[g].text, c.editor[g].before)
  /\ ~Validate(KindOf(c, g), c.editor[g].text)

\* Mutant of CommitCurrentEdit: a rejected value is given up.
CommitCurrentEditAnyway(c, g) ==
  LET e == c.editor[g]
      store == OpenIn(c, g) /\ IsValueChanged(KindOf(c, g), e.text, e.before) /\ ~Rejected(c, g)
  IN  [ok |-> TRUE,
       c |-> MakeActiveCellNormal(IF store THEN [c EXCEPT !.value[g] = SerializeValue(KindOf(c, g), e.text)]
                                  ELSE c, g)]

\* A rejected value stays in the editor; that of decimals shows the old one.
CommitCurrentEdit(c, g) ==
  LET e == c.editor[g]
      kind == KindOf(c, g)
      store == OpenIn(c, g) /\ IsValueChanged(kind, e.text, e.before)
  IN  IF Rejected(c, g)
      THEN [ok |-> FALSE,
            c |-> IF kind.resets THEN [c EXCEPT !.editor[g].text = ShownText(kind, e.before)] ELSE c]
      ELSE [ok |-> TRUE,
            c |-> MakeActiveCellNormal(IF store THEN [c EXCEPT !.value[g] = SerializeValue(kind, e.text)]
                                       ELSE c, g)]

\* The lock asks whoever holds it.
LockCommit(c) == IF c.lock = "none" THEN [ok |-> TRUE, c |-> c] ELSE CommitCurrentEdit(c, c.lock)

\* setActiveCellInternal: the editor is opened at once or by a timer.
SetActiveCell(c, g, at) ==
  LET s == [MakeActiveCellNormal(c, g) EXCEPT !.at[g] = at]
  IN  IF at # "cell" THEN s
      ELSE IF c.async THEN [s EXCEPT !.timer[g] = TRUE]
      ELSE MakeActiveCellEditable(s, g)

\* Mutant of GoTo: only an edit of the same grid is committed.
GoToOwn(c, g, at) ==
  LET r == CommitCurrentEdit(c, g) IN IF r.ok THEN SetActiveCell(r.c, g, at) ELSE r.c

\* gotoCell, and the keys that move: an edit anywhere must be committed first.
GoTo(c, g, at) ==
  LET r == LockCommit(c) IN IF r.ok THEN SetActiveCell(r.c, g, at) ELSE r.c

-----------------------------------------------------------------------------
(* the handlers *)

FirstEditors(start, async) ==
  [front |-> "main", lock |-> "none", async |-> async, thrown |-> FALSE,
   kind |-> start.kind, value |-> start.value, at |-> [g \in Grids |-> "other"],
   timer |-> [g \in Grids |-> FALSE], editor |-> [g \in Grids |-> Closed]]

EditorsInit ==
  \E start \in CellPairs, async \in Asynchronous : cell = FirstEditors(start, async)

\* The popup is in front of the main grid while it is shown.  It is shown after a
\* click on another cell, even if an edit could not be committed by it; what is
\* being edited in the popup is not ended when it is hidden.
ShowPopup ==
  cell.front = "main" /\ cell' = [GoTo(cell, "main", "other") EXCEPT !.front = "popup"]
HidePopup == cell.front = "popup" /\ cell' = [cell EXCEPT !.front = "main"]

\* A click on the cell, unless it is being edited, and one elsewhere.
ClickEditable ==
  LET g == cell.front IN ~OpenIn(cell, g) /\ cell' = GoTo(cell, g, "cell")

Escaped(c, g) == [c EXCEPT !.editor[g].text = Escape[@]]

\* Mutant of Leave: the edit is not committed.
LeaveAtOnce ==
  LET g == cell.front
  IN  cell.at[g] = "cell" /\ cell' = [MakeActiveCellNormal(cell, g) EXCEPT !.at[g] = "other"]

Leave ==
  LET g == cell.front IN cell.at[g] = "cell" /\ cell' = GoTo(cell, g, "other")

\* Tab, Save and Enter with control in the editor of long texts escape the text; of
\* a blank one nothing is left.
SaveLongText ==
  LET g == cell.front
  IN  /\ OpenIn(cell, g) /\ KindOf(cell, g).escapes
      /\ cell' = GoTo(Escaped(cell, g), g, "other")

\* Enter ends an edit and moves down, or begins one.
EnterCell ==
  LET g == cell.front
      r == LockCommit(cell)
  IN  /\ cell.at[g] = "cell"
      /\ OpenIn(cell, g) => ~KindOf(cell, g).escapes
      /\ cell' = IF OpenIn(cell, g) THEN GoTo(cell, g, "other")
                 ELSE IF r.ok THEN MakeActiveCellEditable(r.c, g) ELSE r.c

\* Escape cancels whatever edit there is, in the other grid too.
CancelEdit == cell.lock # "none" /\ cell' = MakeActiveCellNormal(cell, cell.lock)

TypeText ==
  LET g == cell.front
  IN  /\ OpenIn(cell, g)
      /\ \E s \in TypedIn[cell.kind[g]] :
           cell' = [cell EXCEPT !.editor[g].text = s, !.editor[g].typed = TRUE]

\* Scrolling hides and shows the editor of long texts.
ScrollEditor ==
  LET g == cell.front
  IN  /\ OpenIn(cell, g) /\ KindOf(cell, g).escapes
      /\ cell' = [cell EXCEPT !.editor[g].text = Unescape[@]]

\* The rows are drawn anew: an edit is given up.
DrawAnew == \E g \in Grids : OpenIn(cell, g) /\ cell' = MakeActiveCellNormal(cell, g)

LoadEditor == \E g \in Grids : cell.timer[g] /\ cell' = MakeActiveCellEditable([cell EXCEPT !.timer[g] = FALSE], g)

EditorsNext ==
  \/ ShowPopup \/ HidePopup \/ ClickEditable \/ Leave \/ SaveLongText \/ EnterCell
  \/ CancelEdit \/ TypeText \/ ScrollEditor \/ DrawAnew \/ LoadEditor

EditorsSpec == EditorsInit /\ [][EditorsNext]_cell

-----------------------------------------------------------------------------
(* properties *)

\* Types of the variable; an editor shows a text.
EditorsTypeOK ==
  /\ cell.front \in Grids /\ cell.lock \in Grids \cup {"none"}
  /\ \A g \in Grids :
       /\ cell.kind[g] \in DOMAIN Editors /\ cell.at[g] \in {"cell", "other"}
       /\ OpenIn(cell, g) => cell.editor[g].text \in DOMAIN Facts /\ cell.at[g] = "cell"

\* One editor is open at a time, that of the grid which holds the lock: nothing
\* is thrown by it, unless editors are loaded by timers, which the page does not.
OneEditor ==
  /\ \A g \in Grids : OpenIn(cell, g) <=> cell.lock = g
  /\ cell.thrown => cell.async

\* Opening a cell and leaving it again does not change its value.  The exceptions
\* are the editors of Yes/No, of percentages with a fraction, and of long texts
\* that are blank or have escaped signs.
Restored(c, g) ==
  LET v == c.value[g]
  IN  CASE c.kind[g] = "YesNoSelect" -> FALSE
        [] c.kind[g] = "PercentComplete" -> "number" \in DOMAIN v /\ v.number % 10 = 0
        [] KindOf(c, g).escapes -> "text" \in DOMAIN v => {Escape[v.text], Unescape[v.text]} = {v.text}
        [] OTHER -> TRUE
Untouched(g) ==
  (OpenIn(cell, g) /\ ~cell.editor[g].typed /\ Restored(cell, g)) => cell'.value[g] = cell.value[g]

\* A value that its editor rejects is never stored, and its editor stays open,
\* whichever grid and way the commit comes from, unless the edit is given up.
RejectedKept ==
  [][\A g \in Grids : Rejected(cell, g) =>
       /\ cell'.value[g] = cell.value[g]
       /\ OpenIn(cell', g) \/ CancelEdit \/ DrawAnew]_cell

\* What the editor of long texts may make of a text when it is saved; others keep it.
Written(kind, s) == IF kind.escapes THEN {s, Escape[s]} ELSE {s}

\* What was typed and is accepted is in the item when the editor has gone, unless it
\* says the same as the value before or the edit was given up; long texts may be escaped.
TypedStored(g) ==
  LET e == cell.editor[g]
      kind == KindOf(cell, g)
  IN  (OpenIn(cell, g) /\ ~OpenIn(cell', g) /\ e.typed /\ ~Rejected(cell, g)) =>
        \/ \E s \in Written(kind, e.text) :
             \/ cell'.value[g] = SerializeValue(kind, s)
             \/ ~IsValueChanged(kind, s, e.before) /\ cell'.value[g] = cell.value[g]
        \/ CancelEdit \/ DrawAnew

\* What is stored is what was typed, in either grid and whatever ends the edit.
StoredAsTyped == [][\A g \in Grids : Untouched(g) /\ TypedStored(g)]_cell
=============================================================================
