------------------------------ MODULE PageData ------------------------------
(***************************************************************************)
(* The forecasts, targets, accruals and LTS rows of the budget page, what  *)
(* the edit of a month does to them (updateMemCache of                     *)
(* scripts/editProjects.js) and the total rows (searchProject,             *)
(* calculateTotal).  An operator goes from the rows d to the rows after    *)
(* it.  Amounts are in hundredths, as the code rounds to two decimals.     *)
(* The page is that of a cost centre: of a sub-project only the forecast   *)
(* row is shown, the others are hidden and count nowhere.                  *)
(***************************************************************************)
EXTENDS Integers, SequencesExt, FiniteSetsExt

CONSTANTS
  Projects,     \* the projects of the page, in their order
  Kids,         \* Kids[p]: the sub-projects of a multi-brand project, else <<>>
  Share,        \* Share[i]: the allocation of a project or sub-project, in hundredths of a percent
  NMonths,      \* number of months (12 in the code)
  ThisMonth,    \* the current month
  FreeMonths,   \* the months whose target still follows the forecast
  Planned       \* Planned[p]: the planned total of a multi-brand project

Months   == 1..NMonths
TotalCol == NMonths + 1
Columns  == 1..TotalCol
Tops == ToSet(Projects)
Ids  == Tops \cup UNION {ToSet(Kids[p]) : p \in Tops}
Family(p) == <<p>> \o Kids[p]
Parent(i) == CHOOSE p \in Tops : i \in ToSet(Family(p))

ASSUME PageAssumption ==
  /\ NMonths \in Nat \ {0} /\ ThisMonth \in Months /\ FreeMonths \subseteq Months
  /\ Projects \in Seq(Tops) /\ "Total" \notin Ids /\ \A i \in Ids : Share[i] \in Nat
  /\ \A p \in Tops : IsInjective(Family(p)) /\ Share[p] = 10000 /\ Kids[p] \in Seq(Ids)
  /\ \A p, q \in Tops : p # q => ToSet(Family(p)) \cap ToSet(Family(q)) = {}

Row(i, type) == [id |-> i, type |-> type]
Types == {"F", "T", "A", "L"}
ProjectRows == {Row(i, "F") : i \in Ids} \cup {Row(p, t) : p \in Tops, t \in Types}
TotalRow(t) == Row("Total", t)

SumOfMonths(v) == SumFunctionOnSet(v, Months)

WithTotal(v) == [v EXCEPT ![TotalCol] = SumOfMonths(v)]

-----------------------------------------------------------------------------
(* the edit of a month *)

\* An allocation of nothing is taken as all of it.
ShareOf(i) == IF Share[i] = 0 THEN 10000 ELSE Share[i]

\* toFixed: of a part in ten thousandths, a half goes away from zero.
ToFixed(n) == IF n < 0 THEN -((5000 - n) \div 10000) ELSE (n + 5000) \div 10000
Part(i, amount) == ToFixed(ShareOf(i) * amount)

\* Mutant of Parts: every part is rounded for itself.
PartsRounded(d, p, amount) == [i \in ToSet(Family(p)) |-> Part(i, amount)]

\* The parts of a family that are shown and saved: the last sub-project of a
\* multi-brand project gets what the others leave.
Parts(d, p, amount) ==
  LET part == [i \in ToSet(Family(p)) |-> Part(i, amount)]
      last == Last(Family(p))
      rest == SumFunctionOnSet(part, ToSet(Kids[p]) \ {last})
  IN  IF d.multi[p] /\ Kids[p] # <<>> THEN [part EXCEPT ![last] = part[p] - rest] ELSE part

\* The months of a multi-brand project may not exceed its planned total.
Exceeds(d, p, m, amount) ==
  d.multi[p] /\ SumOfMonths([d.val[Row(p, "F")] EXCEPT ![m] = amount]) > d.planned[p]

\* The total of a forecast row is that of the rounded part, also where the last
\* sub-project gets another one.
EditMonth(d, p, m, amount) ==
  LET parts  == Parts(d, p, amount)
      target == IF m \in FreeMonths THEN WithTotal([d.val[Row(p, "T")] EXCEPT ![m] = amount])
                ELSE d.val[Row(p, "T")]
      lts    == WithTotal([d.val[Row(p, "L")] EXCEPT ![m] = target[m] - d.val[Row(p, "A")][m]])
      forecast(i) == [WithTotal([d.val[Row(i, "F")] EXCEPT ![m] = Part(i, amount)]) EXCEPT ![m] = parts[i]]
  IN  [d EXCEPT !.val = [r \in DOMAIN @ |->
         CASE r.id \in ToSet(Family(p)) /\ r.type = "F" -> forecast(r.id)
           [] r = Row(p, "T") -> target
           [] r = Row(p, "L") -> lts
           [] OTHER -> @[r]]]

\* Mutant of ClearMonths: the row is made anew, of the cleared months only.
ClearMonthsAnew(d, p, planned) ==
  [d EXCEPT !.multi[p] = TRUE, !.planned[p] = planned,
            !.val[Row(p, "F")] = [c \in ThisMonth..NMonths |-> 0]]

\* The sub-projects of a project have been saved: the months from this one on are to be
\* entered again.
ClearMonths(d, p, planned) ==
  [d EXCEPT !.multi[p] = TRUE, !.planned[p] = planned,
            !.val[Row(p, "F")] = [c \in Columns |-> IF c \in ThisMonth..NMonths THEN 0 ELSE @[c]]]

-----------------------------------------------------------------------------
(* the search, and the total rows *)

\* What the search box holds: nothing, or text of a project (and so of its
\* sub-projects) or of a sub-project alone.
NoQuery == "none"
Matches(query, i) == query \in {NoQuery, i} \/ query = Parent(i)

\* Mutant of Refresh: the rows found are not remembered.
RefreshOnly(d, query, radio) == [d EXCEPT !.map = {r \in @ : r.id = "Total"}]

\* The filter remembers every row it lets through; the total rows only mind
\* the radio button.
Refresh(d, query, radio) ==
  LET shown(t) == radio = "All" \/ t = "F"
  IN  [d EXCEPT !.map = @ \cup {r \in ProjectRows : shown(r.type) /\ Matches(query, r.id)}
                           \cup {TotalRow(t) : t \in {t \in Types : shown(t)}}]

\* Rows count unless their id contains that of the project counted before them,
\* as those of sub-projects do.
Counted(d, type) ==
  {r \in d.map : /\ r.type = type /\ r.id # "Total"
                 /\ r.id \in Tops \/ Row(Parent(r.id), "F") \notin d.map
                 /\ type = "A" => r.id \in d.active}

\* A total row is zeroed and summed anew; the one of LTS only with "All".
CalculateTotal(d, radio) ==
  LET sum(t) == [c \in Columns |-> SumFunction([r \in Counted(d, t) |-> d.val[r][c]])]
      lts    == [c \in Columns |-> IF radio = "All" THEN sum("T")[c] - sum("A")[c] ELSE 0]
  IN  [d EXCEPT !.total = [t \in Types |-> IF TotalRow(t) \notin d.map THEN @[t]
                                           ELSE IF t = "L" THEN lts ELSE sum(t)]]

-----------------------------------------------------------------------------
\* The page as the server writes it, with the rows v, the projects of active having
\* the status Active and the others New; nothing is filtered.
PageOf(v, active) ==
  LET loaded == [val |-> v, active |-> active, multi |-> [p \in Tops |-> Kids[p] # <<>>], planned |-> Planned,
                 map |-> {}, total |-> [t \in Types |-> [c \in Columns |-> 0]]]
  IN  CalculateTotal(Refresh(loaded, NoQuery, "All"), "All")
=============================================================================
