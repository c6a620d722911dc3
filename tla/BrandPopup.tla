----------------------------- MODULE BrandPopup -----------------------------
(***************************************************************************)
(* The rows of the multi-brand popup of the budget page: m_data of         *)
(* editProjects.jsp and the functions of scripts/editProjects.js that read *)
(* and write it.  An operator goes from the rows to the rows after it.     *)
(* Totals and shares are in hundredths; Unset is the empty text.           *)
(***************************************************************************)
EXTENDS Integers, SequencesExt, FiniteSetsExt

CONSTANTS
  PopupRows,    \* rows the popup is opened with (5 in the code)
  MaxRows       \* bound of the model: no row is added beyond this number

ASSUME PopupAssumption == PopupRows \in Nat \ {0} /\ MaxRows \in Nat /\ PopupRows <= MaxRows

Unset == -1
NotANumber == -1    \* of the number of a row that follows a row without one

\* old is set in the rows of sub-projects that exist, was and wasShare hold
\* what they were loaded with; num is the part of the id after the dot.
BlankRow == [brand |-> "", share |-> Unset, total |-> Unset, named |-> FALSE, num |-> 0,
             owner |-> FALSE, old |-> FALSE, was |-> Unset, wasShare |-> Unset]
BlankRows == [i \in 1..PopupRows |-> BlankRow]

\* The first row of a project that gets its first sub-projects.
First(row) == [row EXCEPT !.named = TRUE, !.num = 1, !.owner = TRUE]
Single(rows, brand, total) ==
  [rows EXCEPT ![1] = [First(@) EXCEPT !.brand = brand, !.total = total, !.share = 10000]]

Existing(rows, kids) == kids \o SubSeq(rows, Len(kids) + 1, Len(rows))

-----------------------------------------------------------------------------
(* editing a row *)

Refuses(rows, i, field, active) ==
  \/ field = "total" /\ (rows[i].brand = "" \/ ~rows[i].owner)
  \/ active /\ rows[i].old

\* Opening the brand of a row names the row and numbers it after the one above.
Opened(rows, i, field) ==
  LET above == rows[i - 1]
      next  == IF above.num \in {0, NotANumber} THEN NotANumber ELSE above.num + 1
  IN  IF field = "total" \/ i = 1 THEN rows
      ELSE [rows EXCEPT ![i].named = TRUE, ![i].num = IF @ = 0 THEN next ELSE @,
                        ![i].owner = @ \/ above.owner]

NBrands(rows)   == Quantify(DOMAIN rows, LAMBDA i : rows[i].brand # "")
Amount(row)     == IF row.total = Unset THEN 0 ELSE row.total
SumTotals(rows) == SumFunction([i \in DOMAIN rows |-> Amount(rows[i])])
Percent(part, sum) == (20000 * part + sum) \div (2 * sum)

\* The shares are written in one loop over the rows; at the last row with a
\* brand an inner loop over the rows before it uses the same counter.
AtLast(rows, i) == rows[i].total # Unset /\ SumTotals(rows) > 0 /\ i >= NBrands(rows)
LastBrand(rows) == IF NBrands(rows) = 0 THEN 1 ELSE NBrands(rows)

\* A row beyond sends the counter back to that row, again and again.
Hangs(rows) == \E i \in DOMAIN rows : AtLast(rows, i) /\ i > LastBrand(rows)

\* Mutant of ShareOut: the last row gets its own rounded share.
ShareOutRounded(rows) ==
  LET sum == SumTotals(rows)
  IN  [i \in DOMAIN rows |-> [rows[i] EXCEPT !.share =
         IF rows[i].total = Unset THEN Unset ELSE IF sum = 0 THEN 0 ELSE Percent(rows[i].total, sum)]]

\* The last row with a brand gets what the others leave of a hundred percent.
ShareOut(rows) ==
  LET sum    == SumTotals(rows)
      own(i) == Percent(Amount(rows[i]), sum)
      rest   == SumFunction([i \in 1..(NBrands(rows) - 1) |-> own(i)])
  IN  [i \in DOMAIN rows |-> [rows[i] EXCEPT !.share =
         IF rows[i].total = Unset THEN Unset
         ELSE IF sum = 0 THEN 0
         ELSE IF AtLast(rows, i) THEN 10000 - rest ELSE own(i)]]

\* A negative total is refused: the row gets back what it was loaded with, and
\* the shares of the others stay.
Restored(rows, i) ==
  [rows EXCEPT ![i].total = IF rows[i].was = Unset THEN 0 ELSE rows[i].was,
               ![i].share = IF rows[i].was = Unset THEN 0 ELSE rows[i].wasShare]

\* The last of many rows has been filled: there is a new one.
Grown(rows, i) ==
  IF i = Len(rows) /\ i >= PopupRows /\ i < MaxRows THEN Append(rows, BlankRow) ELSE rows

-----------------------------------------------------------------------------
(* deleting rows *)

Without(rows, gone) ==
  LET kept == DOMAIN rows \ gone
      place(i) == Cardinality({j \in kept : j <= i})
  IN  [n \in 1..Cardinality(kept) |-> rows[CHOOSE i \in kept : place(i) = n]]

\* Rows in front of the first one without a total (0 is taken for none).
Leading(rows) == {i \in DOMAIN rows : \A j \in 1..i : Amount(rows[j]) > 0}

\* The rows that are left move up.  In a new project they are numbered anew,
\* and the shares are rounded one by one.
Delete(rows, gone, new) ==
  LET left == Without(rows, gone) \o [i \in 1..Cardinality(gone) |-> BlankRow]
      sum  == MapThenSumSet(LAMBDA i : left[i].total, Leading(left))
      done == [i \in DOMAIN left |->
                 [left[i] EXCEPT !.num = IF new /\ left[i].named THEN i ELSE @,
                                 !.share = IF i \in Leading(left) THEN Percent(left[i].total, sum) ELSE @]]
  IN  IF Amount(done[1]) = 0 THEN [done EXCEPT ![1] = First(@)] ELSE done

-----------------------------------------------------------------------------
(* saving *)

\* The rows in front of the first one without a project name.
Named(rows) == {i \in DOMAIN rows : \A j \in 1..i : rows[j].named}

Incomplete(row) == row.num = 0 \/ row.brand = "" \/ Amount(row) = 0

\* The owner of the project becomes that of the rows that are checked.
Owned(rows) ==
  [i \in DOMAIN rows |->
     IF i \in Named(rows) /\ \A j \in 1..(i - 1) : ~Incomplete(rows[j])
     THEN [rows[i] EXCEPT !.owner = TRUE] ELSE rows[i]]

\* Two rows with the same brand, looked for in front of the first incomplete one.
SameBrand(rows) ==
  LET full == {i \in DOMAIN rows : \A j \in 1..i : rows[j].owner /\ rows[j].brand # ""}
  IN  ~IsInjective(Restrict([i \in DOMAIN rows |-> rows[i].brand], full))

\* Save & Close is refused; it is not when not even the first row is named.
SaveRefused(rows) ==
  \/ \E i \in Named(rows) : Incomplete(rows[i])
  \/ Cardinality(Named(rows)) = 1
  \/ \E i \in DOMAIN rows : rows[i].brand # "" /\ ~rows[i].owner
  \/ SameBrand(rows)

\* What is stored as the total of the project.
PlannedTotal(rows) == MapThenSumSet(LAMBDA i : Amount(rows[i]), Named(rows))
=============================================================================
