----------------------------- MODULE ProjectTable -----------------------------
(***************************************************************************)
(* What a user of one cost center expects of the report store: a table of  *)
(* live projects on which every save acts once, at one moment, and on the  *)
(* table as it is at that moment. There is no cache, no asynchronous       *)
(* writer and no row that is stored but not shown. ReportStore is checked  *)
(* to implement this specification when saves do not overlap.              *)
(*                                                                         *)
(* One thing spoils the table: a brand that is live may be added again,    *)
(* from a page that does not know it. Of such an id, and of the one that   *)
(* initiation gives to it, the table promises nothing from then on.        *)
(***************************************************************************)
EXTENDS FiniteSets

CONSTANTS
    Ids,         \* gMemori ids
    Requests,    \* saves
    Extends,     \* Extends[i]: the ids whose text contains i, i included
    StudyId,     \* StudyId[i]: the id that initiation gives to i
    NoRow        \* "no project with this id"

VARIABLES
    table,       \* table[i]: the live project with id i
    doubled,     \* the ids that were added again
    applied      \* the saves that have acted

vars == <<table, doubled, applied>>

Project == [st : {"New", "Active"}, kids : SUBSET Ids, by : Requests \cup {"seed"}]

Init ==
    /\ table \in [Ids -> {NoRow} \cup Project]
    /\ doubled = {}
    /\ applied = {}

Live == {i \in Ids : table[i] # NoRow}

\* A save acts once.
Act(r) ==
    /\ r \notin applied
    /\ applied' = applied \cup {r}

\* The table becomes t.
Becomes(t) ==
    /\ table' \in [Ids -> {NoRow} \cup Project]
    /\ \A i \in Ids \ doubled : table'[i] = t[i]
    /\ UNCHANGED doubled

\* The project i appears, or a multi-brand project with the family kids.
Create(r, i, kids) ==
    /\ Act(r)
    /\ i \notin Live
    /\ \E st \in {"New", "Active"} :
         Becomes([j \in Ids |->
           IF j \in kids \cup {i} THEN [st |-> st, kids |-> kids, by |-> r] ELSE table[j]])

\* Rows of a project change; with a PO number they become Active.
Edit(r, rows) ==
    /\ Act(r)
    /\ rows \subseteq Live
    /\ \E po \in BOOLEAN :
         Becomes([j \in Ids |->
           IF j \in rows THEN [table[j] EXCEPT !.st = IF po THEN "Active" ELSE @, !.by = r]
           ELSE table[j]])

\* A project and everything named after it leave the table.
Disable(r, i) ==
    /\ Act(r)
    /\ Becomes([j \in Ids |-> IF j \in Extends[i] THEN NoRow ELSE table[j]])

\* Project i and the members of its family that are named after it get their study ids:
\* the rows are the same under their new names.
Initiate(r, i) ==
    LET moved == IF table[i].kids = {} THEN {i} ELSE table[i].kids \cap Extends[i]
        new == {StudyId[j] : j \in moved}
    IN  /\ Act(r)
        /\ i \in Live /\ moved \subseteq Live
        /\ Becomes([k \in Ids |->
             IF k \in new
             THEN LET j == CHOOSE j \in moved : StudyId[j] = k
                  IN  [table[j] EXCEPT !.kids = {StudyId[n] : n \in @}, !.by = r]
             ELSE IF k \in moved THEN NoRow ELSE table[k]])

\* The rows of a family are those named kids: the ones that are live are kept and, as long as
\* i itself is live, the others appear with the status of a row of the family.
Regroup(r, i, kids) ==
    /\ Act(r)
    /\ i \in kids
    /\ i \in Live \/ kids \ {i} \subseteq Live
    /\ \E f \in Live \cap Extends[i], st \in {"New", "Active"} :
       /\ f \in doubled \/ st = table[f].st
       /\ Becomes([j \in Ids |->
            CASE j \notin kids \/ (j = i /\ i \notin Live) -> table[j]
              [] j \in kids \cap Live -> [table[j] EXCEPT !.kids = kids, !.by = r]
              [] OTHER -> [st |-> st, kids |-> kids, by |-> r]])

\* Brands of i that are live are added to it once more.
AddAgain(i, brands) ==
    /\ i \in Live
    /\ brands \subseteq Live \ {i}
    /\ doubled' = doubled \cup brands \cup {StudyId[j] : j \in brands}
    /\ UNCHANGED <<table, applied>>

\* A save that finds nothing to do.
Nothing(r) == Act(r) /\ Becomes(table)

Next ==
    \E i \in Ids :
        \/ \E r \in Requests : Disable(r, i) \/ Initiate(r, i) \/ Nothing(r)
        \/ \E S \in SUBSET Extends[i] :
             \/ AddAgain(i, S)
             \/ \E r \in Requests : Create(r, i, S) \/ Edit(r, S) \/ Regroup(r, i, S)

Spec == Init /\ [][Next]_vars

=============================================================================
