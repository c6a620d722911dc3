--------------------------- MODULE MCStudyExchange ---------------------------
(* Two ids of each kind, two cost centers; the tables to start with hold one    *)
(* project or two, in all states.                                               *)
EXTENDS StudyExchange, TLC

CONSTANTS d1, d2, s1, s2, po1, po2, cc1, cc2

Project(i, st, n, c) == i :> [id |-> i, st |-> st, po |-> n, cc |-> c]
MCSeeds ==
  {Project(d1, "Active", po1, cc1) @@ Project(s1, "New", NoPO, cc2),
   Project(s1, "New", NoPO, cc1) @@ Project(s2, "Closed", po1, cc2)}
MCWithin == s1 :> {s1, d1} @@ s2 :> {s2}
MCCenterLists == {<<cc1>>, <<cc2, cc1>>}
=============================================================================
