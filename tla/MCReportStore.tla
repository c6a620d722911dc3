---------------------------- MODULE MCReportStore ----------------------------
(* Instances of ReportStore for TLC: a project of one brand, "s", a multi-brand project "p" *)
(* with the brand "p.1", their study ids "S", "P" and "P.1", and a project "n", with the    *)
(* brand "n.1" when it has brands, that is not created yet.                                 *)
EXTENDS ReportStore, TLC

AllIds == {"s", "S", "p", "p.1", "P", "P.1", "n", "n.1"}
FamilyIds == {"p", "p.1", "P", "P.1", "n"}
FewIds == {"p", "p.1", "n"}

\* The ids whose text contains i.
MCExtends == [i \in Ids |-> Ids \cap
    CASE i = "p" -> {"p", "p.1"} [] i = "P" -> {"P", "P.1"} [] i = "n" -> {"n", "n.1"}
      [] OTHER -> {i}]

MCStudyId == [i \in Ids |->
    CASE i = "s" -> "S"
      [] i = "p" /\ "P" \in Ids -> "P"
      [] i = "p.1" /\ "P.1" \in Ids -> "P.1"
      [] OTHER -> i]

MCDotted == {"p.1", "P.1", "n.1"} \cap Ids

MCRoot == [d \in MCDotted |-> CASE d = "p.1" -> "p" [] d = "P.1" -> "P" [] OTHER -> "n"]

MCSeeds == [i \in Ids |->
    CASE i \in {"p", "p.1"} -> {"p", "p.1"} [] i = "s" -> {} [] OTHER -> NoRow]

\* Requests differ in nothing but their names.
RequestSymmetry == Permutations(Requests)
=============================================================================
