------------------------------ MODULE SeqFilter ------------------------------
(***************************************************************************)
(* What slick.dataview.js does wherever it goes through a list and keeps   *)
(* some of it: the filter, the rows of a group, the ids of rows and the    *)
(* rows of ids.                                                            *)
(***************************************************************************)
EXTENDS SequencesExt

\* The elements of a sequence that are in a set, in their order.
OnlyIn(seq, set) == FoldLeft(LAMBDA t, x : IF x \in set THEN Append(t, x) ELSE t, <<>>, seq)
=============================================================================
