-------------------------- MODULE MCProjectSequence --------------------------
(* Small instances of ProjectSequence: all callers on one generator, or every *)
(* caller on a generator of its own.                                          *)
EXTENDS ProjectSequence

CONSTANTS c1, c2, c3, g1, g2, g3

OneGenerator == [c \in {c1, c2, c3} |-> g1]

OwnGenerator == [c \in {c1, c2} |-> IF c = c1 THEN g1 ELSE g2]
=============================================================================
