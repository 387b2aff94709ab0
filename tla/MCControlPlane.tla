--------------------------- MODULE MCControlPlane ---------------------------
(* Instances of ControlPlane for TLC. *)
EXTENDS ControlPlane, TLC

CONSTANTS good1, good2, bad, junk

MCConfig     == {good1, good2, bad, junk}
MCWellFormed == {good1, good2, bad}
MCValid      == {good1, good2, bad}
MCBootable   == {good1, good2}
MCMerged     == [c \in MCWellFormed |-> IF c = good1 THEN good2 ELSE c]
MCSynced     == [c \in MCWellFormed |-> IF c = good2 THEN good1 ELSE c]

Symmetry == Permutations(Proc)
=============================================================================
