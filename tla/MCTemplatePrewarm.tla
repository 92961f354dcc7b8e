------------------------- MODULE MCTemplatePrewarm -------------------------
(***************************************************************************)
(* Instances of TemplatePrewarm for TLC.                                   *)
(***************************************************************************)
EXTENDS TemplatePrewarm

CONSTANTS w1, w2, w3, p1, p2, n1, n2, k1

\* w1 and w2 are threads of one process, w3 is in another one.
TwoAndOne == [w \in Worker |-> IF w \in {w1, w2} THEN p1 ELSE p2]

=============================================================================
