----------------------------- MODULE MCOtaUpdate -----------------------------
(* Two releases newer than the factory image, so metadata can change; two    *)
(* tasks, so a finished one can overlap a new one; two pieces, so images can *)
(* be cut and mixed.                                                         *)
EXTENDS OtaUpdate, TLC

CONSTANTS v1, v2

\* A text comparison or one of the patch alone would order them differently.
MCSemver == [i \in Images |-> CASE i = v1 -> <<0, 9, 5>>
                                []  i = v2 -> <<0, 10, 0>>
                                [] OTHER -> <<0, 9, 0>>]

\* Tasks are interchangeable.
Symmetry == Permutations(Tasks)
=============================================================================
