------------------------------ MODULE MCFleet -------------------------------
EXTENDS Fleet, TLC

(* Each behaviour has edits of one kind.                                   *)
OneKind == {{"cells"}, {"sale"}, {"gallery"}}

Symmetry ==
    Permutations(Postamats) \cup Permutations(Sizes) \cup Permutations(Cells)
=============================================================================
