---------------------------- MODULE MCEditRequest ----------------------------
(***************************************************************************)
(* EditRequest on a small instance.                                        *)
(***************************************************************************)
EXTENDS EditRequest, TLC

CONSTANTS red, blue

Prints == {red, blue}
PrintSymmetry == Permutations(Prints)
=============================================================================
