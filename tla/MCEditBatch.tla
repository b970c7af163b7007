------------------------------ MODULE MCEditBatch ------------------------------
(***************************************************************************)
(* EditBatch on two objects of lengths 1 and 2 in one layer of four frames: *)
(* tight enough for a move to take the place the other one has left.       *)
(***************************************************************************)
EXTENDS EditBatch, TLC

CONSTANTS a, b, old, new

OneLayer == {0}
FourFrames == 0 .. 3
TwoLengths == (a :> 1) @@ (b :> 2)
=============================================================================
