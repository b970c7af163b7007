---------------------------- MODULE MCArtifactStore ----------------------------
(***************************************************************************)
(* ArtifactStore with two tool calls and a few images.                     *)
(***************************************************************************)
EXTENDS ArtifactStore, TLC

CONSTANTS c1, c2, k1, k2, k3

TwoCalls == {c1, c2}
ThreeImages == {k1, k2, k3}
\* Room for two small images, and for one of any size.
TwoOrOne == {[count |-> 2, total |-> 3, ttl |-> 1], [count |-> 1, total |-> 2, ttl |-> 1]}
StoreSymmetry == Permutations(TwoCalls) \cup Permutations(ThreeImages)
=============================================================================
