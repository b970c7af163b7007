-------------------------- MODULE MCInstanceRegistry --------------------------
(***************************************************************************)
(* InstanceRegistry with two servers and one project file.                 *)
(***************************************************************************)
EXTENDS InstanceRegistry, TLC

CONSTANTS s1, s2, p1

TwoServers == {s1, s2}
OneServer == {s1}
OneProject == {p1}
ServerSymmetry == Permutations(TwoServers)
TrueStamp == {"exact"}
AnyStamp == {"exact", "clock"}
InCalls == {"executing"}
=============================================================================
