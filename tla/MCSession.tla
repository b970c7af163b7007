------------------------------- MODULE MCSession -------------------------------
(***************************************************************************)
(* Connection with a few calls, shares of one or two ticks, and short      *)
(* frames.                                                                 *)
(***************************************************************************)
EXTENDS Connection, TLC

CONSTANTS c1, c2

TwoCalls == {c1, c2}
CallSymmetry == Permutations(TwoCalls)
ShortExec == [k \in Kinds |-> IF k = "edit" THEN 3 ELSE 2]
ShortPhase == [k \in Kinds |-> ShortExec[k] + WriteLimit + Headroom + Reserve(k)]
===============================================================================
