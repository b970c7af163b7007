---------------------------- MODULE RegistryPromise ----------------------------
(***************************************************************************)
(* What the registry promises about one instance: its descriptor appears   *)
(* at most once, while its process lives, and disappears either because    *)
(* the process took it away or because the process is dead.                *)
(***************************************************************************)
VARIABLES
  entry,  \* "unseen", then "listed" while the descriptor can be found, then "gone"
  owner   \* the process: "alive" or "dead"

vars == <<entry, owner>>

Init == entry = "unseen" /\ owner = "alive"

Publish == owner = "alive" /\ entry = "unseen" /\ entry' = "listed" /\ UNCHANGED owner
Withdraw == owner = "alive" /\ entry = "listed" /\ entry' = "gone" /\ UNCHANGED owner
Die == owner = "alive" /\ owner' = "dead" /\ UNCHANGED entry
Collect == owner = "dead" /\ entry = "listed" /\ entry' = "gone" /\ UNCHANGED owner

Next == Publish \/ Withdraw \/ Die \/ Collect

Spec == Init /\ [][Next]_vars
=============================================================================
