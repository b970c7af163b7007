----------------------------- MODULE MCSettingsFile -----------------------------
(***************************************************************************)
(* DataDirectory with two AviUtl2 processes, an item that hides a tool and *)
(* one that does not, and a tree with a file of each kind.                 *)
(***************************************************************************)
EXTENDS DataDirectory, TLC

CONSTANTS p1, p2, h1, h2, hide, other

TwoProcesses == {p1, p2}
TwoHosts == {h1, h2}
HostSymmetry == Permutations(TwoHosts)
TwoItems == {hide, other}

\* All, one dialect, and two offers of nothing.
SomeOffers == {Toggles, {"generate", "claude"}, {"generate", "skill"}, {"claude"}}

ShortTree ==
  << [path |-> <<".claude-plugin", "marketplace">>, of |-> "claude"],
     [path |-> <<"aviutl2", "bin", "server">>, of |-> "executable"],
     [path |-> <<"aviutl2", "mcp">>, of |-> "agent_plugins"],
     [path |-> <<"aviutl2", "skills", "SKILL">>, of |-> "skill"] >>
=============================================================================
