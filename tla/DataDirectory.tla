----------------------------- MODULE DataDirectory -----------------------------
(***************************************************************************)
(* What several AviUtl2 processes write into their data directory: the     *)
(* settings file (SettingsFile) and the generated agent plugin             *)
(* (AgentPlugin).  The second only needs what a save has left in the first *)
(* one, so a behaviour is about one of the two; `part' says which, and the *)
(* other rests.                                                            *)
(***************************************************************************)
EXTENDS SettingsFile, AgentPlugin

VARIABLE part

dataVars == <<part, vars, agentVars>>

\* The one that rests rests in one of its initial states.
DataInit ==
  /\ part \in {"settings", "plugin"} /\ Init /\ AgentInit
  /\ part = "settings" => offer = (CHOOSE toggles \in Offers : TRUE) /\ dirs = {}
  /\ part = "plugin" => file = F!Absent

SettingsStep == part = "settings" /\ Next /\ UNCHANGED <<part, agentVars>>
PluginStep == part = "plugin" /\ AgentNext /\ UNCHANGED <<part, vars>>

DataSpec == DataInit /\ [][SettingsStep \/ PluginStep]_dataVars
================================================================================
