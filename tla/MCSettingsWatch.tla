----------------------------- MODULE MCSettingsWatch ----------------------------
(***************************************************************************)
(* SettingsWatch with an item that hides a tool and one that does not.     *)
(***************************************************************************)
EXTENDS SettingsWatch

CONSTANTS hide, other

TwoItems == {hide, other}
OneTool == {hide}
=============================================================================
