------------------------------ MODULE Connection ------------------------------
(***************************************************************************)
(* Both views of a connection between the MCP server and the plugin, side  *)
(* by side: whole messages with their budgets (Session), and the bytes of  *)
(* its frames (PipeFrames).  A behaviour is about one of the two; `view'   *)
(* says which, and the other rests.                                        *)
(***************************************************************************)
EXTENDS Session, PipeFrames

VARIABLE view

connVars == <<view, vars, frameVars>>

ConnInit == view \in {"messages", "bytes"} /\ Init /\ FrameInit

MessageStep == view = "messages" /\ Next /\ UNCHANGED <<view, frameVars>>
ByteStep == view = "bytes" /\ FrameNext /\ UNCHANGED <<view, vars>>

ConnNext == MessageStep \/ ByteStep

ConnSpec == ConnInit /\ [][ConnNext]_connVars
===============================================================================
