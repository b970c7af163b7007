----------------------------- MODULE MCRenderTasks -----------------------------
(***************************************************************************)
(* RenderTasks with a few requests of one instance.                        *)
(***************************************************************************)
EXTENDS RenderTasks

CONSTANTS r1, r2

TwoRequests == {r1, r2}
\* A call into the host may never return, and the inventory, the file and the
\* pipe may be slow; the wait for the callback, and for a client, see the stop.
OutlastTheStop == {"before", "issuing", "abandoning", "releasing", "after", "sending"}
=============================================================================
