----------------------------- MODULE BatchPromise -----------------------------
(***************************************************************************)
(* What apply_batch promises a client, as one step: the whole batch is     *)
(* applied, or the project is as it was, or the answer says that the       *)
(* project may be half changed (edit/error.rs, RollbackOutcome).           *)
(***************************************************************************)
CONSTANTS Projects     \* every state the project can be in

VARIABLES
  project,   \* the project as the client can know it
  answer     \* "none" until the batch has been answered

vars == <<project, answer>>

\* The batch had no effect, and the answer says so.
Unchanged == {"notAttempted", "complete"}
\* The answer admits that the project may have changed.
Told == {"incomplete", "impossible", "unread"}

Init == project \in Projects /\ answer = "none"

Refuse ==
  /\ answer = "none"
  /\ answer' \in Unchanged
  /\ UNCHANGED project

Apply ==
  /\ answer = "none"
  /\ answer' = "done"
  /\ project' \in Projects

Admit ==
  /\ answer = "none"
  /\ answer' \in Told
  /\ project' \in Projects

Next == Refuse \/ Apply \/ Admit

Spec == Init /\ [][Next]_vars
=============================================================================
