------------------------------- MODULE EditBatch -------------------------------
(***************************************************************************)
(* apply_batch (crates/plugin/src/edit/batch.rs): one edit section that    *)
(* plans every sub-operation, issues them in order, and on a failure rolls *)
(* back what was issued, in reverse order, as far as the host lets it.     *)
(*                                                                         *)
(* The project is what the sub-operations write: the slot (layer and start *)
(* frame) of every object and the stored value of its setting. The host    *)
(* may adjust what it is asked for, refuse a call, or fail a read.         *)
(***************************************************************************)
EXTENDS Naturals, Sequences

CONSTANTS
  Objects,
  Layers,            \* a set of naturals
  Frames,            \* a set of naturals: the frames an object can start at
  Length,            \* [Objects -> Nat \ {0}], frames an object takes up
  Values,            \* what a setting can hold
  MaxSteps,          \* bound: sub-operations of one batch
  FailedCallApplies  \* a mutation call that reports failure may have acted

ASSUME BatchAssumption ==
  /\ Layers \subseteq Nat /\ Frames \subseteq Nat
  /\ Length \in [Objects -> Nat \ {0}]
  /\ MaxSteps \in Nat
  /\ FailedCallApplies \in BOOLEAN

VARIABLES
  project,    \* what every target holds now
  original,   \* history: what it held when the section was entered
  plan,       \* BatchPlan.steps, in request order
  pc,         \* the phase the section is in
  i,          \* applying: the next step; rolling back: how many are left
  applied,    \* ApplyFailure.applied
  restored,   \* roll_back's counter
  issued,     \* a mutation call reached the SDK
  outcome     \* what the batch answers

vars == <<project, original, plan, pc, i, applied, restored, issued, outcome>>

Slots == [layer : Layers, frame : Frames]
\* TargetKey: the position of an object, or its setting.
Targets == {"position", "item"} \X Objects
Holds(t) == IF t[1] = "position" THEN Slots ELSE Values
Projects == {p \in [Targets -> Slots \cup Values] : \A t \in Targets : p[t] \in Holds(t)}

\* A PlannedStep: what is asked of which target, and what it held before.
PlannedSteps ==
  {s \in [target : Targets, goal : Slots \cup Values, origin : Slots \cup Values] :
     s.goal \in Holds(s.target) /\ s.origin \in Holds(s.target)}

IsMove(s) == s.target[1] = "position"

\* The frames an object takes up from a slot.
Covers(o, slot, l, f) ==
  slot.layer = l /\ slot.frame <= f /\ f < slot.frame + Length[o]

Overlap(o, s, q, r) ==
  Covers(o, s, r.layer, r.frame) \/ Covers(q, r, s.layer, s.frame)

\* The host never puts one object over another.
RoomFor(o, slot, p) ==
  \A q \in Objects \ {o} : ~Overlap(o, slot, q, p[<<"position", q>>])

\* Where the host may put an object that is asked to go to `slot': there, or
\* near it.
Landings(o, p) == {slot \in Slots : RoomFor(o, slot, p)}

Layouts == {p \in Projects : \A o \in Objects : RoomFor(o, p[<<"position", o>>], p)}

\* ensure_destination_free: nobody covers the frame asked for. It looks at that
\* one frame, the host at the whole length.
DestinationFree(s) ==
  \A q \in Objects \ {s.target[2]} :
    ~Covers(q, project[<<"position", q>>], s.goal.layer, s.goal.frame)

Init ==
  /\ project \in Layouts /\ original = project
  /\ plan = <<>> /\ pc = "planning"
  /\ i = 1 /\ applied = 0 /\ restored = 0 /\ issued = FALSE
  /\ outcome = "none"

Answer(o) ==
  /\ pc' = "end" /\ outcome' = o
  /\ UNCHANGED <<original, plan, applied, restored>>

\* The request, with the origin every step would be rolled back to. Mutant: the
\* resolved targets are not compared (ensure_distinct).
AnyTargets(ops) == TRUE
DistinctTargets(ops) ==
  \A j, k \in DOMAIN ops : j # k => ops[j].target # ops[k].target

Requests == UNION {[1 .. n -> PlannedSteps] : n \in 1 .. MaxSteps}

Plan ==
  /\ pc = "planning"
  /\ \E ops \in Requests :
       /\ \A k \in DOMAIN ops : ops[k].origin = project[ops[k].target]
       /\ DistinctTargets(ops)
       /\ plan' = ops
  /\ pc' = "applying"
  /\ UNCHANGED <<project, original, i, applied, restored, issued, outcome>>

\* A target that cannot be resolved, a locked layer, a duplicate, no inverse.
PlanFails ==
  /\ pc = "planning"
  /\ Answer("notAttempted")
  /\ UNCHANGED <<project, i, issued>>

Step == plan[i]
Applying == pc = "applying" /\ i <= Len(plan)

\* The step ends and the next one is taken.
StepDone ==
  /\ i' = i + 1
  /\ issued' = TRUE
  /\ UNCHANGED <<original, plan, pc, applied, restored, outcome>>

\* How many leading steps are rolled back when step i fails: the failing one
\* counts when its own change is in. Mutant: it never counts.
AppliedBefore(changed) == i - 1
AppliedSteps(changed) == IF changed THEN i ELSE i - 1

\* The step fails: roll back what was applied.
StepFails(changed) ==
  /\ pc' = "rolling"
  /\ applied' = AppliedSteps(changed)
  /\ i' = AppliedSteps(changed)
  /\ UNCHANGED <<original, plan, restored, outcome>>

Put(t, v) == project' = [project EXCEPT ![t] = v]

\* issue, Move: the host moves the object; the landing is not compared.
MoveApplied ==
  /\ Applying /\ IsMove(Step) /\ DestinationFree(Step)
  /\ \E slot \in Landings(Step.target[2], project) : Put(Step.target, slot)
  /\ StepDone

\* The destination is occupied or cannot be read, or the call never reached the
\* SDK: nothing changed.
StepRefused ==
  /\ Applying
  /\ StepFails(FALSE)
  /\ UNCHANGED <<project, issued>>

\* The SDK reports failure. Nothing changed, or (FailedCallApplies) it did.
CallFails ==
  /\ Applying /\ (IsMove(Step) => DestinationFree(Step))
  /\ issued' = TRUE
  /\ StepFails(FALSE)
  /\ \/ UNCHANGED project
     \/ /\ FailedCallApplies
        /\ \E v \in IF IsMove(Step) THEN Landings(Step.target[2], project)
                    ELSE Values : Put(Step.target, v)

\* issue, SetItem: the value was written and reads back as asked.
SetVerified ==
  /\ Applying /\ ~IsMove(Step)
  /\ Put(Step.target, Step.goal)
  /\ StepDone

\* The write went through, but the value reads back differently, or the object
\* cannot be read again: this step is rolled back as well.
SetUnverified ==
  /\ Applying /\ ~IsMove(Step)
  /\ \E v \in Values : Put(Step.target, v)
  /\ issued' = TRUE
  /\ StepFails(TRUE)

\* summarize: all steps are in; only the response may still fail.
Summarize ==
  /\ pc = "applying" /\ i = Len(plan) + 1
  /\ Answer("done") \/ Answer("unread")
  /\ UNCHANGED <<project, i, issued>>

\* The step whose inverse is issued next: the last one not yet tried. Mutant:
\* in the order of application.
ForwardStep == plan[applied - i + 1]
InverseStep == plan[i]
Rolling == pc = "rolling" /\ i > 0

\* restore: the inverse is issued and the target reads back as before.
InverseRestores ==
  /\ Rolling
  /\ IsMove(InverseStep) => RoomFor(InverseStep.target[2], InverseStep.origin, project)
  /\ Put(InverseStep.target, InverseStep.origin)
  /\ restored' = restored + 1
  /\ i' = i - 1 /\ issued' = TRUE
  /\ UNCHANGED <<original, plan, pc, applied, outcome>>

\* The inverse is refused, lands elsewhere or cannot be read back: warn and go
\* on with the rest.
InverseFails ==
  /\ Rolling
  /\ \/ UNCHANGED <<project, issued>>
     \/ /\ issued' = TRUE
        /\ \E v \in IF IsMove(InverseStep)
                    THEN Landings(InverseStep.target[2], project) ELSE Values :
             Put(InverseStep.target, v)
  /\ i' = i - 1
  /\ UNCHANGED <<original, plan, pc, applied, restored, outcome>>

RolledBack ==
  /\ pc = "rolling" /\ i = 0
  /\ Answer(IF restored = applied THEN "complete" ELSE "incomplete")
  /\ UNCHANGED <<project, i, issued>>

\* The section panics: the plan unwinds with the permit (mark_lost_section).
Panic ==
  /\ pc \in {"applying", "rolling"}
  /\ Answer(IF issued THEN "impossible" ELSE "notAttempted")
  /\ UNCHANGED <<project, i, issued>>

Next ==
  \/ Plan \/ PlanFails \/ MoveApplied \/ StepRefused \/ CallFails \/ SetVerified
  \/ SetUnverified \/ Summarize \/ InverseRestores \/ InverseFails \/ RolledBack
  \/ Panic

Spec == Init /\ [][Next]_vars

-----------------------------------------------------------------------------
TypeOK ==
  /\ project \in Projects /\ original \in Projects
  /\ plan \in Seq(PlannedSteps)
  /\ pc \in {"planning", "applying", "rolling", "end"}
  /\ i \in Nat /\ applied \in 0 .. Len(plan) /\ restored \in Nat
  /\ issued \in BOOLEAN
  /\ outcome \in {"none", "done", "notAttempted", "complete", "incomplete",
                  "impossible", "unread"}

\* A rollback that says complete put everything back, and a batch that says
\* nothing was attempted changed nothing (RollbackOutcome).
CompleteMeansRestored ==
  outcome \in {"complete", "notAttempted"} => project = original

\* As long as every inverse so far succeeded, the next one finds the origin of
\* its object free, whatever later steps moved there and wherever the host put
\* them: reverse order is what makes that so (roll_back's doc).
InverseFindsRoom ==
  Rolling /\ restored = applied - i /\ IsMove(InverseStep) =>
    RoomFor(InverseStep.target[2], InverseStep.origin, project)

\* A batch that succeeds left every setting as it was asked: no later step of
\* the batch overwrote what an earlier one had verified (ensure_distinct).
DoneMeansAsked ==
  outcome = "done" =>
    \A k \in DOMAIN plan : ~IsMove(plan[k]) => project[plan[k].target] = plan[k].goal

\* The batch implements its promise: seen from outside it is one step.
Promise == INSTANCE BatchPromise WITH
  project <- IF pc = "end" THEN project ELSE original,
  answer <- outcome
KeepsPromise == Promise!Spec
=============================================================================
