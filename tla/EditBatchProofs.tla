--------------------------- MODULE EditBatchProofs ---------------------------
(***************************************************************************)
(* Proofs about EditBatch, for every project and batch. Whatever the host  *)
(* does, a batch that succeeds left its settings as asked. When a failed   *)
(* call changes nothing, every inverse finds the origin of its object free *)
(* until one fails, and what the answer claims is so.                      *)
(***************************************************************************)
EXTENDS EditBatch, SequenceTheorems, TLAPS

\* A target the batch has no step for among the first n.
Untouched(t, n) == \A k \in 1 .. n : plan[k].target # t

\* Where the counters stand in each phase.
Counters ==
  /\ pc = "planning" => plan = <<>> /\ i = 1 /\ applied = 0 /\ restored = 0 /\ ~issued
  /\ pc = "applying" => i \in 1 .. Len(plan) + 1 /\ applied = 0 /\ restored = 0
  /\ pc = "rolling" => i \in 0 .. applied /\ restored \in 0 .. applied - i
  /\ pc # "end" => outcome = "none"
  /\ outcome = "none" => pc # "end"

\* The inverses of distinct targets, taken before the first change.
Inverses ==
  /\ pc = "planning" => project = original
  /\ \A k \in 1 .. Len(plan) : plan[k].origin = original[plan[k].target]
  /\ DistinctTargets(plan)

\* Only targets of issued steps differ from the original.
OnlyIssuedDiffer ==
  /\ ~issued /\ pc # "end" => project = original
  /\ pc = "applying" =>
       \A t \in Targets : Untouched(t, i - 1) => project[t] = original[t]
  /\ pc = "rolling" =>
       \A t \in Targets : Untouched(t, applied) => project[t] = original[t]

\* With no failed inverse, the steps tried so far are back at their origin.
InversesHold ==
  pc = "rolling" /\ restored = applied - i =>
    \A k \in i + 1 .. applied : project[plan[k].target] = original[plan[k].target]

\* The settings written so far hold what was asked of them.
AskedSoFar ==
  pc = "applying" =>
    \A k \in 1 .. i - 1 : ~IsMove(plan[k]) => project[plan[k].target] = plan[k].goal

\* The targets of the steps n to m.
TargetsOf(ops, n, m) == {ops[k].target : k \in n .. m}

\* The project p with the targets S as they were in q.
Back(p, q, S) == [t \in Targets |-> IF t \in S THEN q[t] ELSE p[t]]

\* No object lies over another.
Apart(p) == \A o \in Objects : RoomFor(o, p[<<"position", o>>], p)

\* Every project on the way back to the original one, the steps from n on taken
\* back, is a layout the host has accepted. Targets are distinct, so this is the
\* project as it was before step n.
WayBackApart ==
  /\ Apart(original)
  /\ pc = "applying" =>
       \A n \in 1 .. i : Apart(Back(project, original, TargetsOf(plan, n, i - 1)))
  /\ pc = "rolling" =>
       \A n \in 1 .. i : Apart(Back(project, original, TargetsOf(plan, n, applied)))

\* What holds whatever a failed call does.
Shape == TypeOK /\ Counters /\ Inverses /\ AskedSoFar /\ DoneMeansAsked

BInv ==
  /\ Shape
  /\ OnlyIssuedDiffer /\ InversesHold /\ WayBackApart /\ CompleteMeansRestored

-----------------------------------------------------------------------------
\* What a step asks for, and what it would be rolled back to, fits its target.
LEMMA StepFits ==
  ASSUME plan \in Seq(PlannedSteps), NEW k \in 1 .. Len(plan)
  PROVE  /\ plan[k].target \in Targets
         /\ plan[k].goal \in Holds(plan[k].target)
         /\ plan[k].origin \in Holds(plan[k].target)
<1>1. plan[k] \in PlannedSteps
  OBVIOUS
<1>2. QED
  BY <1>1 DEF PlannedSteps

\* A move's target holds a slot, a setting a value.
LEMMA MoveHoldsSlot ==
  ASSUME NEW s, IsMove(s) PROVE Holds(s.target) = Slots
  BY DEF IsMove, Holds

LEMMA ItemHoldsValue ==
  ASSUME NEW s, ~IsMove(s) PROVE Holds(s.target) = Values
  BY DEF IsMove, Holds

\* Writing a fitting value to one target keeps the project a project and every
\* other target as it is.
LEMMA PutFits ==
  ASSUME project \in Projects, NEW t \in Targets, NEW v \in Holds(t), Put(t, v)
  PROVE  /\ project' \in Projects
         /\ project'[t] = v
         /\ \A u \in Targets : u # t => project'[u] = project[u]
<1>1. project \in [Targets -> Slots \cup Values]
  BY DEF Projects
<1>2. v \in Slots \cup Values
  BY DEF Holds
<1>3. project' \in [Targets -> Slots \cup Values]
  BY <1>1, <1>2 DEF Put
<1>4. project'[t] = v /\ \A u \in Targets : u # t => project'[u] = project[u]
  BY <1>1 DEF Put
<1>5. \A u \in Targets : project'[u] \in Holds(u)
  BY <1>4 DEF Projects
<1>6. QED
  BY <1>3, <1>4, <1>5 DEF Projects

\* A request is a sequence of steps.
LEMMA RequestIsPlan ==
  ASSUME NEW ops \in Requests
  PROVE  ops \in Seq(PlannedSteps) /\ DOMAIN ops = 1 .. Len(ops)
<1>1. PICK n \in 1 .. MaxSteps : ops \in [1 .. n -> PlannedSteps]
  BY DEF Requests
<1>2. n \in Nat
  BY BatchAssumption, <1>1 DEF BatchAssumption
<1>3. ops \in Seq(PlannedSteps)
  BY <1>1, <1>2
<1>4. QED
  BY <1>3

\* Where a forward step stands, and what it may write.
LEMMA StepInPlan ==
  ASSUME TypeOK, Counters, Applying
  PROVE  /\ pc = "applying" /\ i \in 1 .. Len(plan) /\ Len(plan) \in Nat
         /\ applied = 0 /\ restored = 0 /\ outcome = "none"
         /\ Step = plan[i] /\ Step.target \in Targets
         /\ Step.goal \in Holds(Step.target)
<1>1. pc = "applying" /\ i \in 1 .. Len(plan) /\ Len(plan) \in Nat
  BY DEF Applying, Counters, TypeOK
<1>2. QED
  BY <1>1, StepFits DEF Step, TypeOK, Counters

\* The same for the step whose inverse is next.
LEMMA InverseInPlan ==
  ASSUME TypeOK, Counters, Inverses, Rolling
  PROVE  /\ pc = "rolling" /\ i \in 1 .. applied /\ restored \in 0 .. applied - i
         /\ applied \in 0 .. Len(plan) /\ Len(plan) \in Nat /\ i \in 1 .. Len(plan)
         /\ outcome = "none"
         /\ InverseStep = plan[i] /\ InverseStep.target \in Targets
         /\ InverseStep.origin \in Holds(InverseStep.target)
         /\ InverseStep.origin = original[InverseStep.target]
<1>1. /\ pc = "rolling" /\ i \in 1 .. applied /\ restored \in 0 .. applied - i
      /\ applied \in 0 .. Len(plan) /\ Len(plan) \in Nat /\ i \in 1 .. Len(plan)
  BY DEF Rolling, Counters, TypeOK
<1>2. QED
  BY <1>1, StepFits DEF InverseStep, Inverses, Counters, TypeOK

\* Two steps of a plan have different targets.
LEMMA OtherTarget ==
  ASSUME plan \in Seq(PlannedSteps), Inverses,
         NEW j \in 1 .. Len(plan), NEW k \in 1 .. Len(plan), j # k
  PROVE  plan[j].target # plan[k].target
<1>1. DOMAIN plan = 1 .. Len(plan)
  OBVIOUS
<1>2. QED
  BY <1>1 DEF Inverses, DistinctTargets

\* What a write to the target of a step, or no write, leaves.
LEMMA WriteFits ==
  ASSUME TypeOK, NEW t \in Targets,
         UNCHANGED project \/ \E v \in Holds(t) : Put(t, v)
  PROVE  /\ project' \in Projects
         /\ \A u \in Targets : u # t => project'[u] = project[u]
<1>1. CASE UNCHANGED project
  BY <1>1 DEF TypeOK
<1>2. CASE \E v \in Holds(t) : Put(t, v)
  BY <1>2, PutFits DEF TypeOK
<1>3. QED
  BY <1>1, <1>2

-----------------------------------------------------------------------------
\* The part that does not depend on what a failed call does.
LEMMA ShapeInit == Init => Shape
<1> SUFFICES ASSUME Init PROVE Shape
  OBVIOUS
<1>1. TypeOK
  <2>1. project \in Projects /\ original \in Projects
    BY DEF Init, Layouts
  <2>2. plan \in Seq(PlannedSteps) /\ Len(plan) = 0
    BY DEF Init
  <2>3. issued \in BOOLEAN
    BY DEF Init
  <2>4. QED
    BY <2>1, <2>2, <2>3 DEF Init, TypeOK
<1>2. Counters
  BY DEF Init, Counters
<1>3. Inverses
  BY DEF Init, Inverses, DistinctTargets
<1>4. AskedSoFar /\ DoneMeansAsked
  BY DEF Init, AskedSoFar, DoneMeansAsked
<1>5. QED
  BY <1>1, <1>2, <1>3, <1>4 DEF Shape

\* One successful forward step: a setting holds what was asked.
LEMMA ForwardStepShape ==
  ASSUME Shape, Applying, NEW v \in Holds(Step.target), Put(Step.target, v), StepDone,
         ~IsMove(Step) => v = Step.goal
  PROVE  Shape'
<1>1. TypeOK /\ Counters /\ Inverses /\ AskedSoFar
  BY DEF Shape
<1>2. /\ pc = "applying" /\ i \in 1 .. Len(plan) /\ Len(plan) \in Nat
      /\ applied = 0 /\ restored = 0 /\ outcome = "none"
      /\ Step = plan[i] /\ Step.target \in Targets
  BY <1>1, StepInPlan
<1>3. /\ project' \in Projects /\ project'[Step.target] = v
      /\ \A u \in Targets : u # Step.target => project'[u] = project[u]
  BY <1>1, <1>2, PutFits DEF TypeOK
<1>4. /\ i' = i + 1 /\ issued' = TRUE
      /\ UNCHANGED <<original, plan, pc, applied, restored, outcome>>
  BY DEF StepDone
<1>5. TypeOK'
  <2>1. issued' \in BOOLEAN
    BY <1>4
  <2>2. QED
    BY <1>1, <1>2, <1>3, <1>4, <2>1 DEF TypeOK
<1>6. Counters'
  BY <1>1, <1>2, <1>4 DEF Counters
<1>7. Inverses'
  BY <1>1, <1>2, <1>4 DEF Inverses, DistinctTargets
<1>8. AskedSoFar'
  <2>1. SUFFICES ASSUME NEW k \in 1 .. i, ~IsMove(plan[k])
                 PROVE  project'[plan[k].target] = plan[k].goal
    BY <1>2, <1>4 DEF AskedSoFar, IsMove
  <2>2. CASE k = i
    BY <1>2, <1>3, <2>1, <2>2
  <2>3. CASE k # i
    <3>1. k \in 1 .. i - 1 /\ k \in 1 .. Len(plan)
      BY <1>2, <2>3
    <3>2. plan[k].target # Step.target /\ plan[k].target \in Targets
      BY <1>1, <1>2, <2>3, <3>1, OtherTarget, StepFits DEF TypeOK
    <3>3. QED
      BY <1>1, <1>2, <1>3, <2>1, <3>1, <3>2 DEF AskedSoFar
  <2>4. QED
    BY <2>2, <2>3
<1>9. DoneMeansAsked'
  BY <1>2, <1>4 DEF DoneMeansAsked
<1>10. QED
  BY <1>5, <1>6, <1>7, <1>8, <1>9 DEF Shape

\* A failing step, whatever it wrote.
LEMMA FailureShape ==
  ASSUME Shape, Applying, NEW changed \in BOOLEAN, StepFails(changed), issued' \in BOOLEAN,
         UNCHANGED project \/ \E v \in Holds(Step.target) : Put(Step.target, v)
  PROVE  Shape'
<1>1. TypeOK /\ Counters /\ Inverses
  BY DEF Shape
<1>2. /\ pc = "applying" /\ i \in 1 .. Len(plan) /\ Len(plan) \in Nat
      /\ applied = 0 /\ restored = 0 /\ outcome = "none" /\ Step.target \in Targets
  BY <1>1, StepInPlan
<1>3. /\ pc' = "rolling" /\ applied' = (IF changed THEN i ELSE i - 1) /\ i' = applied'
      /\ UNCHANGED <<original, plan, restored, outcome>>
  BY DEF StepFails, AppliedSteps
<1>4. project' \in Projects
  BY <1>1, <1>2, WriteFits
<1>5. TypeOK'
  <2>1. applied' \in 0 .. Len(plan') /\ i' \in Nat
    BY <1>2, <1>3
  <2>2. QED
    BY <1>1, <1>3, <1>4, <2>1 DEF TypeOK
<1>6. Counters'
  BY <1>1, <1>2, <1>3 DEF Counters
<1>7. Inverses'
  BY <1>1, <1>2, <1>3 DEF Inverses, DistinctTargets
<1>8. AskedSoFar' /\ DoneMeansAsked'
  BY <1>2, <1>3 DEF AskedSoFar, DoneMeansAsked
<1>9. QED
  BY <1>5, <1>6, <1>7, <1>8 DEF Shape

\* One inverse, whatever it wrote.
LEMMA InverseShape ==
  ASSUME Shape, Rolling, i' = i - 1, issued' \in BOOLEAN,
         UNCHANGED <<original, plan, pc, applied, outcome>>,
         restored' \in {restored, restored + 1},
         UNCHANGED project \/ \E v \in Holds(InverseStep.target) : Put(InverseStep.target, v)
  PROVE  Shape'
<1>1. TypeOK /\ Counters /\ Inverses
  BY DEF Shape
<1>2. /\ pc = "rolling" /\ i \in 1 .. applied /\ restored \in 0 .. applied - i
      /\ applied \in 0 .. Len(plan) /\ Len(plan) \in Nat
      /\ outcome = "none" /\ InverseStep.target \in Targets
  BY <1>1, InverseInPlan
<1>3. project' \in Projects
  BY <1>1, <1>2, WriteFits
<1>4. TypeOK'
  <2>1. i' \in Nat /\ restored' \in Nat
    BY <1>2
  <2>2. QED
    BY <1>1, <1>3, <2>1 DEF TypeOK
<1>5. Counters'
  BY <1>1, <1>2 DEF Counters
<1>6. Inverses'
  BY <1>1, <1>2 DEF Inverses, DistinctTargets
<1>7. AskedSoFar' /\ DoneMeansAsked'
  BY <1>2 DEF AskedSoFar, DoneMeansAsked
<1>8. QED
  BY <1>4, <1>5, <1>6, <1>7 DEF Shape

\* The answer: all the steps are in when it says so.
LEMMA AnswerShape ==
  ASSUME Shape, UNCHANGED <<project, i, issued>>,
         NEW o \in {"done", "notAttempted", "complete", "incomplete",
                    "impossible", "unread"},
         Answer(o), pc # "end",
         o = "done" => pc = "applying" /\ i = Len(plan) + 1
  PROVE  Shape'
<1>1. TypeOK /\ Counters /\ Inverses /\ AskedSoFar
  BY DEF Shape
<1>2. /\ pc' = "end" /\ outcome' = o
      /\ UNCHANGED <<project, original, plan, i, applied, restored, issued>>
  BY DEF Answer
<1>3. TypeOK' /\ Counters' /\ Inverses' /\ AskedSoFar'
  BY <1>1, <1>2 DEF TypeOK, Counters, Inverses, DistinctTargets, AskedSoFar
<1>4. DoneMeansAsked'
  <2>1. SUFFICES ASSUME o = "done", NEW k \in DOMAIN plan, ~IsMove(plan[k])
                 PROVE  project[plan[k].target] = plan[k].goal
    BY <1>2 DEF DoneMeansAsked, IsMove
  <2>2. Len(plan) \in Nat /\ DOMAIN plan = 1 .. Len(plan)
    BY <1>1 DEF TypeOK
  <2>3. k \in 1 .. i - 1
    BY <2>1, <2>2
  <2>4. QED
    BY <1>1, <2>1, <2>3 DEF AskedSoFar
<1>5. QED
  BY <1>3, <1>4 DEF Shape

\* The plan is made of the request, with the origins read before any change.
LEMMA PlanShape == ASSUME Shape, Plan PROVE Shape'
<1>1. TypeOK /\ Counters
  BY DEF Shape
<1>2. PICK ops \in Requests :
        /\ \A k \in DOMAIN ops : ops[k].origin = project[ops[k].target]
        /\ DistinctTargets(ops)
        /\ plan' = ops
  BY DEF Plan
<1>3. plan' \in Seq(PlannedSteps) /\ DOMAIN plan' = 1 .. Len(plan') /\ Len(plan') \in Nat
  BY <1>2, RequestIsPlan
<1>4. /\ pc = "planning" /\ pc' = "applying" /\ outcome = "none"
      /\ i = 1 /\ applied = 0 /\ restored = 0
      /\ UNCHANGED <<project, original, i, applied, restored, issued, outcome>>
  BY <1>1 DEF Plan, Counters
<1>5. TypeOK'
  BY <1>1, <1>3, <1>4 DEF TypeOK
<1>6. Counters'
  BY <1>1, <1>3, <1>4 DEF Counters
<1>7. project = original
  BY <1>4 DEF Shape, Inverses
<1>8. Inverses'
  BY <1>2, <1>3, <1>4, <1>7 DEF Inverses
<1>9. AskedSoFar' /\ DoneMeansAsked'
  BY <1>4 DEF AskedSoFar, DoneMeansAsked
<1>10. QED
  BY <1>5, <1>6, <1>8, <1>9 DEF Shape

LEMMA ShapeStep == ASSUME Shape, [Next]_vars PROVE Shape'
<1>1. TypeOK /\ Counters /\ Inverses /\ AskedSoFar /\ DoneMeansAsked
  BY DEF Shape
<1>2. TRUE \in BOOLEAN /\ FALSE \in BOOLEAN
  OBVIOUS
<1>3. CASE MoveApplied
  <2>1. Applying /\ IsMove(Step) /\ StepDone
    BY <1>3 DEF MoveApplied
  <2>2. PICK slot \in Holds(Step.target) : Put(Step.target, slot)
    BY <1>3, MoveHoldsSlot DEF MoveApplied, Landings
  <2>3. QED
    BY <2>1, <2>2, ForwardStepShape
<1>4. CASE SetVerified
  <2>1. Applying /\ StepDone /\ Put(Step.target, Step.goal)
    BY <1>4 DEF SetVerified
  <2>2. Step.goal \in Holds(Step.target)
    BY <1>1, <2>1, StepInPlan
  <2>3. QED
    BY <2>1, <2>2, ForwardStepShape
<1>5. CASE StepRefused
  <2>1. Applying /\ StepFails(FALSE) /\ UNCHANGED <<project, issued>>
    BY <1>5 DEF StepRefused
  <2>2. issued' \in BOOLEAN
    BY <1>1, <2>1 DEF TypeOK
  <2>3. QED
    BY <1>2, <2>1, <2>2, FailureShape
<1>6. CASE CallFails
  <2>1. Applying /\ StepFails(FALSE) /\ issued' \in BOOLEAN
    BY <1>6 DEF CallFails
  <2>2. UNCHANGED project \/ \E v \in Holds(Step.target) : Put(Step.target, v)
    BY <1>6, MoveHoldsSlot, ItemHoldsValue DEF CallFails, Landings
  <2>3. QED
    BY <1>2, <2>1, <2>2, FailureShape
<1>7. CASE SetUnverified
  <2>1. Applying /\ StepFails(TRUE) /\ issued' \in BOOLEAN
    BY <1>7 DEF SetUnverified
  <2>2. \E v \in Holds(Step.target) : Put(Step.target, v)
    BY <1>7, ItemHoldsValue DEF SetUnverified
  <2>3. QED
    BY <1>2, <2>1, <2>2, FailureShape
<1>8. CASE InverseRestores
  <2>1. /\ Rolling /\ i' = i - 1 /\ issued' \in BOOLEAN /\ restored' = restored + 1
        /\ Put(InverseStep.target, InverseStep.origin)
        /\ UNCHANGED <<original, plan, pc, applied, outcome>>
    BY <1>8 DEF InverseRestores
  <2>2. InverseStep.origin \in Holds(InverseStep.target)
    BY <1>1, <2>1, InverseInPlan
  <2>3. QED
    BY <2>1, <2>2, InverseShape
<1>9. CASE InverseFails
  <2>1. /\ Rolling /\ i' = i - 1 /\ restored' = restored
        /\ UNCHANGED <<original, plan, pc, applied, outcome>>
    BY <1>9 DEF InverseFails
  <2>2. issued' \in BOOLEAN
    BY <1>1, <1>9 DEF InverseFails, TypeOK
  <2>3. UNCHANGED project \/ \E v \in Holds(InverseStep.target) : Put(InverseStep.target, v)
    BY <1>9, MoveHoldsSlot, ItemHoldsValue DEF InverseFails, Landings
  <2>4. QED
    BY <2>1, <2>2, <2>3, InverseShape
<1>10. CASE PlanFails
  BY <1>10, AnswerShape DEF PlanFails
<1>11. CASE Summarize
  BY <1>11, AnswerShape DEF Summarize
<1>12. CASE RolledBack
  BY <1>12, AnswerShape DEF RolledBack
<1>13. CASE Panic
  BY <1>13, AnswerShape DEF Panic
<1>14. CASE UNCHANGED vars
  BY <1>1, <1>14 DEF vars, Shape, TypeOK, Counters, Inverses, DistinctTargets,
     AskedSoFar, DoneMeansAsked
<1>15. QED
  BY <1>3, <1>4, <1>5, <1>6, <1>7, <1>8, <1>9, <1>10, <1>11, <1>12, <1>13, <1>14,
     PlanShape DEF Next

LEMMA ShapeInvariance == Spec => []Shape
<1>1. Shape /\ [Next]_vars => Shape'
  BY ShapeStep
<1>2. QED
  BY <1>1, ShapeInit, PTL DEF Spec

-----------------------------------------------------------------------------
\* Writing a setting, or taking the place of an object where there is room,
\* leaves the objects apart.
LEMMA SettingKeepsApart ==
  ASSUME NEW p, NEW q, Apart(p),
         \A o \in Objects : q[<<"position", o>>] = p[<<"position", o>>]
  PROVE  Apart(q)
BY DEF Apart, RoomFor

LEMMA LandingKeepsApart ==
  ASSUME NEW p, NEW q, Apart(p), NEW o \in Objects, NEW slot,
         RoomFor(o, slot, p), q[<<"position", o>>] = slot,
         \A u \in Objects \ {o} : q[<<"position", u>>] = p[<<"position", u>>]
  PROVE  Apart(q)
<1>1. ASSUME NEW u \in Objects, NEW w \in Objects \ {u}
      PROVE  ~Overlap(u, q[<<"position", u>>], w, q[<<"position", w>>])
  <2>1. CASE u = o
    BY <1>1, <2>1 DEF RoomFor
  <2>2. CASE w = o
    <3>1. ~Overlap(o, slot, u, p[<<"position", u>>])
      BY <1>1, <2>2 DEF RoomFor
    <3>2. QED
      BY <1>1, <2>2, <3>1 DEF Overlap
  <2>3. CASE u # o /\ w # o
    BY <1>1, <2>3 DEF Apart, RoomFor
  <2>4. QED
    BY <2>1, <2>2, <2>3
<1>2. QED
  BY <1>1 DEF Apart, RoomFor

\* Every position is a target.
LEMMA PositionIsTarget ==
  ASSUME NEW o \in Objects PROVE <<"position", o>> \in Targets
BY DEF Targets

\* A write to a target taken back is not seen.
LEMMA UnseenWrite ==
  ASSUME NEW p, NEW p2, NEW q, NEW S, NEW t \in S,
         \A u \in Targets : u # t => p2[u] = p[u]
  PROVE  Back(p2, q, S) = Back(p, q, S)
BY DEF Back

\* A target that held its original value when it was written can be taken back
\* as well.
LEMMA OneMoreBack ==
  ASSUME NEW p, NEW p2, NEW q, NEW S, NEW t, p[t] = q[t],
         \A u \in Targets : u # t => p2[u] = p[u]
  PROVE  Back(p2, q, S \cup {t}) = Back(p, q, S)
BY DEF Back

LEMMA OneMoreTarget ==
  ASSUME NEW ops, NEW n \in Int, NEW m \in Int, n <= m
  PROVE  TargetsOf(ops, n, m) = TargetsOf(ops, n, m - 1) \cup {ops[m].target}
<1>1. \A k : k \in n .. m <=> k \in n .. m - 1 \/ k = m
  OBVIOUS
<1>2. QED
  BY <1>1 DEF TargetsOf

\* Taking no step back shows the project itself.
LEMMA NothingBack ==
  ASSUME NEW ops, NEW n \in Int, NEW m \in Int, m < n, NEW p, NEW q
  PROVE  Apart(Back(p, q, TargetsOf(ops, n, m))) <=> Apart(p)
<1>1. TargetsOf(ops, n, m) = {}
  BY DEF TargetsOf
<1>2. \A t \in Targets : Back(p, q, TargetsOf(ops, n, m))[t] = p[t]
  BY <1>1 DEF Back
<1>3. QED
  BY <1>2, PositionIsTarget, SettingKeepsApart

LEMMA BatchInit == Init => BInv
<1> SUFFICES ASSUME Init PROVE BInv
  OBVIOUS
<1>1. OnlyIssuedDiffer /\ InversesHold /\ WayBackApart /\ CompleteMeansRestored
  BY DEF Init, Layouts, Apart, OnlyIssuedDiffer, InversesHold, WayBackApart,
     CompleteMeansRestored
<1>2. QED
  BY <1>1, ShapeInit DEF BInv

\* One successful forward step: only its own target changes, and the objects
\* stay apart.
LEMMA ForwardStepKeeps ==
  ASSUME BInv, Shape', Applying, NEW v \in Holds(Step.target), Put(Step.target, v), StepDone,
         IsMove(Step) => v \in Landings(Step.target[2], project)
  PROVE  BInv'
<1>1. /\ TypeOK /\ Counters /\ Inverses /\ OnlyIssuedDiffer /\ WayBackApart
  BY DEF BInv, Shape
<1>2. /\ pc = "applying" /\ i \in 1 .. Len(plan) /\ Len(plan) \in Nat
      /\ outcome = "none" /\ Step = plan[i] /\ Step.target \in Targets
  BY <1>1, StepInPlan
<1>3. /\ project' \in Projects /\ project'[Step.target] = v
      /\ \A u \in Targets : u # Step.target => project'[u] = project[u]
  BY <1>1, <1>2, PutFits DEF TypeOK
<1>4. /\ i' = i + 1 /\ issued' = TRUE
      /\ UNCHANGED <<original, plan, pc, applied, restored, outcome>>
  BY DEF StepDone
<1>5. OnlyIssuedDiffer'
  <2>1. SUFFICES ASSUME NEW t \in Targets, \A k \in 1 .. i : plan[k].target # t
                 PROVE  project'[t] = original[t]
    BY <1>2, <1>4 DEF OnlyIssuedDiffer, Untouched
  <2>2. t # Step.target /\ Untouched(t, i - 1)
    BY <1>2, <2>1 DEF Untouched
  <2>3. QED
    BY <1>1, <1>2, <1>3, <2>2 DEF OnlyIssuedDiffer
<1>6. InversesHold' /\ CompleteMeansRestored'
  BY <1>2, <1>4 DEF InversesHold, CompleteMeansRestored
<1>7. project[Step.target] = original[Step.target]
  <2>1. Untouched(Step.target, i - 1)
    <3>1. \A k \in 1 .. i - 1 : k \in 1 .. Len(plan) /\ k # i
      BY <1>2
    <3>2. QED
      BY <1>1, <1>2, <3>1, OtherTarget DEF Untouched, TypeOK
  <2>2. QED
    BY <1>1, <1>2, <2>1 DEF OnlyIssuedDiffer
<1>8. Apart(project')
  <2>1. Apart(project)
    <3>1. Apart(Back(project, original, TargetsOf(plan, i, i - 1)))
      BY <1>1, <1>2 DEF WayBackApart
    <3>2. QED
      BY <1>2, <3>1, NothingBack
  <2>2. CASE IsMove(Step)
    <3>1. PICK o \in Objects : Step.target = <<"position", o>>
      BY <1>2, <2>2 DEF Targets, IsMove
    <3>2. RoomFor(o, v, project)
      BY <2>2, <3>1 DEF Landings
    <3>3. ASSUME NEW u \in Objects \ {o}
          PROVE  project'[<<"position", u>>] = project[<<"position", u>>]
      <4>1. <<"position", u>> \in Targets /\ <<"position", u>> # <<"position", o>>
        BY <3>3, PositionIsTarget
      <4>2. QED
        BY <1>3, <3>1, <4>1
    <3>4. project'[<<"position", o>>] = v
      BY <1>3, <3>1
    <3>5. QED
      BY <2>1, <3>2, <3>3, <3>4, LandingKeepsApart
  <2>3. CASE ~IsMove(Step)
    <3>1. ASSUME NEW u \in Objects
          PROVE  project'[<<"position", u>>] = project[<<"position", u>>]
      <4>1. <<"position", u>> \in Targets /\ <<"position", u>> # Step.target
        BY <2>3, PositionIsTarget DEF IsMove
      <4>2. QED
        BY <1>3, <4>1
    <3>2. QED
      BY <2>1, <3>1, SettingKeepsApart
  <2>4. QED
    BY <2>2, <2>3
<1>9. ASSUME NEW n \in 1 .. i + 1
      PROVE  Apart(Back(project', original, TargetsOf(plan, n, i)))
  <2>1. CASE n = i + 1
    <3>1. n \in Int /\ i \in Int /\ i < n
      BY <1>2, <2>1
    <3>2. QED
      BY <1>8, <3>1, NothingBack
  <2>2. CASE n \in 1 .. i
    <3>1. TargetsOf(plan, n, i) = TargetsOf(plan, n, i - 1) \cup {Step.target}
      BY <1>2, <2>2, OneMoreTarget
    <3>2. Back(project', original, TargetsOf(plan, n, i - 1) \cup {Step.target})
            = Back(project, original, TargetsOf(plan, n, i - 1))
      BY <1>3, <1>7, OneMoreBack
    <3>3. QED
      BY <1>1, <1>2, <2>2, <3>1, <3>2 DEF WayBackApart
  <2>3. n = i + 1 \/ n \in 1 .. i
    BY <1>2
  <2>4. QED
    BY <2>1, <2>2, <2>3
<1>10. WayBackApart'
  <2>1. i' - 1 = i
    BY <1>2, <1>4
  <2>2. \A n \in 1 .. i' : Apart(Back(project', original', TargetsOf(plan', n, i' - 1)))
    BY <1>4, <1>9, <2>1
  <2>3. QED
    BY <1>1, <1>2, <1>4, <2>2 DEF WayBackApart
<1>11. QED
  BY <1>5, <1>6, <1>10 DEF BInv

\* A failing step hands over to the rollback exactly the steps whose change may
\* be in.
LEMMA FailureKeeps ==
  ASSUME BInv, Shape', Applying, NEW changed \in BOOLEAN, StepFails(changed),
         issued => issued',
         \/ UNCHANGED project
         \/ /\ changed /\ issued'
            /\ \E v \in Holds(Step.target) : Put(Step.target, v)
  PROVE  BInv'
<1>1. /\ TypeOK /\ Counters /\ Inverses /\ OnlyIssuedDiffer /\ WayBackApart
  BY DEF BInv, Shape
<1>2. /\ pc = "applying" /\ i \in 1 .. Len(plan) /\ Len(plan) \in Nat
      /\ applied = 0 /\ restored = 0 /\ outcome = "none"
      /\ Step = plan[i] /\ Step.target \in Targets
  BY <1>1, StepInPlan
<1>3. /\ pc' = "rolling" /\ applied' = (IF changed THEN i ELSE i - 1) /\ i' = applied'
      /\ UNCHANGED <<original, plan, restored, outcome>>
  BY DEF StepFails, AppliedSteps
<1>4. \A u \in Targets : u # Step.target \/ ~changed => project'[u] = project[u]
  BY <1>1, <1>2, WriteFits
<1>5. OnlyIssuedDiffer'
  <2>1. ASSUME ~issued' PROVE project' = original'
    BY <1>1, <1>2, <1>3, <2>1 DEF OnlyIssuedDiffer
  <2>2. ASSUME NEW t \in Targets, \A k \in 1 .. applied' : plan[k].target # t
        PROVE  project'[t] = original[t]
    <3>1. Untouched(t, i - 1) /\ (t # Step.target \/ ~changed)
      BY <1>2, <1>3, <2>2 DEF Untouched
    <3>2. QED
      BY <1>1, <1>2, <1>4, <3>1 DEF OnlyIssuedDiffer
  <2>3. QED
    BY <1>3, <2>1, <2>2 DEF OnlyIssuedDiffer, Untouched
<1>6. InversesHold' /\ CompleteMeansRestored'
  BY <1>2, <1>3 DEF InversesHold, CompleteMeansRestored
<1>7. ASSUME NEW n \in 1 .. applied'
      PROVE  Apart(Back(project', original, TargetsOf(plan, n, applied')))
  <2>1. CASE ~changed
    <3>1. applied' = i - 1 /\ n \in 1 .. i /\ project' = project
      BY <1>2, <1>3, <1>7, <2>1
    <3>2. QED
      BY <1>1, <1>2, <3>1 DEF WayBackApart
  <2>2. CASE changed
    <3>1. applied' = i /\ n \in 1 .. i
      BY <1>2, <1>3, <1>7, <2>2
    <3>2. TargetsOf(plan, n, i) = TargetsOf(plan, n, i - 1) \cup {Step.target}
      BY <1>2, <3>1, OneMoreTarget
    <3>3. project[Step.target] = original[Step.target]
      <4>1. \A k \in 1 .. i - 1 : k \in 1 .. Len(plan) /\ k # i
        BY <1>2
      <4>2. Untouched(Step.target, i - 1)
        BY <1>1, <1>2, <4>1, OtherTarget DEF Untouched, TypeOK
      <4>3. QED
        BY <1>1, <1>2, <4>2 DEF OnlyIssuedDiffer
    <3>4. \A u \in Targets : u # Step.target => project'[u] = project[u]
      BY <1>4
    <3>5. Back(project', original, TargetsOf(plan, n, i - 1) \cup {Step.target})
            = Back(project, original, TargetsOf(plan, n, i - 1))
      BY <3>3, <3>4 DEF Back
    <3>6. Apart(Back(project, original, TargetsOf(plan, n, i - 1)))
      BY <1>1, <1>2, <3>1 DEF WayBackApart
    <3>7. QED
      BY <3>1, <3>2, <3>5, <3>6
  <2>3. QED
    BY <2>1, <2>2
<1>8. WayBackApart'
  BY <1>1, <1>3, <1>7 DEF WayBackApart
<1>9. QED
  BY <1>5, <1>6, <1>8 DEF BInv

\* One inverse: it restores its target and is counted, or it is not counted.
LEMMA InverseKeeps ==
  ASSUME BInv, Shape', Rolling, i' = i - 1, issued => issued',
         UNCHANGED <<original, plan, pc, applied, outcome>>,
         \/ /\ Put(InverseStep.target, InverseStep.origin)
            /\ restored' = restored + 1 /\ issued'
         \/ /\ restored' = restored
            /\ \/ UNCHANGED project
               \/ issued' /\ \E v \in Holds(InverseStep.target) : Put(InverseStep.target, v)
  PROVE  BInv'
<1>1. /\ TypeOK /\ Counters /\ Inverses /\ OnlyIssuedDiffer /\ InversesHold /\ WayBackApart
  BY DEF BInv, Shape
<1>2. /\ pc = "rolling" /\ i \in 1 .. applied /\ restored \in 0 .. applied - i
      /\ applied \in 0 .. Len(plan) /\ Len(plan) \in Nat /\ i \in 1 .. Len(plan)
      /\ outcome = "none"
  BY <1>1, InverseInPlan
<1>3. /\ InverseStep = plan[i] /\ InverseStep.target \in Targets
      /\ InverseStep.origin \in Holds(InverseStep.target)
      /\ InverseStep.origin = original[InverseStep.target]
  BY <1>1, InverseInPlan
<1>4. \A u \in Targets : u # InverseStep.target => project'[u] = project[u]
  BY <1>1, <1>3, WriteFits
<1>5. OnlyIssuedDiffer'
  <2>1. ASSUME ~issued' PROVE project' = original
    BY <1>1, <1>2, <2>1 DEF OnlyIssuedDiffer
  <2>2. ASSUME NEW t \in Targets, Untouched(t, applied) PROVE project'[t] = original[t]
    <3>1. t # InverseStep.target
      BY <1>2, <1>3, <2>2 DEF Untouched
    <3>2. QED
      BY <1>1, <1>2, <1>4, <2>2, <3>1 DEF OnlyIssuedDiffer
  <2>3. QED
    BY <1>2, <2>1, <2>2 DEF OnlyIssuedDiffer, Untouched
<1>6. InversesHold'
  <2>1. SUFFICES ASSUME restored' = applied - i', NEW k \in i .. applied
                 PROVE  project'[plan[k].target] = original[plan[k].target]
    BY <1>2 DEF InversesHold
  <2>2. /\ restored = applied - i
        /\ Put(InverseStep.target, InverseStep.origin)
    BY <1>2, <2>1
  <2>3. CASE k = i
    BY <1>1, <1>3, <2>2, <2>3, PutFits DEF TypeOK
  <2>4. CASE k # i
    <3>1. k \in i + 1 .. applied /\ k \in 1 .. Len(plan)
      BY <1>2, <2>4
    <3>2. plan[k].target # plan[i].target /\ plan[k].target \in Targets
      BY <1>1, <1>2, <2>4, <3>1, OtherTarget, StepFits DEF TypeOK
    <3>3. project[plan[k].target] = original[plan[k].target]
      BY <1>1, <1>2, <2>2, <3>1 DEF InversesHold
    <3>4. QED
      BY <1>3, <1>4, <3>2, <3>3
  <2>5. QED
    BY <2>3, <2>4
<1>7. WayBackApart'
  <2>1. ASSUME NEW n \in 1 .. i'
        PROVE  Apart(Back(project', original, TargetsOf(plan, n, applied)))
    <3>1. n \in 1 .. i /\ i \in n .. applied
      BY <1>2, <2>1
    <3>2. InverseStep.target \in TargetsOf(plan, n, applied)
      BY <1>3, <3>1 DEF TargetsOf
    <3>3. Back(project', original, TargetsOf(plan, n, applied))
            = Back(project, original, TargetsOf(plan, n, applied))
      BY <1>4, <3>2, UnseenWrite
    <3>4. QED
      BY <1>1, <1>2, <3>1, <3>3 DEF WayBackApart
  <2>2. QED
    BY <1>1, <1>2, <2>1 DEF WayBackApart
<1>8. CompleteMeansRestored'
  BY <1>2 DEF CompleteMeansRestored
<1>9. QED
  BY <1>5, <1>6, <1>7, <1>8 DEF BInv
\* Once every inverse was tried and counted, the project is the original one.
LEMMA AllRestored ==
  ASSUME BInv, pc = "rolling", i = 0, restored = applied
  PROVE  project = original
<1>1. /\ TypeOK /\ OnlyIssuedDiffer /\ InversesHold
  BY DEF BInv, Shape
<1>2. applied \in Nat /\ project \in [Targets -> Slots \cup Values]
      /\ original \in [Targets -> Slots \cup Values]
  BY <1>1 DEF TypeOK, Projects
<1>3. ASSUME NEW t \in Targets PROVE project[t] = original[t]
  <2>1. CASE Untouched(t, applied)
    BY <1>1, <2>1 DEF OnlyIssuedDiffer
  <2>2. CASE \E k \in 1 .. applied : plan[k].target = t
    BY <1>1, <1>2, <2>2 DEF InversesHold
  <2>3. QED
    BY <2>1, <2>2 DEF Untouched
<1>4. QED
  BY <1>2, <1>3

LEMMA BatchStep ==
  ASSUME ~FailedCallApplies, BInv, [Next]_vars
  PROVE  BInv'
<1>1. /\ TypeOK /\ Counters /\ Inverses /\ OnlyIssuedDiffer /\ InversesHold
      /\ WayBackApart /\ CompleteMeansRestored /\ Shape
  BY DEF BInv, Shape
<1>2. Shape' /\ TRUE \in BOOLEAN /\ FALSE \in BOOLEAN
  BY <1>1, ShapeStep
<1>3. CASE Plan
  <2>1. /\ pc = "planning" /\ pc' = "applying" /\ i = 1 /\ project = original
        /\ outcome = "none"
        /\ UNCHANGED <<project, original, i, applied, restored, issued, outcome>>
    BY <1>1, <1>3 DEF Plan, Counters, Inverses
  <2>2. OnlyIssuedDiffer' /\ InversesHold' /\ CompleteMeansRestored'
    BY <2>1 DEF OnlyIssuedDiffer, InversesHold, CompleteMeansRestored
  <2>3. ASSUME NEW n \in 1 .. i'
        PROVE  Apart(Back(project', original', TargetsOf(plan', n, i' - 1)))
    BY <1>1, <2>1, NothingBack DEF WayBackApart
  <2>4. WayBackApart'
    BY <1>1, <2>1, <2>3 DEF WayBackApart
  <2>5. QED
    BY <1>2, <2>2, <2>4 DEF BInv
<1>4. CASE MoveApplied
  <2>1. Applying /\ IsMove(Step) /\ StepDone
    BY <1>4 DEF MoveApplied
  <2>2. PICK slot \in Landings(Step.target[2], project) : Put(Step.target, slot)
    BY <1>4 DEF MoveApplied
  <2>3. slot \in Holds(Step.target)
    BY <2>1, MoveHoldsSlot DEF Landings
  <2>4. QED
    BY <1>2, <2>1, <2>2, <2>3, ForwardStepKeeps
<1>5. CASE SetVerified
  <2>1. Applying /\ ~IsMove(Step) /\ StepDone /\ Put(Step.target, Step.goal)
    BY <1>5 DEF SetVerified
  <2>2. Step.goal \in Holds(Step.target)
    BY <1>1, <2>1, StepInPlan
  <2>3. QED
    BY <1>2, <2>1, <2>2, ForwardStepKeeps
<1>6. CASE StepRefused
  BY <1>2, <1>6, FailureKeeps DEF StepRefused
<1>7. CASE CallFails
  BY <1>2, <1>7, FailureKeeps DEF CallFails
<1>8. CASE SetUnverified
  <2>1. Applying /\ StepFails(TRUE) /\ issued'
    BY <1>8 DEF SetUnverified
  <2>2. \E v \in Holds(Step.target) : Put(Step.target, v)
    BY <1>8, ItemHoldsValue DEF SetUnverified
  <2>3. QED
    BY <1>2, <2>1, <2>2, FailureKeeps
<1>9. CASE InverseRestores
  BY <1>2, <1>9, InverseKeeps DEF InverseRestores
<1>10. CASE InverseFails
  <2>1. /\ Rolling /\ i' = i - 1 /\ restored' = restored
        /\ UNCHANGED <<original, plan, pc, applied, outcome>>
    BY <1>10 DEF InverseFails
  <2>2. CASE UNCHANGED <<project, issued>>
    BY <1>2, <2>1, <2>2, InverseKeeps
  <2>3. CASE issued' = TRUE /\ \E v \in Holds(InverseStep.target) :
                                Put(InverseStep.target, v)
    BY <1>2, <2>1, <2>3, InverseKeeps
  <2>4. QED
    BY <1>10, <2>2, <2>3, MoveHoldsSlot, ItemHoldsValue DEF InverseFails, Landings
<1>11. ASSUME NEW o, Answer(o), UNCHANGED <<project, i, issued>>,
              o \in {"complete", "notAttempted"} => project = original
       PROVE  BInv'
  <2>1. /\ pc' = "end" /\ outcome' = o
        /\ UNCHANGED <<project, original, plan, i, applied, restored, issued>>
    BY <1>11 DEF Answer
  <2>2. OnlyIssuedDiffer' /\ InversesHold' /\ WayBackApart'
    BY <1>1, <2>1 DEF OnlyIssuedDiffer, InversesHold, WayBackApart
  <2>3. CompleteMeansRestored'
    BY <1>11, <2>1 DEF CompleteMeansRestored
  <2>4. QED
    BY <1>2, <2>2, <2>3 DEF BInv
<1>12. CASE PlanFails
  BY <1>1, <1>11, <1>12 DEF PlanFails, Inverses
<1>13. CASE Summarize
  BY <1>11, <1>13 DEF Summarize
<1>14. CASE RolledBack
  BY <1>11, <1>14, AllRestored DEF RolledBack
<1>15. CASE Panic
  BY <1>1, <1>11, <1>15 DEF Panic, OnlyIssuedDiffer
<1>16. CASE UNCHANGED vars
  BY <1>1, <1>2, <1>16 DEF vars, BInv, OnlyIssuedDiffer, Untouched, InversesHold,
     WayBackApart, CompleteMeansRestored
<1>17. QED
  BY <1>3, <1>4, <1>5, <1>6, <1>7, <1>8, <1>9, <1>10, <1>12, <1>13, <1>14, <1>15,
     <1>16 DEF Next

\* The invariant and what it contains, when a failed call changes nothing.
LEMMA BatchInvariance == ~FailedCallApplies => (Spec => []BInv)
<1>1. ASSUME ~FailedCallApplies PROVE Spec => []BInv
  <2>1. BInv /\ [Next]_vars => BInv'
    BY <1>1, BatchStep
  <2>2. QED
    BY <2>1, BatchInit, PTL DEF Spec
<1>2. QED
  BY <1>1

\* Every phase of a batch stays in its type.
THEOREM BatchTypeCorrect == Spec => []TypeOK
<1>1. Shape => TypeOK
  BY DEF Shape
<1>2. QED
  BY <1>1, ShapeInvariance, PTL

\* A batch that succeeds left every setting as it was asked, even when a failed
\* call may have acted: no two steps write the same target.
THEOREM DoneIsAsked == Spec => []DoneMeansAsked
<1>1. Shape => DoneMeansAsked
  BY DEF Shape
<1>2. QED
  BY <1>1, ShapeInvariance, PTL

\* While every inverse so far succeeded, the project with the failing step's
\* target aside is the one the step was issued in, and there its object fitted.
LEMMA RoomOnTheWayBack == ASSUME BInv PROVE InverseFindsRoom
<1>1. /\ TypeOK /\ Counters /\ Inverses /\ InversesHold /\ WayBackApart
  BY DEF BInv, Shape
<1>2. SUFFICES ASSUME Rolling, restored = applied - i, IsMove(InverseStep)
               PROVE  RoomFor(InverseStep.target[2], InverseStep.origin, project)
  BY DEF InverseFindsRoom
<1>3. /\ pc = "rolling" /\ i \in 1 .. applied /\ applied \in 0 .. Len(plan)
      /\ Len(plan) \in Nat /\ InverseStep = plan[i] /\ InverseStep.target \in Targets
      /\ InverseStep.origin = original[InverseStep.target]
  BY <1>1, <1>2, InverseInPlan
<1>4. PICK o \in Objects : InverseStep.target = <<"position", o>>
  BY <1>2, <1>3 DEF Targets, IsMove
<1>5. DEFINE S == TargetsOf(plan, i, applied)
             b == Back(project, original, S)
<1>6. Apart(b)
  BY <1>1, <1>3 DEF WayBackApart
<1>7. b[<<"position", o>>] = InverseStep.origin
  <2>1. i \in i .. applied
    BY <1>3
  <2>2. <<"position", o>> \in S
    BY <1>3, <1>4, <2>1 DEF TargetsOf
  <2>3. QED
    BY <1>3, <1>4, <2>2 DEF Back
<1>8. ASSUME NEW q \in Objects \ {o}
      PROVE  b[<<"position", q>>] = project[<<"position", q>>]
  <2>1. <<"position", q>> \in Targets /\ <<"position", q>> # plan[i].target
    BY <1>3, <1>4, <1>8, PositionIsTarget
  <2>2. CASE <<"position", q>> \in S
    <3>1. PICK k \in i .. applied : plan[k].target = <<"position", q>>
      BY <2>2 DEF TargetsOf
    <3>2. k \in i + 1 .. applied
      BY <1>3, <2>1, <3>1
    <3>3. project[plan[k].target] = original[plan[k].target]
      BY <1>1, <1>2, <1>3, <3>2 DEF InversesHold
    <3>4. QED
      BY <2>1, <2>2, <3>1, <3>3 DEF Back
  <2>3. CASE <<"position", q>> \notin S
    BY <2>1, <2>3 DEF Back
  <2>4. QED
    BY <2>2, <2>3
<1>9. RoomFor(o, b[<<"position", o>>], b)
  BY <1>6 DEF Apart
<1>10. RoomFor(o, InverseStep.origin, project)
  <2> HIDE DEF b
  <2>1. SUFFICES ASSUME NEW q \in Objects \ {o}
                 PROVE  ~Overlap(o, InverseStep.origin, q, project[<<"position", q>>])
    BY DEF RoomFor
  <2>2. ~Overlap(o, b[<<"position", o>>], q, b[<<"position", q>>])
    BY <1>9 DEF RoomFor
  <2>3. QED
    BY <1>7, <1>8, <2>2
<1>11. QED
  BY <1>4, <1>10

\* Reverse order keeps the way back free: until an inverse fails, the next one
\* finds the origin of its object empty, wherever the host had put the others.
THEOREM InverseHasRoom == ~FailedCallApplies => (Spec => []InverseFindsRoom)
<1>1. BInv => InverseFindsRoom
  BY RoomOnTheWayBack
<1>2. ASSUME ~FailedCallApplies PROVE Spec => []InverseFindsRoom
  BY <1>1, <1>2, BatchInvariance, PTL
<1>3. QED
  BY <1>2

\* A batch that answers "complete" or "notAttempted" left the project as it was.
THEOREM RestoredWhenComplete == ~FailedCallApplies => (Spec => []CompleteMeansRestored)
<1>1. BInv => CompleteMeansRestored
  BY DEF BInv
<1>2. ASSUME ~FailedCallApplies PROVE Spec => []CompleteMeansRestored
  BY <1>1, <1>2, BatchInvariance, PTL
<1>3. QED
  BY <1>2

\* A step that does not answer is not seen from outside.
LEMMA SilentOutside ==
  ASSUME pc # "end", pc' # "end", UNCHANGED <<original, outcome>>
  PROVE  UNCHANGED Promise!vars
BY DEF Promise!vars

\* The answering step is one of the steps the promise allows.
LEMMA AnswerOutside ==
  ASSUME BInv, BInv', pc # "end", UNCHANGED <<project, i, issued>>,
         NEW o \in {"done", "notAttempted", "complete", "incomplete",
                    "impossible", "unread"},
         Answer(o)
  PROVE  Promise!Next
<1>1. outcome = "none" /\ outcome' = o /\ pc' = "end" /\ UNCHANGED original
  BY DEF BInv, Shape, Counters, Answer
<1>2. project' \in Projects /\ original \in Projects
  BY DEF BInv, Shape, TypeOK
<1>3. CASE o = "done"
  BY <1>1, <1>2, <1>3 DEF Promise!Next, Promise!Apply
<1>4. CASE o \in {"incomplete", "impossible", "unread"}
  BY <1>1, <1>2, <1>4 DEF Promise!Next, Promise!Admit, Promise!Told
<1>5. CASE o \in {"notAttempted", "complete"}
  <2>1. project' = original
    BY <1>1, <1>5 DEF BInv, CompleteMeansRestored
  <2>2. QED
    BY <1>1, <1>5, <2>1 DEF Promise!Next, Promise!Refuse, Promise!Unchanged
<1>6. QED
  BY <1>3, <1>4, <1>5

\* Every step of a batch is a step of its promise, or is not seen.
LEMMA StepOutside ==
  ASSUME BInv, BInv', [Next]_vars
  PROVE  [Promise!Next]_(Promise!vars)
<1>1. CASE Plan \/ MoveApplied \/ StepRefused \/ CallFails \/ SetVerified
        \/ SetUnverified \/ InverseRestores \/ InverseFails
  <2>1. pc # "end" /\ pc' # "end" /\ UNCHANGED <<original, outcome>>
    BY <1>1 DEF Plan, MoveApplied, StepRefused, CallFails, SetVerified, SetUnverified,
       InverseRestores, InverseFails, Applying, Rolling, StepDone, StepFails
  <2>2. QED
    BY <2>1, SilentOutside
<1>2. CASE PlanFails
  BY <1>2, AnswerOutside DEF PlanFails
<1>3. CASE Summarize
  BY <1>3, AnswerOutside DEF Summarize
<1>4. CASE RolledBack
  BY <1>4, AnswerOutside DEF RolledBack
<1>5. CASE Panic
  BY <1>5, AnswerOutside DEF Panic
<1>6. CASE UNCHANGED vars
  BY <1>6 DEF vars, Promise!vars
<1>7. QED
  BY <1>1, <1>2, <1>3, <1>4, <1>5, <1>6 DEF Next

\* The batch implements its promise: a client sees it applied, refused with the
\* project as it was, or an answer that admits the project may have changed.
THEOREM BatchKeepsPromise == ~FailedCallApplies => (Spec => KeepsPromise)
<1>1. Init => Promise!Init
  BY DEF Init, Layouts, Promise!Init
<1>2. BInv /\ BInv' /\ [Next]_vars => [Promise!Next]_(Promise!vars)
  BY StepOutside
<1>3. ASSUME ~FailedCallApplies PROVE Spec => KeepsPromise
  BY <1>1, <1>2, <1>3, BatchInvariance, PTL DEF Spec, KeepsPromise, Promise!Spec
<1>4. QED
  BY <1>3
=============================================================================
