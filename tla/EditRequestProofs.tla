-------------------------- MODULE EditRequestProofs --------------------------
(***************************************************************************)
(* Proofs about EditRequest, for every number of loads, projects, events   *)
(* and mutation calls.                                                     *)
(***************************************************************************)
EXTENDS EditRequest, TLAPS

\* Every variable keeps its type.
LEMMA TypeInit == Init => TypeOK
<1> SUFFICES ASSUME Init PROVE TypeOK
  OBVIOUS
<1>1. content \in Fingerprints
  BY DEF Init
<1>2. view \in Views /\ sel \in Views /\ reply \in Views
  BY <1>1 DEF Init, Views
<1>3. /\ modified \in BOOLEAN /\ unsaved \in BOOLEAN
      /\ resetSince \in BOOLEAN /\ failed \in BOOLEAN
  BY DEF Init
<1>4. /\ epoch \in Nat /\ revision \in Nat /\ world \in Nat /\ epochWorld \in Nat
      /\ events \in Nat /\ before \in Nat /\ issued \in Nat /\ issues \in Nat
      /\ advances \in Nat /\ reported \in Nat /\ observed \in Reports
  BY DEF Init, Reports
<1>5. /\ main = "idle" /\ evt = "idle" /\ pc = "idle"
      /\ kind \in Kinds /\ outcome \in Outcomes
  BY DEF Init, Kinds, Outcomes
<1>6. QED
  BY <1>1, <1>2, <1>3, <1>4, <1>5 DEF TypeOK

LEMMA TypeStep == TypeOK /\ [Next]_vars => TypeOK'
<1> SUFFICES ASSUME TypeOK, [Next]_vars PROVE TypeOK'
  OBVIOUS
<1> USE DEF TypeOK, Views, Reports, Outcomes, Kinds, accept, projectVars, hostVars,
            threadVars, requestVars, permitVars, replyVars, clientVars, history
<1>1. UNCHANGED vars \/ Next
  OBVIOUS
<1>2. CASE UserEdit
  BY <1>2 DEF UserEdit
<1>3. CASE NewProject
  <2>1. world' \in Nat /\ content' \in Fingerprints
    BY <1>3 DEF NewProject
  <2>2. unsaved' \in BOOLEAN
    BY <1>3 DEF NewProject
  <2>3. UNCHANGED <<projectVars, epochWorld, threadVars, accept, history>>
    BY <1>3 DEF NewProject
  <2>4. QED
    BY <2>1, <2>2, <2>3
<1>4. CASE OpenProject
  <2>1. world' \in Nat /\ content' \in Fingerprints /\ main' = "opened"
    BY <1>4 DEF OpenProject
  <2>2. unsaved' \in BOOLEAN
    BY <1>4 DEF OpenProject
  <2>3. UNCHANGED <<projectVars, epochWorld, events, evt, accept, history>>
    BY <1>4 DEF OpenProject
  <2>4. QED
    BY <2>1, <2>2, <2>3
<1>5. CASE LoadRenewsEpoch
  BY <1>5 DEF LoadRenewsEpoch, NewEpoch
<1>6. CASE LoadResetsRevision
  BY <1>6 DEF LoadResetsRevision
<1>7. CASE LoadClearsModified
  <2>1. modified' \in BOOLEAN
    BY <1>7, Zenon DEF LoadClearsModified
  <2>2. main' = "idle" /\ UNCHANGED <<epoch, revision, hostVars, events, evt, accept, history>>
    BY <1>7, Zenon DEF LoadClearsModified
  <2>3. QED
    BY <2>1, <2>2
<1>8. CASE SaveProject
  BY <1>8 DEF SaveProject
<1>9. CASE EventAddsRevision
  BY <1>9 DEF EventAddsRevision, UpdateWaits
<1>10. CASE EventSetsModified
  BY <1>10 DEF EventSetsModified
<1>11. CASE ReportEpoch
  BY <1>11 DEF ReportEpoch
<1>12. CASE ReportRevision
  BY <1>12 DEF ReportRevision
<1>13. CASE ObjectReadStart
  BY <1>13 DEF ObjectReadStart
<1>14. CASE ObjectReadSection
  BY <1>14 DEF ObjectReadSection
<1>15. CASE EditArrives
  BY <1>15 DEF EditArrives
<1>16. CASE ReadBefore
  <2>1. resetSince' \in BOOLEAN
    BY <1>16, Zenon DEF ReadBefore
  <2>2. before' \in Nat /\ pc' = "entering"
    BY <1>16 DEF ReadBefore
  <2>3. QED
    BY <1>16, <2>1, <2>2 DEF ReadBefore
<1>17. CASE NotEntered
  BY <1>17 DEF NotEntered
<1>18. CASE EnterSection
  BY <1>18 DEF EnterSection
<1>19. CASE VerifyBoundary
  BY <1>19 DEF VerifyBoundary, LeaveSection, BoundaryHolds
<1>20. CASE IssueMutation
  <2>1. revision' \in Nat /\ issued' \in Nat /\ advances' \in Nat
    BY <1>20 DEF IssueMutation, RecordIssue, FirstIssue, OnEditIssued
  <2>2. issues' \in Nat
    BY <1>20 DEF IssueMutation
  <2>3. modified' \in BOOLEAN /\ failed' \in BOOLEAN /\ unsaved' \in BOOLEAN
    BY <1>20, Zenon DEF IssueMutation, RecordIssue, FirstIssue, OnEditIssued
  <2>4. content' \in Fingerprints /\ events' \in Nat
    BY <1>20 DEF IssueMutation
  <2>5. UNCHANGED <<epoch, world, epochWorld, main, evt, pc, requestVars,
                    observed, replyVars, clientVars, history>>
    BY <1>20 DEF IssueMutation
  <2>6. QED
    BY <2>1, <2>2, <2>3, <2>4, <2>5
<1>21. CASE IssueUnsent
  BY <1>21 DEF IssueUnsent
<1>22. CASE Succeed
  BY <1>22 DEF Succeed, LeaveSection
<1>23. CASE Fail
  BY <1>23 DEF Fail, LeaveSection
<1>24. CASE PanicInSection
  BY <1>24 DEF PanicInSection, LeaveSection
<1>25. CASE Respond
  BY <1>25 DEF Respond, SectionReturned, LostIssue
<1>26. CASE CallPanicsAfterSection
  BY <1>26 DEF CallPanicsAfterSection
<1>27. CASE ClientReceives
  BY <1>27 DEF ClientReceives
<1>28. CASE UNCHANGED vars
  BY <1>28 DEF vars
<1>29. QED
  BY <1>1, <1>2, <1>3, <1>4, <1>5, <1>6, <1>7, <1>8, <1>9, <1>10, <1>11, <1>12, <1>13, <1>14, <1>15, <1>16, <1>17, <1>18, <1>19, <1>20, <1>21, <1>22, <1>23, <1>24, <1>25, <1>26, <1>27, <1>28 DEF Next, MainStep, EventStep, AcceptStep

\* Every reachable state is well typed.
THEOREM TypeCorrect == Spec => []TypeOK
<1>1. Init => TypeOK
  BY TypeInit
<1>2. TypeOK /\ [Next]_vars => TypeOK'
  BY TypeStep
<1>3. QED
  BY <1>1, <1>2, PTL DEF Spec

-----------------------------------------------------------------------------
(* The inductive invariant behind the safety properties.                   *)

\* The callback runs exactly while the main thread is lent to the section.
SectionOwnsMain == (main = "section") <=> (pc \in {"verifying", "issuing"})

\* Before the first mutation call nothing of the permit is used.
PermitUnused ==
  pc \in {"idle", "report", "object", "arrived", "entering", "verifying"} =>
    issued = 0 /\ advances = 0 /\ issues = 0 /\ ~failed /\ outcome = "none"

\* The permit and the revision agree: an advance is recorded, once, and only
\* for content.
PermitCounts ==
  /\ advances = IF issued = 0 THEN 0 ELSE 1
  /\ issued # 0 => kind # "selection"
  /\ pc = "issuing" /\ issued # 0 => issued <= revision /\ modified
  /\ (pc = "issuing" /\ issues > 0 /\ ~failed) \/ outcome = "done" =>
       kind = "selection" \/ issued # 0

\* Until a load resets it, the revision stays above `before' by the advance.
BeforeIsBelow ==
  pc \in {"entering", "verifying", "issuing", "left"} /\ ~resetSince =>
    before + advances <= revision

\* What the section returned says whether something was issued.
SectionTells ==
  /\ pc = "issuing" => outcome = "none"
  /\ pc = "left" => outcome # "none"
  /\ pc = "left" /\ outcome = "failed" => issued = 0

\* Nothing unsaved while a load is under way, and never without the flag.
UnsavedIsFlagged ==
  /\ unsaved => modified
  /\ main \in {"opened", "renewed", "reset"} => ~unsaved

\* What is held under the current epoch was read from the project it names,
\* at a revision that is not ahead.
Fresh(v) ==
  /\ v.epoch <= epoch
  /\ v.epoch = epoch =>
       main # "renewed" /\ epochWorld <= v.world /\ v.rev <= revision

ClientIsFresh ==
  /\ epochWorld <= world
  /\ Fresh(view)
  /\ pc = "object" => sel.epoch <= epoch
  /\ pc # "object" /\ kind = "selector" => Fresh(sel)
  /\ outcome = "done" => Fresh(reply)

\* What verification established still holds while calls are made.
Verified ==
  /\ pc = "issuing" =>
       observed.epoch = epoch /\ sel.epoch = epoch /\ observed.rev <= revision
  /\ pc = "issuing" /\ issues = 0 /\ kind = "selector" => sel.print = content
  /\ pc = "issuing" /\ kind = "selector" /\ issued # 0 => sel.rev < issued
  /\ outcome = "done" /\ kind = "selector" => sel.rev < reply.rev

IInv ==
  /\ TypeOK /\ SectionOwnsMain /\ PermitUnused /\ PermitCounts /\ BeforeIsBelow
  /\ SectionTells /\ UnsavedIsFlagged /\ ClientIsFresh /\ Verified
-----------------------------------------------------------------------------
(* One lemma per part of the invariant.                                    *)

\* The main thread and the accept thread hand the section over together.
LEMMA OwnsMainStep == IInv /\ [Next]_vars => SectionOwnsMain'
<1> SUFFICES ASSUME IInv, [Next]_vars PROVE SectionOwnsMain'
  OBVIOUS
<1> USE DEF accept, projectVars, hostVars, threadVars, requestVars, permitVars,
            replyVars, clientVars, history
<1> USE DEF SectionOwnsMain
<1>1. SectionOwnsMain /\ TypeOK
  BY DEF IInv
<1>2. CASE MainStep
  BY <1>1, <1>2 DEF MainStep, UserEdit, NewProject, OpenProject,
        LoadRenewsEpoch, NewEpoch, LoadResetsRevision, LoadClearsModified,
        SaveProject, TypeOK
<1>3. CASE EventStep
  BY <1>1, <1>3 DEF EventStep, EventAddsRevision, UpdateWaits,
        EventSetsModified, TypeOK
<1>4. CASE ReportEpoch
  BY <1>1, <1>4 DEF ReportEpoch, TypeOK
<1>5. CASE ReportRevision
  BY <1>1, <1>5 DEF ReportRevision, TypeOK
<1>6. CASE ObjectReadStart
  BY <1>1, <1>6 DEF ObjectReadStart, TypeOK
<1>7. CASE ObjectReadSection
  BY <1>1, <1>7 DEF ObjectReadSection, TypeOK
<1>8. CASE EditArrives
  BY <1>1, <1>8 DEF EditArrives, TypeOK
<1>9. CASE ReadBefore
  BY <1>1, <1>9 DEF ReadBefore, TypeOK
<1>10. CASE NotEntered
  BY <1>1, <1>10 DEF NotEntered, TypeOK
<1>11. CASE EnterSection
  BY <1>1, <1>11 DEF EnterSection, TypeOK
<1>12. CASE VerifyBoundary
  BY <1>1, <1>12 DEF VerifyBoundary, LeaveSection, BoundaryHolds, TypeOK
<1>13. CASE IssueMutation
  BY <1>1, <1>13 DEF IssueMutation, RecordIssue, FirstIssue, OnEditIssued, TypeOK
<1>14. CASE IssueUnsent
  BY <1>1, <1>14 DEF IssueUnsent, TypeOK
<1>15. CASE Succeed
  BY <1>1, <1>15 DEF Succeed, LeaveSection, TypeOK
<1>16. CASE Fail
  BY <1>1, <1>16 DEF Fail, LeaveSection, TypeOK
<1>17. CASE PanicInSection
  BY <1>1, <1>17 DEF PanicInSection, LeaveSection, TypeOK
<1>18. CASE Respond
  BY <1>1, <1>18 DEF Respond, SectionReturned, LostIssue, TypeOK
<1>19. CASE CallPanicsAfterSection
  BY <1>1, <1>19 DEF CallPanicsAfterSection, TypeOK
<1>20. CASE ClientReceives
  BY <1>1, <1>20 DEF ClientReceives, TypeOK
<1>21. CASE UNCHANGED vars
  BY <1>1, <1>21 DEF vars, TypeOK
<1>22. QED
  BY <1>2, <1>3, <1>4, <1>5, <1>6, <1>7, <1>8, <1>9, <1>10, <1>11, <1>12,
        <1>13, <1>14, <1>15, <1>16, <1>17, <1>18, <1>19, <1>20, <1>21 DEF
        Next, AcceptStep

\* Only mutation calls use the permit, and the next request starts afresh.
LEMMA UnusedStep == IInv /\ [Next]_vars => PermitUnused'
<1> SUFFICES ASSUME IInv, [Next]_vars PROVE PermitUnused'
  OBVIOUS
<1> USE DEF accept, projectVars, hostVars, threadVars, requestVars, permitVars,
            replyVars, clientVars, history
<1> USE DEF PermitUnused
<1>1. PermitUnused /\ TypeOK
  BY DEF IInv
<1>2. CASE MainStep
  BY <1>1, <1>2 DEF MainStep, UserEdit, NewProject, OpenProject,
        LoadRenewsEpoch, NewEpoch, LoadResetsRevision, LoadClearsModified,
        SaveProject, TypeOK
<1>3. CASE EventStep
  BY <1>1, <1>3 DEF EventStep, EventAddsRevision, UpdateWaits,
        EventSetsModified, TypeOK
<1>4. CASE ReportEpoch
  BY <1>1, <1>4 DEF ReportEpoch, TypeOK
<1>5. CASE ReportRevision
  BY <1>1, <1>5 DEF ReportRevision, TypeOK
<1>6. CASE ObjectReadStart
  BY <1>1, <1>6 DEF ObjectReadStart, TypeOK
<1>7. CASE ObjectReadSection
  BY <1>1, <1>7 DEF ObjectReadSection, TypeOK
<1>8. CASE EditArrives
  BY <1>1, <1>8 DEF EditArrives, TypeOK
<1>9. CASE ReadBefore
  BY <1>1, <1>9 DEF ReadBefore, TypeOK
<1>10. CASE NotEntered
  BY <1>1, <1>10 DEF NotEntered, TypeOK
<1>11. CASE EnterSection
  BY <1>1, <1>11 DEF EnterSection, TypeOK
<1>12. CASE VerifyBoundary
  BY <1>1, <1>12 DEF VerifyBoundary, LeaveSection, BoundaryHolds, TypeOK
<1>13. CASE IssueMutation
  BY <1>1, <1>13 DEF IssueMutation, RecordIssue, FirstIssue, OnEditIssued, TypeOK
<1>14. CASE IssueUnsent
  BY <1>1, <1>14 DEF IssueUnsent, TypeOK
<1>15. CASE Succeed
  BY <1>1, <1>15 DEF Succeed, LeaveSection, TypeOK
<1>16. CASE Fail
  BY <1>1, <1>16 DEF Fail, LeaveSection, TypeOK
<1>17. CASE PanicInSection
  BY <1>1, <1>17 DEF PanicInSection, LeaveSection, TypeOK
<1>18. CASE Respond
  BY <1>1, <1>18 DEF Respond, SectionReturned, LostIssue, TypeOK
<1>19. CASE CallPanicsAfterSection
  BY <1>1, <1>19 DEF CallPanicsAfterSection, TypeOK
<1>20. CASE ClientReceives
  BY <1>1, <1>20 DEF ClientReceives, TypeOK
<1>21. CASE UNCHANGED vars
  BY <1>1, <1>21 DEF vars, TypeOK
<1>22. QED
  BY <1>2, <1>3, <1>4, <1>5, <1>6, <1>7, <1>8, <1>9, <1>10, <1>11, <1>12,
        <1>13, <1>14, <1>15, <1>16, <1>17, <1>18, <1>19, <1>20, <1>21 DEF
        Next, AcceptStep

\* record_issue counts the first call that reached the SDK and no other.
LEMMA CountsStep == IInv /\ [Next]_vars => PermitCounts'
<1> SUFFICES ASSUME IInv, [Next]_vars PROVE PermitCounts'
  OBVIOUS
<1> USE DEF accept, projectVars, hostVars, threadVars, requestVars, permitVars,
            replyVars, clientVars, history
<1> USE DEF PermitCounts
<1>1. PermitCounts /\ PermitUnused /\ SectionTells /\ SectionOwnsMain /\ TypeOK
  BY DEF IInv
<1>2. CASE MainStep
  BY <1>1, <1>2 DEF MainStep, UserEdit, NewProject, OpenProject,
        LoadRenewsEpoch, NewEpoch, LoadResetsRevision, LoadClearsModified,
        SaveProject, PermitUnused, SectionTells, SectionOwnsMain, TypeOK,
        Kinds, Reports
<1>3. CASE EventStep
  BY <1>1, <1>3 DEF EventStep, EventAddsRevision, UpdateWaits,
        EventSetsModified, PermitUnused, SectionTells, SectionOwnsMain,
        TypeOK, Kinds, Reports
<1>4. CASE ReportEpoch
  BY <1>1, <1>4 DEF ReportEpoch, PermitUnused, SectionTells,
        SectionOwnsMain, TypeOK, Kinds, Reports
<1>5. CASE ReportRevision
  BY <1>1, <1>5 DEF ReportRevision, PermitUnused, SectionTells,
        SectionOwnsMain, TypeOK, Kinds, Reports
<1>6. CASE ObjectReadStart
  BY <1>1, <1>6 DEF ObjectReadStart, PermitUnused, SectionTells,
        SectionOwnsMain, TypeOK, Kinds, Reports
<1>7. CASE ObjectReadSection
  BY <1>1, <1>7 DEF ObjectReadSection, PermitUnused, SectionTells,
        SectionOwnsMain, TypeOK, Kinds, Reports
<1>8. CASE EditArrives
  BY <1>1, <1>8 DEF EditArrives, PermitUnused, SectionTells,
        SectionOwnsMain, TypeOK, Kinds, Reports
<1>9. CASE ReadBefore
  BY <1>1, <1>9 DEF ReadBefore, PermitUnused, SectionTells, SectionOwnsMain,
        TypeOK, Kinds, Reports
<1>10. CASE NotEntered
  BY <1>1, <1>10 DEF NotEntered, PermitUnused, SectionTells,
        SectionOwnsMain, TypeOK, Kinds, Reports
<1>11. CASE EnterSection
  BY <1>1, <1>11 DEF EnterSection, PermitUnused, SectionTells,
        SectionOwnsMain, TypeOK, Kinds, Reports
<1>12. CASE VerifyBoundary
  BY <1>1, <1>12 DEF VerifyBoundary, LeaveSection, BoundaryHolds,
        PermitUnused, SectionTells, SectionOwnsMain, TypeOK, Kinds, Reports
<1>13. CASE IssueMutation
  BY <1>1, <1>13 DEF IssueMutation, RecordIssue, FirstIssue, OnEditIssued, PermitUnused, SectionTells,
        SectionOwnsMain, TypeOK, Kinds, Reports
<1>14. CASE IssueUnsent
  BY <1>1, <1>14 DEF IssueUnsent, PermitUnused, SectionTells,
        SectionOwnsMain, TypeOK, Kinds, Reports
<1>15. CASE Succeed
  BY <1>1, <1>15 DEF Succeed, LeaveSection, PermitUnused, SectionTells,
        SectionOwnsMain, TypeOK, Kinds, Reports
<1>16. CASE Fail
  BY <1>1, <1>16 DEF Fail, LeaveSection, PermitUnused, SectionTells,
        SectionOwnsMain, TypeOK, Kinds, Reports
<1>17. CASE PanicInSection
  BY <1>1, <1>17 DEF PanicInSection, LeaveSection, PermitUnused,
        SectionTells, SectionOwnsMain, TypeOK, Kinds, Reports
<1>18. CASE Respond
  BY <1>1, <1>18 DEF Respond, SectionReturned, LostIssue, PermitUnused, SectionTells, SectionOwnsMain,
        TypeOK, Kinds, Reports
<1>19. CASE CallPanicsAfterSection
  BY <1>1, <1>19 DEF CallPanicsAfterSection, PermitUnused, SectionTells,
        SectionOwnsMain, TypeOK, Kinds, Reports
<1>20. CASE ClientReceives
  BY <1>1, <1>20 DEF ClientReceives, PermitUnused, SectionTells,
        SectionOwnsMain, TypeOK, Kinds, Reports
<1>21. CASE UNCHANGED vars
  BY <1>1, <1>21 DEF vars, PermitUnused, SectionTells, SectionOwnsMain,
        TypeOK, Kinds, Reports
<1>22. QED
  BY <1>2, <1>3, <1>4, <1>5, <1>6, <1>7, <1>8, <1>9, <1>10, <1>11, <1>12,
        <1>13, <1>14, <1>15, <1>16, <1>17, <1>18, <1>19, <1>20, <1>21 DEF
        Next, AcceptStep

\* Only a load's reset takes the revision back below `before'.
LEMMA BelowStep == IInv /\ [Next]_vars => BeforeIsBelow'
<1> SUFFICES ASSUME IInv, [Next]_vars PROVE BeforeIsBelow'
  OBVIOUS
<1> USE DEF accept, projectVars, hostVars, threadVars, requestVars, permitVars,
            replyVars, clientVars, history
<1> USE DEF BeforeIsBelow
<1>1. BeforeIsBelow /\ PermitUnused /\ PermitCounts /\ SectionOwnsMain /\ TypeOK
  BY DEF IInv
<1>2. CASE MainStep
  BY <1>1, <1>2 DEF MainStep, UserEdit, NewProject, OpenProject,
        LoadRenewsEpoch, NewEpoch, LoadResetsRevision, LoadClearsModified,
        SaveProject, PermitUnused, PermitCounts, SectionOwnsMain, TypeOK
<1>3. CASE EventStep
  BY <1>1, <1>3 DEF EventStep, EventAddsRevision, UpdateWaits,
        EventSetsModified, PermitUnused, PermitCounts, SectionOwnsMain,
        TypeOK
<1>4. CASE ReportEpoch
  BY <1>1, <1>4 DEF ReportEpoch, PermitUnused, PermitCounts,
        SectionOwnsMain, TypeOK
<1>5. CASE ReportRevision
  BY <1>1, <1>5 DEF ReportRevision, PermitUnused, PermitCounts,
        SectionOwnsMain, TypeOK
<1>6. CASE ObjectReadStart
  BY <1>1, <1>6 DEF ObjectReadStart, PermitUnused, PermitCounts,
        SectionOwnsMain, TypeOK
<1>7. CASE ObjectReadSection
  BY <1>1, <1>7 DEF ObjectReadSection, PermitUnused, PermitCounts,
        SectionOwnsMain, TypeOK
<1>8. CASE EditArrives
  BY <1>1, <1>8 DEF EditArrives, PermitUnused, PermitCounts,
        SectionOwnsMain, TypeOK
<1>9. CASE ReadBefore
  BY <1>1, <1>9 DEF ReadBefore, PermitUnused, PermitCounts, SectionOwnsMain,
        TypeOK
<1>10. CASE NotEntered
  BY <1>1, <1>10 DEF NotEntered, PermitUnused, PermitCounts,
        SectionOwnsMain, TypeOK
<1>11. CASE EnterSection
  BY <1>1, <1>11 DEF EnterSection, PermitUnused, PermitCounts,
        SectionOwnsMain, TypeOK
<1>12. CASE VerifyBoundary
  BY <1>1, <1>12 DEF VerifyBoundary, LeaveSection, BoundaryHolds,
        PermitUnused, PermitCounts, SectionOwnsMain, TypeOK
<1>13. CASE IssueMutation
  BY <1>1, <1>13 DEF IssueMutation, RecordIssue, FirstIssue, OnEditIssued, PermitUnused, PermitCounts,
        SectionOwnsMain, TypeOK
<1>14. CASE IssueUnsent
  BY <1>1, <1>14 DEF IssueUnsent, PermitUnused, PermitCounts,
        SectionOwnsMain, TypeOK
<1>15. CASE Succeed
  BY <1>1, <1>15 DEF Succeed, LeaveSection, PermitUnused, PermitCounts,
        SectionOwnsMain, TypeOK
<1>16. CASE Fail
  BY <1>1, <1>16 DEF Fail, LeaveSection, PermitUnused, PermitCounts,
        SectionOwnsMain, TypeOK
<1>17. CASE PanicInSection
  BY <1>1, <1>17 DEF PanicInSection, LeaveSection, PermitUnused,
        PermitCounts, SectionOwnsMain, TypeOK
<1>18. CASE Respond
  BY <1>1, <1>18 DEF Respond, SectionReturned, LostIssue, PermitUnused, PermitCounts, SectionOwnsMain,
        TypeOK
<1>19. CASE CallPanicsAfterSection
  BY <1>1, <1>19 DEF CallPanicsAfterSection, PermitUnused, PermitCounts,
        SectionOwnsMain, TypeOK
<1>20. CASE ClientReceives
  BY <1>1, <1>20 DEF ClientReceives, PermitUnused, PermitCounts,
        SectionOwnsMain, TypeOK
<1>21. CASE UNCHANGED vars
  BY <1>1, <1>21 DEF vars, PermitUnused, PermitCounts, SectionOwnsMain,
        TypeOK
<1>22. QED
  BY <1>2, <1>3, <1>4, <1>5, <1>6, <1>7, <1>8, <1>9, <1>10, <1>11, <1>12,
        <1>13, <1>14, <1>15, <1>16, <1>17, <1>18, <1>19, <1>20, <1>21 DEF
        Next, AcceptStep

\* The error a section returns is wrapped when something was issued.
LEMMA TellsStep == IInv /\ [Next]_vars => SectionTells'
<1> SUFFICES ASSUME IInv, [Next]_vars PROVE SectionTells'
  OBVIOUS
<1> USE DEF accept, projectVars, hostVars, threadVars, requestVars, permitVars,
            replyVars, clientVars, history
<1> USE DEF SectionTells
<1>1. SectionTells /\ PermitUnused /\ TypeOK
  BY DEF IInv
<1>2. CASE MainStep
  BY <1>1, <1>2 DEF MainStep, UserEdit, NewProject, OpenProject,
        LoadRenewsEpoch, NewEpoch, LoadResetsRevision, LoadClearsModified,
        SaveProject, PermitUnused, TypeOK
<1>3. CASE EventStep
  BY <1>1, <1>3 DEF EventStep, EventAddsRevision, UpdateWaits,
        EventSetsModified, PermitUnused, TypeOK
<1>4. CASE ReportEpoch
  BY <1>1, <1>4 DEF ReportEpoch, PermitUnused, TypeOK
<1>5. CASE ReportRevision
  BY <1>1, <1>5 DEF ReportRevision, PermitUnused, TypeOK
<1>6. CASE ObjectReadStart
  BY <1>1, <1>6 DEF ObjectReadStart, PermitUnused, TypeOK
<1>7. CASE ObjectReadSection
  BY <1>1, <1>7 DEF ObjectReadSection, PermitUnused, TypeOK
<1>8. CASE EditArrives
  BY <1>1, <1>8 DEF EditArrives, PermitUnused, TypeOK
<1>9. CASE ReadBefore
  BY <1>1, <1>9 DEF ReadBefore, PermitUnused, TypeOK
<1>10. CASE NotEntered
  BY <1>1, <1>10 DEF NotEntered, PermitUnused, TypeOK
<1>11. CASE EnterSection
  BY <1>1, <1>11 DEF EnterSection, PermitUnused, TypeOK
<1>12. CASE VerifyBoundary
  BY <1>1, <1>12 DEF VerifyBoundary, LeaveSection, BoundaryHolds,
        PermitUnused, TypeOK
<1>13. CASE IssueMutation
  BY <1>1, <1>13 DEF IssueMutation, RecordIssue, FirstIssue, OnEditIssued, PermitUnused, TypeOK
<1>14. CASE IssueUnsent
  BY <1>1, <1>14 DEF IssueUnsent, PermitUnused, TypeOK
<1>15. CASE Succeed
  BY <1>1, <1>15 DEF Succeed, LeaveSection, PermitUnused, TypeOK
<1>16. CASE Fail
  BY <1>1, <1>16 DEF Fail, LeaveSection, PermitUnused, TypeOK
<1>17. CASE PanicInSection
  BY <1>1, <1>17 DEF PanicInSection, LeaveSection, PermitUnused, TypeOK
<1>18. CASE Respond
  BY <1>1, <1>18 DEF Respond, SectionReturned, LostIssue, PermitUnused, TypeOK
<1>19. CASE CallPanicsAfterSection
  BY <1>1, <1>19 DEF CallPanicsAfterSection, PermitUnused, TypeOK
<1>20. CASE ClientReceives
  BY <1>1, <1>20 DEF ClientReceives, PermitUnused, TypeOK
<1>21. CASE UNCHANGED vars
  BY <1>1, <1>21 DEF vars, PermitUnused, TypeOK
<1>22. QED
  BY <1>2, <1>3, <1>4, <1>5, <1>6, <1>7, <1>8, <1>9, <1>10, <1>11, <1>12,
        <1>13, <1>14, <1>15, <1>16, <1>17, <1>18, <1>19, <1>20, <1>21 DEF
        Next, AcceptStep

\* Whoever clears the flag has nothing unsaved left.
LEMMA FlaggedStep == IInv /\ [Next]_vars => UnsavedIsFlagged'
<1> SUFFICES ASSUME IInv, [Next]_vars PROVE UnsavedIsFlagged'
  OBVIOUS
<1> USE DEF accept, projectVars, hostVars, threadVars, requestVars, permitVars,
            replyVars, clientVars, history
<1> USE DEF UnsavedIsFlagged
<1>1. UnsavedIsFlagged /\ SectionOwnsMain /\ PermitCounts
  BY DEF IInv
<1>2. CASE MainStep
  BY <1>1, <1>2 DEF MainStep, UserEdit, NewProject, OpenProject,
        LoadRenewsEpoch, NewEpoch, LoadResetsRevision, LoadClearsModified,
        SaveProject, SectionOwnsMain, PermitCounts
<1>3. CASE EventStep
  BY <1>1, <1>3 DEF EventStep, EventAddsRevision, UpdateWaits,
        EventSetsModified, SectionOwnsMain, PermitCounts
<1>4. CASE ReportEpoch
  BY <1>1, <1>4 DEF ReportEpoch, SectionOwnsMain, PermitCounts
<1>5. CASE ReportRevision
  BY <1>1, <1>5 DEF ReportRevision, SectionOwnsMain, PermitCounts
<1>6. CASE ObjectReadStart
  BY <1>1, <1>6 DEF ObjectReadStart, SectionOwnsMain, PermitCounts
<1>7. CASE ObjectReadSection
  BY <1>1, <1>7 DEF ObjectReadSection, SectionOwnsMain, PermitCounts
<1>8. CASE EditArrives
  BY <1>1, <1>8 DEF EditArrives, SectionOwnsMain, PermitCounts
<1>9. CASE ReadBefore
  BY <1>1, <1>9 DEF ReadBefore, SectionOwnsMain, PermitCounts
<1>10. CASE NotEntered
  BY <1>1, <1>10 DEF NotEntered, SectionOwnsMain, PermitCounts
<1>11. CASE EnterSection
  BY <1>1, <1>11 DEF EnterSection, SectionOwnsMain, PermitCounts
<1>12. CASE VerifyBoundary
  BY <1>1, <1>12 DEF VerifyBoundary, LeaveSection, BoundaryHolds,
        SectionOwnsMain, PermitCounts
<1>13. CASE IssueMutation
  BY <1>1, <1>13 DEF IssueMutation, RecordIssue, FirstIssue, OnEditIssued, SectionOwnsMain,
        PermitCounts
<1>14. CASE IssueUnsent
  BY <1>1, <1>14 DEF IssueUnsent, SectionOwnsMain, PermitCounts
<1>15. CASE Succeed
  BY <1>1, <1>15 DEF Succeed, LeaveSection, SectionOwnsMain, PermitCounts
<1>16. CASE Fail
  BY <1>1, <1>16 DEF Fail, LeaveSection, SectionOwnsMain, PermitCounts
<1>17. CASE PanicInSection
  BY <1>1, <1>17 DEF PanicInSection, LeaveSection, SectionOwnsMain,
        PermitCounts
<1>18. CASE Respond
  BY <1>1, <1>18 DEF Respond, SectionReturned, LostIssue, SectionOwnsMain, PermitCounts
<1>19. CASE CallPanicsAfterSection
  BY <1>1, <1>19 DEF CallPanicsAfterSection, SectionOwnsMain, PermitCounts
<1>20. CASE ClientReceives
  BY <1>1, <1>20 DEF ClientReceives, SectionOwnsMain, PermitCounts
<1>21. CASE UNCHANGED vars
  BY <1>1, <1>21 DEF vars, SectionOwnsMain, PermitCounts
<1>22. QED
  BY <1>2, <1>3, <1>4, <1>5, <1>6, <1>7, <1>8, <1>9, <1>10, <1>11, <1>12,
        <1>13, <1>14, <1>15, <1>16, <1>17, <1>18, <1>19, <1>20, <1>21 DEF
        Next, AcceptStep

\* A load makes everything read before it stale by its epoch.
LEMMA FreshStep == IInv /\ [Next]_vars => ClientIsFresh'
<1> SUFFICES ASSUME IInv, [Next]_vars PROVE ClientIsFresh'
  OBVIOUS
<1> USE DEF accept, projectVars, hostVars, threadVars, requestVars, permitVars,
            replyVars, clientVars, history
<1> USE DEF ClientIsFresh
<1>1. ClientIsFresh /\ SectionOwnsMain /\ PermitUnused /\ PermitCounts /\ Verified /\ TypeOK
  BY DEF IInv
<1>2. CASE MainStep
  BY <1>1, <1>2 DEF MainStep, UserEdit, NewProject, OpenProject,
        LoadRenewsEpoch, NewEpoch, LoadResetsRevision, LoadClearsModified,
        SaveProject, Fresh, SectionOwnsMain, PermitUnused, PermitCounts,
        Verified, TypeOK, Views, Reports, Kinds
<1>3. CASE EventStep
  BY <1>1, <1>3 DEF EventStep, EventAddsRevision, UpdateWaits,
        EventSetsModified, Fresh, SectionOwnsMain, PermitUnused,
        PermitCounts, Verified, TypeOK, Views, Reports, Kinds
<1>4. CASE ReportEpoch
  BY <1>1, <1>4 DEF ReportEpoch, Fresh, SectionOwnsMain, PermitUnused,
        PermitCounts, Verified, TypeOK, Views, Reports, Kinds
<1>5. CASE ReportRevision
  BY <1>1, <1>5 DEF ReportRevision, Fresh, SectionOwnsMain, PermitUnused,
        PermitCounts, Verified, TypeOK, Views, Reports, Kinds
<1>6. CASE ObjectReadStart
  BY <1>1, <1>6 DEF ObjectReadStart, Fresh, SectionOwnsMain, PermitUnused,
        PermitCounts, Verified, TypeOK, Views, Reports, Kinds
<1>7. CASE ObjectReadSection
  BY <1>1, <1>7 DEF ObjectReadSection, Fresh, SectionOwnsMain, PermitUnused,
        PermitCounts, Verified, TypeOK, Views, Reports, Kinds
<1>8. CASE EditArrives
  BY <1>1, <1>8 DEF EditArrives, Fresh, SectionOwnsMain, PermitUnused,
        PermitCounts, Verified, TypeOK, Views, Reports, Kinds
<1>9. CASE ReadBefore
  BY <1>1, <1>9 DEF ReadBefore, Fresh, SectionOwnsMain, PermitUnused,
        PermitCounts, Verified, TypeOK, Views, Reports, Kinds
<1>10. CASE NotEntered
  BY <1>1, <1>10 DEF NotEntered, Fresh, SectionOwnsMain, PermitUnused,
        PermitCounts, Verified, TypeOK, Views, Reports, Kinds
<1>11. CASE EnterSection
  BY <1>1, <1>11 DEF EnterSection, Fresh, SectionOwnsMain, PermitUnused,
        PermitCounts, Verified, TypeOK, Views, Reports, Kinds
<1>12. CASE VerifyBoundary
  BY <1>1, <1>12 DEF VerifyBoundary, LeaveSection, BoundaryHolds, Fresh,
        SectionOwnsMain, PermitUnused, PermitCounts, Verified, TypeOK,
        Views, Reports, Kinds
<1>13. CASE IssueMutation
  BY <1>1, <1>13 DEF IssueMutation, RecordIssue, FirstIssue, OnEditIssued, Fresh, SectionOwnsMain,
        PermitUnused, PermitCounts, Verified, TypeOK, Views, Reports, Kinds
<1>14. CASE IssueUnsent
  BY <1>1, <1>14 DEF IssueUnsent, Fresh, SectionOwnsMain, PermitUnused,
        PermitCounts, Verified, TypeOK, Views, Reports, Kinds
<1>15. CASE Succeed
  <2>1. pc = "issuing" /\ main = "section"
    BY <1>1, <1>15 DEF Succeed, SectionOwnsMain
  <2>2. /\ main' = "idle" /\ pc' = "left" /\ reply'.world = world
        /\ reply'.epoch = epoch
        /\ UNCHANGED <<epoch, revision, world, epochWorld, view, sel, kind>>
    BY <1>1, <1>15, <2>1 DEF Succeed, LeaveSection, Verified
  <2>3. reply'.rev <= revision
    <3>1. CASE issued # 0
      <4>1. issued <= revision
        BY <1>1, <2>1, <3>1 DEF PermitCounts
      <4>2. reply'.rev = issued
        BY <1>15, <3>1 DEF Succeed
      <4>3. QED
        BY <4>1, <4>2
    <3>2. CASE issued = 0
      BY <1>1, <1>15, <2>1, <3>2 DEF Succeed, Verified
    <3>3. QED
      BY <3>1, <3>2
  <2>4. QED
    BY <1>1, <2>1, <2>2, <2>3 DEF Fresh, TypeOK, Views
<1>16. CASE Fail
  BY <1>1, <1>16 DEF Fail, LeaveSection, Fresh, SectionOwnsMain,
        PermitUnused, PermitCounts, Verified, TypeOK, Views, Reports, Kinds
<1>17. CASE PanicInSection
  BY <1>1, <1>17 DEF PanicInSection, LeaveSection, Fresh, SectionOwnsMain,
        PermitUnused, PermitCounts, Verified, TypeOK, Views, Reports, Kinds
<1>18. CASE Respond
  BY <1>1, <1>18 DEF Respond, SectionReturned, LostIssue, Fresh, SectionOwnsMain, PermitUnused,
        PermitCounts, Verified, TypeOK, Views, Reports, Kinds
<1>19. CASE CallPanicsAfterSection
  BY <1>1, <1>19 DEF CallPanicsAfterSection, Fresh, SectionOwnsMain,
        PermitUnused, PermitCounts, Verified, TypeOK, Views, Reports, Kinds
<1>20. CASE ClientReceives
  BY <1>1, <1>20 DEF ClientReceives, Fresh, SectionOwnsMain, PermitUnused,
        PermitCounts, Verified, TypeOK, Views, Reports, Kinds
<1>21. CASE UNCHANGED vars
  BY <1>1, <1>21 DEF vars, Fresh, SectionOwnsMain, PermitUnused,
        PermitCounts, Verified, TypeOK, Views, Reports, Kinds
<1>22. QED
  BY <1>2, <1>3, <1>4, <1>5, <1>6, <1>7, <1>8, <1>9, <1>10, <1>11, <1>12,
        <1>13, <1>14, <1>15, <1>16, <1>17, <1>18, <1>19, <1>20, <1>21 DEF
        Next, AcceptStep

\* Nothing moves under a section that has been verified.
LEMMA VerifiedStep == IInv /\ [Next]_vars => Verified'
<1> SUFFICES ASSUME IInv, [Next]_vars PROVE Verified'
  OBVIOUS
<1> USE DEF accept, projectVars, hostVars, threadVars, requestVars, permitVars,
            replyVars, clientVars, history
<1> USE DEF Verified
<1>1. Verified /\ ClientIsFresh /\ SectionOwnsMain /\ PermitUnused /\ PermitCounts /\ TypeOK
  BY DEF IInv
<1>2. CASE MainStep
  BY <1>1, <1>2 DEF MainStep, UserEdit, NewProject, OpenProject,
        LoadRenewsEpoch, NewEpoch, LoadResetsRevision, LoadClearsModified,
        SaveProject, Fresh, ClientIsFresh, BoundaryHolds, SectionOwnsMain,
        PermitUnused, PermitCounts, TypeOK, Views, Reports, Kinds
<1>3. CASE EventStep
  BY <1>1, <1>3 DEF EventStep, EventAddsRevision, UpdateWaits,
        EventSetsModified, Fresh, ClientIsFresh, BoundaryHolds,
        SectionOwnsMain, PermitUnused, PermitCounts, TypeOK, Views, Reports,
        Kinds
<1>4. CASE ReportEpoch
  BY <1>1, <1>4 DEF ReportEpoch, Fresh, ClientIsFresh, BoundaryHolds,
        SectionOwnsMain, PermitUnused, PermitCounts, TypeOK, Views, Reports,
        Kinds
<1>5. CASE ReportRevision
  BY <1>1, <1>5 DEF ReportRevision, Fresh, ClientIsFresh, BoundaryHolds,
        SectionOwnsMain, PermitUnused, PermitCounts, TypeOK, Views, Reports,
        Kinds
<1>6. CASE ObjectReadStart
  BY <1>1, <1>6 DEF ObjectReadStart, Fresh, ClientIsFresh, BoundaryHolds,
        SectionOwnsMain, PermitUnused, PermitCounts, TypeOK, Views, Reports,
        Kinds
<1>7. CASE ObjectReadSection
  BY <1>1, <1>7 DEF ObjectReadSection, Fresh, ClientIsFresh, BoundaryHolds,
        SectionOwnsMain, PermitUnused, PermitCounts, TypeOK, Views, Reports,
        Kinds
<1>8. CASE EditArrives
  BY <1>1, <1>8 DEF EditArrives, Fresh, ClientIsFresh, BoundaryHolds,
        SectionOwnsMain, PermitUnused, PermitCounts, TypeOK, Views, Reports,
        Kinds
<1>9. CASE ReadBefore
  BY <1>1, <1>9 DEF ReadBefore, Fresh, ClientIsFresh, BoundaryHolds,
        SectionOwnsMain, PermitUnused, PermitCounts, TypeOK, Views, Reports,
        Kinds
<1>10. CASE NotEntered
  BY <1>1, <1>10 DEF NotEntered, Fresh, ClientIsFresh, BoundaryHolds,
        SectionOwnsMain, PermitUnused, PermitCounts, TypeOK, Views, Reports,
        Kinds
<1>11. CASE EnterSection
  BY <1>1, <1>11 DEF EnterSection, Fresh, ClientIsFresh, BoundaryHolds,
        SectionOwnsMain, PermitUnused, PermitCounts, TypeOK, Views, Reports,
        Kinds
<1>12. CASE VerifyBoundary
  BY <1>1, <1>12 DEF VerifyBoundary, LeaveSection, BoundaryHolds, Fresh,
        ClientIsFresh, BoundaryHolds, SectionOwnsMain, PermitUnused,
        PermitCounts, TypeOK, Views, Reports, Kinds
<1>13. CASE IssueMutation
  BY <1>1, <1>13 DEF IssueMutation, RecordIssue, FirstIssue, OnEditIssued, Fresh, ClientIsFresh,
        BoundaryHolds, SectionOwnsMain, PermitUnused, PermitCounts, TypeOK,
        Views, Reports, Kinds
<1>14. CASE IssueUnsent
  BY <1>1, <1>14 DEF IssueUnsent, Fresh, ClientIsFresh, BoundaryHolds,
        SectionOwnsMain, PermitUnused, PermitCounts, TypeOK, Views, Reports,
        Kinds
<1>15. CASE Succeed
  BY <1>1, <1>15 DEF Succeed, LeaveSection, Fresh, ClientIsFresh,
        BoundaryHolds, SectionOwnsMain, PermitUnused, PermitCounts, TypeOK,
        Views, Reports, Kinds
<1>16. CASE Fail
  BY <1>1, <1>16 DEF Fail, LeaveSection, Fresh, ClientIsFresh,
        BoundaryHolds, SectionOwnsMain, PermitUnused, PermitCounts, TypeOK,
        Views, Reports, Kinds
<1>17. CASE PanicInSection
  BY <1>1, <1>17 DEF PanicInSection, LeaveSection, Fresh, ClientIsFresh,
        BoundaryHolds, SectionOwnsMain, PermitUnused, PermitCounts, TypeOK,
        Views, Reports, Kinds
<1>18. CASE Respond
  BY <1>1, <1>18 DEF Respond, SectionReturned, LostIssue, Fresh, ClientIsFresh, BoundaryHolds,
        SectionOwnsMain, PermitUnused, PermitCounts, TypeOK, Views, Reports,
        Kinds
<1>19. CASE CallPanicsAfterSection
  BY <1>1, <1>19 DEF CallPanicsAfterSection, Fresh, ClientIsFresh,
        BoundaryHolds, SectionOwnsMain, PermitUnused, PermitCounts, TypeOK,
        Views, Reports, Kinds
<1>20. CASE ClientReceives
  BY <1>1, <1>20 DEF ClientReceives, Fresh, ClientIsFresh, BoundaryHolds,
        SectionOwnsMain, PermitUnused, PermitCounts, TypeOK, Views, Reports,
        Kinds
<1>21. CASE UNCHANGED vars
  BY <1>1, <1>21 DEF vars, Fresh, ClientIsFresh, BoundaryHolds,
        SectionOwnsMain, PermitUnused, PermitCounts, TypeOK, Views, Reports,
        Kinds
<1>22. QED
  BY <1>2, <1>3, <1>4, <1>5, <1>6, <1>7, <1>8, <1>9, <1>10, <1>11, <1>12,
        <1>13, <1>14, <1>15, <1>16, <1>17, <1>18, <1>19, <1>20, <1>21 DEF
        Next, AcceptStep

-----------------------------------------------------------------------------
LEMMA InvInit == Init => IInv
<1> SUFFICES ASSUME Init PROVE IInv
  OBVIOUS
<1>1. TypeOK
  BY TypeInit
<1>2. SectionOwnsMain /\ PermitUnused /\ PermitCounts /\ BeforeIsBelow /\ SectionTells
  BY DEF Init, SectionOwnsMain, PermitUnused, PermitCounts, BeforeIsBelow,
         SectionTells
<1>3. UnsavedIsFlagged
  BY DEF Init, UnsavedIsFlagged
<1>4. ClientIsFresh
  BY DEF Init, ClientIsFresh, Fresh
<1>5. Verified
  BY DEF Init, Verified
<1>6. QED
  BY <1>1, <1>2, <1>3, <1>4, <1>5 DEF IInv

LEMMA InvStep == IInv /\ [Next]_vars => IInv'
<1> SUFFICES ASSUME IInv, [Next]_vars PROVE IInv'
  OBVIOUS
<1>1. TypeOK'
  BY TypeStep DEF IInv
<1>2. QED
  BY <1>1, OwnsMainStep, UnusedStep, CountsStep, BelowStep, TellsStep,
     FlaggedStep, FreshStep, VerifiedStep DEF IInv

\* The invariant holds of every reachable state.
THEOREM Invariance == Spec => []IInv
<1>1. Init => IInv
  BY InvInit
<1>2. IInv /\ [Next]_vars => IInv'
  BY InvStep
<1>3. QED
  BY <1>1, <1>2, PTL DEF Spec

\* However many calls and rollbacks a request makes, it advances the revision
\* at most once, and exactly once when a content edit succeeds.
THEOREM OneAdvance == Spec => []OneAdvancePerRequest
<1>1. IInv => OneAdvancePerRequest
  BY DEF IInv, PermitCounts, OneAdvancePerRequest
<1>2. QED
  BY <1>1, Invariance, PTL

\* A change made through the plugin is flagged as unsaved until it is saved.
THEOREM NeverLooksSaved == Spec => []PluginChangeNeverLooksSaved
<1>1. IInv => PluginChangeNeverLooksSaved
  BY DEF IInv, UnsavedIsFlagged, PluginChangeNeverLooksSaved
<1>2. QED
  BY <1>1, Invariance, PTL

\* The first call of a selector edit lands on the content the client read.
THEOREM HitsWhatWasRead == Spec => []EditHitsWhatWasRead
<1>1. IInv => EditHitsWhatWasRead
  BY DEF IInv, Verified, ClientIsFresh, Fresh, EditHitsWhatWasRead
<1>2. QED
  BY <1>1, Invariance, PTL

\* The revision in the answer is above the one the selector was read at.
THEOREM NewerAnswer == Spec => []AnswerIsNewer
<1>1. IInv => AnswerIsNewer
  BY DEF IInv, Verified, AnswerIsNewer
<1>2. QED
  BY <1>1, Invariance, PTL

\* Only a section that is not entered, one that is left, and a call that panics
\* behind it are answered.
LEMMA AnsweringSteps ==
  ASSUME Next, pc # "answered", pc' = "answered"
  PROVE  NotEntered \/ Respond \/ CallPanicsAfterSection
<1> USE DEF accept
<1>1. CASE MainStep
  BY <1>1 DEF MainStep, UserEdit, NewProject, OpenProject, LoadRenewsEpoch,
        LoadResetsRevision, LoadClearsModified, SaveProject
<1>2. CASE EventStep
  BY <1>2 DEF EventStep, EventAddsRevision, EventSetsModified
<1>3. CASE ReportEpoch \/ ReportRevision \/ ObjectReadStart \/ ObjectReadSection
  BY <1>3 DEF ReportEpoch, ReportRevision, ObjectReadStart, ObjectReadSection
<1>4. CASE EditArrives \/ ReadBefore \/ EnterSection \/ ClientReceives
  BY <1>4 DEF EditArrives, ReadBefore, EnterSection, ClientReceives
<1>5. CASE VerifyBoundary \/ IssueMutation \/ IssueUnsent
  BY <1>5 DEF VerifyBoundary, LeaveSection, IssueMutation, IssueUnsent
<1>6. CASE Succeed \/ Fail \/ PanicInSection
  BY <1>6 DEF Succeed, Fail, PanicInSection, LeaveSection
<1> QED  BY <1>1, <1>2, <1>3, <1>4, <1>5, <1>6 DEF Next, AcceptStep

\* With a host that calls the section's callback at most once, no failure hides
\* a change: panics are told by the revision, which only a load can take back.
THEOREM NoSilent == ~RunsThenPanics => (Spec => NoSilentChange)
<1>1. ASSUME ~RunsThenPanics, IInv, Next, pc' = "answered", pc # "answered",
             outcome' = "failed", advances # 0
      PROVE  resetSince /\ revision = before
  <2>1. TypeOK /\ PermitUnused /\ SectionTells /\ BeforeIsBelow /\ PermitCounts
    BY <1>1 DEF IInv
  <2>2. Respond
    BY <1>1, <2>1, AnsweringSteps DEF NotEntered, CallPanicsAfterSection, PermitUnused
  <2>3. pc = "left" /\ outcome = "panicked" /\ revision = before
    BY <1>1, <2>1, <2>2 DEF Respond, SectionReturned, LostIssue, replyVars, SectionTells,
          PermitCounts
  <2>4. resetSince
    BY <1>1, <2>1, <2>3 DEF BeforeIsBelow, PermitCounts, TypeOK
  <2> QED  BY <2>3, <2>4
<1>2. ~RunsThenPanics /\ IInv /\ [Next]_vars =>
        [pc' = "answered" /\ pc # "answered" /\ outcome' = "failed" /\ advances # 0
           => resetSince /\ revision = before]_vars
  BY <1>1
<1>3. ASSUME ~RunsThenPanics PROVE Spec => NoSilentChange
  BY <1>2, <1>3, Invariance, PTL DEF Spec, NoSilentChange
<1> QED  BY <1>3
=============================================================================
