----------------------------- MODULE EditRequest -----------------------------
(***************************************************************************)
(* One AviUtl2 instance seen through the plugin: the project state that    *)
(* the plugin keeps (epoch, revision, modified), the host threads that     *)
(* change it, and the accept thread that serves one client request at a    *)
(* time.                                                                   *)
(*                                                                         *)
(* Three threads touch ProjectState (crates/plugin/src/project.rs):        *)
(*   - the host's main thread runs the project load and save handlers and  *)
(*     the callback of an edit section, never two of them at once;         *)
(*   - the host's event thread delivers object and scene updates, holding  *)
(*     the plugin singleton's write lock, which the load and save handlers *)
(*     take as well;                                                       *)
(*   - the accept thread reads epoch and revision without any lock that    *)
(*     covers both.                                                        *)
(*                                                                         *)
(* An edit is a sequence of SDK mutation calls made inside one edit        *)
(* section after the boundary and the selector were verified; what the     *)
(* calls do to the project is abstracted to the fingerprint it has         *)
(* afterwards.                                                             *)
(***************************************************************************)
EXTENDS Naturals

CONSTANTS
  Fingerprints,     \* what the addressed object can look like
  MaxEpoch,         \* bound: project loads
  MaxWorld,         \* bound: projects the host opens (loads and new projects)
  MaxRevision,      \* bound: no event or edit starts at or beyond this revision
  MaxEvents,        \* bound: host updates waiting for the event thread
  MaxIssues,        \* bound: SDK mutation calls of one request
  RunsThenPanics    \* the section call may panic after its callback returned

ASSUME BoundsAssumption ==
  /\ MaxEpoch \in Nat /\ MaxWorld \in Nat /\ MaxRevision \in Nat
  /\ MaxEvents \in Nat /\ MaxIssues \in Nat
  /\ RunsThenPanics \in BOOLEAN

VARIABLES
  \* ProjectState
  epoch,        \* Boundary.epoch, renewed by every load (a UUID in the code)
  revision,     \* AtomicU64
  modified,     \* AtomicBool
  \* the host
  world,        \* which project is open; grows with every project opened
  epochWorld,   \* the project that was open when `epoch' was issued
  content,      \* fingerprint of the addressed object right now
  unsaved,      \* a change made through the plugin has not been saved yet
  main,         \* what the main thread is doing
  events,       \* updates the event thread has yet to deliver
  evt,          \* what the event thread is doing
  \* the request the accept thread serves
  pc,           \* where the accept thread (or the section callback) is
  kind,         \* what the edit carries and whether it changes content
  sel,          \* the epoch and fingerprint the request carries
  before,       \* revision read before entering the section
  resetSince,   \* history: a load reset the revision after `before' was read
  observed,     \* Boundary.observed
  issued,       \* MutationPermit.issued; 0 stands for None
  issues,       \* mutation calls made so far
  failed,       \* one of them failed, or its read-back did
  advances,     \* history: how often this request advanced the revision
  outcome,      \* what the section, then the operation, returns
  reply,        \* what the response carries
  \* what the client holds
  view,         \* the last object it read: epoch, revision, print, world
  reported      \* the epoch of the last report

projectVars == <<epoch, revision, modified>>
hostVars == <<world, epochWorld, content, unsaved>>
threadVars == <<main, events, evt>>
requestVars == <<kind, sel, before>>
permitVars == <<observed, issued, issues, failed, advances>>
replyVars == <<outcome, reply>>
clientVars == <<view, reported>>
accept == <<pc, requestVars, permitVars, replyVars, clientVars>>
history == <<resetSince>>
vars == <<projectVars, hostVars, threadVars, accept, history>>

\* An EditKind::Content operation on a selected object, one that carries only
\* an expected epoch, and an EditKind::Selection operation.
Kinds == {"selector", "expected", "selection"}
Reports == [epoch : Nat, rev : Nat]
Views == [epoch : Nat, rev : Nat, print : Fingerprints, world : Nat]
Outcomes == {"none", "done", "failed", "failedAfter", "panicked"}

TypeOK ==
  /\ epoch \in Nat /\ revision \in Nat /\ modified \in BOOLEAN
  /\ world \in Nat /\ epochWorld \in Nat /\ content \in Fingerprints
  /\ unsaved \in BOOLEAN
  /\ main \in {"idle", "opened", "renewed", "reset", "section"}
  /\ events \in Nat /\ evt \in {"idle", "bumped"}
  /\ pc \in {"idle", "report", "object", "arrived", "entering", "verifying",
             "issuing", "left", "answered"}
  /\ kind \in Kinds /\ sel \in Views
  /\ before \in Nat /\ resetSince \in BOOLEAN
  /\ observed \in Reports /\ issued \in Nat /\ issues \in Nat
  /\ failed \in BOOLEAN /\ advances \in Nat
  /\ outcome \in Outcomes /\ reply \in Views
  /\ view \in Views /\ reported \in Nat

Init ==
  /\ epoch = 0 /\ revision = 0 /\ modified = FALSE
  /\ world = 0 /\ epochWorld = 0 /\ content \in Fingerprints /\ unsaved = FALSE
  /\ main = "idle" /\ events = 0 /\ evt = "idle"
  /\ pc = "idle" /\ kind = "selector"
  /\ view = [epoch |-> 0, rev |-> 0, print |-> content, world |-> 0]
  /\ sel = view /\ reply = view
  /\ before = 0 /\ resetSince = FALSE
  /\ observed = [epoch |-> 0, rev |-> 0] /\ issued = 0 /\ issues = 0
  /\ failed = FALSE /\ advances = 0 /\ outcome = "none"
  /\ reported = 0

-----------------------------------------------------------------------------
(* The host's main thread.                                                 *)

\* The user edits in the UI: the content changes now, the update event is
\* queued for the event thread.
UserEdit ==
  /\ main = "idle" /\ events < MaxEvents
  /\ content' \in Fingerprints
  /\ events' = events + 1
  /\ UNCHANGED <<projectVars, world, epochWorld, unsaved, main, evt, accept,
                 history>>

\* A new project is created while one is open: the host calls no load handler.
NewProject ==
  /\ main = "idle" /\ world < MaxWorld
  /\ world' = world + 1
  /\ content' \in Fingerprints
  /\ unsaved' = FALSE
  /\ UNCHANGED <<projectVars, epochWorld, threadVars, accept, history>>

\* A project is loaded: the host replaces the content, then calls the handler.
OpenProject ==
  /\ main = "idle" /\ world < MaxWorld /\ epoch < MaxEpoch
  /\ main' = "opened"
  /\ world' = world + 1
  /\ content' \in Fingerprints
  /\ unsaved' = FALSE
  /\ UNCHANGED <<projectVars, epochWorld, events, evt, accept, history>>

\* update_boundary draws a new UUID. Mutant: it keeps the one it has.
SameEpoch == epoch
NewEpoch == epoch + 1

\* on_project_load, first step: update_boundary renews the epoch. The handler
\* holds the singleton's write lock from here to its end.
LoadRenewsEpoch ==
  /\ main = "opened" /\ evt = "idle"
  /\ main' = "renewed"
  /\ epoch' = NewEpoch
  /\ epochWorld' = world
  /\ UNCHANGED <<revision, modified, world, content, unsaved, events, evt,
                 accept, resetSince>>

\* on_project_load, second step: the revision goes back to 0.
LoadResetsRevision ==
  /\ main = "renewed"
  /\ main' = "reset"
  /\ revision' = 0
  /\ resetSince' = TRUE
  /\ UNCHANGED <<epoch, modified, hostVars, events, evt, accept>>

\* on_project_load, third step: nothing is unsaved in the project just loaded.
LoadClearsModified ==
  /\ main = "reset"
  /\ main' = "idle"
  /\ modified' = FALSE
  /\ UNCHANGED <<epoch, revision, hostVars, events, evt, accept, history>>

\* The project is saved; on_project_save keeps epoch and revision.
SaveProject ==
  /\ main = "idle" /\ evt = "idle"
  /\ modified' = FALSE
  /\ unsaved' = FALSE
  /\ UNCHANGED <<epoch, revision, world, epochWorld, content, threadVars,
                 accept, history>>

-----------------------------------------------------------------------------
(* The host's event thread. on_object_updated and on_scene_changed do the  *)
(* same to these variables.                                                *)

HandlerHoldsLock == main \in {"renewed", "reset"}

\* An update waits to be delivered.
UpdateWaits == events > 0

EventAddsRevision ==
  /\ UpdateWaits /\ evt = "idle" /\ ~HandlerHoldsLock
  /\ revision < MaxRevision
  /\ evt' = "bumped"
  /\ events' = events - 1
  /\ revision' = revision + 1
  /\ UNCHANGED <<epoch, modified, hostVars, main, accept, resetSince>>

EventSetsModified ==
  /\ evt = "bumped"
  /\ evt' = "idle"
  /\ modified' = TRUE
  /\ UNCHANGED <<epoch, revision, hostVars, main, events, accept, history>>

-----------------------------------------------------------------------------
(* The accept thread, reads. A report (project status, or the pair put on  *)
(* a rendered frame) reads the epoch and then, with nothing held, the      *)
(* revision; of the two only the epoch comes back in a later request.      *)

ReportEpoch ==
  /\ pc = "idle"
  /\ pc' = "report"
  /\ reported' = epoch
  /\ UNCHANGED <<projectVars, hostVars, threadVars, requestVars, permitVars,
                 replyVars, view, resetSince>>

ReportRevision ==
  /\ pc = "report"
  /\ pc' = "idle"
  /\ UNCHANGED <<projectVars, hostVars, threadVars, requestVars, permitVars,
                 replyVars, clientVars, resetSince>>

\* get_object captures the epoch before it enters the read section ...
ObjectReadStart ==
  /\ pc = "idle"
  /\ pc' = "object"
  /\ sel' = [sel EXCEPT !.epoch = epoch]
  /\ UNCHANGED <<projectVars, hostVars, threadVars, kind, before, permitVars,
                 replyVars, clientVars, history>>

\* ... and reads revision and content inside it, on the main thread.
ObjectReadSection ==
  /\ pc = "object" /\ main = "idle"
  /\ pc' = "idle"
  /\ view' = [epoch |-> sel.epoch, rev |-> revision, print |-> content,
              world |-> world]
  /\ sel' = view'
  /\ UNCHANGED <<projectVars, hostVars, threadVars, kind, before, permitVars,
                 replyVars, reported, history>>

-----------------------------------------------------------------------------
(* The accept thread, one edit request.                                    *)

\* The client sends an edit built from what it holds. A selector carries the
\* epoch and fingerprint of the object; the other kinds carry an epoch only,
\* which may also come from a report.
EditArrives ==
  /\ pc = "idle" /\ revision < MaxRevision
  /\ pc' = "arrived"
  /\ kind' \in Kinds
  /\ \/ sel' = view
     \/ kind' # "selector" /\ sel' = [view EXCEPT !.epoch = reported]
  /\ UNCHANGED <<projectVars, hostVars, threadVars, before, permitVars,
                 replyVars, clientVars, history>>

\* edit_section reads the revision on the accept thread, whatever the main
\* thread is doing.
ReadBefore ==
  /\ pc = "arrived"
  /\ pc' = "entering"
  /\ before' = revision
  /\ resetSince' = FALSE
  /\ UNCHANGED <<projectVars, hostVars, threadVars, kind, sel, permitVars,
                 replyVars, clientVars>>

\* The host is not editable, refuses the section, or the call panics before
\* the callback: nothing ran.
NotEntered ==
  /\ pc \in {"arrived", "entering"}
  /\ pc' = "answered"
  /\ outcome' = "failed"
  /\ UNCHANGED <<projectVars, hostVars, threadVars, requestVars, permitVars,
                 reply, clientVars, history>>

\* The host runs the callback on its main thread.
EnterSection ==
  /\ pc = "entering" /\ main = "idle"
  /\ pc' = "verifying"
  /\ main' = "section"
  /\ UNCHANGED <<projectVars, hostVars, events, evt, requestVars, permitVars,
                 replyVars, clientVars, history>>

\* The callback returns `o' and the main thread is free again.
LeaveSection(o) ==
  /\ pc' = "left"
  /\ main' = "idle"
  /\ outcome' = o
  /\ UNCHANGED <<projectVars, hostVars, events, evt, requestVars, issued,
                 issues, failed, advances, clientVars, history>>

\* The selector's epoch and fingerprint are those of this moment. Mutant: the
\* fingerprint alone stands for the object.
PrintAloneHolds ==
  IF kind = "selector" THEN sel.print = content ELSE sel.epoch = epoch
BoundaryHolds ==
  /\ sel.epoch = epoch
  /\ kind = "selector" => sel.print = content

\* verify_boundary, then the selector's resolution: both inside the section.
VerifyBoundary ==
  /\ pc = "verifying"
  /\ observed' = [epoch |-> epoch, rev |-> revision]
  /\ \/ /\ BoundaryHolds
        /\ pc' = "issuing"
        /\ UNCHANGED <<projectVars, hostVars, threadVars, requestVars, issued,
                       issues, failed, advances, replyVars, clientVars,
                       history>>
     \/ ~BoundaryHolds /\ LeaveSection("failed") /\ UNCHANGED reply

\* Nothing was recorded yet and the operation changes content.
FirstIssue == kind # "selection" /\ issued = 0

\* on_edit_issued. Mutant: the flag is left to the host's own update event.
OnEditIssuedUnflagged == revision' = revision + 1 /\ UNCHANGED modified
OnEditIssued == revision' = revision + 1 /\ modified' = TRUE

\* MutationPermit::record_issue: the first call of the request that reached
\* the SDK advances the revision, whatever the call returned.
RecordIssue ==
  IF FirstIssue
  THEN /\ OnEditIssued
       /\ issued' = revision + 1
       /\ advances' = advances + 1
  ELSE UNCHANGED <<revision, modified, issued, advances>>

\* A mutation call (forward, or the inverse of one that is rolled back) reaches
\* the SDK. It changes the content or leaves it, succeeds or fails; the host
\* may tell the event thread. The call and record_issue, both on the main
\* thread that the section occupies, are one step. No operation asks for a
\* second permit, so that MutationPermitReissued does not occur.
IssueMutation ==
  /\ pc = "issuing" /\ issues < MaxIssues
  /\ RecordIssue
  /\ issues' = issues + 1
  /\ failed' \in BOOLEAN /\ (failed => failed')
  /\ IF kind = "selection"
     THEN UNCHANGED <<content, unsaved, events>>
     ELSE /\ content' \in Fingerprints
          /\ unsaved' = TRUE
          /\ events' \in {events} \cup (IF events < MaxEvents THEN {events + 1}
                                       ELSE {})
  /\ UNCHANGED <<epoch, world, epochWorld, main, evt, pc, requestVars,
                 observed, replyVars, clientVars, history>>

\* A mutation call the wrapper refuses before the SDK: EditError::NotIssued.
IssueUnsent ==
  /\ pc = "issuing" /\ issues < MaxIssues
  /\ issues' = issues + 1
  /\ failed' = TRUE
  /\ UNCHANGED <<projectVars, hostVars, threadVars, pc, requestVars, observed,
                 issued, advances, replyVars, clientVars, history>>

\* The operation succeeds: every call did, and the read-back agrees (a
\* selection operation reports each field and succeeds as a whole).
\* project_revision is the value the permit recorded, or the observed one.
Succeed ==
  /\ pc = "issuing" /\ issues > 0
  /\ ~failed \/ kind = "selection"
  /\ reply' = [epoch |-> observed.epoch,
               rev |-> IF issued # 0 THEN issued ELSE observed.rev,
               print |-> content, world |-> world]
  /\ LeaveSection("done") /\ UNCHANGED observed

\* The operation fails: a later precondition, a call, or the read-back. The
\* permit turns the error into one after a mutation when one was recorded.
Fail ==
  /\ pc = "issuing"
  /\ \/ issued = 0 /\ LeaveSection("failed") /\ UNCHANGED reply
     \/ /\ issued # 0
        /\ LeaveSection("failedAfter")
        /\ reply' = [reply EXCEPT !.rev = issued]
  /\ UNCHANGED observed

\* The callback panics and the catch inside the section unwinds the permit.
PanicInSection ==
  /\ pc \in {"verifying", "issuing"}
  /\ LeaveSection("panicked")
  /\ UNCHANGED <<observed, reply>>

\* The section call has returned. Mutant: a panic takes the thread along.
SectionReturnedValue == pc = "left" /\ outcome # "panicked"
SectionReturned == pc = "left"

\* A panic may hide a change. Mutants: it is looked for in one direction.
RevisionFell == outcome = "panicked" /\ revision < before
RevisionGrew == outcome = "panicked" /\ revision > before
LostIssue == outcome = "panicked" /\ revision # before

\* attribute_lost_issue: a panic is reported as a change when the revision
\* moved since `before'.
Respond ==
  /\ SectionReturned
  /\ pc' = "answered"
  /\ \/ outcome # "panicked" /\ UNCHANGED replyVars
     \/ /\ LostIssue
        /\ outcome' = "failedAfter"
        /\ reply' = [reply EXCEPT !.rev = revision]
     \/ /\ outcome = "panicked" /\ ~LostIssue
        /\ outcome' = "failed"
        /\ UNCHANGED reply
  /\ UNCHANGED <<projectVars, hostVars, threadVars, requestVars, permitVars,
                 clientVars, history>>

\* The section call itself panics once the callback has returned (the host
\* called it a second time): `catch(..)?' returns before the attribution.
CallPanicsAfterSection ==
  /\ RunsThenPanics
  /\ pc = "left"
  /\ pc' = "answered"
  /\ outcome' = "failed"
  /\ UNCHANGED <<projectVars, hostVars, threadVars, requestVars, permitVars,
                 reply, clientVars, history>>

\* The client receives the response; the accept thread takes the next request.
ClientReceives ==
  /\ pc = "answered"
  /\ pc' = "idle"
  /\ view' = IF outcome = "done" /\ kind = "selector" THEN reply ELSE view
  /\ kind' = "selector" /\ sel' = view' /\ reply' = view'
  /\ before' = 0 /\ resetSince' = FALSE
  /\ observed' = [epoch |-> 0, rev |-> 0] /\ issued' = 0 /\ issues' = 0
  /\ failed' = FALSE /\ advances' = 0 /\ outcome' = "none"
  /\ UNCHANGED <<projectVars, hostVars, threadVars, reported>>

-----------------------------------------------------------------------------
MainStep ==
  \/ UserEdit \/ NewProject \/ OpenProject \/ LoadRenewsEpoch
  \/ LoadResetsRevision \/ LoadClearsModified \/ SaveProject

EventStep == EventAddsRevision \/ EventSetsModified

AcceptStep ==
  \/ ReportEpoch \/ ReportRevision \/ ObjectReadStart \/ ObjectReadSection
  \/ EditArrives \/ ReadBefore \/ NotEntered \/ EnterSection \/ VerifyBoundary
  \/ IssueMutation \/ IssueUnsent \/ Succeed \/ Fail \/ PanicInSection
  \/ Respond \/ CallPanicsAfterSection \/ ClientReceives

Next == MainStep \/ EventStep \/ AcceptStep

\* A load handler runs to its end and a request is carried forward; a section
\* that is waiting for the main thread gets it in the end although the user
\* keeps working (the host grants it between two UI operations).
LoadHandler == LoadRenewsEpoch \/ LoadResetsRevision \/ LoadClearsModified
Serve ==
  \/ ReportRevision \/ ReadBefore \/ VerifyBoundary \/ Succeed \/ Fail \/ Respond
  \/ ClientReceives

Fairness ==
  /\ WF_vars(LoadHandler)
  /\ WF_vars(EventSetsModified)
  /\ WF_vars(Serve)
  /\ SF_vars(EnterSection)
  /\ SF_vars(ObjectReadSection)

Spec == Init /\ [][Next]_vars
FairSpec == Spec /\ Fairness

-----------------------------------------------------------------------------
(* What a client relies on.                                                *)

\* One request advances the revision at most once, however many mutation calls
\* and rollbacks it makes; a successful content edit does so exactly once, a
\* selection edit never (README: one request advances the version at most
\* once; MutationPermit::record_issue).
OneAdvancePerRequest ==
  /\ advances <= IF kind = "selection" THEN 0 ELSE 1
  /\ pc = "answered" /\ outcome = "done" /\ kind # "selection" => advances = 1

\* A request that advanced the revision is not answered as failed without
\* "after a mutation", whatever events, edits and loads come in between: the
\* permit attributes every error after the first issue, and a panic that unwinds
\* the permit is attributed by comparing revisions (edit_section). One case is
\* left: a load reset the counter and it has come back to the very value.
NoSilentChange ==
  [][pc' = "answered" /\ pc # "answered" /\ outcome' = "failed" /\ advances # 0
       => resetSince /\ revision = before]_vars

\* A change made through the plugin and not saved since is never reported as
\* saved, also when the request failed after issuing it (on_edit_issued) and
\* when the host's own events arrive late or not at all.
PluginChangeNeverLooksSaved ==
  unsaved /\ main # "section" => modified

\* What the first mutation call of a selector edit lands on is what the client
\* read: the same fingerprint, in a project not older than the epoch, although
\* the epoch was read on another thread and before the content (get_object)
\* and the host tells of new projects late or never.
EditHitsWhatWasRead ==
  pc = "issuing" /\ issues = 0 /\ kind = "selector" =>
    /\ sel.print = content
    /\ epochWorld <= sel.world

\* The revision a successful selector edit answers is above the one the client
\* read with the object, so comparing revisions shows the change
\* (ChangeNotifier's doc): the counter is reset only under a new epoch.
AnswerIsNewer ==
  pc = "answered" /\ outcome = "done" /\ kind = "selector" => sel.rev < reply.rev

\* Every edit is answered, whatever panics or fails on the way: no path leaves
\* the accept thread waiting for the section forever.
RequestAnswered == pc = "arrived" ~> pc = "answered"
=============================================================================
