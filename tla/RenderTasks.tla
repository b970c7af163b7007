------------------------------ MODULE RenderTasks ------------------------------
(***************************************************************************)
(* Rendering in the plugin (crates/plugin/src/render): a request puts a    *)
(* task into the host and waits for its callback with a deadline. The host *)
(* cannot take a task back, so an abandoned one stays in the inventory     *)
(* until its callback arrives, and the shutdown waits for what the         *)
(* inventory counts before the module is unloaded.                         *)
(*                                                                         *)
(* Threads: the accept thread (render_frame), the host's render threads    *)
(* (one callback per task), the main thread (the shutdown sequence of      *)
(* lib.rs). A slot's mutex covers its state; the inventory is read without *)
(* it.                                                                     *)
(***************************************************************************)
EXTENDS Naturals, Sequences, FiniteSets

CONSTANTS
  Tasks,         \* one per request that gets as far as a slot
  MaxAbandoned,  \* MAX_ABANDONED_RENDERS
  MaxCalls,      \* how often the host calls back for one task
  Blocking       \* where the accept thread may outlast STOP_TIMEOUT

AcceptStates == {"idle", "before", "checked", "issuing", "waiting", "abandoning",
                 "releasing", "after", "sending", "ended"}

ASSUME RenderAssumption ==
  /\ Tasks # {} /\ IsFiniteSet(Tasks)
  /\ MaxAbandoned \in Nat \ {0} /\ MaxCalls \in Nat \ {0}
  /\ Blocking \subseteq AcceptStates

VARIABLES
  \* RenderInventory
  pending,    \* AtomicUsize
  abandoned,  \* entries in the order of abandoning; "old" when past the TTL
  \* RenderSlot.state: "arrived" is Abandoned with callback_arrived, "taken" is
  \* Done with the result gone
  slot,
  \* the host
  task,       \* what the host knows of a task
  calls,      \* callbacks it has made
  cb,         \* where a callback is inside the plugin
  \* the accept thread
  pc, cur,    \* its place in render_frame and the task it serves
  files,      \* artifacts in the instance's hand-off directory
  told,       \* requests whose response, with the token, was sent
  \* the main thread
  sd,         \* phase of the shutdown
  counted,    \* what outstanding() read of `pending'
  detached,   \* where the accept thread was when stop gave up joining it
  timedOut    \* the drain gave up waiting

inventory == <<pending, abandoned>>
hostVars == <<task, calls, cb>>
acceptVars == <<pc, cur, files, told>>
shutdownVars == <<sd, counted, detached, timedOut>>
vars == <<inventory, slot, hostVars, acceptVars, shutdownVars>>

Init ==
  /\ pending = 0 /\ abandoned = <<>>
  /\ slot = [t \in Tasks |-> "none"]
  /\ task = [t \in Tasks |-> "none"]
  /\ calls = [t \in Tasks |-> 0]
  /\ cb = [t \in Tasks |-> "away"]
  /\ pc = "idle" /\ cur \in Tasks /\ files = {} /\ told = {}
  /\ sd = "running" /\ counted = 0 /\ detached = "no" /\ timedOut = FALSE

Stopped == sd # "running"
Loaded == sd # "unloaded"

-----------------------------------------------------------------------------
(* RenderInventory.                                                        *)

\* The entries that count for acceptance. Mutant: time does not matter.
AllEntries == DOMAIN abandoned
FreshEntries == {k \in DOMAIN abandoned : abandoned[k] = "fresh"}
AcceptsNewRender == Cardinality(FreshEntries) < MaxAbandoned

\* release_issue saturates.
ReleaseIssue == pending' = IF pending > 0 THEN pending - 1 ELSE 0

\* release_abandon pops the newest entry. Mutant: the oldest.
WithoutOldest == IF abandoned = <<>> THEN <<>> ELSE Tail(abandoned)
WithoutNewest ==
  IF abandoned = <<>> THEN <<>> ELSE SubSeq(abandoned, 1, Len(abandoned) - 1)

\* ABANDONED_ENTRY_TTL passes for the oldest entry it has not passed for.
EntryExpires ==
  /\ Loaded
  /\ \E k \in FreshEntries :
       /\ \A j \in FreshEntries : k <= j
       /\ abandoned' = [abandoned EXCEPT ![k] = "old"]
  /\ UNCHANGED <<pending, slot, hostVars, acceptVars, shutdownVars>>

-----------------------------------------------------------------------------
(* The accept thread: render_frame. A request that is refused because of   *)
(* what is abandoned changes nothing.                                      *)

\* The request is accepted and the hand-off directory swept: an artifact older
\* than the TTL goes, whether or not its receiver came for it.
RequestArrives ==
  /\ pc = "idle" /\ ~Stopped /\ AcceptsNewRender
  /\ \E t \in Tasks : slot[t] = "none" /\ cur' = t
  /\ files' \in SUBSET files
  /\ pc' = "before"
  /\ UNCHANGED <<inventory, slot, hostVars, told, shutdownVars>>

\* edit_info fails, or the scene or the frame is not the one asked for, before
\* or after the task; or the result is an error, or the file cannot be written.
RequestFails ==
  /\ Loaded /\ pc \in {"before", "after"}
  /\ pc' = "idle"
  /\ UNCHANGED <<inventory, slot, hostVars, cur, files, told, shutdownVars>>

\* The last look at the stop signal before the task is put in.
CheckStop ==
  /\ Loaded /\ pc = "before"
  /\ pc' = IF Stopped THEN "idle" ELSE "checked"
  /\ UNCHANGED <<inventory, slot, hostVars, cur, files, told, shutdownVars>>

\* RenderSlot::new counts the task before the host has it.
NewSlot ==
  /\ pc = "checked"
  /\ pc' = "issuing"
  /\ slot' = [slot EXCEPT ![cur] = "pending"]
  /\ pending' = pending + 1
  /\ UNCHANGED <<abandoned, hostVars, cur, files, told, shutdownVars>>

\* rendering_scene_video has put the task in; its callback may run before the
\* call returns.
HostTakesTask ==
  /\ Loaded /\ pc = "issuing" /\ task[cur] = "none"
  /\ task' = [task EXCEPT ![cur] = "queued"]
  /\ UNCHANGED <<inventory, slot, calls, cb, acceptVars, shutdownVars>>

IssueReturns ==
  /\ Loaded /\ pc = "issuing" /\ task[cur] # "none"
  /\ pc' = "waiting"
  /\ UNCHANGED <<inventory, slot, hostVars, cur, files, told, shutdownVars>>

\* The task never reached the host: cancel_unissued.
IssueFails ==
  /\ Loaded /\ pc = "issuing" /\ task[cur] = "none"
  /\ pc' = "idle"
  /\ slot' = [slot EXCEPT ![cur] = "arrived"]
  /\ ReleaseIssue
  /\ UNCHANGED <<abandoned, hostVars, cur, files, told, shutdownVars>>

\* RenderSlot::wait finds the result.
TakeResult ==
  /\ Loaded /\ pc = "waiting" /\ slot[cur] = "done"
  /\ slot' = [slot EXCEPT ![cur] = "taken"]
  /\ pc' = "after"
  /\ UNCHANGED <<inventory, hostVars, cur, files, told, shutdownVars>>

\* What the wait looks at besides the slot. Mutant: a signal of its own, given
\* once the accept loop has ended.
OwnSignal == sd \notin {"running", "stopping"}
StopSeen == Stopped

\* The wait gives up and lets go of the slot's mutex before it abandons.
SeeStop ==
  /\ Loaded /\ pc = "waiting" /\ slot[cur] # "done" /\ StopSeen
  /\ pc' = "abandoning"
  /\ UNCHANGED <<inventory, slot, hostVars, cur, files, told, shutdownVars>>

DeadlinePasses ==
  /\ Loaded /\ pc = "waiting" /\ slot[cur] # "done"
  /\ pc' = "abandoning"
  /\ UNCHANGED <<inventory, slot, hostVars, cur, files, told, shutdownVars>>

\* The two updates of the inventory in abandon_at. Mutant: in the other order.
ReleaseThenRecord(k) ==
  IF k = 1 THEN ReleaseIssue /\ UNCHANGED abandoned
  ELSE abandoned' = Append(abandoned, "fresh") /\ UNCHANGED pending
RecordThenRelease(k) ==
  IF k = 1 THEN abandoned' = Append(abandoned, "fresh") /\ UNCHANGED pending
  ELSE ReleaseIssue /\ UNCHANGED abandoned

\* abandon_at takes the mutex again and keeps it over both updates.
Abandon ==
  /\ Loaded /\ pc = "abandoning" /\ slot[cur] = "pending"
  /\ slot' = [slot EXCEPT ![cur] = "abandoned"]
  /\ RecordThenRelease(1)
  /\ pc' = "releasing"
  /\ UNCHANGED <<hostVars, cur, files, told, shutdownVars>>

AbandonEnds ==
  /\ Loaded /\ pc = "releasing"
  /\ RecordThenRelease(2)
  /\ pc' = "idle"
  /\ UNCHANGED <<slot, hostVars, cur, files, told, shutdownVars>>

\* The callback was faster: the result stays in the slot and dies with it.
AbandonTooLate ==
  /\ Loaded /\ pc = "abandoning" /\ slot[cur] # "pending"
  /\ pc' = "idle"
  /\ UNCHANGED <<inventory, slot, hostVars, cur, files, told, shutdownVars>>

\* The scene is still the one asked for and the artifact is written.
WriteArtifact ==
  /\ Loaded /\ pc = "after"
  /\ pc' = "sending"
  /\ files' = files \cup {cur}
  /\ UNCHANGED <<inventory, slot, hostVars, cur, told, shutdownVars>>

SendResponse ==
  /\ Loaded /\ pc = "sending"
  /\ pc' = "idle"
  /\ told' = told \cup {cur}
  /\ UNCHANGED <<inventory, slot, hostVars, cur, files, shutdownVars>>

\* The response could not be sent: discard_artifact. Mutant: the file stays.
KeptFile == files
DiscardedFile == files \ {cur}

SendFails ==
  /\ Loaded /\ pc = "sending"
  /\ pc' = "idle"
  /\ files' = DiscardedFile
  /\ UNCHANGED <<inventory, slot, hostVars, cur, told, shutdownVars>>

\* The accept loop sees the stop between two requests.
AcceptEnds ==
  /\ Loaded /\ pc = "idle" /\ Stopped
  /\ pc' = "ended"
  /\ UNCHANGED <<inventory, slot, hostVars, cur, files, told, shutdownVars>>

\* The server takes the artifact it was told of.
ServerTakes(t) ==
  /\ t \in files \cap told
  /\ files' = files \ {t}
  /\ UNCHANGED <<inventory, slot, hostVars, pc, cur, told, shutdownVars>>

-----------------------------------------------------------------------------
(* The host's render threads: deliver_frame.                               *)

\* abandon_at holds the mutex of the slot it is abandoning.
MutexFree(t) == ~(pc = "releasing" /\ cur = t)

\* A callback that finds the slot abandoned takes its entry along, once.
\* Mutant: it does not remember that it did.
ArrivedUnmarked(t) == slot
Arrived(t) == [slot EXCEPT ![t] = "arrived"]

ArrivesAbandoned(t) ==
  /\ slot[t] = "abandoned"
  /\ slot' = Arrived(t)
  /\ abandoned' = WithoutNewest
  /\ UNCHANGED pending

\* note_callback_arrival: only a pending slot needs the picture.
CallbackArrives(t) ==
  /\ Loaded /\ task[t] = "queued" /\ cb[t] = "away" /\ calls[t] < MaxCalls
  /\ MutexFree(t)
  /\ calls' = [calls EXCEPT ![t] = @ + 1]
  /\ cb' = [cb EXCEPT ![t] = IF slot[t] = "pending" THEN "copying" ELSE "leaving"]
  /\ \/ ArrivesAbandoned(t)
     \/ slot[t] # "abandoned" /\ UNCHANGED <<slot, inventory>>
  /\ UNCHANGED <<task, acceptVars, shutdownVars>>

\* complete: the slot may have been abandoned while the picture was copied.
CallbackCompletes(t) ==
  /\ Loaded /\ cb[t] = "copying" /\ MutexFree(t)
  /\ cb' = [cb EXCEPT ![t] = "leaving"]
  /\ \/ ArrivesAbandoned(t)
     \/ /\ slot[t] = "pending"
        /\ slot' = [slot EXCEPT ![t] = "done"]
        /\ ReleaseIssue
        /\ UNCHANGED abandoned
     \/ slot[t] \notin {"abandoned", "pending"} /\ UNCHANGED <<slot, inventory>>
  /\ UNCHANGED <<task, calls, acceptVars, shutdownVars>>

CallbackReturns(t) ==
  /\ Loaded /\ cb[t] = "leaving"
  /\ cb' = [cb EXCEPT ![t] = "away"]
  /\ UNCHANGED <<inventory, slot, task, calls, acceptVars, shutdownVars>>

\* The host is done with a task.
HostFinishes(t) ==
  /\ task[t] = "queued" /\ calls[t] > 0 /\ cb[t] = "away"
  /\ task' = [task EXCEPT ![t] = "finished"]
  /\ UNCHANGED <<inventory, slot, calls, cb, acceptVars, shutdownVars>>

-----------------------------------------------------------------------------
(* The main thread: run_shutdown_sequence.                                 *)

\* PipeServer::stop signals and joins the accept thread ...
Stop ==
  /\ sd = "running"
  /\ sd' = "stopping"
  /\ UNCHANGED <<inventory, slot, hostVars, acceptVars, counted, detached, timedOut>>

Join ==
  /\ sd = "stopping" /\ pc = "ended"
  /\ sd' = "counting"
  /\ UNCHANGED <<inventory, slot, hostVars, acceptVars, counted, detached, timedOut>>

\* ... or gives up after STOP_TIMEOUT and lets it run on.
Detach ==
  /\ sd = "stopping" /\ pc \in Blocking
  /\ sd' = "counting"
  /\ detached' = pc
  /\ UNCHANGED <<inventory, slot, hostVars, acceptVars, counted, timedOut>>

\* drain_render_tasks: outstanding() reads `pending', then the entries.
ReadPending ==
  /\ sd = "counting"
  /\ sd' = "counted"
  /\ counted' = pending
  /\ UNCHANGED <<inventory, slot, hostVars, acceptVars, detached, timedOut>>

ReadAbandoned ==
  /\ sd = "counted"
  /\ sd' = IF counted + Len(abandoned) = 0 THEN "drained" ELSE "waiting"
  /\ UNCHANGED <<inventory, slot, hostVars, acceptVars, counted, detached, timedOut>>

\* wait_rendering_task returns when the host has no task left.
WaitReturns ==
  /\ sd = "waiting" /\ \A t \in Tasks : task[t] # "queued"
  /\ sd' = "drained"
  /\ UNCHANGED <<inventory, slot, hostVars, acceptVars, counted, detached, timedOut>>

WaitTimesOut ==
  /\ sd = "waiting"
  /\ sd' = "drained"
  /\ timedOut' = TRUE
  /\ UNCHANGED <<inventory, slot, hostVars, acceptVars, counted, detached>>

\* discard_artifacts: remove_all.
RemoveArtifacts ==
  /\ sd = "drained"
  /\ sd' = "removed"
  /\ files' = {}
  /\ UNCHANGED <<inventory, slot, hostVars, pc, cur, told, counted, detached, timedOut>>

\* The host unmaps the module; nothing in it runs any more.
Unload ==
  /\ sd = "removed"
  /\ sd' = "unloaded"
  /\ UNCHANGED <<inventory, slot, hostVars, acceptVars, counted, detached, timedOut>>

-----------------------------------------------------------------------------
\* What the accept thread does without waiting for the host or the deadline.
AcceptStep ==
  \/ CheckStop \/ NewSlot \/ TakeResult \/ SeeStop \/ Abandon \/ AbandonEnds
  \/ AbandonTooLate \/ SendResponse \/ SendFails \/ AcceptEnds

\* What depends on the client and the host.
AcceptCall ==
  \/ RequestArrives \/ RequestFails \/ IssueReturns \/ IssueFails
  \/ DeadlinePasses \/ WriteArtifact

ShutdownStep ==
  \/ Join \/ Detach \/ ReadPending \/ ReadAbandoned \/ WaitReturns
  \/ WaitTimesOut \/ RemoveArtifacts \/ Unload

HostStep ==
  \/ HostTakesTask
  \/ \E t \in Tasks :
       \/ CallbackArrives(t) \/ CallbackCompletes(t) \/ CallbackReturns(t)
       \/ HostFinishes(t) \/ ServerTakes(t)

Next == AcceptStep \/ AcceptCall \/ ShutdownStep \/ HostStep \/ EntryExpires \/ Stop

\* Threads that can run do, and time passes; nothing is assumed of the client,
\* of the deadline (it may be far away) or of the host's calls.
Fairness == WF_vars(AcceptStep) /\ WF_vars(ShutdownStep) /\ WF_vars(EntryExpires)

Spec == Init /\ [][Next]_vars
FairSpec == Spec /\ Fairness

-----------------------------------------------------------------------------
SlotStates == {"none", "pending", "done", "taken", "abandoned", "arrived"}
ShutdownStates == {"running", "stopping", "counting", "counted", "waiting",
                   "drained", "removed", "unloaded"}

TypeOK ==
  /\ pending \in Nat /\ abandoned \in Seq({"fresh", "old"})
  /\ slot \in [Tasks -> SlotStates]
  /\ task \in [Tasks -> {"none", "queued", "finished"}]
  /\ calls \in [Tasks -> Nat]
  /\ cb \in [Tasks -> {"away", "copying", "leaving"}]
  /\ pc \in AcceptStates /\ cur \in Tasks
  /\ files \subseteq Tasks /\ told \subseteq Tasks
  /\ sd \in ShutdownStates /\ counted \in Nat
  /\ detached \in AcceptStates \cup {"no"} /\ timedOut \in BOOLEAN

\* Tasks the host has and has not called back for.
Owed == {t \in Tasks : task[t] = "queued" /\ calls[t] = 0}

\* When the drain ends without giving up, no callback is still to come: neither
\* a late answer, nor a request that was past the stop, nor the moment between
\* two updates of the inventory is missed by the count (drain_render_tasks,
\* RenderInventory::outstanding, abandon_at). Nothing can be promised for a
\* request whose look at the stop signal, or whose call into the host, outlasts
\* the join: the count may come before it.
DrainedOwesNothing ==
  /\ sd \in {"drained", "removed", "unloaded"} /\ ~timedOut
  /\ detached \notin {"checked", "issuing"}
  => Owed = {}

\* The inventory counts every task whose callback is still to come and no task
\* twice: it is exact when the accept thread is not inside abandon_at, also when
\* the host calls back twice.
InventoryExact ==
  pc # "releasing" =>
    /\ pending = Cardinality({t \in Tasks : slot[t] = "pending"})
    /\ Len(abandoned) = Cardinality({t \in Tasks : slot[t] = "abandoned"})

\* At most MAX_ABANDONED_RENDERS tasks within the TTL are abandoned.
AbandonedBounded == Cardinality(FreshEntries) <= MaxAbandoned

\* A late callback makes room for a new request whenever the TTL has not already
\* done so, in whatever order tasks are abandoned and answered (release_abandon).
ArrivalMakesRoom ==
  [][Len(abandoned') < Len(abandoned) /\ FreshEntries # {} =>
       Cardinality(FreshEntries') < Cardinality(FreshEntries)]_vars

\* A file in the hand-off directory is one whose token is being sent or known
\* to the receiver (discard_artifact): none is left to the sweep by a failed send.
FileHasOwner == \A t \in files : t \in told \/ (pc = "sending" /\ cur = t)

\* Rendering becomes available again although the host never answers
\* (ABANDONED_ENTRY_TTL).
AcceptsAgain == []<>(AcceptsNewRender \/ ~Loaded)

\* A request finds room again: by what comes late, and else by what grows old.
RoomComesBack == ArrivalMakesRoom /\ AcceptsAgain

\* The shutdown ends although the host never calls back and a call into it never
\* returns: the wait for a picture sees the stop, the rest is given up on.
ShutdownEnds == sd = "stopping" ~> sd = "unloaded"
=============================================================================
