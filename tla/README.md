# Verification of the AviUtl2 MCP plugin

TLA+ models of the program under `src/`, the TLC runs that check them on small
instances, and TLAPS proofs of the results that should hold for every instance.
Line numbers refer to files under `src/crates/`.

## The system

An MCP client talks over stdio to `aviutl2-mcp-server.exe`; the server talks over
a named pipe to `aviutl2-mcp-plugin.aux2`, which lives in the AviUtl2 process and
calls its SDK.

| component | state it keeps | operations | talks to | what is hard |
|---|---|---|---|---|
| project boundary (`plugin/project.rs`, `lib.rs` handlers) | epoch, revision, modified, identity | load, save, update handlers; `on_edit_issued` | host threads call it, the accept thread reads it | three threads, no common lock; a load writes three fields one after the other |
| edit requests (`plugin/edit/*`) | per request: boundary, permit, revision before | verify, resolve, issue, read back, restore, attribute | edit section on the host's main thread | panics that unwind the permit, partial failure, stale selectors |
| batch (`plugin/edit/batch.rs`) | plan with inverses, counters | plan, apply, roll back, summarise | same section | failure in the middle, order of inverses, what the answer may claim |
| read requests (`plugin/read/*`) | none | status, objects, selection, pages | read section | epoch and revision taken at different moments |
| render (`plugin/render/*`) | outstanding and abandoned tasks, slots, artifacts | request, callback, wait, abandon, drain | host render threads call back at any time | late callbacks, timeouts, unloading while a callback runs |
| session (`plugin/session*`, `pipe.rs`, `win_io.rs`) | connection, handshake state, deadlines | accept, handshake, request loop, stop; read and write a frame | pipe client | deadlines, results that may not be lost, stop during I/O, buffers the kernel still uses |
| lifecycle, registry (`plugin/lifecycle.rs`, `registry.rs`) | state, descriptor file | register, transition, update, shutdown | server discovery reads the file | file and memory out of step, shutdown racing updates |
| discovery, client (`server/discovery.rs`, `pipe_client.rs`) | none between calls | list, connect, handshake, call, clean up | registry, pipe | stale descriptors, a PID that was reused |
| one-target edits (`plugin/edit/adapter*`, `resolve.rs`) | none between requests | create, move, delete, rename, sections, effects, item values, layers, scene settings, selection | same section | a host that ignores, adjusts or half carries out a call; twins; what a failure may claim |
| paging (`core/page.rs`, `plugin/read/adapter.rs`) | none | cut a page, compare the snapshot revision | read section | pages of different moments |
| artifacts (`server/artifact.rs`) | stored files, total size, session directory and its lock | ingest, read, expire, evict, sweep | plugin hand-off directory, other servers | two owners of a file, concurrent ingests, a clock that is set back |
| settings (`core/settings.rs`, `plugin/settings.rs`, `server/settings.rs`, `server/mcp/tool_catalog.rs`) | cached snapshot with its stamp, file | load, save, adopt, watch, notify | one file, several processes | partial writes, missed notifications, lost updates |
| MCP tools (`server/mcp/*`) | permits of concurrent calls | tools/call, tools/list, resources | client and discovery | phases with one budget, connections that break |
| agent plugin (`plugin/agent_plugin*`) | the generated tree | sync at the start and after a save: prune, write, copy | clients read it and run the server in it | several processes, a sync that stops half-way, a server that cannot be replaced |
| item values (`core/item_value.rs`, `track_value.rs`, `text_codec.rs`, `plugin/edit/adapter/item_write.rs`) | none; the list of movements, read once | validate, encode, decode, compare | the host, which takes and gives one line of text | a line the host cannot take apart ends the editor; a number wipes out a movement |
| other value types, codecs (`core/*`), dialog, tables | none | pure functions | - | width and format boundaries |

What makes each correct:

- *Project and edits*: an edit lands on what the client read; one request advances
  the revision at most once; an answer never denies a change that was made; a
  change made through the plugin never looks saved.
- *Batch*: seen by a client it is one step, or the answer admits that it is not.
- *Render*: a late callback touches nothing that is gone, is counted once, and the
  module is not unloaded under a running callback.
- *One-target edits*: an answer names what is there; what it says of a failure is
  true; nothing changes but what was asked for.
- *Paging*: the pages a client joins belong to one moment.
- *Session*: every request is answered in time or the connection ends; what a caller
  is told of its edit is true and stays true.
- *Lifecycle*: a descriptor that discovery finds belongs to a live instance or is
  cleaned up; no descriptor is left after shutdown.
- *Artifacts, settings*: a file has one owner and none is forgotten; a reader never
  sees half of a write; no save undoes another; no change is missed.

## Plan

What there is, in the order it was written:

1. `EditRequest` (project state, host threads, one edit); `EditBatch`, which
   implements `BatchPromise`.
2. `RenderTasks`: slots, inventory, callbacks, stop, drain, hand-off files.
3. `InstanceRegistry`, which implements `RegistryPromise`: registration, transitions,
   the accept loop, shutdown, discovery with stale clean-up.
4. `ArtifactStore`; `SettingsFile`, which implements `SharedFile`, and
   `SettingsWatch`, which relies on it; `AgentPlugin`, joined to `SettingsFile` by
   `DataDirectory`.
5. `Session`: one tool call in time, both ends of the connection; `PipeFrames`, the bytes of
   its frames; joined by `Connection`.
6. `EffectColumn`, `ObjectTimeline`, `SceneSettings`, `Listing`, `ItemWrites` (on the
   functions of `ItemSpelling`), joined by `SceneEdits`.

All of these have proofs. What could be added: the table of an alias file around its rows.

## Modules

### EditRequest

`epoch`, `revision`, `modified` are the fields of `ProjectState`
(`plugin/project.rs:215`); an epoch is a number instead of a UUID, so "renewed" is
"one more". The host is three variables: which project is open (`world`, and
`epochWorld`, the one open when the epoch was issued), what the addressed object
looks like (`content`, a fingerprint) and whether a plugin change is unsaved.

| thread | actions | code |
|---|---|---|
| main | `UserEdit`, `NewProject`, `OpenProject`, `SaveProject`; `LoadRenewsEpoch`, `LoadResetsRevision`, `LoadClearsModified` | host; `ProjectState::on_project_load`, one action per field it writes |
| event | `EventAddsRevision`, `EventSetsModified` | `on_object_updated`, `on_scene_changed` |
| accept, reads | `ReportEpoch`, `ReportRevision`; `ObjectReadStart`, `ObjectReadSection` | `project_status`, `render_frame`; `get_object` |
| accept, edit | `EditArrives` ... `ClientReceives` | `edit_section`, `verify_boundary`, `MutationPermit`, `attribute_lost_issue` |

The load and event handlers exclude each other by the plugin singleton's write
lock; nothing covers the accept thread, which reads at any step. Inside a section
the main thread is taken, so no load runs, but events do. `advances`,
`resetSince` and `pairs` are history: the code has no such fields.

An operation is what its mutation calls leave behind: each call changes the
fingerprint or not, fails or not, and is followed by an update event or not. A
call the wrapper refuses (`NotIssued`) is a separate action. The rollback of a
failed read-back is more calls.

### EditBatch, BatchPromise

One section of `apply_batch`: `Plan` resolves all targets and their inverses,
`MoveApplied`, `SetVerified`, `StepRefused`, `CallFails`, `SetUnverified` are one
step of `apply`, `InverseRestores`, `InverseFails` one step of `roll_back`, then
`RolledBack` or `Summarize` answers. `Panic` unwinds the plan. A move lands where
the host puts it (`Landings`: anywhere with room), since the code does not compare
the landing; an item write is read back, and every kind of item that can be
written is compared (`core/item_value.rs:625`), so `SetVerified` leaves the value
asked for, up to the comparison the kind uses.

`BatchPromise` is the same seen by a client: `Refuse`, `Apply` or `Admit`. The
mapping shows the client the original project until the batch has answered.

### RenderTasks

`pending` and `abandoned` are `RenderInventory` (`plugin/render/slot.rs:94`); an
entry of `abandoned` is fresh or older than the TTL. `slot` is `RenderSlot.state`;
"arrived" is `Abandoned` with `callback_arrived`. Three threads and the host:

| thread | actions | code |
|---|---|---|
| accept | `RequestArrives`, `CheckStop`, `NewSlot`, `IssueReturns`, `IssueFails`; `TakeResult`, `SeeStop`, `DeadlinePasses`; `Abandon`, `AbandonEnds`, `AbandonTooLate`; `WriteArtifact`, `SendResponse`, `SendFails`; `AcceptEnds` | `render_frame`, `RenderSlot::wait`, `abandon_at`, `deliver_render_response`, `accept_loop` |
| host | `HostTakesTask`, `CallbackArrives`, `CallbackCompletes`, `CallbackReturns`, `HostFinishes` | the SDK; `note_callback_arrival`, `complete`, `deliver_frame_guarded` |
| main | `Stop`, `Join` or `Detach`, `ReadPending`, `ReadAbandoned`, `WaitReturns` or `WaitTimesOut`, `RemoveArtifacts`, `Unload` | `run_shutdown_sequence`, `PipeServer::stop`, `drain_render_tasks`, `discard_artifacts` |
| server | `ServerTakes` | `take_handoff` |

`abandon_at` is two steps, because the shutdown reads the inventory without the
slot's mutex; the mutex keeps callbacks of the same slot out (`MutexFree`).
`Blocking` names where the accept thread can outlast `STOP_TIMEOUT`. The safety run
and the proof of `DrainedOwesNothing` allow it everywhere except between the look
at the stop signal and the host's acceptance of the task; what happens when it
blocks there too is under "What the conditions exclude".

### InstanceRegistry, RegistryPromise

One instance and the servers that look for it. `descriptor` and `shutdown` are the
fields of `Lifecycle` (`plugin/lifecycle.rs:17`), `file` is what stands in the
registry, `stop` the stop event. A descriptor is its state and its project; the
PID is `proc` (who has it now) and the creation time is `stamp`: exact, or the
clock's when it could not be read. `accept` is the place of the accept thread and
with it the pipe: it exists from `CreatesPipe` to the end of the connection.

| thread | actions | code |
|---|---|---|
| main | `WriteStarting`, `StartPipe` or `StartFails`; `HostLoads`, `LoadReady`, `SyncProject`, `HostSaves`; `HostExits`, `StopPipe`, `Joined` or `JoinTimesOut`, `Shutdown`, `MarkGone`, `RemoveOwn` | `register`; `apply_project_load`, `sync_project`; `drop`, `PipeServer::stop`, `Lifecycle::shutdown`, `mark_gone` |
| accept | `LoopChecks`, `CreatesPipe`, `Accepts`, `ListenEnds`, `ListenRetries`; `Handshake`, `RequestLoop`, `ReadEnds`, `AnswerPing`, `AdmitRequest`, `ExecutionEnds` | `accept_loop`, `await_connection`; `perform_handshake`, `run_request_loop`, `admit_request` |
| a server | `BeginList` or `BeginCall`, `ReadFile`, `LookUp`, `Connects`, `Greeted`, `Ponged`, `CallEnds`; `Reread`, `LookAgain`, `RemoveStale`; their failures | `find_instances`, `resolve_instance`, `verify_candidate`; `try_cleanup_stale_descriptor` |
| Windows | `ProcessEnds` (at any moment), `PidChangesHands` | - |

Every write of the descriptor may fail, and leaves the memory changed (`Writes`).
The write itself is one step: a temporary file replaces the old one. A lookup of a
process can fail each time. The handshake is one exchange, since both ends give up
the connection on any deviation. `Shutdown` sets the flag or not, because the log
call in `transition_to` may panic in between; the later stages run all the same.
`Slow` is where the accept thread may outlast `STOP_TIMEOUT`: in a call, since all its
other waits see the stop event. `list_registered_instances` stops after `LookUp` and
removes nothing; a call that ends there covers it. What project handlers do to
epoch and revision is in `EditRequest`, the drain of renders in `RenderTasks`.

`RegistryPromise` is one entry and its owner: published once, withdrawn by a living
owner, collected after its death.

### ArtifactStore

`entries` is `ArtifactStore.entries` (`server/artifact.rs`), each with its place in the
list; `disk` is what stands in the session directory, `stuck` what could not be
removed, `handoff` the plugin's files. A tool call is a blocking task: `TakeHandoff`
(copied and verified) or a refusal, `DirectoryStands` or `DirectoryMissing` with
`CreateDirectory` and `TakeLock`, `WriteArtifact` or `WriteFails`, `Register`,
`RemoveHandoff`. `Register` is one step: under the list's lock it expires, reads the
limits, evicts and enters. `LookUp` is a read, which expires too. `OpenLocks`, `Crash`
and `Drop` are the process; `SweepSees`, `SweepAsks`, `SweepRemoves` another server
that starts and looks whether the lock is held. Around them the clock moves in both
directions, the settings change, the plugin discards, the user removes the directory.

### SharedFile, SettingsFile, SettingsWatch

`SharedFile` is what a reader can rely on: whole documents, replaced or not, at times
nothing that can be opened; and `Refreshed`, what `SettingsReader` makes of a reading. A
document is the set of items it moves away from their default. A replacement that fails
may leave no file (`Lost`, when "loss" is in `Racing`).

`SettingsFile` is the writers': dialogs of several AviUtl2 processes take the named
mutex, read, lay their change over what they read, write a temporary file, replace,
and adopt what they wrote after the mutex was given back (`plugin/settings.rs`,
`atomic_file.rs`); a process may die anywhere. It implements `SharedFile`
(`FileStaysWhole`). `SettingsWatch` EXTENDS it with the server: the watcher thread
(`IssueWatch`, `Wake`, `Reload`, `ReloadFails`, `Publish`; `WatchEnds` on any error), the
kernel's notes between two requests, and the task that tells the client when the
visible tools change (`ClientInitialized`, `SubscriberWakes`, `SendNotification`,
`ClientLists`).

### AgentPlugin, DataDirectory

`tree` says of each generated file whether it is missing, as this version makes it, or
something else (an older version's, edited by hand); `dirs` are the directories, with
those that hold a file of somebody else in `foreign`. A file is its place in the sorted
list `Generated`, a path a sequence of names. `sync` runs in the process that starts
(`StartsUp`) or whose dialog has saved (`SavesAndSyncs`), step by step: `RemoveFile`,
`RemoveDirectory` (`prune`), `SourceMissing` or `SourceFound`, `WriteIfChanged`,
`CopyExecutable` (`apply`). A removal that fails is passed over, a write that fails ends
the sync, a copy that fails is only logged. Nothing keeps two processes apart; `clean` is
history: one sync alone has run since the last upset. `DataDirectory` puts `SettingsFile`
and `AgentPlugin` side by side (`part`).

### Session

One tool call in time. `call` is the server's side (place, kind, time left, answer),
`conn` the only pipe instance with the frames in it, `plugin` the accept thread,
`carried` what the wall clock leaves of the request's deadline, `running` and `applied`
the edits whose section has not returned and those that changed the project.

| end | actions | code |
|---|---|---|
| server | `Begin`, `Connect`, `GiveUpConnecting`, `Authenticate`, `Ask`, `PingFails`, `TakeAnswer`, `NoAnswer` | `server/pipe_client.rs`, `mcp/server.rs`, `mcp/failure.rs` |
| plugin | `PluginHello`, `PluginAuth`, `PluginPing`, `PluginRequest`, `EditTakesEffect`, `Finish`, `SendReply`, `PluginDrops` | `perform_handshake`, `run_request_loop` and what they call (`plugin/session.rs`) |
| around | `Tick`, `LifecycleMoves`, `ClockJumps` | deadlines, `lifecycle.rs`, the wall clock |

`Tick` moves every deadline that runs and charges the exchange (`spent`), so that "each
stage kept within its share" can be said. The budgets are constants with the
inequalities that `ScaledBudgets::build` checks before it adopts a set.

### PipeFrames, Connection

The same connection after its handshake, unit by unit. `stream` is what is on its way to
each end, `task` what the end's thread is at (a frame it writes, or one its decoder is
fed), `op` its `OverlappedOp`, `kernel` that operation as Windows has it, `late` the
deadline of the task, `desynced` the mark of the client.

| who | actions | code |
|---|---|---|
| client | `ClientAsks`, `ClientCloses` | `exchange` (`server/pipe_client.rs`), the drop of the handle |
| plugin | `PluginReads`, `PluginAnswers`, `StopSignalled` | `run_request_loop`, `send_response`, `PipeServer::stop` |
| both | `Issue`, `RefusesToIssue`, `TakesResult`, `FindsItBroken`, `GivesUp`, `Drained` | `transfer_once`, `cancel_and_drain` (`win_io.rs` of both crates), `read_frame` |
| Windows | `KernelReads`, `KernelWrites`, `KernelFinds`, `KernelAborts` | - |

An operation that is given up may have been carried out: the kernel moves units at any
moment until it has answered the cancellation. `Connection` puts the two views side by
side; a behaviour is about one (`view`).

### EffectColumn, ObjectTimeline, SceneSettings, Listing, ItemWrites, SceneEdits

The operations on one target. Each is one edit section on the host's main thread, so
one step from its checks to its answer (observations after the section are a step of
their own in `SceneSettings`); what threads do in between is in `EditRequest`. The host
chooses: it may adjust, ignore or fail each call, and fail each read. Before the
request the user may have changed what the client read.

- `EffectColumn`: the effects of an object. Selectors by name and index with two
  fingerprints (`ResolvesTo`); `AddEffect`, `DeleteEffect`, `SetEffectEnabled`,
  `SetObjectItem`, `MoveEffect` with what they put back.
- `ObjectTimeline`: objects, their sections, layers. `CreateObject`, `MoveObject`,
  `DeleteObject`, `SetObjectName`, the three requests on sections, `SetLayerState`.
- `SceneSettings`: `SetGridBpm`, `SetSceneSettings`, `SetSelection`, the observations.
- `Listing`: `list_objects` page by page: `ListObjects` reads epoch, scene and top layer,
  `ListSection` revision and objects, while edits, late events and loads go on.
- `ItemWrites`: the value of one item. `item` is what the host holds, as the host
  understands it; the client and the plugin only ever see its line. `ReadItem` is
  `host_item`, `WriteItem` and `WriteBack` (of what was read, unchanged) are
  `set_object_item` with its refusals, its reading back and its restoring,
  `CreateFromAlias` is `admit_rows` and the creation that follows.

`ItemSpelling` has the functions `ItemWrites` rests on, each for the function it names: what
is a valid movement (`TrackFits`), the line of a value and the value of a line
(`EncodedTrack`, `DecodedTrack`), the escapes of a text (`Escaped`, `Unescaped`), what
counts as read back (`Matches`). A line is a sequence of tokens: numerals, words, and the
characters with a meaning. Numbers are naturals, since both sides compare them as
numbers; signs, fractions and digits are left out.

The host of `ItemWrites` is not under `src/` and is modelled from what the plugin's code
and comments say it does: it cuts numbers to their range, does not take a word it does not
know, turns a wrong colour into the default, loses some movements on writing
(`LostModes`), replaces parameters of the wrong number the next time the object is read
(`Settled`), may ignore a call, and ends the process over a line it cannot take apart
(`Crash`). Calls that fail are in `EffectColumn`. The type of an alias's item is taken as
found; a row whose type cannot be looked up passes as it is (`plugin/alias.rs:602`). The list of movements is the host's minus
those the embedded table excludes, or empty when its file could not be read.

`SceneEdits` joins them. They share no state; `part` says which one a behaviour is
about, so that one run checks all and the state counts add instead of multiplying.

## Runs

| run | question | instance |
|---|---|---|
| `edit_safety` | do the safety properties of an edit hold against loads, new projects, saves, late events, reads? | one load or new project, two fingerprints, revision up to 2, two calls per request |
| `edit_answered` | is every edit answered, also when calls panic? | the same with one call |
| `batch_atomic` | is a batch one step for the client? | two objects of lengths 1 and 2 in four frames, three steps |
| `render` | is the drain complete, every file owned, does a late answer make room? does rendering come back and the shutdown end with a host that never answers? | two requests, one abandoned at most, two callbacks per task, a stop anywhere, calls that never return |
| `registry_safety` | who removes a descriptor, who can be found, does the file follow? | two servers, one project file, three events, two failed writes |
| `registry_live` | does the shutdown end, does a silent client give the pipe back, does a dead process's descriptor go? | one server, a known and an unknown creation time |
| `store_safety` | are the limits kept, is every file accounted for, is a live store left alone? | two calls, three images of one or two units, limits that change, one step of the clock in each direction, one failed removal |
| `settings_save` | does every save keep what others saved, and every reader find it? does one sync repair the generated tree? | two processes, two items, three writes, one fault; four generated files of different kinds, four offers, one upset |
| `settings_follow` | does a change reach the server and the client? | an item that hides a tool and one that does not, three attempts, two writes, two faults |
| `session` | is what a caller is told of its call true, the result of an edit kept for it, and prompt work answered? does a frame stay one, and a buffer as long as the kernel uses it? | two calls of four kinds, stages of one to three ticks, one I/O error or adjusted clock; frames of a length and three units, chunks of two, a pipe with room for two, three requests |
| `edit_operations` | is what an operation answers true of the scene, do pages fit, does an item mean to the host what it means to the client? | three effects of two names and two values; three layers, four frames, four objects, three aliases; values 0 to 2; lists of up to three objects on two layers; one change in between, three for a listing; four movements, texts of up to three tokens, one or two sections |
| `expression_read_back` | is the expression of a movement that is answered as written the one asked for? | as `edit_operations` |

Every action of every module fires in some run. All runs pass but the last, which finds
`ExpressionIsWritten` violated. A movement is set over one with another expression, the
host does not heed the set, and the write is answered as done: `track_read_back_matches`
(`core/track_value.rs:668`), which is to say whether what was written and what is read are
the same movement, compares values, mode, flags and parameters, and the flags say no more
than that there is an expression.

Where the passing runs hold only under a condition, the condition is a constant or a conjunct with a name ("What the
conditions exclude").

What the runs check is what takes several steps or several actors to break. Other
invariants are proved for all instances and not checked again by a run: the types of
seven modules, `InventoryExact`, `OneAdvancePerRequest`, `CompleteMeansRestored`, `AbandonedBounded`,
`RemovalIsOfTheDead`, `NeverAnswersStale`, `ListedIsReadable`, `KeptWhilePromised`,
`HopelessIsSaidSo`.

`RoomComesBack` joins `ArrivalMakesRoom` (which entry a late answer takes along) and `AcceptsAgain`,
`EditMeetsItsCaller` joins `EditStartsWhileAwaited` and `EditResultIsKept` (an edit that was made is
answered however late, as long as its caller waits).
The joined properties of `edit_operations` collect what the parts state:
`AnswerNamesWhatIsThere` (new effects, new and moved objects), `AnswerAdmitsWhatIsLeft`
("restored", failures without a mark, the lists of a selection) and `OnlyWhatWasAsked`
(the effect that was read, locked layers, section numbers). `ItemsMeanWhatIsSaid` joins
`WrittenIsMeant` and `ReadsAsItIs`, `ChangesArrive` joins `ServerFollows` and `ClientFollows`.

Why the bounds are enough: one load against one request gives every position of
the load's three writes in the request and in the reads before it, and requests
repeat without bound, so a load can also lie between a read and the edit. Two
calls per request give a first and a later one. In `EditBatch` three steps on two
objects let a move take the place another left, a move and an item write share an
object, and a failure come first, in the middle and last; four frames leave room
for the host to put an object beside where it was asked to go. Guards with
`MaxEpoch`, `MaxWorld`, `MaxRevision`, `MaxEvents`, `MaxIssues`, `MaxSteps` are the
only bounds.

In `RenderTasks` two requests against a limit of one give an abandoned task that keeps the
next request out, a request served while the older callback is under way, and a
detached request beside a drain; two callbacks per task give the second one the code
guards against. `Tasks`, `MaxAbandoned` (a constant of the code, 4 there) and
`MaxCalls` are its only bounds.

In `InstanceRegistry` two servers give a removal that races another and a client
that finds the only pipe taken; three events give a load, a save and a load after a
failed write; two failed writes let one be made up for and one be the last.
`MaxEvents` and `MaxFailedWrites` are its only bounds.

In `ArtifactStore` two calls and three images let two ingests overlap, a third push an
older one out, and the limit fall from two to one between an ingest's look and
another's; sizes 1 and 2 separate the limit in number from the one in bytes. A clock
of two values goes forward and back. In `SettingsFile` three writes are two saves that
overlap and an edit by hand before, between or after them. In `AgentPlugin` two
processes give overlapping syncs, four files one of each kind in directories of depth one
and two, and one upset a sync that stopped anywhere or a change by hand. In `SettingsWatch` two
changes are one during a reload and one after it, two faults a held file and a lost
notification. In `Session` two calls are one that holds the pipe and one that waits for
it, or fetches again after it; an execution of two ticks can end early, just in time
or too late, an edit has one more. In `PipeFrames` a body of three units and chunks of two
give a length, a full chunk and a shorter one; room for two units lets a writer wait
with a part of its frame out, and three requests let an answer that came too late meet a
later one. In `edit_operations` three effects of two names give
twins with another between them, which is where indices and moves go wrong; requests
are for one of three layers, the others are where a creation puts further objects; three objects with a page of
one give a first, a middle and a last page, and three changes can undo each other. Of an
item's four movements one takes no parameters, one takes a single one, and two are lost
when they are written, of which the table knows one; `TopValue = 2` lets a number be cut,
texts of three tokens put a backslash before and behind every other, and `MaxTokens` lies
between the shortest and the longest line of a movement. `Tokens` are those that are in
some line of the instance, `MaxNumber = 31` all that the flags of a movement can be there.
`MaxClock`, `MaxStuck`, `MaxWrites`, `MaxFaults`, `MaxMishaps`, `MaxRequests`, `MaxUpsets`, `MaxColumnEdits`,
`MaxTimelineEdits`, `MaxSettingsEdits`, `MaxSceneChanges` are the bounds.

`InstanceRegistry` and `ArtifactStore` end with the process, and others may stop looking.
`EditBatch`, `RenderTasks`, `Session` and the parts of `SceneEdits` really end (a batch or
request is answered, a module unloaded, all calls are over), and in `SettingsWatch`
everybody may stop writing. The runs of these do not look for deadlock; the others do.

Fairness (`FairSpec`, `PluginSpec`): the load handler and the event handler run to their end
and the accept thread goes on when it can (threads are scheduled); the section is
granted again and again (`SF`), because the host runs queued sections between two
operations of the user. Nothing is assumed of the user or of the client. In
`RenderTasks` the accept thread's own steps and the shutdown's are fair (threads are
scheduled, both waits of the shutdown have a timeout) and entries grow old; a call
into the host may never return, a callback may never come, a deadline may be far. In `InstanceRegistry` the
main and the accept thread are fair (waits end by deadlines or the stop event); a
call into the host ends only while the main thread is idle (`pc = "idle" /\
ExecutionEnds`), which is what makes the shutdown's join interesting. `StaleGoes`
also has as hypothesis that somebody goes on listing, whose lookups and removals do
not fail each time (`CleanupFairness`): the program has no clean-up of its own. In `SettingsWatch` the watcher thread and the tasks of the
runtime go on when they can, a replacement ends, and whoever holds the file lets go of
it; nobody has to write, and every failure may happen until `MaxFaults`.

## What the conditions exclude

Some properties carry a condition, because the models (and the code) violate them
without it; others are not stated, because they do not hold. Most can be seen by
dropping the condition and running the same configuration.

Edits and batches:

- `RunsThenPanics = FALSE` in `edit_safety` and for `NoSilentChange`. When the
  section call panics after its callback returned (`plugin/edit/adapter.rs:130`),
  `edit_section` answers without attributing the change.
- `resetSince /\ revision = before` in `NoSilentChange`. `before` (`plugin/edit/adapter.rs:126`)
  is read ahead of the section, and not on the thread that loads. With revision 1, a load
  has renewed the epoch and not yet reset the revision; a request for the new epoch reads
  `before` = 1; the reset, one change, a panic: the revision is 1 again, and the answer is
  a failure that changed nothing, where the comment above says that comparing may report
  too much and misses nothing. No other load hides a change.
- The call of an SDK function and `record_issue` behind it
  (`plugin/edit/precondition.rs:199`) are one step, `IssueMutation`: both are on the main
  thread, which the section occupies. No operation asks for a second permit, so that
  `MutationPermitReissued` does not occur.
- The pair of epoch and revision that `render_frame` (`plugin/render/adapter.rs:206`) and
  the status report read one after the other need never have been current: a load may
  lie in between. No property relates the two parts of a report; `ReportEpoch` and
  `ReportRevision` are separate steps, and an edit carries the epoch only.
- `FailedCallApplies = FALSE` in `batch_atomic`. `issue` (`plugin/edit/batch.rs:453`) takes a
  mutation call that reports failure as not applied and leaves it out of the
  rollback, which then says "complete".

Rendering and shutdown:

- `DrainedOwesNothing` speaks of callbacks to come, not of running ones: `outstanding`
  (`plugin/render.rs:136`, `:153`) is zero as soon as a callback has given up its count,
  while it is still inside the module; the shutdown goes on to the unload.
- `detached \notin {"checked", "issuing"}` in `DrainedOwesNothing`. A request detached between
  its last look at the stop and the return of `rendering_scene_video`
  (`plugin/render/adapter.rs:189`) gives its task to the host after the drain waited for all
  tasks.
- No property says that the artifact directory stays removed: a render detached
  while it was blocked in `edit_info` writes its file after `remove_all`
  (`plugin/lib.rs:511`).

Items:

- `Means` lets a movement that was answered as written keep the expression that was there
  (see `expression_read_back`). All else of it is what was asked for.
- `LostModes` in `ReadsAsItIs`: a movement the host loses whenever it is written, and that
  the embedded table does not name (`plugin/movement.rs:93`), is admitted, and what comes
  back is a number. A write says so (`ItemValueNotApplied`, and restoring fails in the same
  way); a creation from an alias does not compare.
- `row.is # "notAMovement"` there: a row for a movement that is no movement to the decoder
  passes `admit_track_row` (`plugin/alias.rs:659`), and the host drops it without a word.
- A track whose line has flags for an expression and none, or a movement with one value, is
  read as unknown and cannot be written back; a number over it is refused all the same.

Registry and session:

- Nothing says that no request is admitted once the pipe is stopped. The shutdown stops
  the pipe and drains renders while the state is still ready (`plugin/lib.rs:553`); a
  request that arrives in between is admitted (`lifecycle.rs:91` describes another
  order).
- `connect_pipe` (`server/pipe_client.rs:480`, `:526`) gives up at once when there is no pipe
  instance, and there is none before the first connection and between two
  (`plugin/pipe.rs:438`); a live instance looks unreachable then.
- `stamp = "exact"` in the registry's properties. When its creation time cannot be
  read the plugin writes the current time (`plugin/lib.rs:233`); no lookup matches
  it, so every listing takes the live instance for a reused PID and removes its
  descriptor.
- `Registered` in `CleanExit`. `register` returns without keeping the lifecycle when
  a later step fails (`plugin/lib.rs:267`, `:283`, `:296`); the descriptor stays after
  the exit, until a server removes it.
- `PromptIsAnswered` presumes that both ends use the same percentage of the budgets, that
  the instance is not draining, and no mishap. A reply under way when draining starts
  may be lost. `ConnectCap` bounds the time before the connection, so a late connection is
  excluded; the idle timeout of 15 s is not scaled with the budgets. A result that is
  ready exactly at its limit is discarded like a late one (`plugin/session.rs:684`).

Artifacts and settings:

- `Meddling = {}` in `store_safety`. With "calls", two calls that find the directory gone
  make it anew at once (`server/artifact.rs:546`); the second cannot open the lock file, which
  the first holds, and puts its `None` in the place of the first one's handle, which closes
  it. The store is then without a lock, and a sweep may take it (`LiveStoreKept` is
  violated). With "user" the directory is removed by hand between the look at it and its
  use, or during another server's sweep.
- `created_at` is read before the list's lock is taken, so the order of two concurrent
  ingests in the list need not be that of their times; eviction goes by the list.
- `Racing = {"loss"}` in `settings_follow`: a replacement may fail and leave no file. With
  "absence" a reader can meet no file inside `ReplaceFileW` and publish defaults until the
  next reload (`settings_save` runs with both). With "early" a list answered before `on_initialized` subscribes, with "between" one
  answered between a publication and the wake-up, is not corrected when the next
  change cancels the one it saw (`server/mcp/tool_catalog.rs:121`).
- `~edited[s]` in `OthersChangesStay`: an edit by hand between a save's reading and its
  replacement is lost, since an editor does not take the mutex.
- A late adoption can take a process's snapshot back to what it saved, until its next
  request reads the file; `RefreshFindsFile` is about that request.
- `thread # "ended"` in `ServerFollows`: the watcher returns for good on its first error
  (`server/settings.rs:326`). `~gaveUp`: a file held through all attempts is read again only
  after the next notification.
- `clean` in `TreeRepaired`: a process that starts beside another's sync may write what that
  one has just pruned; and a settings file that cannot be read at the start counts as the
  defaults (`plugin/settings.rs:193`), so that the sync at the start removes what was
  generated. Both last until the next sync.
- `FileStaysWhole` and `OthersChangesStay` let a replacement that fails leave no file (`Lost`,
  `LeftByFailure`). `ReplaceFileW` is called without a name for a backup
  (`plugin/atomic_file.rs:81`); when it fails between moving the old file away and giving the
  new one its name, the old one is gone, and `TempFileGuard` deletes the temporary one:
  `write_protected_atomic` is less atomic than `plugin/atomic_file.rs:44` says, and the next
  reader has the defaults.
- The registry's descriptor is written by the same `write_protected_atomic`
  (`plugin/registry.rs:87`). `InstanceRegistry` takes a failed write to leave the old
  descriptor: a failure that leaves none is not modelled there. The next write would make
  one again, and discovery does not list the instance until then.
- A crash between the temporary file and the replacement leaves the temporary file
  (`plugin/atomic_file.rs:63`), which nobody reads.

Operations and pages:

- `NotBeforeTwin` in `EffectColumn`: an effect that the host inserts right before one of the
  same name is named as the other (`plugin/edit/adapter/effect_column.rs:78`), since names
  are all that is compared.
- A move that the host silently ignores is answered as done when a twin stands at the
  destination already (`effect_column.rs:42`). `DoneMoveKeepsEffects` is stated so that it
  holds: what is there looks as asked.
- `delete_effect` compares the number of effects, not the column: that the right one went
  is the host's doing.
- `create_object` asks for the lock of the asked layer only (`plugin/edit/adapter.rs:491`).
  `LockedLayersHold` wants that layer unlocked whenever a creation adds an object, and lets
  its further objects, and the one the host displaces, land on locked layers.
- `~slipped` in `PagesFitTogether`. Epoch, scene and top layer are read before the section
  (`plugin/read/adapter.rs:231`): an object put above the old top layer in between is
  missing from a page whose revision counts it already, and a load in between gives a
  page the old epoch. So does an event that has not been delivered yet.

## Proofs

`EditRequestProofs` proves for every set of fingerprints and every bound: types,
one advance per request, the saved flag, that an edit hits what was read, that the
answered revision is newer, and, for a host that does not panic after the
callback, that no failure hides a change. The invariants the runs check are not
inductive. `IInv` adds what they rest on: who holds the main thread in which phase
(`main = "section"` exactly between entering and leaving), what the permit and the
counters say in each phase, that the epoch a client holds is never ahead and was
issued for a project not newer than the one it saw, that an equal epoch bounds the
revision from above, and that a section's outcome tells whether it issued. TLC
checked `IInv` before it was proved; the proof has one lemma per part and one step
per action.

`EditBatchProofs` proves for every layout, batch and host adjustment that "complete" and
"notAttempted" are true and, whatever a failed call leaves, the types and `DoneMeansAsked`:
that needs only `AskedSoFar`, that what a step has set stays so while the later
steps have other targets. When a failed call changes nothing (`~FailedCallApplies`), `BInv`
says that only targets of issued steps differ from the original, that inverses hold the
original values of different targets, and that with no failed inverse the steps tried so far
are back. From it follow `InverseFindsRoom` (`WayBackApart`: every project on the way back, the steps from n on
taken back, keeps its objects apart, because it is the one the host accepted before step n) and that `EditBatch` implements
`BatchPromise`.

`RenderTasksProofs` proves for any number of requests, callbacks and abandoned
tasks: types, that the inventory is exact, that a drain which does not give up
leaves no callback to come (with `detached` as above), that fresh abandoned
tasks stay within the limit, that an answer makes room (`LateAnswerMakesRoom`), and that
every file has an owner. The invariant has three parts with one lemma per group of actions:
`SlotsAgree` (a pending slot is the current request's, a task the host owes has a
pending or abandoned slot), `CountsAgree` (inside `abandon_at` a task is counted on
both sides, never on neither), `DrainHolds` (once the stop is over no task is put
in, so a count of zero stays true). `OldestFirst` is why removing the newest entry
makes room.

`InstanceRegistryProofs` proves every safety property of `registry_safety` for any
number of servers, projects, events and failed writes, and, when the creation
time is known, that the whole implements `RegistryPromise`. `RemovalIsOfTheDead` is
inductive as it stands: the look that leads to it needs a dead process, and the
dead do not come back. The rest needs `IInv`: `ProcessFacts` (the dead run nothing, who
shuts down had registered), `StopFacts` (past the join no pipe waits for a client,
because the thread ended or is in a call) and `FileFacts` (while the process lives,
from registration to its last stage, the file is there). `WireFacts` says that a
client waits for each answer and sends one request, which is why a connection that
outlived the stop never asks an instance that is ending, and the check for one in
`verify_candidate` never has to act. TLC checked `IInv` and
`WireFacts` before they were proved.

`ServerProofs` proves of the store the types, `ListedIsReadable`, `NothingForgotten`, `OneOwner`,
`KeptWhilePromised` and `LiveStoreKept` for any number of calls, images and limits.
`SInv` adds to the types `CallsAgree` (two calls never work on one token, and nobody has
answered for the one a call works on), `FilesAgree` (what list, directory and answers
say of a token), `SessionAgrees` (a running server's directory is locked, except while
one call makes it anew, and no sweep has found it unlocked) and `Accounted`, which is
three of the properties together. `WithinLimits` needs what a sum over a set adds up to.
`Total` is a fold of the library, a recursive function over the subsets: that there is one,
that it is the same whatever set it is made for (`SumsExist`, `SumsAgree`), and that taking
any element out takes its size out (`TotalTakes`) is shown by the least set for which it would
not hold. `RoomFits` says that the fitting suffixes of the list are a chain whose longest is
what `MakeRoom` keeps, so the newcomer fits behind it; `RoomInv` that the list is finite and
no image at hand is larger than an image may be. Of the watcher of the settings it proves
`NeverRepublished`, as long as no reader finds the file absent in a replacement (`WatchInv`: what is
published is what was read, except just before a publication, which offers again only what the
file said).

`DataDirectoryProofs` proves, for any number of processes and items, that the next
refresh finds the file's settings (`Stamped`: the settings of a reader are those its stamp was made from),
that a save keeps what it does not change (`OneMerges`: one process between reading
and replacing; `MergedLatest`: what it writes is the latest file with its change), and
that the savers implement `SharedFile`.
Of the generated plugin it proves `TreeRepaired`, for every list of files with one executable:
`AgentShape` says where a sync can be and that a directory that stands has its parents
(`Rooted`), `Undisturbed` that a sync that has been alone since the last upset has, file by file, made of the
phases behind it what the toggles ask for, and keeps it so (`PhaseDone`). Every behaviour of
`DataSpec` is one of both parts (`DirectoryRunsBoth`).

`ConnectionProofs` proves `AnswersAreTrue`, `HopelessIsSaidSo`, `RefetchIsConclusive`,
`EditStartsWhileAwaited`, `EditResultIsKept` (together `EditMeetsItsCaller`) and `PromptIsAnswered` for any number of calls and any budgets. The heart is
`Situation`: an open connection is in one of six situations, from the greeting to the
reply, each of which fixes the frames in both directions and the plugin's place;
`Honest` says that the reply in it, and every answer given, is true of `applied` and
`running`; `Settled` that a call that was over when another began is no longer the one
served once that other is connected; `SameDeadline` that without mishaps the carried deadline is
the caller's. `EditResultIsKept` takes these and `AppliedAreEdits`: nothing but an edit changes the
project, so the answer the plugin has for such a call waits for nothing but its own limit,
and an answer that comes while the caller waits says "done". For `PromptIsAnswered` each deadline is tied to what was charged to its stage
(`Prompt`): what the caller has left and all that was spent make up the shares of the phase; what the
plugin has left in a stage and what that stage has spent make up its limit, or what the caller
has left where that is shorter; and no frame says "late", "expired" or "draining". With the
inequalities of the budgets (`BudgetAssumption`) and limits that are not zero
(`PositiveAssumption`: `core/budget.rs` has whole seconds, and `core/settings.rs:102` scales them by a
tenth at least) no deadline can then come before its share is used up. It also proves `BufferOutlivesIo` and `FramesInStep` for frames of any length
and any number of requests. `FrameParts` holds the types and `EndFits` (a task that transfers holds
the buffer of its `OverlappedOp`, one that does not has no operation in the kernel). `InTurn` is about
where units are: what an end holds of a frame and what is on the way to it are a part of one
frame, in order (`HeldFits`, `StreamFits`), and the two ends take turns (`Turn`: the request is on
the way, is served, is answered, or nothing is), until a connection is desynchronised, after
which nobody reads from it. `ConnSpec` runs session and frames side by side, and
`ConnectionRunsBoth` carries the theorems over to it.

`SceneEditsProofs` is about edits and reads of one target, for every column of effects, scene,
alias, setting and page size, and proves `AnswerNamesWhatIsThere`, `AnswerAdmitsWhatIsLeft`,
`OnlyWhatWasAsked` and `PagesFitTogether`. Each part has its own invariant. Requests on effects
and objects are one step each, so `ColumnInv` and `TimelineInv` say little between them
(the column is a sequence of effects; `SceneStands`: objects have a length and stand apart) and the
proofs are about the step: putting an effect back undoes taking it out, `restore_target` exists and
restores, sections start where the one ascending list of their frames says (`InOrder`,
`ShiftedStarts`). Scene settings take two: `SceneLeft` and `SelectionLeft` say what is known while
a request waits for its observation (`StoppedThere`: after a setter that failed none has run).
For pages: `SameMoment`
(same epoch and revision and no undelivered event: the scene has not changed),
`ReadBeforeHolds` (what was read before the section is still so, unless `slipped`),
`Gathered` (the joined pages are a prefix). Where these need induction over a finite set
they take the least counterexample (`Smallest`, from the library's well-foundedness of the
strict subsets): its induction theorems cannot be used here.
`PartsInv` puts the parts together: a part keeps its invariant while it has a step and
what it promises while it rests.

It proves `ItemsMeanWhatIsSaid` too, for any tokens, texts, numbers, modes, aliases and limits.
What is assumed of them (`SpellingAssumption`, `ItemAssumption`): a numeral is one token,
spells one number and is none of the marks; the host's modes have names without marks
that are no numbers, and default parameters that are numbers; a word of a colour stays
so when it is written small; an item holds at first what one of its type can.
The argument goes up from the spelling:

- Escapes, parts and what is joined are functions over the length of a line. The
  induction theorems of the library are out of reach, so a claim about all lines is proved
  of the shortest for which it fails (`FirstToFail`): that is not the empty line, and without
  its last token it does not fail. In this way escapes are undone by the plugin
  (`EscapedIsReadBack`) and by the host, which finds them by the backslashes before a
  place (`HostReadsEscaped`); parts without the mark are found again when they were joined
  (`PartsOfJoined`), and joined again they are the line (`JoinedOfParts`).
- With these a movement that is valid is read as it was written, by the plugin (`EncodedRead`)
  and by the host; so no line of the plugin is one the host cannot take apart (`WrittenIsHeld`).
- `Holds` says what an item can hold, `Settled(item) = item` that its parameters
  have been replaced where they had to be. Neither is in the runs' properties; both are what
  a step needs. Two things held are never spelled alike (`SpelledApart`), so the line tells
  whether something was restored, and what was read goes back (`ReadGoesBack`).
- `ItemInv` adds to them what was given to the client and what it promises; TLC checked it
  before it was proved. A row of an alias that was let through is a number or a movement
  the host knows (`RowIs`), and says the same when it has settled (`MadeSaysTheSame`).

Only model-checked: the liveness properties (`RequestAnswered`, `AcceptsAgain`,
`ShutdownEnds`, `DropEnds`, `ListensAgain`, `StaleGoes`, `ChangesArrive`). Every safety property a
passing run checks is proved for all instances, under the conditions it names.

## Not modelled

- Input rules and DTOs (`server/mcp/edit_input.rs`, `core/operation.rs`, what
  `core/validation.rs` says of names and ranges), schemas, descriptions and wording: pure
  functions without state, whose tests enumerate their cases. They and the tests
  themselves (`#[cfg(test)]` modules, `edit/fake.rs`) are most of the lines of the
  repository, which is why the models cover a small share of them.
- Alias files (`plugin/alias.rs`) other than the rows of items: a parser. `ObjectTimeline`
  takes the places an alias asks for as given.
- Item facets, effect help: tables read from the host's files.
- The texts of the generated files (`plugin/agent_plugin/manifest.rs`, `skills.rs`).
- Length limits of frames and the checks of an envelope other than that an answer is of its
  request; encodings, fingerprints as bytes: opaque values here; equal fingerprints are
  equal contents.
- Win32 wrappers, DACLs, pixel conversion, the controls of the settings dialog, the offline script for effect
  choices. Authentication mismatches in the handshake end the connection like any
  deviation.
- `ChangeNotifier` is only drained by tests.
