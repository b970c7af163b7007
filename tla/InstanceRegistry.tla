---------------------------- MODULE InstanceRegistry ----------------------------
(***************************************************************************)
(* One instance of the plugin from registration to the end of its process: *)
(* the lifecycle and its descriptor file (plugin/lifecycle.rs, lib.rs),    *)
(* the accept loop with its single pipe instance (plugin/pipe.rs), and the *)
(* servers that find the descriptor, connect, and clean up what is stale   *)
(* (server/discovery.rs, pipe_client.rs).                                  *)
(*                                                                         *)
(* The handlers and the shutdown run one at a time on the main thread. The *)
(* accept thread only reads the lifecycle. Servers are other processes and *)
(* see the file, the process table and the pipe. Instances share nothing,  *)
(* so one is enough.                                                       *)
(***************************************************************************)
EXTENDS Naturals

CONSTANTS
  Servers,          \* discoveries and calls that run at the same time
  Nobody,           \* no client at the pipe
  Projects,         \* paths of project files
  Unsaved,          \* a project without a file
  Stamps,           \* how the process creation time in the descriptor is found
  MaxEvents,        \* loads and saves
  MaxFailedWrites,  \* failed writes and removals of the descriptor
  Slow              \* where the accept thread may outlast STOP_TIMEOUT

States == {"starting", "ready", "busy", "draining", "gone"}
AcceptStates == {"off", "check", "create", "listening", "greeting", "top",
                 "reading", "executing", "ended"}

ASSUME RegistryAssumption ==
  /\ Nobody \notin Servers
  /\ Unsaved \notin Projects
  /\ Stamps # {} /\ Stamps \subseteq {"exact", "clock"}
  /\ MaxEvents \in Nat /\ MaxFailedWrites \in Nat
  /\ Slow \subseteq {"executing"}  \* every other wait of the thread sees the stop

VARIABLES
  proc,        \* what has the instance's PID: "ours", "absent" or "other"
  stamp,       \* process_created_at: "exact", or the clock when it is not known
  \* the main thread
  pc,          \* its place in register, a handler or the shutdown sequence
  open,        \* path of the project the host has open
  descriptor,  \* Lifecycle.descriptor: state and project
  shutdown,    \* Lifecycle.shutdown
  file,        \* the descriptor in the registry
  lastWrite,   \* how the last write or removal of it ended
  events, failed,
  stop,        \* StopSignal
  \* the accept thread and its pipe
  accept,
  client,      \* who holds the other end
  peer,        \* the other end: "none", "open" or "closed"
  inbox,       \* what the accept thread can read
  outbox,      \* what the client can read
  \* the servers
  call,        \* the place of each in discovery
  mode         \* "list" for find_instances, "call" for resolve_instance

hostVars == <<proc, stamp, open, events>>
lifeVars == <<descriptor, shutdown, file, lastWrite, failed>>
pipeVars == <<client, peer, inbox, outbox>>
serverVars == <<call, mode>>
vars == <<hostVars, pc, lifeVars, stop, accept, pipeVars, serverVars>>

NoFile == [state |-> "none", project |-> Unsaved]
Listed == file # NoFile
Registered == accept # "off"
PipeExists == accept \in {"listening", "greeting", "top", "reading", "executing"}

Init ==
  /\ proc = "ours" /\ stamp \in Stamps
  /\ pc = "register" /\ open = Unsaved /\ events = 0
  /\ descriptor = NoFile /\ file = NoFile /\ shutdown = FALSE
  /\ lastWrite = "none" /\ failed = 0
  /\ stop = FALSE /\ accept = "off"
  /\ client = Nobody /\ peer = "none" /\ inbox = "empty" /\ outbox = "empty"
  /\ call = [s \in Servers |-> "idle"] /\ mode = [s \in Servers |-> "list"]

-----------------------------------------------------------------------------
(* Lifecycle: every change writes the whole descriptor, through a          *)
(* temporary file that replaces the old one in one step. A write that      *)
(* fails leaves memory changed.                                            *)

Writes(f) ==
  \/ file' = f /\ lastWrite' = "ok" /\ UNCHANGED failed
  \/ /\ failed < MaxFailedWrites /\ failed' = failed + 1
     /\ lastWrite' = "failed" /\ UNCHANGED file

Transitions ==
  {<<"starting", "ready">>, <<"ready", "busy">>, <<"busy", "ready">>}
    \cup ({"starting", "ready", "busy"} \X {"draining"})

\* transition_to; the same state again, or one it refuses, changes nothing.
TransitionTo(new) ==
  \/ /\ ~shutdown /\ <<descriptor.state, new>> \in Transitions
     /\ descriptor' = [descriptor EXCEPT !.state = new]
     /\ Writes(descriptor')
  \/ /\ shutdown \/ <<descriptor.state, new>> \notin Transitions
     /\ UNCHANGED <<descriptor, file, lastWrite, failed>>

\* Mutant: a project without a file is not written.
UpdateSavedProject ==
  IF open = Unsaved \/ shutdown THEN UNCHANGED <<descriptor, file, lastWrite, failed>>
  ELSE /\ descriptor' = [descriptor EXCEPT !.project = open]
       /\ Writes(descriptor')
UpdateProject ==
  \/ /\ ~shutdown
     /\ descriptor' = [descriptor EXCEPT !.project = open]
     /\ Writes(descriptor')
  \/ shutdown /\ UNCHANGED <<descriptor, file, lastWrite, failed>>

-----------------------------------------------------------------------------
(* The main thread: register.                                              *)

\* Lifecycle::new writes the descriptor. When it cannot, or the registry cannot be
\* used at all, there is no lifecycle.
WriteStarting ==
  /\ pc = "register"
  /\ \/ /\ descriptor' = [state |-> "starting", project |-> Unsaved]
        /\ file' = descriptor' /\ lastWrite' = "ok"
        /\ pc' = "starting" /\ UNCHANGED failed
     \/ pc' = "idle" /\ UNCHANGED <<descriptor, file, lastWrite, failed>>
  /\ UNCHANGED <<hostVars, shutdown, stop, accept, pipeVars, serverVars>>

StartPipe ==
  /\ pc = "starting" /\ pc' = "idle" /\ accept' = "check"
  /\ UNCHANGED <<hostVars, lifeVars, stop, pipeVars, serverVars>>

\* The stop signal or the render adapter cannot be made: register returns
\* before it keeps the lifecycle.
StartFails ==
  /\ pc = "starting" /\ pc' = "idle"
  /\ UNCHANGED <<hostVars, lifeVars, stop, accept, pipeVars, serverVars>>

-----------------------------------------------------------------------------
(* The main thread: project handlers. What they do to ProjectState is in   *)
(* EditRequest.                                                            *)

HostLoads ==
  /\ pc = "idle" /\ events < MaxEvents
  /\ open' \in Projects \cup {Unsaved} /\ events' = events + 1
  /\ pc' = "ready"
  /\ UNCHANGED <<proc, stamp, lifeVars, stop, accept, pipeVars, serverVars>>

HostSaves ==
  /\ pc = "idle" /\ events < MaxEvents
  /\ open' \in Projects /\ events' = events + 1
  /\ pc' = "sync"
  /\ UNCHANGED <<proc, stamp, lifeVars, stop, accept, pipeVars, serverVars>>

LoadReady ==
  /\ pc = "ready" /\ pc' = "sync"
  /\ IF Registered THEN TransitionTo("ready")
     ELSE UNCHANGED <<descriptor, file, lastWrite, failed>>
  /\ UNCHANGED <<hostVars, shutdown, stop, accept, pipeVars, serverVars>>

SyncProject ==
  /\ pc = "sync" /\ pc' = "idle"
  /\ IF Registered THEN UpdateProject
     ELSE UNCHANGED <<descriptor, file, lastWrite, failed>>
  /\ UNCHANGED <<hostVars, shutdown, stop, accept, pipeVars, serverVars>>

-----------------------------------------------------------------------------
(* The main thread: the shutdown sequence. Each stage is isolated from a   *)
(* panic of the one before; the drain of renders is in RenderTasks.        *)

HostExits ==
  /\ pc = "idle" /\ pc' = IF Registered THEN "stopping" ELSE "exited"
  /\ UNCHANGED <<hostVars, lifeVars, stop, accept, pipeVars, serverVars>>

StopPipe ==
  /\ pc = "stopping" /\ pc' = "joining" /\ stop' = TRUE
  /\ UNCHANGED <<hostVars, lifeVars, accept, pipeVars, serverVars>>

\* The thread has ended.
Joined ==
  /\ pc = "joining" /\ accept = "ended" /\ pc' = "draining"
  /\ UNCHANGED <<hostVars, lifeVars, stop, accept, pipeVars, serverVars>>

\* STOP_TIMEOUT passes and the thread is detached. Mutants: no timeout; the
\* stages after it are skipped.
WaitsForever ==
  /\ pc = "joining" /\ accept = "ended" /\ pc' = "draining"
  /\ UNCHANGED <<hostVars, lifeVars, stop, accept, pipeVars, serverVars>>
StagesSkipped ==
  /\ pc = "joining" /\ accept \in Slow /\ pc' = "exited"
  /\ UNCHANGED <<hostVars, lifeVars, stop, accept, pipeVars, serverVars>>
JoinTimesOut ==
  /\ pc = "joining" /\ accept \in Slow /\ pc' = "draining"
  /\ UNCHANGED <<hostVars, lifeVars, stop, accept, pipeVars, serverVars>>

\* Lifecycle::shutdown; the log call in transition_to may panic before the flag.
Shutdown ==
  /\ pc = "draining" /\ pc' = "marking"
  /\ TransitionTo("draining")
  /\ shutdown' \in BOOLEAN /\ (lastWrite' = "failed" => shutdown')
  /\ UNCHANGED <<hostVars, stop, accept, pipeVars, serverVars>>

MarkGone ==
  /\ pc = "marking" /\ pc' = "removing"
  /\ shutdown' = TRUE /\ descriptor' = [descriptor EXCEPT !.state = "gone"]
  /\ UNCHANGED <<hostVars, file, lastWrite, failed, stop, accept, pipeVars, serverVars>>

RemoveOwn ==
  /\ pc = "removing" /\ pc' = "exited"
  /\ Writes(NoFile)
  /\ UNCHANGED <<hostVars, descriptor, shutdown, stop, accept, pipeVars, serverVars>>

-----------------------------------------------------------------------------
(* The process. It ends after the shutdown or in a crash, and its PID may  *)
(* be given to another.                                                    *)

\* DisconnectNamedPipe drops what the client has not read.
Disconnect ==
  /\ peer' = "none" /\ inbox' = "empty" /\ outbox' = "empty" /\ client' = Nobody

ProcessEnds ==
  /\ proc = "ours" /\ proc' = "absent"
  /\ pc' = IF pc = "exited" THEN "exited" ELSE "crashed"
  /\ accept' = IF Registered THEN "ended" ELSE "off"
  /\ Disconnect
  /\ UNCHANGED <<stamp, open, events, lifeVars, stop, serverVars>>

PidChangesHands ==
  /\ \/ proc = "absent" /\ proc' = "other"
     \/ proc = "other" /\ proc' = "absent"
  /\ UNCHANGED <<stamp, open, events, pc, lifeVars, stop, accept, pipeVars, serverVars>>

-----------------------------------------------------------------------------
(* The accept thread: the loop of accept_loop.                             *)

\* Mutant: the loop does not look at the stop signal.
StopUnseen == FALSE
StopSeen == stop

LoopChecks ==
  /\ proc = "ours" /\ accept = "check"
  /\ accept' = IF StopSeen \/ descriptor.state = "gone" THEN "ended" ELSE "create"
  /\ UNCHANGED <<hostVars, pc, lifeVars, stop, pipeVars, serverVars>>

\* CreateNamedPipeW; when it fails the loop is over for good.
CreatesPipe ==
  /\ accept = "create" /\ accept' \in {"listening", "ended"}
  /\ UNCHANGED <<hostVars, pc, lifeVars, stop, pipeVars, serverVars>>

Accepts ==
  /\ accept = "listening" /\ peer # "none"
  /\ IF stop THEN accept' = "ended" /\ Disconnect
     ELSE accept' = "greeting" /\ UNCHANGED pipeVars
  /\ UNCHANGED <<hostVars, pc, lifeVars, stop, serverVars>>

\* The stop ends the wait, or the wait itself cannot go on.
ListenEnds ==
  /\ accept = "listening" /\ accept' = "ended" /\ Disconnect
  /\ UNCHANGED <<hostVars, pc, lifeVars, stop, serverVars>>

\* ConnectNamedPipe fails, as it does for a client that has already left: a new
\* pipe, unless the stop comes in the pause before it.
ListenRetries ==
  /\ accept = "listening" /\ accept' = IF stop THEN "ended" ELSE "check"
  /\ Disconnect
  /\ UNCHANGED <<hostVars, pc, lifeVars, stop, serverVars>>

-----------------------------------------------------------------------------
(* The accept thread: one connection. The handshake is one exchange.       *)

CloseConnection == accept' = "check" /\ Disconnect

\* The answer is written, unless the client has left or does not read in time.
Answers(reply) ==
  \/ /\ peer = "open" /\ outbox' = reply /\ inbox' = "empty" /\ accept' = "top"
     /\ UNCHANGED <<client, peer>>
  \/ CloseConnection

Handshake ==
  /\ accept = "greeting" /\ inbox = "hello" /\ Answers("welcome")
  /\ UNCHANGED <<hostVars, pc, lifeVars, stop, serverVars>>

\* The client is gone, too slow or not who it should be, or the stop ends the wait.
HandshakeFails ==
  /\ accept = "greeting" /\ CloseConnection
  /\ UNCHANGED <<hostVars, pc, lifeVars, stop, serverVars>>

RequestLoop ==
  /\ accept = "top"
  /\ IF descriptor.state = "draining" THEN CloseConnection
     ELSE accept' = "reading" /\ UNCHANGED pipeVars
  /\ UNCHANGED <<hostVars, pc, lifeVars, stop, serverVars>>

\* Nothing arrives: the client has left, REQUEST_IDLE_TIMEOUT passes, or the stop
\* ends the wait. What is already there is read although the stop is signalled
\* (transfer_once). Mutant: no timeout.
ReadWaits ==
  /\ accept = "reading" /\ inbox = "empty" /\ (peer = "closed" \/ stop)
  /\ CloseConnection
  /\ UNCHANGED <<hostVars, pc, lifeVars, stop, serverVars>>
ReadEnds ==
  /\ accept = "reading" /\ inbox = "empty"
  /\ CloseConnection
  /\ UNCHANGED <<hostVars, pc, lifeVars, stop, serverVars>>

\* A ping is answered with the state, whatever it is.
Pong(state) == IF state \in {"draining", "gone"} THEN "pongEnding" ELSE "pong"
AnswerPing ==
  /\ accept = "reading" /\ inbox = "ping" /\ Answers(Pong(descriptor.state))
  /\ UNCHANGED <<hostVars, pc, lifeVars, stop, serverVars>>

\* admit_request.
Refusal(state) == IF state = "gone" THEN "stale" ELSE "busy"
AdmitRequest ==
  /\ accept = "reading" /\ inbox = "request"
  /\ IF descriptor.state \in {"ready", "busy"}
     THEN accept' = "executing" /\ inbox' = "empty" /\ UNCHANGED <<client, peer, outbox>>
     ELSE Answers(Refusal(descriptor.state))
  /\ UNCHANGED <<hostVars, pc, lifeVars, stop, serverVars>>

ExecutionEnds ==
  /\ accept = "executing" /\ Answers("result")
  /\ UNCHANGED <<hostVars, pc, lifeVars, stop, serverVars>>

-----------------------------------------------------------------------------
(* A server: verify_candidate.                                             *)

At(s, place) == call' = [call EXCEPT ![s] = place]

\* A listing may remove what it excludes for these reasons, after looking again.
\* Mutant: at once.
RemovesAtOnce == "remove"
AfterExclusion == "reread"
Excluded(s) == At(s, IF mode[s] = "list" THEN AfterExclusion ELSE "idle")

\* The client's handle is dropped; what it has sent stays readable.
CloseEnd(s) ==
  \/ client = s /\ client' = Nobody /\ peer' = "closed" /\ outbox' = "empty" /\ UNCHANGED inbox
  \/ client # s /\ UNCHANGED pipeVars

pluginVars == <<hostVars, pc, lifeVars, stop, accept>>

\* The directory is enumerated, or the path of one instance exists.
BeginList(s) ==
  /\ call[s] = "idle" /\ Listed
  /\ At(s, "read") /\ mode' = [mode EXCEPT ![s] = "list"]
  /\ UNCHANGED <<pluginVars, pipeVars>>

BeginCall(s) ==
  /\ call[s] = "idle" /\ Listed
  /\ At(s, "read") /\ mode' = [mode EXCEPT ![s] = "call"]
  /\ UNCHANGED <<pluginVars, pipeVars>>

\* A file that has gone, or cannot be read, is excluded and never removed.
ReadFile(s) ==
  /\ call[s] = "read" /\ Listed /\ At(s, "lookup")
  /\ UNCHANGED <<pluginVars, pipeVars, mode>>
ReadFileFails(s) ==
  /\ call[s] = "read" /\ At(s, "idle")
  /\ UNCHANGED <<pluginVars, pipeVars, mode>>

\* lookup_process and the comparison of the creation times. That it fails is an
\* action of its own: it may happen at any look.
Found == IF proc = "absent" THEN "absent"
         ELSE IF proc = "ours" /\ stamp = "exact" THEN "same" ELSE "different"

LookUp(s) ==
  /\ call[s] = "lookup"
  /\ IF Found = "same" THEN At(s, "connect") ELSE Excluded(s)
  /\ UNCHANGED <<pluginVars, pipeVars, mode>>
LookupUndetermined(s) ==
  /\ call[s] = "lookup" /\ Excluded(s)
  /\ UNCHANGED <<pluginVars, pipeVars, mode>>

Connects(s) ==
  /\ call[s] = "connect" /\ accept = "listening" /\ peer = "none"
  /\ client' = s /\ peer' = "open" /\ inbox' = "hello" /\ UNCHANGED outbox
  /\ At(s, "greet")
  /\ UNCHANGED <<pluginVars, mode>>

\* There is no pipe of that name.
ConnectFails(s) ==
  /\ call[s] = "connect" /\ ~PipeExists /\ Excluded(s)
  /\ UNCHANGED <<pluginVars, pipeVars, mode>>

\* The deadline: the pipe stays taken, or what came before took too long.
ConnectTimesOut(s) ==
  /\ call[s] = "connect" /\ Excluded(s)
  /\ UNCHANGED <<pluginVars, pipeVars, mode>>

Greeted(s) ==
  /\ call[s] = "greet" /\ client = s /\ outbox = "welcome"
  /\ outbox' = "empty" /\ inbox' = "ping" /\ UNCHANGED <<client, peer>>
  /\ At(s, "ping")
  /\ UNCHANGED <<pluginVars, mode>>

\* A listing ends with the answer; a call goes on with its request. An instance
\* that says it is ending is excluded.
Ponged(s) ==
  /\ call[s] = "ping" /\ client = s /\ outbox \in {"pong", "pongEnding"}
  /\ IF outbox = "pongEnding" THEN CloseEnd(s) /\ Excluded(s)
     ELSE IF mode[s] = "list" THEN CloseEnd(s) /\ At(s, "idle")
     ELSE /\ outbox' = "empty" /\ inbox' = "request" /\ UNCHANGED <<client, peer>>
          /\ At(s, "result")
  /\ UNCHANGED <<pluginVars, mode>>

\* The connection is gone or the deadline passes.
ExchangeFails(s) ==
  /\ call[s] \in {"greet", "ping"} /\ CloseEnd(s) /\ Excluded(s)
  /\ UNCHANGED <<pluginVars, mode>>

\* With an answer, or without one at the deadline.
CallEnds(s) ==
  /\ call[s] = "result" /\ CloseEnd(s) /\ At(s, "idle")
  /\ UNCHANGED <<pluginVars, mode>>

-----------------------------------------------------------------------------
(* A server: try_cleanup_stale_descriptor.                                 *)

\* absence_confirmed: a lookup that decided nothing does not count. Mutant: nor
\* does a PID in use by another process.
OnlyAbsent == {"absent"}
AbsenceConfirmed == {"absent", "different"}

Reread(s) ==
  /\ call[s] = "reread" /\ At(s, IF Listed THEN "relook" ELSE "idle")
  /\ UNCHANGED <<pluginVars, pipeVars, mode>>

LookAgain(s) ==
  /\ call[s] = "relook"
  /\ At(s, IF Found \in AbsenceConfirmed THEN "remove" ELSE "idle")
  /\ UNCHANGED <<pluginVars, pipeVars, mode>>
LookAgainUndetermined(s) ==
  /\ call[s] = "relook"
  /\ At(s, IF "undetermined" \in AbsenceConfirmed THEN "remove" ELSE "idle")
  /\ UNCHANGED <<pluginVars, pipeVars, mode>>

RemoveStale(s) ==
  /\ call[s] = "remove" /\ file' = NoFile /\ At(s, "idle")
  /\ UNCHANGED <<hostVars, pc, descriptor, shutdown, lastWrite, failed, stop, accept,
                 pipeVars, mode>>
RemoveFails(s) ==
  /\ call[s] = "remove" /\ At(s, "idle")
  /\ UNCHANGED <<pluginVars, pipeVars, mode>>

-----------------------------------------------------------------------------
\* The steps of a server that has begun.
Proceeds(s) ==
  \/ ReadFile(s) \/ ReadFileFails(s) \/ LookUp(s) \/ LookupUndetermined(s)
  \/ Connects(s) \/ ConnectFails(s) \/ ConnectTimesOut(s)
  \/ Greeted(s) \/ Ponged(s) \/ ExchangeFails(s) \/ CallEnds(s)
  \/ Reread(s) \/ LookAgain(s) \/ LookAgainUndetermined(s)
  \/ RemoveStale(s) \/ RemoveFails(s)

MainStep ==
  \/ WriteStarting \/ StartPipe \/ StartFails
  \/ HostLoads \/ HostSaves \/ LoadReady \/ SyncProject
  \/ HostExits \/ StopPipe \/ Joined \/ JoinTimesOut \/ Shutdown \/ MarkGone \/ RemoveOwn

AcceptStep ==
  \/ LoopChecks \/ CreatesPipe \/ Accepts \/ ListenEnds \/ ListenRetries
  \/ Handshake \/ HandshakeFails \/ RequestLoop \/ ReadEnds
  \/ AnswerPing \/ AdmitRequest \/ ExecutionEnds

ServerStep(s) == BeginList(s) \/ BeginCall(s) \/ Proceeds(s)

Next ==
  \/ MainStep \/ ProcessEnds \/ PidChangesHands \/ AcceptStep
  \/ \E s \in Servers : ServerStep(s)

\* The threads of the plugin are scheduled and their waits end by a deadline;
\* a call into the host ends when the main thread is free to serve it, and the
\* process ends after the shutdown.
PluginFairness ==
  /\ WF_vars(WriteStarting \/ StartPipe \/ LoadReady \/ SyncProject)
  /\ WF_vars(StopPipe \/ Joined \/ JoinTimesOut \/ Shutdown \/ MarkGone \/ RemoveOwn)
  /\ WF_vars(LoopChecks \/ CreatesPipe)
  /\ WF_vars((stop \/ peer # "none") /\ (Accepts \/ ListenEnds \/ ListenRetries))
  /\ WF_vars(Handshake \/ HandshakeFails \/ RequestLoop)
  /\ WF_vars(ReadEnds \/ AnswerPing \/ AdmitRequest)
  /\ WF_vars(pc = "idle" /\ ExecutionEnds)
  /\ WF_vars(pc = "exited" /\ ProcessEnds)

\* Somebody goes on listing, and neither a lookup nor a removal fails each time.
CleanupFairness ==
  \A s \in Servers :
    /\ WF_vars(Proceeds(s)) /\ SF_vars(BeginList(s))
    /\ SF_vars(mode[s] = "list" /\ ReadFile(s)) /\ SF_vars(mode[s] = "list" /\ LookUp(s))
    /\ SF_vars(LookAgain(s)) /\ SF_vars(RemoveStale(s))

Spec == Init /\ [][Next]_vars
PluginSpec == Spec /\ PluginFairness

-----------------------------------------------------------------------------
(* Properties.                                                             *)

MainStates == {"register", "starting", "idle", "ready", "sync", "stopping", "joining",
               "draining", "marking", "removing", "exited", "crashed"}
CallStates == {"idle", "read", "lookup", "connect", "greet", "ping", "result",
               "reread", "relook", "remove"}
Descriptors == [state : States \cup {"none"}, project : Projects \cup {Unsaved}]

TypeOK ==
  /\ proc \in {"ours", "absent", "other"} /\ stamp \in Stamps
  /\ pc \in MainStates /\ open \in Projects \cup {Unsaved}
  /\ descriptor \in Descriptors /\ file \in Descriptors
  /\ shutdown \in BOOLEAN /\ stop \in BOOLEAN
  /\ lastWrite \in {"none", "ok", "failed"}
  /\ events \in 0..MaxEvents /\ failed \in 0..MaxFailedWrites
  /\ accept \in AcceptStates
  /\ client \in Servers \cup {Nobody} /\ peer \in {"none", "open", "closed"}
  /\ peer = "open" <=> client # Nobody
  /\ inbox \in {"empty", "hello", "ping", "request"}
  /\ outbox \in {"empty", "welcome", "pong", "pongEnding", "busy", "stale", "result"}
  /\ call \in [Servers -> CallStates] /\ mode \in [Servers -> {"list", "call"}]

\* A server about to remove a descriptor has the process's death behind it,
\* although it looked before it acts and the PID may be in use again
\* (instance_proven_absent), as long as the descriptor has the true creation time.
RemovalIsOfTheDead ==
  stamp = "exact" => \A s \in Servers : call[s] = "remove" => proc # "ours"

\* A pipe that takes a client belongs to an instance that can be found: the file
\* is there before the pipe, and the pipe is gone before the file, also when the
\* stop has given up on the thread (lib.rs, Drop).
ListenerHasDescriptor ==
  stamp = "exact" /\ accept = "listening" => Listed

\* Between handlers the file says what memory says and names the open project,
\* unless the last write failed: a later write makes up for an earlier one.
FileFollowsMemory ==
  stamp = "exact" /\ pc = "idle" /\ Registered /\ lastWrite = "ok" =>
    file = descriptor /\ file.project = open

\* An orderly end leaves no descriptor, whether or not the accept thread could be
\* joined, unless the file could not be removed (run_shutdown_sequence).
CleanExit ==
  pc = "exited" /\ Registered /\ lastWrite = "ok" => ~Listed

\* No client is answered by an instance that is ending or gone, neither a ping
\* (verify_candidate) nor a request (admit_request): a connection that outlives
\* the stop is in the middle of its only request.
NeverAnswersStale == outbox \notin {"stale", "pongEnding"}

\* The registry's promise.
Promise == INSTANCE RegistryPromise WITH
  entry <- IF Listed THEN "listed" ELSE IF descriptor = NoFile THEN "unseen" ELSE "gone",
  owner <- IF proc = "ours" THEN "alive" ELSE "dead"
KeepsPromise == Promise!Spec

\* The shutdown ends although a request waits for the main thread, which is the
\* one that shuts down (STOP_TIMEOUT).
DropEnds == pc = "stopping" ~> pc \in {"exited", "crashed"}

\* A client that holds its connection without a word does not keep the pipe: the
\* instance listens again or its loop has ended.
ListensAgain ==
  accept \in {"greeting", "top", "reading"} ~>
    accept \in {"check", "listening", "ended"}

\* The descriptor of a process that is gone is removed in the end, also when its
\* PID is in use again, if somebody goes on listing.
StaleGoes == CleanupFairness => (proc # "ours" ~> ~Listed)
=============================================================================
