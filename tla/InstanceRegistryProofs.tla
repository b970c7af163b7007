------------------------ MODULE InstanceRegistryProofs ------------------------
(***************************************************************************)
(* Proofs about InstanceRegistry, for any number of servers, projects,     *)
(* events and failed writes: a descriptor is removed by its own process or *)
(* after its death, a listening pipe can be found, the file follows the    *)
(* memory, and an orderly end leaves nothing behind.                       *)
(***************************************************************************)
EXTENDS InstanceRegistry, TLAPS

\* The types without the two flags, which no prover mixes well with the rest.
DataTypes ==
  /\ proc \in {"ours", "absent", "other"} /\ stamp \in Stamps
  /\ pc \in MainStates /\ open \in Projects \cup {Unsaved}
  /\ descriptor \in Descriptors /\ file \in Descriptors
  /\ lastWrite \in {"none", "ok", "failed"}
  /\ events \in 0..MaxEvents /\ failed \in 0..MaxFailedWrites
  /\ accept \in AcceptStates
  /\ client \in Servers \cup {Nobody} /\ peer \in {"none", "open", "closed"}
  /\ peer = "open" <=> client # Nobody
  /\ inbox \in {"empty", "hello", "ping", "request"}
  /\ outbox \in {"empty", "welcome", "pong", "pongEnding", "busy", "stale", "result"}
  /\ call \in [Servers -> CallStates] /\ mode \in [Servers -> {"list", "call"}]

Flags == shutdown \in BOOLEAN /\ stop \in BOOLEAN

\* What runs where: the dead run nothing, and who shuts down had registered.
ProcessFacts ==
  /\ proc # "ours" => pc \in {"exited", "crashed"} /\ accept \in {"off", "ended"}
  /\ pc = "crashed" => proc # "ours"
  /\ pc \in {"register", "starting"} => accept = "off" /\ open = Unsaved
  /\ pc \in {"stopping", "joining", "draining", "marking", "removing"} => Registered

\* How far the stop has got: past the join, no pipe waits for a client.
StopFacts ==
  /\ shutdown => pc \in {"marking", "removing", "exited", "crashed"}
  /\ pc \in {"joining", "draining", "marking", "removing"} => stop
  /\ pc = "exited" /\ Registered => stop
  /\ pc \in {"draining", "marking", "removing", "exited"} =>
       accept \notin {"create", "listening"}

\* While the process lives and until its last stage, the file is there.
FileFacts ==
  /\ pc = "register" => descriptor = NoFile
  /\ pc = "starting" \/ Registered => descriptor.state # "none"
  /\ Listed => descriptor # NoFile
  /\ /\ stamp = "exact" /\ proc = "ours"
     /\ pc = "starting" \/ (Registered /\ pc # "exited")
     => Listed
  /\ stamp = "exact" /\ pc = "starting" =>
       file = descriptor /\ descriptor.project = Unsaved

IInv == DataTypes /\ Flags /\ ProcessFacts /\ StopFacts /\ FileFacts /\ RemovalIsOfTheDead

-----------------------------------------------------------------------------
(* Types.                                                                  *)

LEMMA TypesInit == Init => DataTypes /\ Flags
<1> SUFFICES ASSUME Init PROVE DataTypes /\ Flags
  OBVIOUS
<1>1. descriptor \in Descriptors /\ file \in Descriptors
  BY DEF Init, NoFile, Descriptors
<1>2. call \in [Servers -> CallStates] /\ mode \in [Servers -> {"list", "call"}]
  BY DEF Init, CallStates
<1>3. DataTypes
  BY <1>1, <1>2, RegistryAssumption DEF Init, DataTypes, MainStates, AcceptStates
<1>4. Flags
  BY DEF Init, Flags
<1>5. QED
  BY <1>3, <1>4

\* A write ends in one of two ways.
LEMMA WritesTypes ==
  ASSUME NEW f \in Descriptors, DataTypes, Writes(f)
  PROVE  /\ file' \in Descriptors /\ lastWrite' \in {"none", "ok", "failed"}
         /\ failed' \in 0..MaxFailedWrites
BY RegistryAssumption DEF Writes, DataTypes

LEMMA TransitionTypes ==
  ASSUME NEW new \in States, DataTypes, TransitionTo(new)
  PROVE  /\ descriptor' \in Descriptors /\ file' \in Descriptors
         /\ lastWrite' \in {"none", "ok", "failed"} /\ failed' \in 0..MaxFailedWrites
<1>1. [descriptor EXCEPT !.state = new] \in Descriptors
  BY DEF DataTypes, Descriptors
<1>2. CASE UNCHANGED <<descriptor, file, lastWrite, failed>>
  BY <1>2 DEF DataTypes
<1>3. CASE descriptor' = [descriptor EXCEPT !.state = new] /\ Writes(descriptor')
  BY <1>1, <1>3, WritesTypes
<1>4. QED
  BY <1>2, <1>3 DEF TransitionTo

LEMMA UpdateTypes ==
  ASSUME DataTypes, UpdateProject
  PROVE  /\ descriptor' \in Descriptors /\ file' \in Descriptors
         /\ lastWrite' \in {"none", "ok", "failed"} /\ failed' \in 0..MaxFailedWrites
<1>1. [descriptor EXCEPT !.project = open] \in Descriptors
  BY DEF DataTypes, Descriptors
<1>2. CASE UNCHANGED <<descriptor, file, lastWrite, failed>>
  BY <1>2 DEF DataTypes
<1>3. CASE descriptor' = [descriptor EXCEPT !.project = open] /\ Writes(descriptor')
  BY <1>1, <1>3, WritesTypes
<1>4. QED
  BY <1>2, <1>3 DEF UpdateProject

LEMMA MainTypes == ASSUME DataTypes, MainStep PROVE DataTypes'
<1> USE RegistryAssumption DEF DataTypes, MainStates, hostVars, lifeVars, pipeVars, serverVars
<1>1. CASE WriteStarting
  <2>1. [state |-> "starting", project |-> Unsaved] \in Descriptors
    BY DEF Descriptors, States
  <2>2. QED
    BY <1>1, <2>1 DEF WriteStarting
<1>2. CASE StartPipe
  BY <1>2 DEF StartPipe, AcceptStates
<1>3. CASE StartFails
  BY <1>3 DEF StartFails
<1>4. CASE HostLoads
  BY <1>4 DEF HostLoads
<1>5. CASE HostSaves
  BY <1>5 DEF HostSaves
<1>6. CASE LoadReady
  <2>1. "ready" \in States
    BY DEF States
  <2>2. CASE TransitionTo("ready")
    BY <1>6, <2>1, <2>2, TransitionTypes DEF LoadReady
  <2>3. CASE UNCHANGED <<descriptor, file, lastWrite, failed>>
    BY <1>6, <2>3 DEF LoadReady
  <2>4. QED
    BY <1>6, <2>2, <2>3 DEF LoadReady
<1>7. CASE SyncProject
  <2>1. CASE UpdateProject
    BY <1>7, <2>1, UpdateTypes DEF SyncProject
  <2>2. CASE UNCHANGED <<descriptor, file, lastWrite, failed>>
    BY <1>7, <2>2 DEF SyncProject
  <2>3. QED
    BY <1>7, <2>1, <2>2 DEF SyncProject
<1>8. CASE HostExits
  BY <1>8 DEF HostExits
<1>9. CASE StopPipe \/ Joined \/ JoinTimesOut
  BY <1>9 DEF StopPipe, Joined, JoinTimesOut
<1>10. CASE Shutdown
  <2>1. "draining" \in States
    BY DEF States
  <2>2. QED
    BY <1>10, <2>1, TransitionTypes DEF Shutdown
<1>11. CASE MarkGone
  <2>1. [descriptor EXCEPT !.state = "gone"] \in Descriptors
    BY DEF Descriptors, States
  <2>2. QED
    BY <1>11, <2>1 DEF MarkGone
<1>12. CASE RemoveOwn
  <2>1. NoFile \in Descriptors
    BY DEF NoFile, Descriptors
  <2>2. QED
    BY <1>12, <2>1, WritesTypes DEF RemoveOwn
<1>13. QED
  BY <1>1, <1>2, <1>3, <1>4, <1>5, <1>6, <1>7, <1>8, <1>9, <1>10, <1>11, <1>12 DEF MainStep

LEMMA AcceptTypes == ASSUME DataTypes, AcceptStep PROVE DataTypes'
<1> USE RegistryAssumption DEF DataTypes, AcceptStates, Disconnect, CloseConnection, Answers,
        hostVars, lifeVars, pipeVars, serverVars
<1>1. CASE LoopChecks \/ CreatesPipe
  BY <1>1 DEF LoopChecks, CreatesPipe
<1>2. CASE Accepts \/ ListenEnds \/ ListenRetries
  BY <1>2 DEF Accepts, ListenEnds, ListenRetries
<1>3. CASE Handshake \/ HandshakeFails \/ RequestLoop \/ ReadEnds
  BY <1>3 DEF Handshake, HandshakeFails, RequestLoop, ReadEnds
<1>4. CASE AnswerPing
  BY <1>4 DEF AnswerPing, Pong
<1>5. CASE AdmitRequest
  BY <1>5 DEF AdmitRequest, Refusal
<1>6. CASE ExecutionEnds
  BY <1>6 DEF ExecutionEnds
<1>7. QED
  BY <1>1, <1>2, <1>3, <1>4, <1>5, <1>6 DEF AcceptStep

LEMMA AtTypes ==
  ASSUME NEW s \in Servers, NEW place \in CallStates, DataTypes, At(s, place)
  PROVE  call' \in [Servers -> CallStates]
BY DEF At, DataTypes

LEMMA ServerTypes == ASSUME DataTypes, NEW s \in Servers, ServerStep(s) PROVE DataTypes'
<1> USE RegistryAssumption DEF DataTypes, pluginVars, hostVars, lifeVars, pipeVars, At, CallStates
<1>1. CASE BeginList(s) \/ BeginCall(s)
  BY <1>1 DEF BeginList, BeginCall
<1>2. CASE ReadFile(s) \/ ReadFileFails(s) \/ LookUp(s) \/ LookupUndetermined(s)
  BY <1>2 DEF ReadFile, ReadFileFails, LookUp, LookupUndetermined, Excluded, AfterExclusion
<1>3. CASE Connects(s) \/ ConnectFails(s) \/ ConnectTimesOut(s)
  BY <1>3 DEF Connects, ConnectFails, ConnectTimesOut, Excluded, AfterExclusion
<1>4. CASE Greeted(s)
  BY <1>4 DEF Greeted
<1>5. CASE Ponged(s)
  <2>1. CASE outbox = "pong"
    BY <1>5, <2>1 DEF Ponged, CloseEnd
  <2>2. CASE outbox = "pongEnding"
    BY <1>5, <2>2 DEF Ponged, CloseEnd, Excluded, AfterExclusion
  <2>3. QED
    BY <1>5, <2>1, <2>2 DEF Ponged
<1>6. CASE ExchangeFails(s) \/ CallEnds(s)
  BY <1>6 DEF ExchangeFails, CallEnds, CloseEnd, Excluded, AfterExclusion
<1>7. CASE Reread(s)
  BY <1>7 DEF Reread
<1>8. CASE LookAgain(s) \/ LookAgainUndetermined(s)
  BY <1>8 DEF LookAgain, LookAgainUndetermined
<1>9. CASE RemoveStale(s)
  <2>1. NoFile \in Descriptors
    BY DEF NoFile, Descriptors
  <2>2. QED
    BY <1>9, <2>1 DEF RemoveStale
<1>10. CASE RemoveFails(s)
  BY <1>10 DEF RemoveFails
<1>11. QED
  BY <1>1, <1>2, <1>3, <1>4, <1>5, <1>6, <1>7, <1>8, <1>9, <1>10 DEF ServerStep, Proceeds

LEMMA FlagsStep == ASSUME Flags, [Next]_vars PROVE Flags'
<1> USE DEF vars, hostVars, lifeVars, pipeVars, serverVars, pluginVars
<1>1. (stop' = stop \/ stop' = TRUE) /\ (shutdown' = shutdown \/ shutdown' \in BOOLEAN)
  <2>1. CASE MainStep
    BY <2>1, Zenon DEF MainStep, WriteStarting, StartPipe, StartFails, HostLoads, HostSaves,
       LoadReady, SyncProject, HostExits, StopPipe, Joined, JoinTimesOut, Shutdown, MarkGone,
       RemoveOwn
  <2>2. CASE ProcessEnds \/ PidChangesHands
    BY <2>2, Zenon DEF ProcessEnds, PidChangesHands
  <2>3. CASE AcceptStep
    BY <2>3, Zenon DEF AcceptStep, LoopChecks, CreatesPipe, Accepts, ListenEnds, ListenRetries,
       Handshake, HandshakeFails, RequestLoop, ReadEnds, AnswerPing, AdmitRequest, ExecutionEnds
  <2>4. ASSUME NEW s \in Servers, ServerStep(s) PROVE stop' = stop /\ shutdown' = shutdown
    BY <2>4, Zenon DEF ServerStep, Proceeds, BeginList, BeginCall, ReadFile, ReadFileFails,
       LookUp, LookupUndetermined, Connects, ConnectFails, ConnectTimesOut, Greeted, Ponged,
       ExchangeFails, CallEnds, Reread, LookAgain, LookAgainUndetermined,
       RemoveStale, RemoveFails
  <2>5. CASE UNCHANGED vars
    BY <2>5
  <2>6. QED
    BY <2>1, <2>2, <2>3, <2>4, <2>5, Zenon DEF Next
<1>2. QED
  BY <1>1, Zenon DEF Flags

LEMMA TypesStep == ASSUME DataTypes, [Next]_vars PROVE DataTypes'
<1>1. CASE ProcessEnds
  BY <1>1, RegistryAssumption DEF ProcessEnds, Disconnect, DataTypes, MainStates, AcceptStates,
     lifeVars, serverVars
<1>2. CASE PidChangesHands
  BY <1>2 DEF PidChangesHands, DataTypes, lifeVars, pipeVars, serverVars
<1>3. CASE UNCHANGED vars
  BY <1>3 DEF vars, hostVars, lifeVars, pipeVars, serverVars, DataTypes
<1>4. QED
  BY <1>1, <1>2, <1>3, MainTypes, AcceptTypes, ServerTypes DEF Next

\* THEOREM: every variable keeps its type (the states and files of Lifecycle, the
\* states of the accept loop, the steps of verify_candidate), for any number of
\* servers and projects and any bounds.
THEOREM RegistryTypeCorrect == Spec => []TypeOK
<1>1. Init => DataTypes /\ Flags
  BY TypesInit
<1>2. DataTypes /\ Flags /\ [Next]_vars => (DataTypes /\ Flags)'
  BY TypesStep, FlagsStep
<1>3. DataTypes /\ Flags => TypeOK
  BY Zenon DEF DataTypes, Flags, TypeOK
<1>4. QED
  BY <1>1, <1>2, <1>3, PTL DEF Spec

-----------------------------------------------------------------------------
(* Removal by others.                                                      *)

\* Only a look that finds no such process leads to the removal, and the dead
\* do not come back: the PID may be used again, but not with the creation time.
LEMMA DeadStep ==
  ASSUME DataTypes, RemovalIsOfTheDead, [Next]_vars
  PROVE  RemovalIsOfTheDead'
<1> SUFFICES ASSUME stamp' = "exact", NEW s \in Servers, call'[s] = "remove"
             PROVE  proc' # "ours"
  BY DEF RemovalIsOfTheDead
<1> USE DEF DataTypes, RemovalIsOfTheDead
<1>1. CASE call' = call /\ stamp' = stamp /\ (proc' = proc \/ proc' # "ours")
  BY <1>1
<1>2. CASE MainStep
  BY <1>1, <1>2 DEF MainStep, WriteStarting, StartPipe, StartFails, HostLoads, HostSaves,
     LoadReady, SyncProject, HostExits, StopPipe, Joined, JoinTimesOut, Shutdown, MarkGone,
     RemoveOwn, hostVars, serverVars
<1>3. CASE ProcessEnds \/ PidChangesHands
  BY <1>1, <1>3 DEF ProcessEnds, PidChangesHands, serverVars
<1>4. CASE AcceptStep
  BY <1>1, <1>4 DEF AcceptStep, LoopChecks, CreatesPipe, Accepts, ListenEnds, ListenRetries,
     Handshake, HandshakeFails, RequestLoop, ReadEnds, AnswerPing, AdmitRequest, ExecutionEnds,
     hostVars, serverVars
<1>5. ASSUME NEW q \in Servers, ServerStep(q) PROVE proc' # "ours"
  <2>1. stamp' = stamp /\ proc' = proc
    BY <1>5 DEF ServerStep, Proceeds, BeginList, BeginCall, ReadFile, ReadFileFails, LookUp,
       LookupUndetermined, Connects, ConnectFails, ConnectTimesOut, Greeted, Ponged,
       ExchangeFails, CallEnds, Reread, LookAgain, LookAgainUndetermined,
       RemoveStale, RemoveFails, hostVars, pluginVars
  <2>2. CASE LookAgain(q)
    BY <2>1, <2>2 DEF LookAgain, At, Found, AbsenceConfirmed
  <2>3. CASE ~LookAgain(q)
    <3>1. call'[q] # "remove"
      BY <1>5, <2>3 DEF ServerStep, Proceeds, BeginList, BeginCall, ReadFile, ReadFileFails,
         LookUp, LookupUndetermined, Connects, ConnectFails, ConnectTimesOut, Greeted, Ponged,
         ExchangeFails, CallEnds, Reread, LookAgainUndetermined, RemoveStale,
         RemoveFails, At, Excluded, AfterExclusion, AbsenceConfirmed
    <3>2. s # q /\ call'[s] = call[s]
      BY <1>5, <3>1 DEF ServerStep, Proceeds, BeginList, BeginCall, ReadFile, ReadFileFails,
         LookUp, LookupUndetermined, Connects, ConnectFails, ConnectTimesOut, Greeted, Ponged,
         ExchangeFails, CallEnds, Reread, LookAgain, LookAgainUndetermined,
         RemoveStale, RemoveFails, At, Excluded
    <3>3. QED
      BY <2>1, <3>2
  <2>4. QED
    BY <2>2, <2>3
<1>6. CASE UNCHANGED vars
  BY <1>1, <1>6 DEF vars, hostVars, serverVars
<1>7. QED
  BY <1>2, <1>3, <1>4, <1>5, <1>6 DEF Next

\* THEOREM: a server removes a descriptor only of a process that is dead, for any
\* number of servers that look, remove and are overtaken (instance_proven_absent).
THEOREM OnlyStaleRemoved == Spec => []RemovalIsOfTheDead
<1>1. Init => DataTypes /\ RemovalIsOfTheDead
  BY TypesInit DEF Init, RemovalIsOfTheDead
<1>2. DataTypes /\ RemovalIsOfTheDead /\ [Next]_vars => (DataTypes /\ RemovalIsOfTheDead)'
  BY TypesStep, DeadStep
<1>3. QED
  BY <1>1, <1>2, PTL DEF Spec

-----------------------------------------------------------------------------
(* The inductive invariant.                                                *)

\* What a server does leaves the plugin as it is, but for the file it removes.
LEMMA ServerFrame ==
  ASSUME NEW s \in Servers, ServerStep(s)
  PROVE  /\ UNCHANGED <<hostVars, pc, descriptor, shutdown, lastWrite, failed, stop, accept>>
         /\ file' = file \/ (call[s] = "remove" /\ file' = NoFile)
<1> USE DEF ServerStep, Proceeds, BeginList, BeginCall, ReadFile, ReadFileFails, LookUp,
       LookupUndetermined, Connects, ConnectFails, ConnectTimesOut, Greeted, Ponged,
       ExchangeFails, CallEnds, Reread, LookAgain, LookAgainUndetermined,
       RemoveStale, RemoveFails, pluginVars
<1>1. UNCHANGED hostVars
  BY Zenon
<1>2. UNCHANGED <<pc, descriptor, shutdown, lastWrite, failed, stop, accept>>
  BY Zenon DEF lifeVars
<1>3. file' = file \/ (call[s] = "remove" /\ file' = NoFile)
  BY Zenon DEF lifeVars
<1>4. QED
  BY <1>1, <1>2, <1>3

\* The accept thread changes nothing of the main thread's, and ends for good.
LEMMA AcceptFrame ==
  ASSUME ProcessFacts, AcceptStep
  PROVE  /\ UNCHANGED <<hostVars, pc, lifeVars, stop>>
         /\ accept \notin {"off", "ended"} /\ accept' # "off"
         /\ proc = "ours"
         /\ accept' = "listening" => accept = "create"
         /\ accept' = "create" => accept = "check" /\ ~stop
<1> USE DEF AcceptStep, LoopChecks, CreatesPipe, Accepts, ListenEnds, ListenRetries,
       Handshake, HandshakeFails, RequestLoop, ReadEnds, AnswerPing, AdmitRequest,
       ExecutionEnds
<1>1. UNCHANGED <<hostVars, pc, lifeVars, stop>>
  BY Zenon
<1>2. accept \notin {"off", "ended"} /\ accept' # "off"
  BY DEF Answers, CloseConnection
<1>3. proc = "ours"
  BY <1>2 DEF ProcessFacts
<1>4. accept' = "listening" => accept = "create"
  BY DEF Answers, CloseConnection
<1>5. accept' = "create" => accept = "check" /\ ~stop
  BY DEF Answers, CloseConnection, StopSeen
<1>6. QED
  BY <1>1, <1>2, <1>3, <1>4, <1>5

LEMMA ProcessStepHolds == ASSUME DataTypes, ProcessFacts, [Next]_vars PROVE ProcessFacts'
<1> USE DEF ProcessFacts, Registered, hostVars
<1>1. CASE MainStep
  BY <1>1 DEF MainStep, WriteStarting, StartPipe, StartFails, HostLoads, HostSaves, LoadReady,
     SyncProject, HostExits, StopPipe, Joined, JoinTimesOut, Shutdown, MarkGone, RemoveOwn,
     DataTypes, Transitions
<1>2. CASE ProcessEnds
  BY <1>2 DEF ProcessEnds
<1>3. CASE PidChangesHands
  BY <1>3 DEF PidChangesHands
<1>4. CASE AcceptStep
  BY <1>4, AcceptFrame
<1>5. ASSUME NEW s \in Servers, ServerStep(s) PROVE ProcessFacts'
  BY <1>5, ServerFrame
<1>6. CASE UNCHANGED vars
  BY <1>6 DEF vars
<1>7. QED
  BY <1>1, <1>2, <1>3, <1>4, <1>5, <1>6 DEF Next

LEMMA StopStepHolds ==
  ASSUME DataTypes, ProcessFacts, StopFacts, [Next]_vars
  PROVE  StopFacts'
<1> USE DEF StopFacts, ProcessFacts, Registered, hostVars
<1>1. CASE MainStep
  <2> USE DEF lifeVars
  <2>1. CASE WriteStarting \/ StartPipe \/ StartFails
    BY <1>1, <2>1 DEF WriteStarting, StartPipe, StartFails
  <2>2. CASE HostLoads \/ HostSaves \/ LoadReady \/ SyncProject
    BY <1>1, <2>2 DEF HostLoads, HostSaves, LoadReady, SyncProject
  <2>3. CASE HostExits
    BY <2>3 DEF HostExits
  <2>4. CASE StopPipe
    BY <2>4 DEF StopPipe
  <2>5. CASE Joined
    BY <2>5 DEF Joined
  <2>6. CASE JoinTimesOut
    BY <2>6, RegistryAssumption DEF JoinTimesOut
  <2>7. CASE Shutdown
    BY <2>7 DEF Shutdown
  <2>8. CASE MarkGone
    BY <2>8 DEF MarkGone
  <2>9. CASE RemoveOwn
    BY <2>9 DEF RemoveOwn
  <2>10. QED
    BY <1>1, <2>1, <2>2, <2>3, <2>4, <2>5, <2>6, <2>7, <2>8, <2>9 DEF MainStep
<1>2. CASE ProcessEnds
  BY <1>2 DEF ProcessEnds, lifeVars
<1>3. CASE PidChangesHands
  BY <1>3 DEF PidChangesHands, lifeVars
<1>4. CASE AcceptStep
  BY <1>4, AcceptFrame DEF lifeVars
<1>5. ASSUME NEW s \in Servers, ServerStep(s) PROVE StopFacts'
  BY <1>5, ServerFrame
<1>6. CASE UNCHANGED vars
  BY <1>6 DEF vars, lifeVars
<1>7. QED
  BY <1>1, <1>2, <1>3, <1>4, <1>5, <1>6 DEF Next

\* A change of a descriptor that exists leaves one, and the file, if it was there.
LEMMA WritesKeep ==
  ASSUME DataTypes, NEW f, f.state # "none", Writes(f)
  PROVE  /\ Listed => Listed'
         /\ lastWrite' = "ok" => file' = f
BY DEF Writes, Listed, NoFile

LEMMA TransitionKeeps ==
  ASSUME DataTypes, descriptor.state # "none", NEW new \in States, TransitionTo(new)
  PROVE  descriptor'.state # "none" /\ (Listed => Listed')
<1>1. CASE UNCHANGED <<descriptor, file, lastWrite, failed>>
  BY <1>1 DEF Listed
<1>2. CASE descriptor' = [descriptor EXCEPT !.state = new] /\ Writes(descriptor')
  <2>1. descriptor'.state = new
    BY <1>2 DEF DataTypes, Descriptors
  <2>2. new # "none"
    BY DEF States
  <2>3. QED
    BY <1>2, <2>1, <2>2, WritesKeep
<1>3. QED
  BY <1>1, <1>2 DEF TransitionTo

LEMMA UpdateKeeps ==
  ASSUME DataTypes, descriptor.state # "none", UpdateProject
  PROVE  descriptor'.state # "none" /\ (Listed => Listed')
<1>1. CASE UNCHANGED <<descriptor, file, lastWrite, failed>>
  BY <1>1 DEF Listed
<1>2. CASE descriptor' = [descriptor EXCEPT !.project = open] /\ Writes(descriptor')
  <2>1. descriptor'.state = descriptor.state
    BY <1>2 DEF DataTypes, Descriptors
  <2>2. QED
    BY <1>2, <2>1, WritesKeep
<1>3. QED
  BY <1>1, <1>2 DEF UpdateProject

LEMMA FileInit == Init => FileFacts
<1> SUFFICES ASSUME Init PROVE FileFacts
  OBVIOUS
<1>1. file = NoFile /\ descriptor = NoFile /\ pc = "register" /\ accept = "off"
  BY DEF Init
<1>2. QED
  BY <1>1 DEF FileFacts, Listed, Registered

LEMMA FileRegisters ==
  ASSUME DataTypes, ProcessFacts, FileFacts, WriteStarting \/ StartPipe \/ StartFails
  PROVE  FileFacts'
<1> USE DEF FileFacts, ProcessFacts, Registered, hostVars
<1>1. CASE WriteStarting
  <2>1. CASE pc' = "idle" /\ UNCHANGED <<descriptor, file, lastWrite, failed>>
    BY <1>1, <2>1 DEF WriteStarting, Listed
  <2>2. CASE pc' = "starting"
    <3>1. /\ descriptor' = [state |-> "starting", project |-> Unsaved] /\ file' = descriptor'
          /\ UNCHANGED <<stamp, accept>>
      BY <1>1, <2>2 DEF WriteStarting
    <3>2. descriptor'.state = "starting" /\ descriptor'.project = Unsaved
      BY <3>1
    <3>3. descriptor' # NoFile
      BY <3>2 DEF NoFile
    <3>4. QED
      BY <2>2, <3>1, <3>2, <3>3 DEF Listed
  <2>3. QED
    BY <1>1, <2>1, <2>2 DEF WriteStarting
<1>2. CASE StartPipe \/ StartFails
  BY <1>2 DEF StartPipe, StartFails, lifeVars, Listed
<1>3. QED
  BY <1>1, <1>2

LEMMA FileHandles ==
  ASSUME DataTypes, ProcessFacts, FileFacts, HostLoads \/ HostSaves \/ LoadReady \/ SyncProject
  PROVE  FileFacts'
<1> USE DEF FileFacts, ProcessFacts, Registered, hostVars
<1>1. CASE HostLoads \/ HostSaves
  BY <1>1 DEF HostLoads, HostSaves, lifeVars, Listed
<1>2. CASE Registered /\ (LoadReady \/ SyncProject)
  <2>1. descriptor.state # "none" /\ "ready" \in States
    BY <1>2 DEF States
  <2>2. descriptor'.state # "none" /\ (Listed => Listed')
    BY <1>2, <2>1, TransitionKeeps, UpdateKeeps DEF LoadReady, SyncProject
  <2>3. descriptor' # NoFile
    BY <2>2 DEF NoFile
  <2>4. pc' \in {"sync", "idle"} /\ pc \in {"ready", "sync"} /\ UNCHANGED <<stamp, proc, accept>>
    BY <1>2 DEF LoadReady, SyncProject
  <2>5. QED
    BY <1>2, <2>2, <2>3, <2>4
<1>3. CASE ~Registered /\ (LoadReady \/ SyncProject)
  BY <1>3 DEF LoadReady, SyncProject, Listed
<1>4. QED
  BY <1>1, <1>2, <1>3

LEMMA FileShutsDown ==
  ASSUME DataTypes, ProcessFacts, FileFacts,
         HostExits \/ StopPipe \/ Joined \/ JoinTimesOut \/ Shutdown \/ MarkGone \/ RemoveOwn
  PROVE  FileFacts'
<1> USE DEF FileFacts, ProcessFacts, Registered, hostVars
<1>1. CASE HostExits \/ StopPipe \/ Joined \/ JoinTimesOut
  BY <1>1 DEF HostExits, StopPipe, Joined, JoinTimesOut, lifeVars, Listed
<1>2. CASE Shutdown
  <2>1. descriptor.state # "none" /\ "draining" \in States
    BY <1>2 DEF Shutdown, States
  <2>2. descriptor'.state # "none" /\ (Listed => Listed')
    BY <1>2, <2>1, TransitionKeeps DEF Shutdown
  <2>3. descriptor' # NoFile
    BY <2>2 DEF NoFile
  <2>4. pc = "draining" /\ pc' = "marking" /\ UNCHANGED <<stamp, proc, accept>>
    BY <1>2 DEF Shutdown
  <2>5. QED
    BY <2>2, <2>3, <2>4
<1>3. CASE MarkGone
  <2>1. descriptor'.state = "gone"
    BY <1>3 DEF MarkGone, DataTypes, Descriptors
  <2>2. descriptor' # NoFile
    BY <2>1 DEF NoFile
  <2>3. pc = "marking" /\ pc' = "removing" /\ UNCHANGED <<stamp, proc, accept, file>>
    BY <1>3 DEF MarkGone
  <2>4. QED
    BY <2>1, <2>2, <2>3 DEF Listed
<1>4. CASE RemoveOwn
  BY <1>4 DEF RemoveOwn, Writes, Listed
<1>5. QED
  BY <1>1, <1>2, <1>3, <1>4

LEMMA FileStepHolds ==
  ASSUME DataTypes, ProcessFacts, RemovalIsOfTheDead, FileFacts, [Next]_vars
  PROVE  FileFacts'
<1> USE DEF FileFacts, ProcessFacts, Registered, hostVars
<1>1. CASE MainStep
  BY <1>1, FileRegisters, FileHandles, FileShutsDown DEF MainStep
<1>2. CASE ProcessEnds
  BY <1>2 DEF ProcessEnds, lifeVars, Listed
<1>3. CASE PidChangesHands
  BY <1>3 DEF PidChangesHands, lifeVars, Listed
<1>4. CASE AcceptStep
  BY <1>4, AcceptFrame DEF lifeVars, Listed
<1>5. ASSUME NEW s \in Servers, ServerStep(s) PROVE FileFacts'
  <2>1. CASE file' = file
    BY <1>5, <2>1, ServerFrame DEF Listed
  <2>2. CASE call[s] = "remove" /\ file' = NoFile
    BY <1>5, <2>2, ServerFrame DEF Listed, RemovalIsOfTheDead
  <2>3. QED
    BY <1>5, <2>1, <2>2, ServerFrame
<1>6. CASE UNCHANGED vars
  BY <1>6 DEF vars, lifeVars, Listed
<1>7. QED
  BY <1>1, <1>2, <1>3, <1>4, <1>5, <1>6 DEF Next

LEMMA IInvInductive == Spec => []IInv
<1>1. Init => IInv
  <2> SUFFICES ASSUME Init PROVE IInv
    OBVIOUS
  <2>1. ProcessFacts /\ StopFacts
    BY DEF Init, ProcessFacts, StopFacts, Registered
  <2>2. RemovalIsOfTheDead
    BY DEF Init, RemovalIsOfTheDead
  <2>3. QED
    BY <2>1, <2>2, TypesInit, FileInit, Zenon DEF IInv
<1>2. IInv /\ [Next]_vars => IInv'
  BY TypesStep, FlagsStep, ProcessStepHolds, StopStepHolds, FileStepHolds, DeadStep, Zenon
  DEF IInv
<1>3. QED
  BY <1>1, <1>2, PTL DEF Spec

\* THEOREM: who can connect to the pipe can find the instance. The file is there
\* before the first pipe and until after the last, whatever the stop had to give
\* up on (the order of register and of run_shutdown_sequence).
THEOREM ListenersAreFound == Spec => []ListenerHasDescriptor
<1>1. IInv => ListenerHasDescriptor
  BY DEF IInv, ProcessFacts, StopFacts, FileFacts, ListenerHasDescriptor, Registered
<1>2. QED
  BY IInvInductive, <1>1, PTL

-----------------------------------------------------------------------------
(* The end of the process.                                                 *)

LEMMA CleanStep ==
  ASSUME IInv, CleanExit, [Next]_vars
  PROVE  CleanExit'
<1> USE DEF CleanExit, Registered, Listed, hostVars, lifeVars
<1>0. DataTypes /\ ProcessFacts /\ RemovalIsOfTheDead
  BY DEF IInv
<1>1. CASE MainStep
  BY <1>0, <1>1 DEF MainStep, WriteStarting, StartPipe, StartFails, HostLoads, HostSaves,
     LoadReady, SyncProject, HostExits, StopPipe, Joined, JoinTimesOut, Shutdown, MarkGone,
     RemoveOwn, Writes, ProcessFacts
<1>2. CASE ProcessEnds
  BY <1>2 DEF ProcessEnds
<1>3. CASE PidChangesHands
  BY <1>3 DEF PidChangesHands
<1>4. CASE AcceptStep
  BY <1>0, <1>4, AcceptFrame
<1>5. ASSUME NEW s \in Servers, ServerStep(s) PROVE CleanExit'
  BY <1>5, ServerFrame
<1>6. CASE UNCHANGED vars
  BY <1>6 DEF vars
<1>7. QED
  BY <1>1, <1>2, <1>3, <1>4, <1>5, <1>6 DEF Next

\* THEOREM: an orderly end takes the descriptor away, joined or detached, panic or
\* not, unless the removal itself fails (run_shutdown_sequence, mark_gone).
THEOREM NothingLeftBehind == Spec => []CleanExit
<1>1. Init => CleanExit
  BY DEF Init, CleanExit
<1>2. IInv /\ CleanExit /\ [Next]_vars => CleanExit'
  BY CleanStep
<1>3. QED
  BY IInvInductive, <1>1, <1>2, PTL DEF Spec

-----------------------------------------------------------------------------
(* The file and the memory.                                                *)

LEMMA FollowStep ==
  ASSUME IInv, FileFollowsMemory, [Next]_vars
  PROVE  FileFollowsMemory'
<1> SUFFICES ASSUME stamp' = "exact", pc' = "idle", Registered', lastWrite' = "ok"
             PROVE  file' = descriptor' /\ file'.project = open'
  BY DEF FileFollowsMemory
<1> USE DEF FileFollowsMemory, Registered, hostVars
<1>0. DataTypes /\ ProcessFacts /\ StopFacts /\ FileFacts /\ RemovalIsOfTheDead
  BY Zenon DEF IInv
<1>1. CASE StartPipe
  BY <1>0, <1>1 DEF StartPipe, ProcessFacts, FileFacts, lifeVars
<1>2. CASE SyncProject
  <2>1. ~shutdown
    BY <1>0, <1>2 DEF SyncProject, StopFacts
  <2>2. Registered
    BY <1>2 DEF SyncProject
  <2>3. descriptor' = [descriptor EXCEPT !.project = open] /\ Writes(descriptor') /\ open' = open
    BY <1>2, <2>1, <2>2 DEF SyncProject, UpdateProject
  <2>4. descriptor'.project = open
    BY <1>0, <2>3 DEF DataTypes, Descriptors
  <2>5. file' = descriptor'
    BY <2>3 DEF Writes
  <2>6. QED
    BY <2>3, <2>4, <2>5
<1>3. CASE MainStep /\ ~StartPipe /\ ~SyncProject
  BY <1>0, <1>3 DEF MainStep, WriteStarting, StartFails, HostLoads, HostSaves, LoadReady,
     HostExits, StopPipe, Joined, JoinTimesOut, Shutdown, MarkGone, RemoveOwn, ProcessFacts
<1>4. CASE ProcessEnds
  BY <1>4 DEF ProcessEnds
<1>5. CASE PidChangesHands
  BY <1>5 DEF PidChangesHands, lifeVars
<1>6. CASE AcceptStep
  BY <1>0, <1>6, AcceptFrame DEF lifeVars
<1>7. ASSUME NEW s \in Servers, ServerStep(s)
      PROVE  file' = descriptor' /\ file'.project = open'
  <2>1. file' = file
    BY <1>0, <1>7, ServerFrame DEF RemovalIsOfTheDead, ProcessFacts
  <2>2. QED
    BY <1>7, <2>1, ServerFrame
<1>8. CASE UNCHANGED vars
  BY <1>8 DEF vars, lifeVars
<1>9. QED
  BY <1>1, <1>2, <1>3, <1>4, <1>5, <1>6, <1>7, <1>8 DEF Next

\* THEOREM: between handlers the file and the memory agree and name the open
\* project, unless the last write failed (transition_to, update_project).
THEOREM FileIsCurrent == Spec => []FileFollowsMemory
<1>1. Init => FileFollowsMemory
  BY DEF Init, FileFollowsMemory
<1>2. IInv /\ FileFollowsMemory /\ [Next]_vars => FileFollowsMemory'
  BY FollowStep
<1>3. QED
  BY IInvInductive, <1>1, <1>2, PTL DEF Spec

-----------------------------------------------------------------------------
(* The wire.                                                               *)

\* A client waits for each answer before it sends again, and sends one request.
WireFacts ==
  /\ outbox \notin {"stale", "pongEnding"}
  /\ peer = "none" => inbox = "empty" /\ outbox = "empty"
  /\ inbox # "empty" => outbox = "empty"
  /\ accept = "executing" => inbox = "empty" /\ outbox = "empty"
  /\ descriptor.state = "draining" => pc \in {"marking", "removing", "exited", "crashed"}
  /\ descriptor.state = "gone" => pc \in {"removing", "exited", "crashed"}
  /\ pc \in {"draining", "marking", "removing", "exited"} /\ Registered =>
       /\ accept \in {"executing", "top", "reading", "check", "ended"}
       /\ inbox = "empty" /\ outbox \in {"empty", "result"}
  /\ accept \in {"off", "check", "create", "ended"} => peer = "none"

LEMMA WireMain ==
  ASSUME IInv, WireFacts, MainStep
  PROVE  WireFacts'
<1> USE DEF WireFacts, Registered, hostVars, pipeVars
<1>0. DataTypes /\ ProcessFacts /\ StopFacts /\ FileFacts
  BY Zenon DEF IInv
<1>1. CASE WriteStarting
  BY <1>0, <1>1 DEF WriteStarting, ProcessFacts, FileFacts, NoFile
<1>2. CASE StartPipe \/ StartFails
  BY <1>0, <1>2 DEF StartPipe, StartFails, ProcessFacts, lifeVars
<1>3. CASE HostLoads \/ HostSaves
  BY <1>0, <1>3 DEF HostLoads, HostSaves, lifeVars
<1>4. CASE LoadReady \/ SyncProject
  <2>1. descriptor'.state \in {descriptor.state, "ready"}
    BY <1>0, <1>4 DEF LoadReady, SyncProject, TransitionTo, UpdateProject, DataTypes, Descriptors
  <2>2. pc' \in {"sync", "idle"} /\ pc \in {"ready", "sync"} /\ UNCHANGED <<proc, accept, pipeVars>>
    BY <1>4 DEF LoadReady, SyncProject
  <2>3. QED
    BY <2>1, <2>2
<1>5. CASE HostExits \/ StopPipe
  BY <1>0, <1>5 DEF HostExits, StopPipe, lifeVars
<1>6. CASE Joined
  BY <1>6 DEF Joined, lifeVars
<1>7. CASE JoinTimesOut
  BY <1>7, RegistryAssumption DEF JoinTimesOut, lifeVars
<1>8. CASE Shutdown
  <2>1. descriptor'.state \in {descriptor.state, "draining"}
    BY <1>0, <1>8 DEF Shutdown, TransitionTo, DataTypes, Descriptors
  <2>2. pc = "draining" /\ pc' = "marking" /\ UNCHANGED <<proc, accept, pipeVars>>
    BY <1>8 DEF Shutdown
  <2>3. QED
    BY <2>1, <2>2
<1>9. CASE MarkGone
  BY <1>9 DEF MarkGone
<1>10. CASE RemoveOwn
  BY <1>10 DEF RemoveOwn
<1>11. QED
  BY <1>1, <1>2, <1>3, <1>4, <1>5, <1>6, <1>7, <1>8, <1>9, <1>10 DEF MainStep

LEMMA WireAccept ==
  ASSUME IInv, WireFacts, AcceptStep
  PROVE  WireFacts'
<1> USE DEF WireFacts, Registered, Answers, CloseConnection, Disconnect, hostVars, pipeVars
<1>0. DataTypes /\ ProcessFacts /\ StopFacts
  BY Zenon DEF IInv
<1>1. UNCHANGED <<pc, descriptor>> /\ accept # "off"
  BY <1>0, AcceptFrame DEF lifeVars
<1>2. CASE LoopChecks \/ CreatesPipe
  <2>1. /\ accept = "check" => accept' \in {"create", "ended"}
        /\ accept = "create" => accept' \in {"listening", "ended"}
        /\ UNCHANGED <<inbox, outbox, peer>> /\ accept \in {"check", "create"}
    BY <1>2 DEF LoopChecks, CreatesPipe
  <2>2. pc \in {"draining", "marking", "removing", "exited"} => accept' = "ended"
    BY <1>0, <1>1, <1>2 DEF LoopChecks, CreatesPipe, StopFacts, StopSeen
  <2>3. QED
    BY <1>1, <2>1, <2>2
<1>3. CASE Accepts \/ ListenEnds \/ ListenRetries
  BY <1>0, <1>1, <1>3 DEF Accepts, ListenEnds, ListenRetries, StopFacts
<1>4. CASE Handshake \/ HandshakeFails \/ RequestLoop \/ ReadEnds
  BY <1>1, <1>4 DEF Handshake, HandshakeFails, RequestLoop, ReadEnds
<1>5. inbox # "empty" => descriptor.state \notin {"draining", "gone"}
  <2>1. pc # "crashed"
    BY <1>0, AcceptFrame DEF ProcessFacts
  <2>2. QED
    BY <1>1, <2>1
<1>6. CASE AnswerPing \/ AdmitRequest
  BY <1>1, <1>5, <1>6 DEF AnswerPing, Pong, AdmitRequest, Refusal
<1>7. CASE ExecutionEnds
  BY <1>1, <1>7 DEF ExecutionEnds
<1>8. QED
  BY <1>2, <1>3, <1>4, <1>6, <1>7 DEF AcceptStep

LEMMA WireServer ==
  ASSUME IInv, WireFacts, NEW s \in Servers, ServerStep(s)
  PROVE  WireFacts'
<1> USE DEF WireFacts, Registered, hostVars, pipeVars
<1>0. DataTypes /\ ProcessFacts /\ StopFacts
  BY Zenon DEF IInv
<1>1. UNCHANGED <<pc, descriptor, accept>>
  BY ServerFrame
<1>2. CASE UNCHANGED pipeVars
  BY <1>1, <1>2
<1>3. CASE CloseEnd(s)
  BY <1>0, <1>1, <1>3, RegistryAssumption DEF CloseEnd, DataTypes
<1>4. CASE Connects(s)
  BY <1>0, <1>1, <1>4 DEF Connects, StopFacts
<1>5. CASE Greeted(s)
  BY <1>0, <1>1, <1>5, RegistryAssumption DEF Greeted, DataTypes
<1>6. CASE Ponged(s)
  BY <1>0, <1>1, <1>3, <1>6, RegistryAssumption DEF Ponged, DataTypes
<1>7. QED
  BY <1>2, <1>3, <1>4, <1>5, <1>6 DEF ServerStep, Proceeds, BeginList, BeginCall, ReadFile,
     ReadFileFails, LookUp, LookupUndetermined, ConnectFails, ConnectTimesOut,
     ExchangeFails, CallEnds, Reread, LookAgain, LookAgainUndetermined, RemoveStale,
     RemoveFails

LEMMA WireStep ==
  ASSUME IInv, WireFacts, [Next]_vars
  PROVE  WireFacts'
<1>1. CASE ProcessEnds
  BY <1>1 DEF ProcessEnds, Disconnect, WireFacts, Registered, IInv, ProcessFacts, lifeVars
<1>2. CASE PidChangesHands
  BY <1>2 DEF PidChangesHands, WireFacts, Registered, lifeVars, pipeVars
<1>3. CASE UNCHANGED vars
  BY <1>3 DEF vars, WireFacts, Registered, hostVars, lifeVars, pipeVars
<1>4. QED
  BY <1>1, <1>2, <1>3, WireMain, WireAccept, WireServer DEF Next

\* THEOREM: no ping or request is answered by an instance that is ending: a connection
\* the stop gave up on is inside its only request (admit_request, STOP_TIMEOUT).
THEOREM GoneIsNeverAnswered == Spec => []NeverAnswersStale
<1>1. Init => WireFacts
  BY DEF Init, WireFacts, Registered, NoFile
<1>2. IInv /\ WireFacts /\ [Next]_vars => WireFacts'
  BY WireStep
<1>3. WireFacts => NeverAnswersStale
  BY DEF WireFacts, NeverAnswersStale
<1>4. QED
  BY IInvInductive, <1>1, <1>2, <1>3, PTL DEF Spec

-----------------------------------------------------------------------------
(* The promise.                                                            *)

\* The values of the promise's variables (see KeepsPromise).
Entry == IF Listed THEN "listed" ELSE IF descriptor = NoFile THEN "unseen" ELSE "gone"
Owner == IF proc = "ours" THEN "alive" ELSE "dead"

LEMMA PromiseMain ==
  ASSUME IInv, stamp = "exact", MainStep
  PROVE  \/ UNCHANGED <<Entry, Owner>>
         \/ Owner = "alive" /\ Entry = "unseen" /\ Entry' = "listed" /\ UNCHANGED Owner
         \/ Owner = "alive" /\ Entry = "listed" /\ Entry' = "gone" /\ UNCHANGED Owner
<1> USE DEF Entry, Owner, Registered, hostVars
<1>0. DataTypes /\ ProcessFacts /\ FileFacts
  BY Zenon DEF IInv
<1>1. CASE WriteStarting
  <2>1. pc = "register" /\ descriptor = NoFile /\ ~Listed /\ proc = "ours" /\ UNCHANGED proc
    BY <1>0, <1>1 DEF WriteStarting, ProcessFacts, FileFacts
  <2>2. CASE UNCHANGED <<descriptor, file>>
    BY <2>1, <2>2 DEF Listed
  <2>3. CASE descriptor' = [state |-> "starting", project |-> Unsaved] /\ file' = descriptor'
    <3>1. descriptor'.state = "starting"
      BY <2>3
    <3>2. Listed'
      BY <2>3, <3>1 DEF Listed, NoFile
    <3>3. QED
      BY <2>1, <3>2
  <2>4. QED
    BY <1>1, <2>2, <2>3 DEF WriteStarting
<1>2. CASE (LoadReady \/ SyncProject \/ Shutdown) /\ Registered
  <2>1. /\ proc = "ours" /\ UNCHANGED proc /\ Listed /\ descriptor.state # "none"
        /\ {"ready", "draining"} \subseteq States
    BY <1>0, <1>2 DEF LoadReady, SyncProject, Shutdown, ProcessFacts, FileFacts, States
  <2>2. Listed'
    BY <1>0, <1>2, <2>1, TransitionKeeps, UpdateKeeps DEF LoadReady, SyncProject, Shutdown
  <2>3. QED
    BY <2>1, <2>2
<1>3. CASE RemoveOwn
  <2>1. /\ proc = "ours" /\ UNCHANGED <<proc, descriptor>> /\ Listed /\ descriptor # NoFile
        /\ file' \in {file, NoFile}
    BY <1>0, <1>3 DEF RemoveOwn, ProcessFacts, FileFacts, Writes
  <2>2. QED
    BY <2>1 DEF Listed
<1>4. CASE MarkGone
  <2>1. proc = "ours" /\ UNCHANGED <<proc, file>> /\ Listed
    BY <1>0, <1>4 DEF MarkGone, ProcessFacts, FileFacts
  <2>2. QED
    BY <2>1 DEF Listed
<1>5. CASE UNCHANGED <<proc, file, descriptor>>
  BY <1>5 DEF Listed
<1>6. QED
  <2>1. CASE StartPipe \/ StartFails \/ HostLoads \/ HostSaves \/ HostExits \/ StopPipe \/ Joined
             \/ JoinTimesOut
    BY <1>5, <2>1 DEF StartPipe, StartFails, HostLoads, HostSaves, HostExits, StopPipe, Joined,
       JoinTimesOut, lifeVars
  <2>2. CASE (LoadReady \/ SyncProject) /\ ~Registered
    BY <1>5, <2>2 DEF LoadReady, SyncProject
  <2>3. Shutdown => Registered
    BY <1>0 DEF Shutdown, ProcessFacts
  <2>4. QED
    BY <1>1, <1>2, <1>3, <1>4, <2>1, <2>2, <2>3 DEF MainStep

LEMMA PromiseStep ==
  ASSUME IInv, stamp = "exact", [Next]_vars
  PROVE  [Promise!Next]_(Promise!vars)
<1>0. DataTypes /\ ProcessFacts /\ FileFacts /\ RemovalIsOfTheDead
  BY Zenon DEF IInv
<1>1. CASE MainStep
  BY <1>1, PromiseMain
  DEF Promise!Next, Promise!vars, Promise!Publish, Promise!Withdraw, Entry, Owner
<1>2. CASE ProcessEnds
  BY <1>2 DEF ProcessEnds, Promise!Next, Promise!vars, Promise!Die, lifeVars, Listed
<1>3. CASE PidChangesHands
  BY <1>3 DEF PidChangesHands, Promise!vars, lifeVars, Listed
<1>4. CASE AcceptStep
  BY <1>0, <1>4, AcceptFrame DEF Promise!vars, lifeVars, hostVars, Listed
<1>5. ASSUME NEW s \in Servers, ServerStep(s) PROVE [Promise!Next]_(Promise!vars)
  <2>1. CASE file' = file
    BY <1>5, <2>1, ServerFrame DEF Promise!vars, hostVars, Listed
  <2>2. CASE call[s] = "remove" /\ file' = NoFile
    <3>1. proc # "ours" /\ UNCHANGED <<proc, descriptor>> /\ ~Listed'
          /\ (Listed => descriptor # NoFile)
      BY <1>0, <1>5, <2>2, ServerFrame DEF RemovalIsOfTheDead, FileFacts, hostVars, Listed
    <3>2. QED
      BY <3>1 DEF Promise!Next, Promise!vars, Promise!Collect
  <2>3. QED
    BY <1>5, <2>1, <2>2, ServerFrame
<1>6. CASE UNCHANGED vars
  BY <1>6 DEF vars, hostVars, lifeVars, Promise!vars, Listed
<1>7. QED
  BY <1>1, <1>2, <1>3, <1>4, <1>5, <1>6 DEF Next

\* THEOREM: when the creation time of the process is known, the instance and its
\* servers implement RegistryPromise: the descriptor appears at most once, and is
\* taken away by its process or after its death.
THEOREM RegistryKeepsPromise == ASSUME Stamps = {"exact"} PROVE Spec => KeepsPromise
<1>1. Init => Promise!Init
  BY DEF Init, Promise!Init, Listed
<1>2. IInv => stamp = "exact"
  BY DEF IInv, DataTypes
<1>3. IInv /\ [Next]_vars => [Promise!Next]_(Promise!vars)
  BY <1>2, PromiseStep
<1>4. QED
  BY IInvInductive, <1>1, <1>3, PTL DEF Spec, KeepsPromise, Promise!Spec

=============================================================================
