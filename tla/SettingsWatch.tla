------------------------------ MODULE SettingsWatch -----------------------------
(***************************************************************************)
(* The server's side of the settings file: a watcher thread follows it     *)
(* (crates/server/src/settings.rs) and publishes what it says; whoever     *)
(* subscribes tells the client when the published tools change             *)
(* (mcp/tool_catalog.rs, mcp/server.rs).                                   *)
(***************************************************************************)
EXTENDS SharedFile, Naturals

CONSTANTS
  Tool,        \* the settings that hide a tool
  Attempts,    \* SETTINGS_READ_ATTEMPTS
  MaxWrites,   \* bound: changes of the file
  MaxFaults    \* bound: failures, and times somebody holds the file

ASSUME WatchAssumption ==
  /\ Tool \subseteq Item
  /\ Attempts \in Nat \ {0} /\ MaxWrites \in Nat /\ MaxFaults \in Nat
  /\ Racing \subseteq {"absence", "loss", "early", "between"}

VARIABLES
  thread,     \* where the watcher thread is
  attempt, issued,
  noted,      \* names in the notifications the kernel has for the watcher
  lastRead,   \* the watcher's SettingsReader
  source,     \* what SettingsSource hands out
  gaveUp,     \* the last reload ended with the file held by somebody
  offered,    \* history: items at their default in the file since the last read
  tools,      \* ToolListWatch: where it is, what it takes for visible
  told, listed,  \* the client: whether it is to ask, and the tools it knows
  writes, faults

threadVars == <<thread, attempt, issued, lastRead, gaveUp>>
clientVars == <<tools, told, listed>>
watchVars == <<fileVars, threadVars, noted, source, offered, clientVars, writes, faults>>

WatchInit ==
  /\ FileInit
  /\ thread = "starting" /\ attempt = 1 /\ issued = FALSE /\ noted = {}
  /\ lastRead = [stamp |-> NoStamp, off |-> {}] /\ source = {}
  /\ gaveUp = FALSE /\ offered = {}
  /\ tools = [at |-> "none", visible |-> {}, fresh |-> FALSE]
  /\ told = "yes" /\ listed = {}
  /\ writes = 0 /\ faults = 0

-----------------------------------------------------------------------------
(* The file changes under the watcher.                                     *)

Watched == thread \notin {"starting", "started", "ended"}
Notes(names) == noted' = IF Watched THEN noted \cup names ELSE {}
Defaults(text) == IF text.kind = "broken" THEN {} ELSE Item \ text.off
Seen == offered' = IF thread = "starting" THEN {} ELSE offered \cup Defaults(file')

\* The temporary file is in the same directory: the watcher hears of it.
SaverWrites ==
  /\ Watched /\ noted = {} /\ Notes({"temporary"})
  /\ UNCHANGED <<fileVars, threadVars, source, offered, clientVars, writes, faults>>

SaverReplaces ==
  /\ \/ ReplacementBegins /\ writes < MaxWrites /\ writes' = writes + 1
     \/ ReplacementEnds /\ UNCHANGED writes
  /\ Notes({"settings"}) /\ Seen
  /\ UNCHANGED <<threadVars, source, clientVars, faults>>

UserEdits ==
  /\ HandEdits /\ writes < MaxWrites /\ writes' = writes + 1
  /\ Notes({"settings"}) /\ Seen
  /\ UNCHANGED <<threadVars, source, clientVars, faults>>

SomebodyHolds ==
  /\ Hold /\ faults < MaxFaults /\ faults' = faults + 1
  /\ UNCHANGED <<threadVars, noted, source, offered, clientVars, writes>>

SomebodyLetsGo ==
  /\ LetGo
  /\ UNCHANGED <<threadVars, noted, source, offered, clientVars, writes, faults>>

-----------------------------------------------------------------------------
(* The watcher thread.                                                     *)

\* main reads the settings before it starts the watcher.
ServerStarts ==
  /\ thread = "starting" /\ thread' = "started"
  /\ \E text \in Reads : lastRead' = Refreshed(lastRead, text)
  /\ source' = lastRead'.off
  /\ offered' = Defaults(file)
  /\ UNCHANGED <<fileVars, attempt, issued, gaveUp, noted, clientVars, writes, faults>>

\* Mutant: the watcher waits at once.
WaitsAtOnce == "waiting"
AfterFirstIssue == "reading"

IssueWatch ==
  /\ thread \in {"started", "issuing"}
  /\ issued' = TRUE /\ attempt' = 1
  /\ thread' = IF thread = "started" THEN AfterFirstIssue ELSE "waiting"
  /\ UNCHANGED <<fileVars, noted, lastRead, gaveUp, source, offered, clientVars, writes,
                 faults>>

\* Issuing, waiting or taking the notification fails: the thread returns.
WatchEnds ==
  /\ thread \in {"started", "issuing", "waiting"} /\ faults < MaxFaults
  /\ thread' = "ended" /\ faults' = faults + 1
  /\ noted' = {} /\ attempt' = 1 /\ issued' = FALSE
  /\ UNCHANGED <<fileVars, lastRead, gaveUp, source, offered, clientVars, writes>>

\* demands_reload: the file is named, or the buffer has overflowed.
DemandsReload(overflow, names) == overflow \/ "settings" \in names

Wake ==
  /\ thread = "waiting" /\ noted # {}
  /\ \E overflow \in BOOLEAN :
       thread' = IF DemandsReload(overflow, noted) THEN "reading" ELSE "issuing"
  /\ noted' = {} /\ issued' = FALSE /\ attempt' = 1
  /\ UNCHANGED <<fileVars, lastRead, gaveUp, source, offered, clientVars, writes, faults>>

\* Mutant: a file that cannot be opened is taken for one that is not there.
HeldIsAbsent ==
  (Reads \ {Unreadable}) \cup (IF Unreadable \in Reads THEN {Absent} ELSE {})
Readable == Reads \ {Unreadable}

AfterReload == IF issued THEN "waiting" ELSE "issuing"

Reload ==
  /\ thread = "reading"
  /\ \E text \in Readable :
       /\ lastRead' = Refreshed(lastRead, text)
       /\ thread' = IF text # lastRead.stamp /\ text.kind # "broken" THEN "publishing"
                    ELSE AfterReload
  /\ offered' = Defaults(file)
  /\ attempt' = 1 /\ gaveUp' = FALSE
  /\ UNCHANGED <<fileVars, issued, noted, source, clientVars, writes, faults>>

\* Not readable: again after 20 ms, Attempts times in all, then not before the
\* next notification.
ReloadFails ==
  /\ thread = "reading" /\ Unreadable \in Reads
  /\ IF attempt < Attempts
     THEN attempt' = attempt + 1 /\ UNCHANGED <<thread, gaveUp>>
     ELSE attempt' = 1 /\ thread' = AfterReload /\ gaveUp' = held
  /\ UNCHANGED <<fileVars, issued, lastRead, noted, source, offered, clientVars, writes,
                 faults>>

\* replace_if_changed wakes the subscribers only when the value differs.
Publish ==
  /\ thread = "publishing" /\ thread' = AfterReload
  /\ source' = lastRead.off
  /\ tools' = IF source' = source \/ tools.at \in {"none", "ended"} THEN tools
              ELSE [tools EXCEPT !.fresh = TRUE]
  /\ UNCHANGED <<fileVars, attempt, issued, lastRead, gaveUp, noted, offered, told, listed,
                 writes, faults>>

-----------------------------------------------------------------------------
(* The client and the notification of a changed tool list.                 *)

Visible == Tool \ source

\* on_initialized subscribes, with what is visible now as the base.
ClientInitialized ==
  /\ thread # "starting" /\ tools.at = "none"
  /\ tools' = [at |-> "waiting", visible |-> Visible, fresh |-> FALSE]
  /\ UNCHANGED <<fileVars, threadVars, noted, source, offered, told, listed, writes,
                 faults>>

\* visible_tools has changed since it was last looked at.
SubscriberDiffers == Visible # tools.visible

SubscriberWakes ==
  /\ tools.at = "waiting" /\ tools.fresh
  /\ tools' = [at |-> IF SubscriberDiffers THEN "sending" ELSE "waiting",
               visible |-> Visible, fresh |-> FALSE]
  /\ UNCHANGED <<fileVars, threadVars, noted, source, offered, told, listed, writes,
                 faults>>

\* A notification that cannot be sent is not repeated; it ends the task only
\* when the transport is closed.
SendNotification ==
  /\ tools.at = "sending"
  /\ \/ told' = "yes" /\ tools' = [tools EXCEPT !.at = "waiting"] /\ UNCHANGED faults
     \/ /\ faults < MaxFaults /\ faults' = faults + 1
        /\ told' = IF told = "yes" THEN told ELSE "lost"
        /\ \/ tools' = [tools EXCEPT !.at = "waiting"]
           \/ tools' = [tools EXCEPT !.at = "ended", !.fresh = FALSE]
  /\ UNCHANGED <<fileVars, threadVars, noted, source, offered, listed, writes>>

\* tools/list reads the settings of the moment; the client asks once it is
\* initialised and whenever it is told to. Racing: it is answered before
\* on_initialized subscribes, or between a publication and the wake-up.
ClientLists ==
  /\ told = "yes" /\ thread # "starting"
  /\ tools.at = "none" => "early" \in Racing
  /\ tools.fresh => "between" \in Racing
  /\ listed' = Visible /\ told' = "no"
  /\ UNCHANGED <<fileVars, threadVars, noted, source, offered, tools, writes, faults>>

-----------------------------------------------------------------------------
Watcher == ServerStarts \/ IssueWatch \/ Wake \/ Reload \/ ReloadFails \/ Publish
Client == ClientInitialized \/ SubscriberWakes \/ SendNotification \/ ClientLists
Others == SaverWrites \/ SaverReplaces \/ UserEdits \/ SomebodyHolds \/ SomebodyLetsGo

WatchNext == Watcher \/ WatchEnds \/ Client \/ Others

\* A thread that can go on does, and so does a task of the runtime; a replacement ends, and whoever holds the file
\* lets go of it.
Fairness ==
  /\ WF_watchVars(Watcher) /\ WF_watchVars(Client)
  /\ WF_watchVars(SaverReplaces /\ replaced) /\ WF_watchVars(SomebodyLetsGo)

WatchSpec == WatchInit /\ [][WatchNext]_watchVars
FairSpec == WatchSpec /\ Fairness
-----------------------------------------------------------------------------
\* Types of the variables.
WatchTypeOK ==
  /\ file \in Contents /\ held \in BOOLEAN /\ replaced \in BOOLEAN
  /\ thread \in {"starting", "started", "issuing", "waiting", "reading", "publishing", "ended"}
  /\ attempt \in 1 .. Attempts /\ issued \in BOOLEAN
  /\ noted \subseteq {"settings", "temporary"}
  /\ lastRead \in Readers /\ source \subseteq Item /\ gaveUp \in BOOLEAN
  /\ offered \subseteq Item
  /\ tools \in [at : {"none", "waiting", "sending", "ended"}, visible : SUBSET Tool,
                fresh : BOOLEAN]
  /\ told \in {"yes", "no", "lost"} /\ listed \subseteq Tool
  /\ writes \in Nat /\ faults \in Nat

\* A tool that was hidden is offered again only because the file said so at
\* some moment since the watcher read it last, never because it was broken, or
\* could not be read.
NeverRepublished ==
  [][ thread # "starting" => source \ source' \subseteq offered ]_watchVars

\* When the file rests, the server has what it says, unless it is broken, the
\* watcher has ended, or somebody held the file through a whole reload.
ServerFollows ==
  <>[](thread # "ended" /\ ~gaveUp /\ file.kind # "broken" => source = file.off)

\* The client's list is the published one in the end, unless a notification
\* could not be sent.
ClientFollows ==
  <>[](tools.at \notin {"none", "ended"} /\ told # "lost" => listed = Visible)

\* What the file says arrives, at the server and at the client: no change is
\* missed for good by the watcher's requests, its notifications, its attempts
\* to open the file, or the task that tells the client.
ChangesArrive == ServerFollows /\ ClientFollows
=============================================================================
