------------------------------ MODULE SettingsFile ------------------------------
(***************************************************************************)
(* The plugin's side of the settings file: the dialogs of several AviUtl2  *)
(* processes save changes to it (crates/plugin/src/settings.rs,            *)
(* settings_ui.rs, atomic_file.rs), their requests refresh a snapshot from *)
(* it.  Users edit it by hand as well.                                     *)
(***************************************************************************)
EXTENDS Naturals, FiniteSets

CONSTANTS
  Saver, NoSaver,   \* AviUtl2 processes with a settings dialog
  Item, Racing,     \* see SharedFile
  MaxWrites,        \* bound: saves and edits by hand
  MaxFaults         \* bound: failures, crashes, files held by somebody

ASSUME SettingsAssumption ==
  /\ IsFiniteSet(Saver) /\ NoSaver \notin Saver
  /\ MaxWrites \in Nat /\ MaxFaults \in Nat
  /\ Racing \subseteq {"absence", "loss"}

VARIABLES
  file, held,
  replacing,  \* the saver inside ReplaceFileW
  mutex,      \* owner of the named mutex
  at, change, merged,   \* per saver: where it is, what it sets, what it writes
  edited,     \* history: per saver, the user edited the file since it was read
  plugin,     \* per saver, its SettingsReader
  writes, faults

saverVars == <<mutex, at, change, merged, edited, replacing>>
vars == <<file, held, saverVars, plugin, writes, faults>>

F == INSTANCE SharedFile WITH replaced <- replacing # NoSaver

Nothing == [item |-> {}, on |-> FALSE]

Init ==
  /\ file \in F!Contents /\ held = FALSE /\ replacing = NoSaver /\ mutex = NoSaver
  /\ at = [s \in Saver |-> "closed"]
  /\ change = [s \in Saver |-> Nothing]
  /\ merged = [s \in Saver |-> {}] /\ edited = [s \in Saver |-> FALSE]
  /\ plugin = [s \in Saver |-> [stamp |-> F!NoStamp, off |-> {}]]
  /\ writes = 0 /\ faults = 0

Goes(s, p) == at' = [at EXCEPT ![s] = p]

-----------------------------------------------------------------------------
\* settings::refresh, at the start of every request.
RequestRefreshes(s) ==
  /\ \E text \in F!Reads : plugin' = [plugin EXCEPT ![s] = F!Refreshed(@, text)]
  /\ UNCHANGED <<file, held, saverVars, writes, faults>>

\* The dialog shows what the file says now; the user changes one item and
\* presses OK. Only what he changed is saved.
DialogAccepts(s) ==
  /\ at[s] = "closed" /\ writes < MaxWrites /\ writes' = writes + 1
  /\ \E text \in F!Reads : plugin' = [plugin EXCEPT ![s] = F!Refreshed(@, text)]
  /\ \E i \in Item :
       change' = [change EXCEPT ![s] = [item |-> {i}, on |-> i \notin plugin'[s].off]]
  /\ Goes(s, "acquiring")
  /\ UNCHANGED <<file, held, replacing, mutex, merged, edited, faults>>

\* An abandoned mutex is granted too. Mutant: the wait's result is not looked at.
MutexIgnored(s) == TRUE
MutexFree(s) == mutex = NoSaver

AcquireMutex(s) ==
  /\ at[s] = "acquiring" /\ MutexFree(s)
  /\ mutex' = s /\ Goes(s, "reading")
  /\ UNCHANGED <<file, held, replacing, change, merged, edited, plugin, writes, faults>>

\* The dialog stays open after a failure; here the user cancels it.
SaveEnds(s) ==
  /\ Goes(s, "closed")
  /\ change' = [change EXCEPT ![s] = Nothing]
  /\ merged' = [merged EXCEPT ![s] = {}] /\ edited' = [edited EXCEPT ![s] = FALSE]
Release(s) == mutex' = IF mutex = s THEN NoSaver ELSE mutex

MutexTimesOut(s) ==
  /\ at[s] = "acquiring" /\ mutex # NoSaver
  /\ SaveEnds(s)
  /\ UNCHANGED <<file, held, replacing, mutex, plugin, writes, faults>>

\* The change is laid over the latest file; one that cannot be parsed counts as
\* empty.
Overlaid(s, text) ==
  IF change[s].on THEN text.off \cup change[s].item ELSE text.off \ change[s].item

ReadForMerge(s) ==
  /\ at[s] = "reading"
  /\ \E text \in F!Reads \ {F!Unreadable} : merged' = [merged EXCEPT ![s] = Overlaid(s, text)]
  /\ edited' = [edited EXCEPT ![s] = FALSE]
  /\ Goes(s, "writing")
  /\ UNCHANGED <<file, held, replacing, mutex, change, plugin, writes, faults>>

ReadForMergeFails(s) ==
  /\ at[s] = "reading" /\ F!Unreadable \in F!Reads
  /\ SaveEnds(s) /\ Release(s)
  /\ UNCHANGED <<file, held, replacing, plugin, writes, faults>>

WriteTemporary(s) ==
  /\ at[s] = "writing" /\ Goes(s, "replacing")
  /\ UNCHANGED <<file, held, replacing, mutex, change, merged, edited, plugin, writes,
                 faults>>

\* Writing fails, or replacing before it has touched the file; the guard removes
\* the temporary one.
WriteFails(s) ==
  /\ at[s] \in {"writing", "replacing"} /\ replacing # s
  /\ IF held THEN UNCHANGED faults ELSE faults < MaxFaults /\ faults' = faults + 1
  /\ SaveEnds(s) /\ Release(s)
  /\ UNCHANGED <<file, held, replacing, plugin, writes>>

ReplaceBegins(s) ==
  /\ at[s] = "replacing" /\ replacing = NoSaver /\ ~held
  /\ replacing' = s
  /\ UNCHANGED <<file, held, mutex, at, change, merged, edited, plugin, writes, faults>>

ReplaceEnds(s) ==
  /\ replacing = s /\ replacing' = NoSaver
  /\ file' = F!Doc(merged[s])
  /\ Release(s) /\ Goes(s, "adopting")
  /\ UNCHANGED <<held, change, merged, edited, plugin, writes, faults>>

\* ReplaceFileW fails half-way: the guard removes the temporary file although
\* there may be no other left.
LeftByFailure == {file} \cup F!Lost

ReplaceFails(s) ==
  /\ replacing = s /\ replacing' = NoSaver
  /\ faults < MaxFaults /\ faults' = faults + 1
  /\ \E text \in LeftByFailure : file' = text
  /\ SaveEnds(s) /\ Release(s)
  /\ UNCHANGED <<held, plugin, writes>>

\* What was written is adopted without reading it again, after the mutex was
\* given back. Mutant: the settings are, the stamp is the one before.
AdoptedUnstamped(s) == [plugin[s] EXCEPT !.off = merged[s]]
Adopted(s) == [stamp |-> F!Doc(merged[s]), off |-> merged[s]]

Adopt(s) ==
  /\ at[s] = "adopting"
  /\ plugin' = [plugin EXCEPT ![s] = Adopted(s)]
  /\ SaveEnds(s)
  /\ UNCHANGED <<file, held, replacing, mutex, writes, faults>>

\* Mutant: the file is written in place.
LeftTorn(s) == {file, F!Doc(merged[s]), F!Broken}
LeftByCrash(s) == LeftByFailure \cup {F!Doc(merged[s])}

\* AviUtl2 dies and is started again: the mutex is abandoned, a replacement has
\* happened or not.
PluginCrashes(s) ==
  /\ at[s] # "closed" /\ faults < MaxFaults /\ faults' = faults + 1
  /\ IF replacing = s THEN \E text \in LeftByCrash(s) : file' = text ELSE UNCHANGED file
  /\ replacing' = IF replacing = s THEN NoSaver ELSE replacing
  /\ Release(s) /\ SaveEnds(s)
  /\ plugin' = [plugin EXCEPT ![s] = [stamp |-> F!NoStamp, off |-> {}]]
  /\ UNCHANGED <<held, writes>>

-----------------------------------------------------------------------------
\* By hand, without the mutex: a saver between its reading and its replacement
\* does not see it.
UserEdits ==
  /\ writes < MaxWrites /\ writes' = writes + 1
  /\ ~held /\ replacing = NoSaver
  /\ \E text \in F!Contents \ {file} : file' = text
  /\ edited' = [s \in Saver |-> edited[s] \/ at[s] \in {"writing", "replacing"}]
  /\ UNCHANGED <<held, replacing, mutex, at, change, merged, plugin, faults>>

SomebodyHolds ==
  /\ ~held /\ replacing = NoSaver /\ faults < MaxFaults /\ faults' = faults + 1
  /\ held' = TRUE
  /\ UNCHANGED <<file, saverVars, plugin, writes>>

SomebodyLetsGo ==
  /\ held /\ held' = FALSE
  /\ UNCHANGED <<file, saverVars, plugin, writes, faults>>

-----------------------------------------------------------------------------
Save(s) ==
  \/ DialogAccepts(s) \/ AcquireMutex(s) \/ MutexTimesOut(s) \/ ReadForMerge(s)
  \/ ReadForMergeFails(s) \/ WriteTemporary(s) \/ WriteFails(s) \/ ReplaceBegins(s)
  \/ ReplaceEnds(s) \/ ReplaceFails(s) \/ Adopt(s)

Next ==
  \/ \E s \in Saver : Save(s) \/ RequestRefreshes(s) \/ PluginCrashes(s)
  \/ UserEdits \/ SomebodyHolds \/ SomebodyLetsGo

Spec == Init /\ [][Next]_vars
-----------------------------------------------------------------------------
\* Types of the variables.
TypeOK ==
  /\ file \in F!Contents /\ held \in BOOLEAN
  /\ replacing \in Saver \cup {NoSaver} /\ mutex \in Saver \cup {NoSaver}
  /\ at \in [Saver -> {"closed", "acquiring", "reading", "writing", "replacing", "adopting"}]
  /\ change \in [Saver -> [item : SUBSET Item, on : BOOLEAN]]
  /\ merged \in [Saver -> SUBSET Item] /\ edited \in [Saver -> BOOLEAN]
  /\ plugin \in [Saver -> F!Readers]
  /\ writes \in Nat /\ faults \in Nat

\* A save changes what its user changed and nothing else: of two dialogs that
\* save different items both changes stay, and so do items the program does not
\* know. (What the user wrote by hand meanwhile is lost, as is broken content, and
\* everything when a replacement is broken off: LeftByFailure.)
OthersChangesStay ==
  [][ \A s \in Saver :
        replacing = s /\ replacing' # s /\ file' # file /\ ~edited[s]
        /\ file.kind = "doc" /\ file'.kind = "doc"
          => \A i \in Item \ change[s].item : i \in file'.off <=> i \in file.off ]_vars

\* No request works with settings other than the file's: that unchanged content
\* is not parsed again never hides a change, whoever wrote it and in whatever
\* order a save is adopted and the file read.
RefreshFindsFile ==
  \A s \in Saver :
    file.kind \in {"doc", "absent"} => F!Refreshed(plugin[s], file).off = file.off

\* Whoever reads the file meets whole documents only, before, during and after
\* a save that fails or dies, or no file when a replacement is broken off (this is
\* SharedFile, which the server relies on).
FileStaysWhole == F!FileSpec
=============================================================================
