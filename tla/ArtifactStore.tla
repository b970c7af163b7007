----------------------------- MODULE ArtifactStore -----------------------------
(***************************************************************************)
(* The store of rendered images in one server process                      *)
(* (crates/server/src/artifact.rs): concurrent tool calls take hand-off    *)
(* files over, the list is bounded in number, bytes and age by settings    *)
(* that change at run time, and the session directory is told apart from a *)
(* dead server's by the lock file in it.                                   *)
(*                                                                         *)
(* An artifact is named by the token of the hand-off file it came from: a  *)
(* token is taken over once. The clock is the system's and may be set back.*)
(***************************************************************************)
EXTENDS Integers, FiniteSets, FiniteSetsExt

CONSTANTS
  Thread,        \* blocking tasks of tool calls
  Token, NoToken,
  Sizes,         \* of an image
  MaxBytes,      \* ARTIFACT_MAX_BYTES
  Limits,        \* ArtifactLimits the settings can ask for
  MaxClock, MaxStuck,  \* bounds: time; files that cannot be removed
  Meddling       \* who interferes with a directory that is looked at or made anew

LimitsType == [count : Nat \ {0}, total : Nat, ttl : Nat \ {0}]

ASSUME StoreAssumption ==
  /\ IsFiniteSet(Token) /\ NoToken \notin Token /\ Sizes \subseteq Nat /\ MaxBytes \in Nat
  /\ Limits \subseteq LimitsType /\ \A l \in Limits : l.total >= MaxBytes
  /\ \A s \in Sizes : s <= MaxBytes
  /\ MaxClock \in Nat /\ MaxStuck \in Nat
  /\ Meddling \subseteq {"calls", "user"}

VARIABLES
  clock, limits,
  handoff,      \* per token, the file the plugin wrote
  entries,      \* ArtifactStore.entries, each with its place in the list
  disk, stuck,  \* files of the session directory; those whose removal failed
  wiped,        \* history: files the user removed with the directory, as long as
                \* the program knows them
  at, job,      \* where a tool call is, and the artifact it makes
  answer,       \* what ingest returned for a token
  server,       \* "starting", "running" or "ended"
  dir, lock,    \* the session directory, and our handle on session.lock
  age,          \* "old" if the directory has not changed for session_stale_after
  sweeper       \* another server that starts

callVars == <<at, job, answer>>
sessionVars == <<server, dir, lock>>
diskVars == <<disk, stuck, wiped, age>>
vars == <<clock, limits, handoff, entries, diskVars, callVars, sessionVars,
          sweeper>>

NoJob == [id |-> NoToken, size |-> 0, expires |-> 0]
Places == {"idle", "taking", "ensuring", "creating", "locking", "writing",
           "registering", "removing"}

Init ==
  /\ clock = 0 /\ limits \in Limits
  /\ handoff = [k \in Token |-> "none"]
  /\ entries = {}
  /\ disk = {} /\ stuck = {} /\ wiped = {}
  /\ at = [t \in Thread |-> "idle"] /\ job = [t \in Thread |-> NoJob]
  /\ answer = [k \in Token |-> "none"]
  /\ server = "starting" /\ dir = "present" /\ lock = "none" /\ age = "young"
  /\ sweeper = "idle"

-----------------------------------------------------------------------------
(* Time, settings and the plugin's side of the hand-off.                   *)

Remaking == {t \in Thread : at[t] \in {"creating", "locking"}}

\* The system's clock, set forward or back.
ClockMoves ==
  /\ server # "ended"
  /\ clock' \in 0 .. MaxClock /\ clock' # clock
  /\ UNCHANGED <<limits, handoff, entries, diskVars, callVars, sessionVars,
                 sweeper>>

\* session_stale_after is ten minutes or more: it does not pass between a
\* directory's creation and its lock, nor while a sweep looks at it.
DirectoryAges ==
  /\ server # "starting" /\ Remaking = {} /\ sweeper = "idle" /\ dir = "present"
  /\ age = "young" /\ age' = "old"
  /\ UNCHANGED <<clock, limits, handoff, entries, disk, stuck, wiped, callVars,
                 sessionVars, sweeper>>

SettingsChange ==
  /\ server # "ended"
  /\ limits' \in Limits /\ limits' # limits
  /\ UNCHANGED <<clock, handoff, entries, diskVars, callVars,
                 sessionVars, sweeper>>

\* The plugin sweeps what nobody came for, or is unloaded.
PluginDiscards ==
  /\ server # "ended"
  /\ \E k \in Token :
       /\ handoff[k] \in {"there", "left"}
       /\ handoff' = [handoff EXCEPT ![k] = "gone"]
  /\ UNCHANGED <<clock, limits, entries, diskVars, callVars, sessionVars,
                 sweeper>>

-----------------------------------------------------------------------------
(* Removal of files is best effort.                                        *)

Stuck == Cardinality(stuck) + Cardinality({k \in Token : handoff[k] = "left"})

\* The files of S go, except those that cannot be removed.
RemoveFiles(S) ==
  \E fail \in SUBSET (S \cap disk) :
    /\ Stuck + Cardinality(fail) <= MaxStuck
    /\ wiped' = wiped \ S
    /\ disk' = disk \ (S \ fail)
    /\ stuck' = stuck \cup fail
    /\ age' = IF disk' = disk THEN age ELSE "young"

-----------------------------------------------------------------------------
(* Limits.                                                                 *)

Total(S) == MapThenSumSet(LAMBDA e : e.size, S)

\* Mutant: the newcomer's bytes are left out.
FitsWithout(S, n) == Cardinality(S) < limits.count /\ Total(S) <= limits.total
Fits(S, n) == Cardinality(S) < limits.count /\ Total(S) + n <= limits.total

\* What can be left when entries go from the front: each is part of the one
\* before, and the loop stops at the first that n bytes fit behind.
Suffixes(S) == {S} \cup {{e \in S : e.place > f.place} : f \in S}
MakeRoom(S, n) == UNION {R \in Suffixes(S) : Fits(R, n)}

Fresh(e) == e.expires > clock
FreshEntries == {e \in entries : Fresh(e)}
Ids(S) == {e.id : e \in S}

\* The files of the entries that go.
Dropped(kept) == Ids(entries \ kept)

-----------------------------------------------------------------------------
(* ingest, in a blocking task.                                             *)

Running == server = "running"
Moves(t, p) == at' = [at EXCEPT ![t] = p]

\* The plugin has written an image and the response has arrived. The token's syntax is checked before any file is
\* touched.
IngestBegins(t) ==
  /\ Running /\ at[t] = "idle"
  /\ \E k \in Token :
       /\ handoff[k] = "none" /\ handoff' = [handoff EXCEPT ![k] = "there"]
       /\ job' = [job EXCEPT ![t] = [NoJob EXCEPT !.id = k]]
  /\ Moves(t, "taking")
  /\ UNCHANGED <<clock, limits, entries, diskVars, answer, sessionVars, sweeper>>

Expiry == clock + limits.ttl

\* Its length and digest are the declared ones; insert takes the time and the
\* ttl of the moment.
TakeHandoff(t) ==
  /\ Running /\ at[t] = "taking" /\ handoff[job[t].id] = "there"
  /\ \E n \in Sizes :
       job' = [job EXCEPT ![t].size = n, ![t].expires = Expiry]
  /\ Moves(t, "ensuring")
  /\ UNCHANGED <<clock, limits, handoff, entries, diskVars, answer, sessionVars,
                 sweeper>>

Refuse(t) ==
  /\ answer' = [answer EXCEPT ![job[t].id] = "failed"]
  /\ Moves(t, "removing")

\* Unreadable, TooLarge or ContentMismatch.
HandoffRefused(t) ==
  /\ Running /\ at[t] = "taking"
  /\ Refuse(t)
  /\ UNCHANGED <<clock, limits, handoff, entries, diskVars, job,
                 sessionVars, sweeper>>

DirectoryStands(t) ==
  /\ Running /\ at[t] = "ensuring" /\ dir = "present"
  /\ Moves(t, "writing")
  /\ UNCHANGED <<clock, limits, handoff, entries, diskVars, job, answer,
                 sessionVars, sweeper>>

DirectoryMissing(t) ==
  /\ Running /\ at[t] = "ensuring" /\ dir = "gone"
  /\ "calls" \in Meddling \/ Remaking = {}
  /\ Moves(t, "creating")
  /\ UNCHANGED <<clock, limits, handoff, entries, diskVars, job, answer,
                 sessionVars, sweeper>>

\* create_protected_directory accepts a directory that is there by now.
CreateDirectory(t) ==
  /\ Running /\ at[t] = "creating"
  /\ dir' = "present" /\ age' = IF dir = "present" THEN age ELSE "young"
  /\ Moves(t, "locking")
  /\ UNCHANGED <<clock, limits, handoff, entries, disk, stuck, job,
                 answer, server, lock, sweeper, wiped>>

CreateFails(t) ==
  /\ Running /\ at[t] = "creating"
  /\ Refuse(t)
  /\ UNCHANGED <<clock, limits, handoff, entries, diskVars, job,
                 sessionVars, sweeper>>

\* The new handle replaces the old one, which closes it; opening fails when
\* the file is open already, and then there is no handle.
\* Mutant: the lock is not taken again.
NotRelocked == "none"
Relocked == IF lock = "held" \/ dir = "gone" THEN "none" ELSE "held"

TakeLock(t) ==
  /\ Running /\ at[t] = "locking"
  /\ lock' = Relocked
  /\ age' = IF lock' = "held" THEN "young" ELSE age
  /\ Moves(t, "writing")
  /\ UNCHANGED <<clock, limits, handoff, entries, disk, stuck, job,
                 answer, server, dir, sweeper, wiped>>

WriteArtifact(t) ==
  /\ Running /\ at[t] = "writing" /\ dir = "present"
  /\ disk' = disk \cup {job[t].id} /\ age' = "young"
  /\ Moves(t, "registering")
  /\ UNCHANGED <<clock, limits, handoff, entries, stuck, job, answer,
                 sessionVars, sweeper, wiped>>

\* What was written of it is removed, if it can be.
\* Mutant: it stays.
KeepPartial(k) == disk' = disk \cup {k} /\ stuck' = stuck /\ age' = "young"
RemovePartial(k) ==
  \/ UNCHANGED <<disk, stuck, age>>
  \/ /\ dir = "present" /\ Stuck < MaxStuck
     /\ disk' = disk \cup {k} /\ stuck' = stuck \cup {k} /\ age' = "young"

WriteFails(t) ==
  /\ Running /\ at[t] = "writing"
  /\ RemovePartial(job[t].id)
  /\ Refuse(t)
  /\ UNCHANGED <<clock, limits, handoff, entries, job, sessionVars,
                 sweeper, wiped>>

\* Under the lock of the list: expired entries go, then the front of the list
\* until the newcomer fits, then it is pushed.
Register(t) ==
  /\ Running /\ at[t] = "registering"
  /\ LET kept == MakeRoom(FreshEntries, job[t].size)
         pushed == [id |-> job[t].id, size |-> job[t].size, expires |-> job[t].expires,
                    place |-> Cardinality({k \in Token : answer[k] = "stored"})]
     IN  /\ entries' = kept \cup {pushed}
         /\ RemoveFiles(Dropped(kept))
         /\ answer' = [answer EXCEPT ![job[t].id] = "stored"]
  /\ Moves(t, "removing")
  /\ UNCHANGED <<clock, limits, handoff, job, sessionVars, sweeper>>

\* The file of the hand-off goes, whatever came of it.
\* Mutant: only a stored one's.
RemovedIfStored(k) == IF answer[k] = "stored" THEN {"gone"} ELSE {handoff[k]}
RemovedHandoff(k) ==
  {"gone"} \cup (IF handoff[k] # "gone" /\ Stuck < MaxStuck THEN {"left"} ELSE {})

RemoveHandoff(t) ==
  /\ Running /\ at[t] = "removing"
  /\ \E h \in RemovedHandoff(job[t].id) : handoff' = [handoff EXCEPT ![job[t].id] = h]
  /\ Moves(t, "idle") /\ job' = [job EXCEPT ![t] = NoJob]
  /\ UNCHANGED <<clock, limits, entries, diskVars, answer, sessionVars,
                 sweeper>>

\* list, get and read sweep what has expired before they look.
LookUp ==
  /\ Running /\ FreshEntries # entries
  /\ entries' = FreshEntries
  /\ RemoveFiles(Dropped(FreshEntries))
  /\ UNCHANGED <<clock, limits, handoff, callVars, sessionVars, sweeper>>

-----------------------------------------------------------------------------
(* The session directory and its lock.                                     *)

\* open_with: the directory is there, its lock is taken.
OpenLocks ==
  /\ server = "starting"
  /\ server' = "running" /\ lock' = "held" /\ age' = "young"
  /\ UNCHANGED <<clock, limits, handoff, entries, disk, stuck, callVars,
                 dir, sweeper, wiped>>

\* What ends with the process: its memory, its threads, its handle.
ProcessGone ==
  /\ server' = "ended" /\ lock' = "none" /\ entries' = {} /\ wiped' = {}
  /\ at' = [t \in Thread |-> "idle"] /\ job' = [t \in Thread |-> NoJob]

\* The process dies, or open gives up: the directory stays.
Crash ==
  /\ server # "ended"
  /\ ProcessGone
  /\ UNCHANGED <<clock, limits, handoff, disk, stuck, age, answer, dir, sweeper>>

\* drop: no call holds the store any more; the lock is released first.
Drop ==
  /\ Running /\ \A t \in Thread : at[t] = "idle"
  /\ ProcessGone
  /\ dir' \in {"gone", dir} /\ disk' = IF dir' = "gone" THEN {} ELSE disk
  /\ UNCHANGED <<clock, limits, handoff, stuck, answer, age, sweeper>>

Pending == Ids(entries) \cup {job[t].id : t \in Thread}

\* The user removes the directory by hand, lock file and all.
UserRemoves ==
  /\ dir = "present" /\ server # "starting"
  /\ "user" \in Meddling \/ (Remaking = {} /\ sweeper = "idle")
  /\ dir' = "gone" /\ disk' = {} /\ wiped' = (wiped \cup disk) \cap Pending
  /\ lock' = IF lock = "held" THEN "stale" ELSE lock
  /\ UNCHANGED <<clock, limits, handoff, entries, stuck, callVars, server,
                 age, sweeper>>

\* Another server starts: its read_dir names the directory, with the time of
\* its last change. One that is not old enough is left alone whatever comes.
SweepSees ==
  /\ sweeper = "idle" /\ dir = "present" /\ age = "old"
  /\ sweeper' = "sees"
  /\ UNCHANGED <<clock, limits, handoff, entries, diskVars, callVars, sessionVars>>

\* session_is_owned: the lock file cannot be opened while its owner has it.
Unowned == lock # "held"

SweepAsks ==
  /\ sweeper = "sees"
  /\ sweeper' = IF Unowned THEN "unowned" ELSE "idle"
  /\ UNCHANGED <<clock, limits, handoff, entries, diskVars, callVars, sessionVars>>

\* remove_dir_all takes the images first; it stops at a lock file in use.
SweepRemoves ==
  /\ sweeper = "unowned"
  /\ sweeper' = "idle"
  /\ disk' \in {{}, disk}
  /\ dir' = IF disk' = {} /\ lock # "held" THEN "gone" ELSE dir
  /\ UNCHANGED <<clock, limits, handoff, entries, stuck, wiped, age, callVars,
                 server, lock>>

-----------------------------------------------------------------------------
Ingest(t) ==
  \/ IngestBegins(t) \/ TakeHandoff(t) \/ HandoffRefused(t)
  \/ DirectoryStands(t) \/ DirectoryMissing(t) \/ CreateDirectory(t) \/ CreateFails(t)
  \/ TakeLock(t) \/ WriteArtifact(t) \/ WriteFails(t)
  \/ Register(t) \/ RemoveHandoff(t)

Environment ==
  \/ ClockMoves \/ DirectoryAges \/ SettingsChange \/ PluginDiscards \/ UserRemoves
Session == OpenLocks \/ Crash \/ Drop
Sweep == SweepSees \/ SweepAsks \/ SweepRemoves

Next == (\E t \in Thread : Ingest(t)) \/ LookUp \/ Environment \/ Session \/ Sweep

Spec == Init /\ [][Next]_vars

-----------------------------------------------------------------------------
TypeOK ==
  /\ clock \in Nat /\ limits \in Limits
  /\ handoff \in [Token -> {"none", "there", "left", "gone"}]
  /\ entries \subseteq [id : Token, size : Nat, expires : Nat, place : Nat]
  /\ disk \subseteq Token /\ stuck \subseteq Token /\ wiped \subseteq Token
  /\ at \in [Thread -> Places] /\ 
     job \in [Thread -> [id : Token \cup {NoToken}, size : Nat, expires : Nat]]
  /\ answer \in [Token -> {"none", "failed", "stored"}]
  /\ server \in {"starting", "running", "ended"}
  /\ dir \in {"present", "gone"} /\ lock \in {"none", "held", "stale"}
  /\ age \in {"young", "old"}
  /\ sweeper \in {"idle", "sees", "unowned"}

\* What the list names can be read: no removal, by eviction, by a failed write
\* or by another server, takes a file whose entry stays. Only the user can.
ListedIsReadable == Ids(entries) \subseteq disk \cup wiped

\* Every file in the directory has an entry, or a call about to enter it, or
\* could not be removed: nothing is left that no sweep will ever look at.
Entering == {t \in Thread : at[t] = "registering"}
NothingForgotten ==
  Running => disk \subseteq Ids(entries) \cup stuck \cup {job[t].id : t \in Entering}

\* Whenever the list grows it is within the limits of that moment, whatever the
\* calls next to it did and however the settings changed under it.
WithinLimits ==
  [][ ~(entries' \subseteq entries) =>
        Cardinality(entries') <= limits.count /\ Total(entries') <= limits.total ]_vars

\* When an ingest has ended the image has one owner at most: its hand-off file
\* is gone (or cannot be removed), and a failed one left nothing in the store.
OneOwner ==
  /\ \A k \in Token :
       answer[k] = "failed" => k \notin Ids(entries) /\ k \notin disk \ stuck
  /\ Running =>
       \A k \in Token : answer[k] # "none" /\ (\A t \in Thread : job[t].id # k)
                         => handoff[k] \in {"gone", "left"}

\* What the client was told lives until its expires_at, unless a newer one
\* needs the room or the process ends.
KeptWhilePromised ==
  [][ \A e \in entries \ entries' :
        \/ e.expires <= clock
        \/ \E t \in Thread : Register(t)
        \/ server' = "ended" ]_vars

\* A server that starts takes nothing from a store whose server is alive.
LiveStoreKept ==
  [][SweepRemoves /\ (disk' # disk \/ dir' # dir) => server = "ended"]_vars
=============================================================================
