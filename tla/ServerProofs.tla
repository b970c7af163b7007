------------------------------ MODULE ServerProofs ------------------------------
(***************************************************************************)
(* Proofs about what one server process keeps.  ArtifactStore, for any     *)
(* number of calls, images and limits: the list names files that are       *)
(* there, every file is accounted for, an image has one owner, no server   *)
(* that starts takes a live store, and the list never grows beyond its     *)
(* limits.  SettingsWatch, for any settings: nothing that was hidden is    *)
(* offered again unless the file said so.                                  *)
(***************************************************************************)
EXTENDS ArtifactStore, SettingsWatch, FiniteSetTheorems, TLAPS

\* A call at work has an image of its own, which nobody has answered for yet.
Before == {"taking", "ensuring", "creating", "locking", "writing"}
CallsAgree ==
  /\ \A t \in Thread : at[t] = "idle" => job[t] = NoJob
  /\ \A t \in Thread : at[t] # "idle" => job[t].id \in Token /\ handoff[job[t].id] # "none"
  /\ \A t, u \in Thread : at[t] # "idle" /\ at[u] # "idle" /\ t # u => job[t].id # job[u].id
  /\ \A t \in Thread : at[t] \in Before \cup {"registering"} => answer[job[t].id] = "none"
  /\ \A k \in Token : answer[k] # "none" => handoff[k] # "none"
  /\ server # "running" => \A t \in Thread : at[t] = "idle"

\* The list, the directory and the answers.
FilesAgree ==
  /\ \A e, f \in entries : e.id = f.id => e = f
  /\ \A e \in entries : answer[e.id] = "stored"
  /\ server # "running" => entries = {}
  /\ \A t \in Thread : at[t] = "registering" => job[t].id \in disk \cup wiped
  /\ \A t \in Thread : at[t] \in Before => job[t].id \notin disk
  /\ \A k \in Token : handoff[k] = "none" => k \notin disk
  /\ server = "starting" => disk = {} /\ \A k \in Token : answer[k] = "none"

\* A live store's directory is locked, except while one call makes it anew, and
\* no sweep has found it old and unlocked.
SessionAgrees ==
  /\ \A t, u \in Remaking : t = u
  /\ \A t \in Thread : at[t] = "creating" => dir = "gone"
  /\ \A t \in Thread : at[t] = "locking" => dir = "present" /\ age = "young"
  /\ Remaking # {} => sweeper = "idle" /\ lock # "held"
  /\ dir = "gone" => lock # "held"
  /\ server = "running" /\ dir = "present" /\ Remaking = {} => lock = "held"
  /\ server = "running" /\ sweeper # "idle" => dir = "present"
  /\ sweeper = "unowned" => server = "ended"
  /\ server = "starting" => dir = "present" /\ age = "young" /\ sweeper = "idle"

Accounted == ListedIsReadable /\ NothingForgotten /\ OneOwner
SInv == TypeOK /\ CallsAgree /\ FilesAgree /\ SessionAgrees /\ Accounted

-----------------------------------------------------------------------------
(* Steps by what they leave alone.                                         *)

LEMMA RoomIsPart == \A S, n : MakeRoom(S, n) \subseteq S
BY DEF MakeRoom, Suffixes

LEMMA KeptIsPart ==
  FreshEntries \subseteq entries /\ \A n : MakeRoom(FreshEntries, n) \subseteq entries
BY RoomIsPart DEF FreshEntries

\* What the removal of files of S does, whatever could not be removed.
LEMMA RemovesPart ==
  ASSUME NEW S, RemoveFiles(S)
  PROVE  /\ disk' \subseteq disk /\ stuck \subseteq stuck' /\ stuck' \subseteq stuck \cup disk
         /\ wiped' = wiped \ S
         /\ \A k \in disk : k \notin S => k \in disk'
         /\ \A k \in S : k \in disk' => k \in stuck'
         /\ age' \in {age, "young"}
BY DEF RemoveFiles

-----------------------------------------------------------------------------
(* Types.                                                                  *)

LEMMA TypeInit == Init => TypeOK
BY StoreAssumption DEF Init, TypeOK, NoJob, Places

LEMMA LimitTypes == \A l \in Limits : l.count \in Nat /\ l.total \in Nat /\ l.ttl \in Nat
BY StoreAssumption DEF LimitsType

LEMMA StoredCount == TypeOK => Cardinality({k \in Token : answer[k] = "stored"}) \in Nat
<1>1. IsFiniteSet(Token) /\ {k \in Token : answer[k] = "stored"} \subseteq Token
  BY StoreAssumption
<1>2. QED
  BY <1>1, FS_Subset, FS_CardinalityType

LEMMA CallTypes ==
  ASSUME TypeOK, CallsAgree, NEW t \in Thread, Ingest(t)
  PROVE  TypeOK'
<1> USE DEF TypeOK, Places, callVars, sessionVars, diskVars, Moves
<1>1. CASE IngestBegins(t)
  BY <1>1 DEF IngestBegins, NoJob
<1>2. CASE TakeHandoff(t)
  <2>1. PICK n \in Sizes : job' = [job EXCEPT ![t].size = n, ![t].expires = Expiry]
    BY <1>2 DEF TakeHandoff
  <2>2. n \in Nat /\ Expiry \in Nat
    BY LimitTypes, StoreAssumption DEF Expiry
  <2>3. job' \in [Thread -> [id : Token \cup {NoToken}, size : Nat, expires : Nat]]
    <3>1. job[t] \in [id : Token \cup {NoToken}, size : Nat, expires : Nat]
      OBVIOUS
    <3>2. [[job[t] EXCEPT !.size = n] EXCEPT !.expires = Expiry]
            \in [id : Token \cup {NoToken}, size : Nat, expires : Nat]
      BY <2>2, <3>1
    <3>3. QED
      BY <2>1, <3>2, ZenonT(60)
  <2>4. QED
    BY <1>2, <2>3 DEF TakeHandoff
<1>3. CASE HandoffRefused(t) \/ CreateFails(t)
  BY <1>3 DEF HandoffRefused, CreateFails, Refuse
<1>4. CASE DirectoryStands(t) \/ DirectoryMissing(t)
  BY <1>4 DEF DirectoryStands, DirectoryMissing
<1>5. CASE CreateDirectory(t)
  BY <1>5 DEF CreateDirectory
<1>6. CASE TakeLock(t)
  BY <1>6 DEF TakeLock, Relocked
<1>7. CASE WriteArtifact(t)
  BY <1>7 DEF WriteArtifact, CallsAgree
<1>8. CASE WriteFails(t)
  BY <1>8 DEF WriteFails, RemovePartial, Refuse, CallsAgree
<1>9. CASE Register(t)
  <2> DEFINE kept == MakeRoom(FreshEntries, job[t].size)
             pushed == [id |-> job[t].id, size |-> job[t].size, expires |-> job[t].expires,
                        place |-> Cardinality({k \in Token : answer[k] = "stored"})]
  <2>1. /\ entries' = kept \cup {pushed} /\ RemoveFiles(Dropped(kept))
        /\ answer' = [answer EXCEPT ![job[t].id] = "stored"]
    BY <1>9 DEF Register
  <2>2. job[t].id \in Token /\ job[t].size \in Nat /\ job[t].expires \in Nat
    BY <1>9 DEF Register, CallsAgree
  <2>3. pushed \in [id : Token, size : Nat, expires : Nat, place : Nat]
    BY <2>2, StoredCount
  <2>4. entries' \subseteq [id : Token, size : Nat, expires : Nat, place : Nat]
    BY <2>1, <2>3, KeptIsPart
  <2>5. disk' \subseteq Token /\ stuck' \subseteq Token /\ wiped' \subseteq Token
        /\ age' \in {"young", "old"}
    BY <2>1, RemovesPart
  <2>6. QED
    BY <1>9, <2>1, <2>4, <2>5 DEF Register
<1>10. CASE RemoveHandoff(t)
  BY <1>10 DEF RemoveHandoff, RemovedHandoff, NoJob
<1>11. QED
  BY <1>1, <1>2, <1>3, <1>4, <1>5, <1>6, <1>7, <1>8, <1>9, <1>10 DEF Ingest

LEMMA OtherTypes ==
  ASSUME TypeOK, CallsAgree, LookUp \/ Environment \/ Session \/ Sweep
  PROVE  TypeOK'
<1> USE DEF TypeOK, Places, callVars, sessionVars, diskVars
<1>1. CASE LookUp
  <2>1. disk' \subseteq Token /\ stuck' \subseteq Token /\ wiped' \subseteq Token
        /\ age' \in {"young", "old"}
    BY <1>1, RemovesPart DEF LookUp
  <2>2. QED
    BY <1>1, <2>1, KeptIsPart DEF LookUp
<1>2. CASE Environment
  BY <1>2 DEF Environment, ClockMoves, DirectoryAges, SettingsChange, PluginDiscards, UserRemoves
<1>3. CASE Session
  BY <1>3 DEF Session, OpenLocks, Crash, Drop, ProcessGone, NoJob
<1>4. CASE Sweep
  BY <1>4 DEF Sweep, SweepSees, SweepAsks, SweepRemoves
<1>5. QED
  BY <1>1, <1>2, <1>3, <1>4

-----------------------------------------------------------------------------
(* Calls.                                                                  *)

LEMMA CallsInit == Init => CallsAgree
BY DEF Init, CallsAgree, Before

LEMMA CallsCall ==
  ASSUME TypeOK, CallsAgree, NEW t \in Thread, Ingest(t)
  PROVE  CallsAgree'
<1> USE DEF TypeOK, CallsAgree, Before, Places, callVars, sessionVars, diskVars, Moves
<1>1. CASE IngestBegins(t)
  <2>1. PICK k \in Token : /\ handoff[k] = "none" /\ handoff' = [handoff EXCEPT ![k] = "there"]
                           /\ job' = [job EXCEPT ![t] = [NoJob EXCEPT !.id = k]]
    BY <1>1 DEF IngestBegins
  <2>2. job'[t].id = k
    BY <2>1 DEF NoJob
  <2>3. \A u \in Thread : at[u] # "idle" => job[u].id # k
    BY <2>1
  <2>4. at' = [at EXCEPT ![t] = "taking"] /\ at[t] = "idle" /\ answer' = answer
        /\ server = "running" /\ server' = server
    BY <1>1 DEF IngestBegins, Running
  <2>5. \A u \in Thread : u # t => job'[u] = job[u] /\ at'[u] = at[u]
    BY <2>1, <2>4
  <2>6. handoff'[k] = "there" /\ \A j \in Token : j # k => handoff'[j] = handoff[j]
    BY <2>1
  <2>7. answer[k] = "none"
    BY <2>1
  <2>8. QED
    BY <2>2, <2>3, <2>4, <2>5, <2>6, <2>7
<1>2. CASE TakeHandoff(t)
  <2>1. PICK n \in Sizes : job' = [job EXCEPT ![t].size = n, ![t].expires = Expiry]
    BY <1>2 DEF TakeHandoff
  <2>2. \A u \in Thread : job'[u].id = job[u].id /\ (u # t => job'[u] = job[u])
    BY <2>1
  <2>3. at' = [at EXCEPT ![t] = "ensuring"] /\ at[t] = "taking" /\ handoff' = handoff
        /\ answer' = answer /\ server = "running" /\ server' = server
    BY <1>2 DEF TakeHandoff, Running
  <2>4. QED
    BY <2>2, <2>3
<1>3. CASE HandoffRefused(t) \/ CreateFails(t) \/ WriteFails(t)
  BY <1>3 DEF HandoffRefused, CreateFails, WriteFails, Refuse, Running
<1>4. CASE DirectoryStands(t) \/ DirectoryMissing(t) \/ CreateDirectory(t) \/ TakeLock(t)
           \/ WriteArtifact(t)
  BY <1>4 DEF DirectoryStands, DirectoryMissing, CreateDirectory, TakeLock, WriteArtifact,
     Running
<1>5. CASE Register(t)
  <2>1. /\ at[t] = "registering" /\ at' = [at EXCEPT ![t] = "removing"] /\ job' = job
        /\ handoff' = handoff /\ server' = server /\ server = "running"
        /\ answer' = [answer EXCEPT ![job[t].id] = "stored"]
    BY <1>5 DEF Register, Running
  <2>2. QED
    BY <2>1
<1>6. CASE RemoveHandoff(t)
  BY <1>6 DEF RemoveHandoff, RemovedHandoff, NoJob, Running
<1>7. QED
  BY <1>1, <1>2, <1>3, <1>4, <1>5, <1>6 DEF Ingest

LEMMA CallsOther ==
  ASSUME TypeOK, CallsAgree, LookUp \/ Environment \/ Session \/ Sweep
  PROVE  CallsAgree'
<1> USE DEF TypeOK, CallsAgree, Before, callVars, sessionVars, diskVars
<1>1. CASE LookUp
  BY <1>1 DEF LookUp
<1>2. CASE Environment
  BY <1>2 DEF Environment, ClockMoves, DirectoryAges, SettingsChange, PluginDiscards, UserRemoves
<1>3. CASE Session
  BY <1>3 DEF Session, OpenLocks, Crash, Drop, ProcessGone, NoJob, Running
<1>4. CASE Sweep
  BY <1>4 DEF Sweep, SweepSees, SweepAsks, SweepRemoves
<1>5. QED
  BY <1>1, <1>2, <1>3, <1>4

-----------------------------------------------------------------------------
(* The session directory.                                                  *)

LEMMA SessionInit == Init => SessionAgrees
BY DEF Init, SessionAgrees, Remaking

LEMMA SessionCall ==
  ASSUME Meddling = {}, TypeOK, CallsAgree, SessionAgrees, NEW t \in Thread, Ingest(t)
  PROVE  SessionAgrees'
<1> USE DEF TypeOK, SessionAgrees, Remaking, Places, callVars, sessionVars, diskVars, Moves
<1>1. CASE IngestBegins(t) \/ TakeHandoff(t) \/ HandoffRefused(t) \/ DirectoryStands(t)
           \/ RemoveHandoff(t)
  BY <1>1 DEF IngestBegins, TakeHandoff, HandoffRefused, Refuse, DirectoryStands, RemoveHandoff
<1>2. CASE DirectoryMissing(t)
  BY <1>2 DEF DirectoryMissing, Running
<1>3. CASE CreateFails(t)
  BY <1>3 DEF CreateFails, Refuse, Running
<1>4. CASE CreateDirectory(t)
  BY <1>4 DEF CreateDirectory, Running
<1>5. CASE TakeLock(t)
  BY <1>5 DEF TakeLock, Relocked, Running
<1>6. CASE WriteArtifact(t)
  BY <1>6 DEF WriteArtifact, Running
<1>7. CASE WriteFails(t)
  BY <1>7 DEF WriteFails, Refuse, RemovePartial, Running
<1>8. CASE Register(t)
  <2>1. age' \in {age, "young"}
    BY <1>8, RemovesPart DEF Register
  <2>2. at' = [at EXCEPT ![t] = "removing"] /\ at[t] = "registering"
        /\ UNCHANGED <<server, dir, lock, sweeper>>
    BY <1>8 DEF Register
  <2>3. QED
    BY <2>1, <2>2
<1>9. QED
  BY <1>1, <1>2, <1>3, <1>4, <1>5, <1>6, <1>7, <1>8 DEF Ingest

LEMMA SessionOther ==
  ASSUME Meddling = {}, TypeOK, CallsAgree, SessionAgrees, LookUp \/ Environment \/ Session \/ Sweep
  PROVE  SessionAgrees'
<1> USE DEF TypeOK, SessionAgrees, Remaking, callVars, sessionVars, diskVars
<1>1. CASE LookUp
  <2>1. age' \in {age, "young"}
    BY <1>1, RemovesPart DEF LookUp
  <2>2. UNCHANGED <<at, server, dir, lock, sweeper>>
    BY <1>1 DEF LookUp
  <2>3. QED
    BY <2>1, <2>2
<1>2. CASE ClockMoves \/ DirectoryAges \/ SettingsChange \/ PluginDiscards
  BY <1>2 DEF ClockMoves, DirectoryAges, SettingsChange, PluginDiscards
<1>3. CASE UserRemoves
  BY <1>3 DEF UserRemoves
<1>4. CASE Session
  BY <1>4 DEF Session, OpenLocks, Crash, Drop, ProcessGone, Running, CallsAgree
<1>5. CASE Sweep
  BY <1>5 DEF Sweep, SweepSees, SweepAsks, SweepRemoves, Unowned
<1>6. QED
  BY <1>1, <1>2, <1>3, <1>4, <1>5 DEF Environment

-----------------------------------------------------------------------------
(* Files, entries and answers.                                             *)

LEMMA FilesInit == Init => FilesAgree /\ Accounted
BY DEF Init, FilesAgree, Accounted, ListedIsReadable, NothingForgotten, OneOwner, Ids,
   Before, Running

\* Registering: what stays is a part of the list, the newcomer's name is new.
LEMMA RegisterFiles ==
  ASSUME TypeOK, CallsAgree, FilesAgree, Accounted, NEW t \in Thread, Register(t)
  PROVE  (FilesAgree /\ Accounted)'
<1> DEFINE k == job[t].id
           kept == MakeRoom(FreshEntries, job[t].size)
           pushed == [id |-> job[t].id, size |-> job[t].size, expires |-> job[t].expires,
                      place |-> Cardinality({j \in Token : answer[j] = "stored"})]
<1>1. /\ entries' = kept \cup {pushed} /\ RemoveFiles(Ids(entries \ kept))
      /\ answer' = [answer EXCEPT ![k] = "stored"]
      /\ at' = [at EXCEPT ![t] = "removing"] /\ at[t] = "registering" /\ server = "running"
      /\ UNCHANGED <<handoff, job, server>>
  BY DEF Register, Dropped, Running, Moves, sessionVars
<1>2. k \in Token /\ handoff[k] # "none" /\ answer[k] = "none"
  BY <1>1 DEF CallsAgree
<1>3. kept \subseteq entries /\ k \notin Ids(entries) /\ pushed.id = k
  BY <1>2, KeptIsPart DEF FilesAgree, Ids
<1> HIDE DEF kept, pushed
<1>4. Ids(entries') = Ids(kept) \cup {k} /\ Ids(kept) \subseteq Ids(entries)
  BY <1>1, <1>3 DEF Ids
<1>5. Ids(kept) \cap Ids(entries \ kept) = {} /\ Ids(entries) = Ids(kept) \cup Ids(entries \ kept)
  BY <1>3 DEF Ids, FilesAgree
<1> DEFINE gone == Ids(entries \ kept)
<1>6. /\ disk' \subseteq disk /\ stuck \subseteq stuck' /\ wiped' = wiped \ gone
      /\ \A j \in disk : j \notin gone => j \in disk'
      /\ \A j \in gone : j \in disk' => j \in stuck'
  BY <1>1, RemovesPart
<1>7. k \notin gone /\ \A j \in gone : j \in Ids(entries)
  BY <1>3, <1>5
<1> HIDE DEF gone
<1>8. \A j \in Token : j # k => answer'[j] = answer[j]
  BY <1>1 DEF TypeOK
<1>9. answer'[k] = "stored"
  BY <1>1, <1>2 DEF TypeOK
<1>10. \A u \in Thread : u # t => at'[u] = at[u]
  BY <1>1 DEF TypeOK
<1>11. at'[t] = "removing"
  BY <1>1 DEF TypeOK
<1>12. \A u \in Thread : u # t /\ at[u] # "idle" => job[u].id # k
  BY <1>1 DEF CallsAgree
<1>13. \A u \in Thread : at[u] = "registering" => job[u].id \notin gone
  BY <1>1, <1>7 DEF CallsAgree, FilesAgree, Ids
<1>14. FilesAgree'
  <2>1. \A e, f \in entries' : e.id = f.id => e = f
    BY <1>1, <1>3 DEF FilesAgree, Ids
  <2>2. \A e \in entries' : answer'[e.id] = "stored"
    BY <1>1, <1>3, <1>8, <1>9 DEF FilesAgree, TypeOK, Ids
  <2>3. \A u \in Thread : at'[u] = "registering" => job'[u].id \in disk' \cup wiped'
    BY <1>1, <1>6, <1>10, <1>11, <1>13 DEF FilesAgree
  <2>4. \A u \in Thread : at'[u] \in Before => job'[u].id \notin disk'
    BY <1>1, <1>6, <1>10, <1>11 DEF FilesAgree, Before
  <2>5. QED
    BY <1>1, <1>6, <2>1, <2>2, <2>3, <2>4 DEF FilesAgree
<1>15. ListedIsReadable'
  <2>1. k \in disk' \cup wiped'
    BY <1>1, <1>6, <1>7 DEF FilesAgree
  <2>2. ASSUME NEW j \in Ids(kept)
        PROVE  j \in disk' \cup wiped'
    BY <2>2, <1>4, <1>5, <1>6 DEF Accounted, ListedIsReadable, gone
  <2>3. QED
    BY <2>1, <2>2, <1>4 DEF ListedIsReadable, Ids
<1>16. NothingForgotten'
  <2>1. SUFFICES ASSUME NEW j \in disk'
                 PROVE  j \in Ids(entries') \cup stuck' \cup {job'[u].id : u \in Entering'}
    BY DEF NothingForgotten
  <2>2. j \in Ids(entries) \cup stuck \cup {job[u].id : u \in Entering}
    BY <1>1, <1>6 DEF Accounted, NothingForgotten, Running
  <2>3. CASE j \in Ids(entries)
    BY <2>3, <1>4, <1>5, <1>6 DEF gone
  <2>4. CASE j \in stuck
    BY <2>4, <1>6
  <2>5. CASE \E u \in Entering : j = job[u].id
    BY <2>5, <1>1, <1>4, <1>10 DEF Entering
  <2>6. QED
    BY <2>2, <2>3, <2>4, <2>5
<1>17. OneOwner'
  <2>1. ASSUME NEW j \in Token, answer'[j] = "failed"
        PROVE  j \notin Ids(entries') /\ j \notin disk' \ stuck'
    <3>1. j # k /\ answer[j] = "failed"
      BY <2>1, <1>8, <1>9
    <3>2. QED
      BY <3>1, <1>4, <1>6 DEF Accounted, OneOwner
  <2>2. ASSUME NEW j \in Token, answer'[j] # "none", \A u \in Thread : job'[u].id # j
        PROVE  handoff'[j] \in {"gone", "left"}
    <3>1. j # k
      BY <2>2, <1>1
    <3>2. QED
      BY <2>2, <3>1, <1>1, <1>8 DEF Accounted, OneOwner, Running
  <2>3. QED
    BY <2>1, <2>2 DEF OneOwner
<1>18. QED
  BY <1>14, <1>15, <1>16, <1>17 DEF Accounted

\* A call that fails: at most a file that could not be removed is new.
LEMMA RefusedFiles ==
  ASSUME TypeOK, CallsAgree, FilesAgree, Accounted, NEW t \in Thread, server = "running",
         at[t] \in Before, at' = [at EXCEPT ![t] = "removing"],
         answer' = [answer EXCEPT ![job[t].id] = "failed"],
         UNCHANGED <<handoff, entries, wiped, job, server>>,
         \/ disk' = disk /\ stuck' = stuck
         \/ disk' = disk \cup {job[t].id} /\ stuck' = stuck \cup {job[t].id}
  PROVE  (FilesAgree /\ Accounted)'
<1> DEFINE k == job[t].id
<1>1. k \in Token /\ handoff[k] # "none" /\ answer[k] = "none"
  BY DEF CallsAgree, Before
<1>2. k \notin Ids(entries) /\ k \notin disk
  BY <1>1 DEF FilesAgree, Ids
<1>3. answer'[k] = "failed" /\ \A j \in Token : j # k => answer'[j] = answer[j]
  BY <1>1 DEF TypeOK
<1>4. \A u \in Thread : u # t => at'[u] = at[u]
  BY DEF TypeOK
<1>5. at'[t] = "removing"
  BY DEF TypeOK
<1>6. \A u \in Thread : u # t /\ at[u] # "idle" => job[u].id # k
  BY DEF CallsAgree, Before
<1>7. FilesAgree'
  <2>1. \A e \in entries : answer'[e.id] = "stored"
    BY <1>2, <1>3 DEF FilesAgree, TypeOK, Ids
  <2>2. \A u \in Thread : at'[u] \in Before => job'[u].id \notin disk'
    BY <1>4, <1>5, <1>6 DEF FilesAgree, Before
  <2>3. \A u \in Thread : at'[u] = "registering" => job'[u].id \in disk' \cup wiped'
    BY <1>4, <1>5 DEF FilesAgree
  <2>4. \A j \in Token : handoff[j] = "none" => j \notin disk'
    BY <1>1 DEF FilesAgree
  <2>5. QED
    BY <2>1, <2>2, <2>3, <2>4 DEF FilesAgree
<1>8. ListedIsReadable'
  BY DEF Accounted, ListedIsReadable, Ids
<1>9. NothingForgotten'
  <2>1. \A u \in Entering : u \in Entering'
    BY <1>4 DEF Entering, Before
  <2>2. QED
    BY <2>1 DEF Accounted, NothingForgotten, Running, Ids
<1>10. OneOwner'
  <2>1. ASSUME NEW j \in Token, answer'[j] = "failed"
        PROVE  j \notin Ids(entries') /\ j \notin disk' \ stuck'
    BY <2>1, <1>2, <1>3 DEF Accounted, OneOwner, Ids
  <2>2. ASSUME NEW j \in Token, answer'[j] # "none", \A u \in Thread : job'[u].id # j
        PROVE  handoff'[j] \in {"gone", "left"}
    BY <2>2, <1>3 DEF Accounted, OneOwner, Running
  <2>3. QED
    BY <2>1, <2>2 DEF OneOwner
<1>11. QED
  BY <1>7, <1>8, <1>9, <1>10 DEF Accounted

LEMMA FilesCall ==
  ASSUME TypeOK, CallsAgree, FilesAgree, Accounted, NEW t \in Thread, Ingest(t)
  PROVE  (FilesAgree /\ Accounted)'
<1> USE DEF TypeOK, CallsAgree, FilesAgree, Accounted, ListedIsReadable, NothingForgotten,
        OneOwner, Entering, Running, Before, Places, callVars, sessionVars, diskVars, Moves
<1>1. CASE IngestBegins(t)
  <2>1. PICK k \in Token : /\ handoff[k] = "none" /\ handoff' = [handoff EXCEPT ![k] = "there"]
                           /\ job' = [job EXCEPT ![t] = [NoJob EXCEPT !.id = k]]
    BY <1>1 DEF IngestBegins
  <2>2. job'[t].id = k
    BY <2>1 DEF NoJob
  <2>3. at' = [at EXCEPT ![t] = "taking"] /\ at[t] = "idle" /\ answer' = answer
        /\ server = "running" /\ server' = server /\ UNCHANGED <<entries, disk, stuck, wiped>>
    BY <1>1 DEF IngestBegins
  <2>4. \A u \in Thread : u # t => job'[u] = job[u] /\ at'[u] = at[u]
    BY <2>1, <2>3
  <2>5. handoff'[k] = "there" /\ \A j \in Token : j # k => handoff'[j] = handoff[j]
    BY <2>1
  <2>6. answer[k] = "none" /\ k \notin disk
    BY <2>1
  <2>7. Entering' = Entering /\ \A u \in Entering : job'[u] = job[u]
    BY <2>3, <2>4
  <2>8. FilesAgree'
    BY <2>2, <2>3, <2>4, <2>5, <2>6
  <2>9. ListedIsReadable' /\ NothingForgotten'
    BY <2>3, <2>7 DEF Ids
  <2>10. OneOwner'
    <3>1. ASSUME NEW j \in Token, answer'[j] # "none", \A u \in Thread : job'[u].id # j
          PROVE  handoff'[j] \in {"gone", "left"}
      <4>1. j # k
        BY <3>1, <2>3, <2>6
      <4>2. \A u \in Thread : job[u].id # j
        BY <3>1, <2>3, <2>4, StoreAssumption DEF NoJob
      <4>3. QED
        BY <4>1, <4>2, <3>1, <2>3, <2>5
    <3>2. QED
      BY <3>1, <2>3 DEF Ids
  <2>11. QED
    BY <2>8, <2>9, <2>10
<1>2. CASE TakeHandoff(t)
  <2>1. PICK n \in Sizes : job' = [job EXCEPT ![t].size = n, ![t].expires = Expiry]
    BY <1>2 DEF TakeHandoff
  <2>2. \A u \in Thread : job'[u].id = job[u].id
    BY <2>1
  <2>3. at' = [at EXCEPT ![t] = "ensuring"] /\ at[t] = "taking" /\ handoff' = handoff
        /\ answer' = answer /\ server' = server /\ UNCHANGED <<entries, disk, stuck, wiped>>
    BY <1>2 DEF TakeHandoff
  <2>4. Entering' = Entering
    BY <2>3
  <2>5. QED
    BY <2>2, <2>3, <2>4 DEF Ids
<1>3. CASE HandoffRefused(t) \/ CreateFails(t)
  <2>1. /\ at[t] \in Before /\ at' = [at EXCEPT ![t] = "removing"]
        /\ answer' = [answer EXCEPT ![job[t].id] = "failed"]
        /\ UNCHANGED <<handoff, entries, disk, stuck, wiped, job, server>>
    BY <1>3 DEF HandoffRefused, CreateFails, Refuse
  <2>2. QED
    BY <2>1, RefusedFiles
<1>4. CASE WriteFails(t)
  <2>1. /\ at[t] \in Before /\ at' = [at EXCEPT ![t] = "removing"]
        /\ answer' = [answer EXCEPT ![job[t].id] = "failed"]
        /\ UNCHANGED <<handoff, entries, wiped, job, server>>
    BY <1>4 DEF WriteFails, Refuse
  <2>2. (disk' = disk /\ stuck' = stuck)
        \/ (disk' = disk \cup {job[t].id} /\ stuck' = stuck \cup {job[t].id})
    BY <1>4 DEF WriteFails, RemovePartial
  <2>3. QED
    BY <2>1, <2>2, RefusedFiles
<1>5. CASE DirectoryStands(t) \/ DirectoryMissing(t) \/ CreateDirectory(t) \/ TakeLock(t)
  BY <1>5 DEF DirectoryStands, DirectoryMissing, CreateDirectory, TakeLock, Ids
<1>6. CASE WriteArtifact(t)
  BY <1>6 DEF WriteArtifact, Ids
<1>7. CASE Register(t)
  BY <1>7, RegisterFiles
<1>8. CASE RemoveHandoff(t)
  BY <1>8 DEF RemoveHandoff, RemovedHandoff, NoJob, Ids
<1>9. QED
  BY <1>1, <1>2, <1>3, <1>4, <1>5, <1>6, <1>7, <1>8 DEF Ingest

LEMMA FilesOther ==
  ASSUME TypeOK, CallsAgree, FilesAgree, SessionAgrees, Accounted,
         LookUp \/ Environment \/ Session \/ Sweep
  PROVE  (FilesAgree /\ Accounted)'
<1> USE DEF callVars, sessionVars, diskVars
<1>1. CASE LookUp
  <2> DEFINE gone == Ids(entries \ FreshEntries)
  <2>1. /\ entries' = FreshEntries /\ FreshEntries \subseteq entries /\ server = "running"
        /\ RemoveFiles(gone) /\ UNCHANGED <<handoff, at, job, answer, server>>
    BY <1>1, KeptIsPart DEF LookUp, Dropped, Running
  <2>2. /\ disk' \subseteq disk /\ stuck \subseteq stuck' /\ wiped' = wiped \ gone
        /\ \A j \in disk : j \notin gone => j \in disk'
        /\ \A j \in gone : j \in disk' => j \in stuck'
    BY <2>1, RemovesPart
  <2>3. Ids(entries') \cap gone = {} /\ Ids(entries) = Ids(entries') \cup gone
    BY <2>1 DEF Ids, FilesAgree
  <2>4. \A u \in Thread : at[u] = "registering" => job[u].id \notin gone
    BY <2>3 DEF CallsAgree, FilesAgree, Ids, Before
  <2> HIDE DEF gone
  <2>5. FilesAgree'
    BY <2>1, <2>2, <2>4 DEF FilesAgree
  <2>6. ListedIsReadable'
    BY <2>2, <2>3 DEF Accounted, ListedIsReadable
  <2>7. NothingForgotten'
    BY <2>1, <2>2, <2>3 DEF Accounted, NothingForgotten, Entering, Running
  <2>8. OneOwner'
    BY <2>1, <2>2, <2>3 DEF Accounted, OneOwner, Running
  <2>9. QED
    BY <2>5, <2>6, <2>7, <2>8 DEF Accounted
<1> USE DEF TypeOK, CallsAgree, FilesAgree, Accounted, ListedIsReadable, NothingForgotten,
        OneOwner, Entering, Running, Before, Ids
<1>2. CASE ClockMoves \/ DirectoryAges \/ SettingsChange
  BY <1>2 DEF ClockMoves, DirectoryAges, SettingsChange
<1>3. CASE PluginDiscards
  BY <1>3 DEF PluginDiscards
<1>4. CASE UserRemoves
  BY <1>4 DEF UserRemoves, Pending
<1>5. CASE OpenLocks
  BY <1>5 DEF OpenLocks
<1>6. CASE Crash
  BY <1>6 DEF Crash, ProcessGone
<1>7. CASE Drop
  BY <1>7 DEF Drop, ProcessGone
<1>8. CASE SweepSees \/ SweepAsks
  BY <1>8 DEF SweepSees, SweepAsks
<1>9. CASE SweepRemoves
  BY <1>9 DEF SweepRemoves, SessionAgrees
<1>10. QED
  BY <1>1, <1>2, <1>3, <1>4, <1>5, <1>6, <1>7, <1>8, <1>9 DEF Environment, Session, Sweep

-----------------------------------------------------------------------------
(* The theorems.                                                           *)

LEMMA SInvInit == Init => SInv
BY TypeInit, CallsInit, SessionInit, FilesInit DEF SInv

LEMMA SInvStep ==
  ASSUME Meddling = {}, SInv, [Next]_vars
  PROVE  SInv'
<1> USE DEF SInv
<1>1. ASSUME NEW t \in Thread, Ingest(t)
      PROVE  SInv'
  BY <1>1, CallTypes, CallsCall, SessionCall, FilesCall
<1>2. CASE LookUp \/ Environment \/ Session \/ Sweep
  BY <1>2, OtherTypes, CallsOther, SessionOther, FilesOther
<1>3. CASE UNCHANGED vars
  <2>1. TypeOK' /\ CallsAgree'
    BY <1>3 DEF vars, callVars, sessionVars, diskVars, TypeOK, CallsAgree
  <2>2. FilesAgree' /\ SessionAgrees'
    BY <1>3 DEF vars, callVars, sessionVars, diskVars, FilesAgree, SessionAgrees, Remaking
  <2>3. Accounted'
    BY <1>3 DEF vars, callVars, sessionVars, diskVars, Accounted, ListedIsReadable,
       NothingForgotten, OneOwner, Entering, Running, Ids
  <2>4. QED
    BY <2>1, <2>2, <2>3
<1>4. QED
  BY <1>1, <1>2, <1>3 DEF Next

\* Calls, images and settings keep their types, whoever interferes.
THEOREM StoreTypes == Spec => []TypeOK
<1>1. Init => TypeOK /\ CallsAgree
  BY TypeInit, CallsInit
<1>2. TypeOK /\ CallsAgree /\ [Next]_vars => (TypeOK /\ CallsAgree)'
  <2> SUFFICES ASSUME TypeOK, CallsAgree, [Next]_vars
               PROVE  TypeOK' /\ CallsAgree'
    OBVIOUS
  <2>1. CASE \E t \in Thread : Ingest(t)
    BY <2>1, CallTypes, CallsCall
  <2>2. CASE LookUp \/ Environment \/ Session \/ Sweep
    BY <2>2, OtherTypes, CallsOther
  <2>3. CASE UNCHANGED vars
    BY <2>3 DEF vars, callVars, sessionVars, diskVars, TypeOK, CallsAgree
  <2>4. QED
    BY <2>1, <2>2, <2>3 DEF Next
<1>3. QED
  BY <1>1, <1>2, PTL DEF Spec

LEMMA SInvHolds ==
  ASSUME Meddling = {}
  PROVE  Spec => []SInv
<1>1. SInv /\ [Next]_vars => SInv'
  BY SInvStep
<1>2. QED
  BY <1>1, SInvInit, PTL DEF Spec

\* What list_renders names, get_render can read, unless the user removed it.
THEOREM StoreReadable ==
  ASSUME Meddling = {}
  PROVE  Spec => []ListedIsReadable
<1>1. SInv => ListedIsReadable
  BY DEF SInv, Accounted
<1>2. QED
  BY <1>1, SInvHolds, PTL

\* No file in the session directory is out of the sweeps' sight.
THEOREM StoreForgetsNothing ==
  ASSUME Meddling = {}
  PROVE  Spec => []NothingForgotten
<1>1. SInv => NothingForgotten
  BY DEF SInv, Accounted
<1>2. QED
  BY <1>1, SInvHolds, PTL

\* An image is the plugin's or the store's, never both's once the call is over.
THEOREM StoreOwnsAlone ==
  ASSUME Meddling = {}
  PROVE  Spec => []OneOwner
<1>1. SInv => OneOwner
  BY DEF SInv, Accounted
<1>2. QED
  BY <1>1, SInvHolds, PTL

\* A server that starts removes nothing of a server that runs.
THEOREM StoreKept ==
  ASSUME Meddling = {}
  PROVE  Spec => LiveStoreKept
<1>1. SInv => (SweepRemoves /\ (disk' # disk \/ dir' # dir) => server = "ended")
  BY DEF SInv, SessionAgrees, SweepRemoves
<1>2. Spec => [][SweepRemoves /\ (disk' # disk \/ dir' # dir) => server = "ended"]_vars
  BY <1>1, SInvHolds, PTL
<1>3. QED
  BY <1>2 DEF LiveStoreKept

\* An entry leaves before its time only for room, or with the process.
THEOREM StorePromise == Spec => KeptWhilePromised
<1> DEFINE Kept == \A e \in entries \ entries' :
                     \/ e.expires <= clock
                     \/ \E t \in Thread : Register(t)
                     \/ server' = "ended"
<1>1. ASSUME TypeOK, [Next]_vars
      PROVE  Kept
  <2> USE DEF callVars, sessionVars, diskVars
  <2>1. ASSUME NEW t \in Thread, Ingest(t)
        PROVE  entries' = entries \/ \E u \in Thread : Register(u)
    <3>1. CASE Register(t)
      BY <3>1
    <3>2. CASE ~ Register(t)
      BY <2>1, <3>2 DEF Ingest, IngestBegins, TakeHandoff, HandoffRefused, DirectoryStands,
         DirectoryMissing, CreateDirectory, CreateFails, TakeLock, WriteArtifact, WriteFails,
         RemoveHandoff
    <3>3. QED
      BY <3>1, <3>2
  <2>2. ASSUME LookUp
        PROVE  Kept
    <3>1. ASSUME NEW e \in entries \ entries'
          PROVE  e.expires <= clock
      <4>1. e.expires \in Nat /\ clock \in Nat
        BY <1>1, <3>1 DEF TypeOK
      <4>2. ~ Fresh(e)
        BY <2>2, <3>1 DEF LookUp, FreshEntries
      <4>3. QED
        BY <4>1, <4>2 DEF Fresh
    <3>2. QED
      BY <3>1
  <2>3. CASE Environment \/ Sweep
    BY <2>3 DEF Environment, ClockMoves, DirectoryAges, SettingsChange, PluginDiscards,
       UserRemoves, Sweep, SweepSees, SweepAsks, SweepRemoves
  <2>4. CASE Session
    BY <2>4 DEF Session, OpenLocks, Crash, Drop, ProcessGone
  <2>5. CASE UNCHANGED vars
    BY <2>5 DEF vars
  <2> HIDE DEF Kept
  <2>6. CASE \E t \in Thread : Ingest(t)
    <3>1. entries' = entries \/ \E u \in Thread : Register(u)
      BY <2>1, <2>6
    <3>2. QED
      BY <3>1 DEF Kept
  <2>7. QED
    BY <1>1, <2>2, <2>3, <2>4, <2>5, <2>6 DEF Next
<1> HIDE DEF Kept
<1>2. TypeOK /\ [Next]_vars => [Kept]_vars
  BY <1>1
<1>3. Spec => [][Kept]_vars
  BY <1>2, StoreTypes, PTL DEF Spec
<1>4. QED
  BY <1>3 DEF KeptWhilePromised, Kept

-----------------------------------------------------------------------------
(* The bytes of the list. Their sum is a fold of the library: a recursive  *)
(* function over the subsets. What it adds up to is shown by the least set *)
(* for which it would not hold.                                            *)

First(s) == CHOOSE x \in s : TRUE
Rest(s) == s \ {First(s)}
OneMore(f, s) == IF s = {} THEN 0 ELSE First(s).size + f[Rest(s)]
Added(f, S) == [s \in SUBSET S |-> IF s = {} THEN 0 ELSE First(s).size + f[s \ {First(s)}]]
Sums(f, S) == f = Added(f, S)

\* Of finite sets, one has no other below it.
LEMMA Smallest ==
  ASSUME NEW F, NEW S, F \subseteq FiniteSubsetsOf(S), F # {}
  PROVE  \E T \in F : \A U \in F : ~ (U \subseteq T /\ U # T)
<1>1. IsWellFoundedOn(StrictSubsetOrdering(S), FiniteSubsetsOf(S))
  BY FS_StrictSubsetOrderingWellFounded
<1>2. \E T \in F : \A U \in F : ~ (<<U, T>> \in StrictSubsetOrdering(S))
  BY <1>1, WFMin
<1>3. QED
  BY <1>2 DEF StrictSubsetOrdering, FiniteSubsetsOf

\* The fold starts with an element of the set.
LEMMA FirstIs == ASSUME NEW s, s # {} PROVE First(s) \in s
  BY DEF First

\* Such a function adds one element at a time.
LEMMA SumsAre ==
  ASSUME NEW f, NEW S, Sums(f, S)
  PROVE  \A s \in SUBSET S : f[s] = OneMore(f, s)
BY DEF Sums, Added, OneMore, Rest

\* One that does is such a function.
LEMMA SumsMake ==
  ASSUME NEW S, NEW f, f = [s \in SUBSET S |-> f[s]], \A s \in SUBSET S : f[s] = OneMore(f, s)
  PROVE  Sums(f, S)
BY DEF Sums, Added, OneMore, Rest

\* Two such functions agree where both are defined.
LEMMA SumsAgree ==
  ASSUME NEW A, NEW f, Sums(f, A), NEW B, NEW g, Sums(g, B),
         NEW s \in SUBSET A, s \in SUBSET B, IsFiniteSet(s)
  PROVE  f[s] = g[s]
<1> DEFINE F == {t \in SUBSET s : f[t] # g[t]}
<1>1. SUFFICES ASSUME F # {} PROVE FALSE
  OBVIOUS
<1>2. F \subseteq FiniteSubsetsOf(s)
  BY FS_Subset DEF FiniteSubsetsOf
<1>3. PICK t \in F : \A u \in F : ~ (u \subseteq t /\ u # t)
  <2> HIDE DEF F
  <2> QED BY <1>1, <1>2, Smallest
<1>4. f[t] = OneMore(f, t) /\ g[t] = OneMore(g, t)
  BY <1>3, SumsAre
<1>5. CASE t = {}
  BY <1>3, <1>4, <1>5 DEF OneMore
<1>6. CASE t # {}
  <2>1. Rest(t) \subseteq t /\ Rest(t) # t
    BY <1>6, FirstIs DEF Rest
  <2>2. f[Rest(t)] = g[Rest(t)]
    BY <1>3, <2>1
  <2>3. QED
    BY <1>3, <1>4, <2>2 DEF OneMore
<1>7. QED
  BY <1>5, <1>6

\* There is one for each finite set.
LEMMA SumsExist ==
  ASSUME NEW S, IsFiniteSet(S)
  PROVE  \E f : Sums(f, S)
<1> DEFINE F == {T \in SUBSET S : ~ \E f : Sums(f, T)}
<1>1. SUFFICES ASSUME F # {} PROVE FALSE
  OBVIOUS
<1>2. F \subseteq FiniteSubsetsOf(S)
  BY FS_Subset DEF FiniteSubsetsOf
<1>3. PICK T \in F : \A U \in F : ~ (U \subseteq T /\ U # T)
  <2> HIDE DEF F
  <2> QED BY <1>1, <1>2, Smallest
<1>4. T \in SUBSET S /\ ~ (\E f : Sums(f, T))
  BY <1>3
<1> DEFINE g(U) == CHOOSE f : Sums(f, U)
<1>5. ASSUME NEW U \in SUBSET T, U # T PROVE Sums(g(U), U)
  <2>1. \E f : Sums(f, U)
    BY <1>3, <1>4, <1>5
  <2>2. QED
    BY <2>1
<1> DEFINE h == [s \in SUBSET T |-> IF s # T THEN g(s)[s]
                                    ELSE IF s = {} THEN 0 ELSE First(s).size + g(Rest(s))[Rest(s)]]
<1>6. ASSUME NEW s \in SUBSET T PROVE h[s] = OneMore(h, s)
  <2>1. CASE s = {}
    <3>1. CASE s # T
      BY <1>5, <2>1, <3>1, SumsAre DEF OneMore
    <3>2. CASE s = T
      BY <2>1, <3>2 DEF OneMore
    <3>3. QED
      BY <3>1, <3>2
  <2>2. CASE s # {}
    <3>1. Rest(s) \in SUBSET s /\ Rest(s) # s /\ Rest(s) \in SUBSET T /\ Rest(s) # T
      BY <2>2, FirstIs DEF Rest
    <3>2. h[Rest(s)] = g(Rest(s))[Rest(s)]
      BY <3>1
    <3>3. CASE s = T
      BY <2>2, <3>2, <3>3 DEF OneMore
    <3>4. CASE s # T
      <4>1. Sums(g(s), s) /\ Sums(g(Rest(s)), Rest(s))
        BY <1>5, <3>1, <3>4
      <4>2. h[s] = g(s)[s]
        BY <3>4
      <4>3. g(s)[s] = OneMore(g(s), s)
        BY <4>1, SumsAre
      <4>4. g(s)[Rest(s)] = g(Rest(s))[Rest(s)]
        <5>1. IsFiniteSet(Rest(s))
          BY <1>4, <3>1, FS_Subset
        <5>2. QED
          BY <3>1, <4>1, <5>1, SumsAgree
      <4>5. QED
        BY <2>2, <3>2, <4>2, <4>3, <4>4 DEF OneMore
    <3>5. QED
      BY <3>3, <3>4
  <2>3. QED
    BY <2>1, <2>2
<1>7. h = [s \in SUBSET T |-> h[s]]
  OBVIOUS
<1>8. Sums(h, T)
  <2> HIDE DEF h
  <2> QED BY <1>6, <1>7, SumsMake
<1>9. QED
  BY <1>4, <1>8

\* The sum is what such a function says, whatever set it is made for.
LEMMA TotalIs ==
  ASSUME NEW S, IsFiniteSet(S), NEW f, Sums(f, S), NEW s \in SUBSET S
  PROVE  Total(s) = f[s]
<1>1. Total(s) = (CHOOSE g : g = Added(g, s))[s]
  BY Zenon DEF Total, MapThenSumSet, MapThenFoldSet, First, Added
<1>2. IsFiniteSet(s)
  BY FS_Subset
<1> DEFINE g == CHOOSE g : Sums(g, s)
<1>3. Sums(g, s)
  BY <1>2, SumsExist
<1>4. Total(s) = g[s]
  BY <1>1 DEF Sums
<1>5. g[s] = f[s]
  <2> HIDE DEF g
  <2> QED BY <1>2, <1>3, SumsAgree
<1>6. QED
  BY <1>4, <1>5

\* The fold takes one element and goes on with the rest.
LEMMA TotalSteps ==
  ASSUME NEW S, IsFiniteSet(S)
  PROVE  /\ S = {} => Total(S) = 0
         /\ S # {} => First(S) \in S /\ Total(S) = First(S).size + Total(Rest(S))
<1>1. PICK f : Sums(f, S)
  BY SumsExist
<1>2. Total(S) = f[S] /\ Total(Rest(S)) = f[Rest(S)]
  BY <1>1, TotalIs DEF Rest
<1>3. f[S] = OneMore(f, S)
  BY <1>1, SumsAre
<1>4. QED
  BY <1>2, <1>3, FirstIs DEF OneMore

Sized(S) == \A e \in S : e.size \in Nat

\* A sum of sizes is a size.
LEMMA TotalIsNat ==
  ASSUME NEW S, IsFiniteSet(S), Sized(S)
  PROVE  Total(S) \in Nat
<1> DEFINE F == {T \in SUBSET S : Total(T) \notin Nat}
<1>1. SUFFICES ASSUME F # {} PROVE FALSE
  OBVIOUS
<1>2. F \subseteq FiniteSubsetsOf(S)
  BY FS_Subset DEF FiniteSubsetsOf
<1>3. PICK T \in F : \A U \in F : ~ (U \subseteq T /\ U # T)
  <2> HIDE DEF F
  <2> QED BY <1>1, <1>2, Smallest
<1>4. T \in SUBSET S /\ Total(T) \notin Nat /\ IsFiniteSet(T)
  BY <1>3, FS_Subset
<1>5. T # {}
  BY <1>4, TotalSteps
<1>6. First(T) \in T /\ Total(T) = First(T).size + Total(Rest(T))
  BY <1>4, <1>5, TotalSteps
<1>7. Total(Rest(T)) \in Nat
  <2>1. Rest(T) \subseteq T /\ Rest(T) # T
    BY <1>6 DEF Rest
  <2>2. QED
    BY <1>3, <1>4, <2>1
<1>8. First(T).size \in Nat
  BY <1>4, <1>6 DEF Sized
<1>9. QED
  BY <1>4, <1>6, <1>7, <1>8

\* The order of the summands is all one.
LEMMA TotalTakes ==
  ASSUME NEW S, IsFiniteSet(S), Sized(S), NEW e \in S
  PROVE  Total(S) = e.size + Total(S \ {e})
<1> DEFINE Off(T) == \E x \in T : Total(T) # x.size + Total(T \ {x})
           F == {T \in SUBSET S : Off(T)}
<1>1. SUFFICES ASSUME F # {} PROVE FALSE
  OBVIOUS
<1>2. F \subseteq FiniteSubsetsOf(S)
  BY FS_Subset DEF FiniteSubsetsOf
<1>3. PICK T \in F : \A U \in F : ~ (U \subseteq T /\ U # T)
  <2> HIDE DEF F
  <2> QED BY <1>1, <1>2, Smallest
<1>4. T \in SUBSET S /\ IsFiniteSet(T)
  BY <1>3, FS_Subset
<1>5. PICK x \in T : Total(T) # x.size + Total(T \ {x})
  BY <1>3
<1>6. ASSUME NEW U, U \subseteq T, U # T, NEW y \in U
      PROVE  Total(U) = y.size + Total(U \ {y})
  BY <1>3, <1>4, <1>6
<1>7. PICK c : c = First(T) /\ c \in T /\ Total(T) = c.size + Total(T \ {c})
  BY <1>4, <1>5, TotalSteps DEF Rest
<1>8. c # x
  BY <1>5, <1>7
<1>9. Total(T \ {c}) = x.size + Total((T \ {c}) \ {x})
  BY <1>6, <1>7, <1>8
<1>10. Total(T \ {x}) = c.size + Total((T \ {x}) \ {c})
  BY <1>6, <1>7, <1>8
<1>11. (T \ {x}) \ {c} = (T \ {c}) \ {x}
  OBVIOUS
<1>12. c.size \in Nat /\ x.size \in Nat /\ Total((T \ {c}) \ {x}) \in Nat
  <2>1. IsFiniteSet((T \ {c}) \ {x}) /\ Sized((T \ {c}) \ {x})
    BY <1>4, FS_Subset DEF Sized
  <2>2. Total((T \ {c}) \ {x}) \in Nat
    BY <2>1, TotalIsNat
  <2>3. c \in S /\ x \in S
    BY <1>4, <1>7
  <2>4. c.size \in Nat
    BY <2>3, Zenon DEF Sized
  <2>5. x.size \in Nat
    BY <2>3, Zenon DEF Sized
  <2>6. QED
    BY <2>2, <2>4, <2>5
<1>13. PICK a, b, n : a = c.size /\ b = x.size /\ n = Total((T \ {c}) \ {x})
  OBVIOUS
<1>14. a \in Nat /\ b \in Nat /\ n \in Nat /\ a + (b + n) = b + (a + n)
  BY <1>12, <1>13
<1>15. Total(T) = a + (b + n) /\ x.size + Total(T \ {x}) = b + (a + n)
  BY <1>7, <1>9, <1>10, <1>11, <1>13
<1>16. QED
  BY <1>5, <1>14, <1>15

-----------------------------------------------------------------------------
(* The room that is made is enough.                                        *)

\* What can be left is a chain, so the most that fits is all that fits.
LEMMA RoomFits ==
  ASSUME NEW S, IsFiniteSet(S), Sized(S), \A e \in S : e.place \in Nat,
         NEW n, n \in Nat, n <= limits.total, limits.count \in Nat \ {0}
  PROVE  Fits(MakeRoom(S, n), n)
<1> DEFINE F == {R \in Suffixes(S) : Fits(R, n)}
<1>1. MakeRoom(S, n) = UNION F
  BY DEF MakeRoom
<1>2. CASE F = {}
  <2>1. MakeRoom(S, n) = {}
    BY <1>1, <1>2
  <2>2. Total({}) = 0 /\ Cardinality({}) = 0
    BY TotalSteps, FS_EmptySet
  <2>3. QED
    BY <2>1, <2>2 DEF Fits
<1>3. CASE F # {}
  <2> DEFINE G == {S \ R : R \in F}
  <2>1. \A R \in F : R \subseteq S
    BY DEF Suffixes
  <2>2. G \subseteq FiniteSubsetsOf(S) /\ G # {}
    <3>1. G # {}
      BY <1>3
    <3>2. \A T \in G : T \subseteq S
      OBVIOUS
    <3> HIDE DEF G
    <3>3. QED
      BY <3>1, <3>2, FS_Subset DEF FiniteSubsetsOf
  <2>3. PICK T \in G : \A U \in G : ~ (U \subseteq T /\ U # T)
    <3> HIDE DEF G
    <3> QED BY <2>2, Smallest
  <2>4. PICK R \in F : T = S \ R
    BY <2>3
  <2>5. \A Q \in F : Q \subseteq R \/ R \subseteq Q
    <3>1. \A A, B \in Suffixes(S) : A \subseteq B \/ B \subseteq A
      BY DEF Suffixes
    <3>2. QED
      BY <3>1, <2>4
  <2>6. \A Q \in F : Q \subseteq R
    <3>1. SUFFICES ASSUME NEW Q \in F, R \subseteq Q PROVE Q \subseteq R
      BY <2>5
    <3>2. S \ Q \in G /\ S \ Q \subseteq T
      BY <3>1, <2>4
    <3>3. S \ Q = T
      BY <3>2, <2>3
    <3>4. QED
      BY <3>3, <2>1, <2>4
  <2>7. UNION F = R
    BY <2>4, <2>6
  <2>8. QED
    BY <1>1, <2>4, <2>7
<1>4. QED
  BY <1>2, <1>3

\* What fits can be added.
LEMMA Pushed ==
  ASSUME NEW S, IsFiniteSet(S), Sized(S), NEW e, e.size \in Nat,
         NEW n, n = e.size, Fits(S, n), limits.count \in Nat, limits.total \in Nat
  PROVE  /\ IsFiniteSet(S \cup {e}) /\ Cardinality(S \cup {e}) <= limits.count
         /\ Total(S \cup {e}) <= limits.total
<1>1. Cardinality(S) \in Nat /\ Total(S) \in Nat
  BY FS_CardinalityType, TotalIsNat
<1>2. Cardinality(S) < limits.count /\ Total(S) + n <= limits.total /\ n \in Nat
  BY DEF Fits
<1>3. CASE e \in S
  <2>1. S \cup {e} = S
    BY <1>3
  <2>2. Total(S) <= limits.total /\ Cardinality(S) <= limits.count
    BY <1>1, <1>2
  <2>3. QED
    BY <2>1, <2>2
<1>4. CASE e \notin S
  <2>1. IsFiniteSet(S \cup {e}) /\ Cardinality(S \cup {e}) = Cardinality(S) + 1
    BY <1>4, FS_AddElement
  <2>2. Sized(S \cup {e})
    BY Zenon DEF Sized
  <2>3. (S \cup {e}) \ {e} = S
    BY <1>4
  <2>4. Total(S \cup {e}) = e.size + Total((S \cup {e}) \ {e})
    BY <2>1, <2>2, TotalTakes
  <2>5. Total(S \cup {e}) = n + Total(S)
    BY <2>3, <2>4
  <2>6. QED
    BY <2>1, <2>5, <1>1, <1>2
<1>5. QED
  BY <1>3, <1>4

-----------------------------------------------------------------------------
(* The list under its limits.                                              *)

\* The list is finite and no image at hand is larger than an image may be.
RoomInv == 
  /\ TypeOK /\ CallsAgree
  /\ IsFiniteSet(entries)
  /\ \A t \in Thread : job[t].size <= MaxBytes

Within == ~ (entries' \subseteq entries) =>
            Cardinality(entries') <= limits.count /\ Total(entries') <= limits.total

\* It is finite, empty as it is, when the store opens.
LEMMA RoomInit == Init => RoomInv
<1>1. ASSUME Init PROVE IsFiniteSet(entries)
  BY <1>1, FS_EmptySet DEF Init
<1>2. ASSUME Init PROVE \A t \in Thread : job[t].size <= MaxBytes
  BY <1>2, StoreAssumption DEF Init, NoJob
<1>3. QED
  BY <1>1, <1>2, TypeInit, CallsInit DEF RoomInv

\* Only a call that registers makes the list longer.
LEMMA OthersShorten ==
  ASSUME [Next]_vars, \A t \in Thread : ~ Register(t)
  PROVE  entries' \subseteq entries
<1> USE DEF callVars, sessionVars, diskVars
<1>1. CASE \E t \in Thread : Ingest(t)
  BY <1>1 DEF Ingest, IngestBegins, TakeHandoff, HandoffRefused, DirectoryStands,
     DirectoryMissing, CreateDirectory, CreateFails, TakeLock, WriteArtifact, WriteFails,
     RemoveHandoff
<1>2. CASE LookUp
  BY <1>2, KeptIsPart DEF LookUp
<1>3. CASE Environment \/ Sweep
  BY <1>3 DEF Environment, ClockMoves, DirectoryAges, SettingsChange, PluginDiscards,
     UserRemoves, Sweep, SweepSees, SweepAsks, SweepRemoves
<1>4. CASE Session
  BY <1>4 DEF Session, OpenLocks, Crash, Drop, ProcessGone
<1>5. CASE UNCHANGED vars
  BY <1>5 DEF vars
<1>6. QED
  BY <1>1, <1>2, <1>3, <1>4, <1>5 DEF Next

\* A registration keeps to the limits it finds.
LEMMA RegisterWithin ==
  ASSUME RoomInv, NEW t \in Thread, Register(t)
  PROVE  IsFiniteSet(entries') /\ Within
<1> DEFINE n == job[t].size
           kept == MakeRoom(FreshEntries, n)
           pushed == [id |-> job[t].id, size |-> job[t].size, expires |-> job[t].expires,
                      place |-> Cardinality({k \in Token : answer[k] = "stored"})]
<1>1. entries' = kept \cup {pushed}
  BY DEF Register
<1>2. limits \in Limits /\ limits.total \in Nat /\ MaxBytes \in Nat /\ limits.total >= MaxBytes
      /\ limits.count \in Nat \ {0}
  BY StoreAssumption DEF RoomInv, TypeOK, LimitsType
<1>3. n \in Nat /\ n <= MaxBytes
  BY DEF RoomInv, TypeOK
<1>4. IsFiniteSet(FreshEntries) /\ IsFiniteSet(kept)
      /\ kept \subseteq FreshEntries /\ FreshEntries \subseteq entries
  BY KeptIsPart, RoomIsPart, FS_Subset DEF RoomInv
<1>5. entries \subseteq [id : Token, size : Nat, expires : Nat, place : Nat]
  BY DEF RoomInv, TypeOK
<1>6. Sized(FreshEntries) /\ Sized(kept) /\ \A e \in FreshEntries : e.place \in Nat
  <2>1. \A e \in entries : e.size \in Nat /\ e.place \in Nat
    BY <1>5
  <2> HIDE DEF kept
  <2>2. QED
    BY <2>1, <1>4 DEF Sized
<1>7. pushed.size = n
  OBVIOUS
<1> HIDE DEF pushed
<1>8. PICK m : m = n
  OBVIOUS
<1>9. m \in Nat /\ m <= limits.total /\ pushed.size = m
  BY <1>2, <1>3, <1>7, <1>8
<1>10. Fits(MakeRoom(FreshEntries, m), m)
  BY <1>2, <1>4, <1>6, <1>9, RoomFits
<1>11. Fits(kept, m)
  BY <1>8, <1>10
<1> HIDE DEF kept, n
<1>12. /\ IsFiniteSet(kept \cup {pushed}) /\ Cardinality(kept \cup {pushed}) <= limits.count
       /\ Total(kept \cup {pushed}) <= limits.total
  <2>1. pushed.size \in Nat /\ limits.count \in Nat
    BY <1>2, <1>9
  <2>2. QED
    BY <2>1, <1>2, <1>4, <1>6, <1>9, <1>11, Pushed
<1>13. QED
  BY <1>1, <1>12 DEF Within

\* Every step keeps to them.
LEMMA RoomStep ==
  ASSUME RoomInv, [Next]_vars
  PROVE  RoomInv' /\ [Within]_vars
<1>1. TypeOK' /\ CallsAgree'
  <2> USE DEF RoomInv
  <2>1. CASE \E t \in Thread : Ingest(t)
    BY <2>1, CallTypes, CallsCall
  <2>2. CASE LookUp \/ Environment \/ Session \/ Sweep
    BY <2>2, OtherTypes, CallsOther
  <2>3. CASE UNCHANGED vars
    BY <2>3 DEF vars, callVars, sessionVars, diskVars, TypeOK, CallsAgree
  <2>4. QED
    BY <2>1, <2>2, <2>3 DEF Next
<1>2. IsFiniteSet(entries') /\ Within
  <2>1. CASE \E t \in Thread : Register(t)
    BY <2>1, RegisterWithin
  <2>2. CASE \A t \in Thread : ~ Register(t)
    <3>1. entries' \subseteq entries
      BY <2>2, OthersShorten
    <3>2. IsFiniteSet(entries)
      BY DEF RoomInv
    <3>3. QED
      BY <3>1, <3>2, FS_Subset DEF Within
  <2>3. QED
    BY <2>1, <2>2
<1>3. \A t \in Thread : job'[t].size <= MaxBytes
  <2> USE DEF callVars, sessionVars, diskVars
  <2>1. MaxBytes \in Nat /\ 0 <= MaxBytes /\ \A s \in Sizes : s <= MaxBytes
    BY StoreAssumption
  <2>2. job \in [Thread -> [id : Token \cup {NoToken}, size : Nat, expires : Nat]]
        /\ \A t \in Thread : job[t].size <= MaxBytes
    BY DEF RoomInv, TypeOK
  <2>3. ASSUME NEW u \in Thread, Ingest(u)
        PROVE  \A t \in Thread : job'[t].size <= MaxBytes
    <3>1. CASE IngestBegins(u)
      BY <2>1, <2>2, <3>1 DEF IngestBegins, NoJob
    <3>2. CASE TakeHandoff(u)
      <4>1. PICK n \in Sizes : job' = [job EXCEPT ![u].size = n, ![u].expires = Expiry]
        BY <3>2 DEF TakeHandoff
      <4>2. QED
        BY <2>1, <2>2, <4>1
    <3>3. CASE RemoveHandoff(u)
      BY <2>1, <2>2, <3>3 DEF RemoveHandoff, NoJob
    <3>4. CASE job' = job
      BY <2>2, <3>4
    <3>5. QED
      BY <2>3, <3>1, <3>2, <3>3, <3>4 DEF Ingest, HandoffRefused, DirectoryStands,
         DirectoryMissing, CreateDirectory, CreateFails, TakeLock, WriteArtifact, WriteFails,
         Register, Refuse
  <2>4. CASE LookUp \/ Environment \/ Sweep
    BY <2>2, <2>4 DEF LookUp, Environment, ClockMoves, DirectoryAges, SettingsChange,
       PluginDiscards, UserRemoves, Sweep, SweepSees, SweepAsks, SweepRemoves
  <2>5. CASE Session
    BY <2>1, <2>2, <2>5 DEF Session, OpenLocks, Crash, Drop, ProcessGone, NoJob
  <2>6. CASE UNCHANGED vars
    BY <2>2, <2>6 DEF vars
  <2>7. QED
    BY <2>3, <2>4, <2>5, <2>6 DEF Next
<1>4. QED
  BY <1>1, <1>2, <1>3 DEF RoomInv

\* Whatever the settings ask for and however many calls register at once, the
\* list is never lengthened beyond the limits of that moment.
THEOREM StoreBounded == Spec => WithinLimits
<1>1. RoomInv /\ [Next]_vars => RoomInv' /\ [Within]_vars
  BY RoomStep
<1>2. Spec => [][Within]_vars
  BY <1>1, RoomInit, PTL DEF Spec
<1>3. QED
  BY <1>2 DEF WithinLimits, Within
-----------------------------------------------------------------------------
(* The server that watches the file (SettingsWatch).                       *)

\* What is published is what was read, or will be with the next step; and what
\* that step offers again, the file said.
WatchInv ==
  /\ file \in Contents /\ lastRead \in Readers /\ source \subseteq Item
  /\ thread \notin {"starting", "publishing"} => source = lastRead.off
  /\ thread = "publishing" => source \ lastRead.off \subseteq offered

\* The document that was read is the one that is there.
LEMMA ReadIsThere ==
  ASSUME "absence" \notin Racing
  PROVE  Reads \subseteq {file, Unreadable} /\ Readable \subseteq {file}
BY DEF Reads, Readable

LEMMA WatchedKinds ==
  /\ \A text \in Contents : /\ text.off \in SUBSET Item
                            /\ text.kind \in {"doc", "absent", "broken"}
  /\ Unreadable.kind = "unreadable" /\ NoStamp.off = {} /\ Absent \in Contents
BY DEF Contents, Doc, Absent, Broken, Unreadable, NoStamp

\* Reading changes what is hidden only for what a whole document says.
LEMMA RefreshedOff ==
  ASSUME NEW r \in Readers, NEW text \in Contents \cup {Unreadable}
  PROVE  /\ Refreshed(r, text) \in Readers
         /\ text \in Contents /\ text # r.stamp /\ text.kind # "broken"
              => Refreshed(r, text).off = text.off
         /\ text = r.stamp \/ text.kind = "broken"
              => Refreshed(r, text).off = r.off
BY WatchedKinds DEF Refreshed, Readers

\* The file changes as somebody writes it; what it says now is noted.
LEMMA FileChanges ==
  ASSUME file \in Contents,
         ReplacementBegins \/ ReplacementEnds \/ HandEdits \/ Hold \/ LetGo
  PROVE  file' \in Contents
BY DEF ReplacementBegins, ReplacementEnds, Lost, HandEdits, Hold, LetGo, Contents

LEMMA WatchStarts == WatchInit => WatchInv
BY WatchedKinds DEF WatchInit, FileInit, WatchInv, Readers

\* The watcher's own steps.
LEMMA WatcherKeeps ==
  ASSUME "absence" \notin Racing, WatchInv, Watcher \/ WatchEnds
  PROVE  WatchInv' /\ (thread # "starting" => source \ source' \subseteq offered)
<1> USE DEF WatchInv, fileVars
<1>1. CASE ServerStarts
  <2>1. PICK text \in Reads : lastRead' = Refreshed(lastRead, text)
    BY <1>1 DEF ServerStarts
  <2>2. text \in Contents \cup {Unreadable}
    BY <2>1, ReadIsThere
  <2>3. lastRead' \in Readers
    BY <2>1, <2>2, RefreshedOff
  <2>4. lastRead'.off \subseteq Item
    BY <2>3 DEF Readers
  <2>5. QED
    BY <1>1, <2>3, <2>4 DEF ServerStarts
<1>2. CASE IssueWatch \/ Wake \/ WatchEnds \/ ReloadFails
  BY <1>2 DEF IssueWatch, AfterFirstIssue, Wake, WatchEnds, ReloadFails, AfterReload
<1>3. CASE Reload
  <2>1. PICK text \in Readable :
          /\ lastRead' = Refreshed(lastRead, text)
          /\ thread' = IF text # lastRead.stamp /\ text.kind # "broken" THEN "publishing"
                       ELSE AfterReload
    BY <1>3 DEF Reload
  <2>2. text = file /\ text \in Contents
    BY <2>1, ReadIsThere
  <2>3. lastRead' \in Readers /\ source' = source /\ file' = file /\ source = lastRead.off
        /\ source \subseteq Item /\ offered' = Defaults(file)
    BY <1>3, <2>1, <2>2, RefreshedOff DEF Reload
  <2>4. CASE text # lastRead.stamp /\ text.kind # "broken"
    <3>1. lastRead'.off = file.off /\ thread' = "publishing" /\ offered' = Item \ file.off
      BY <2>1, <2>2, <2>3, <2>4, RefreshedOff DEF Defaults
    <3>2. QED
      BY <2>2, <2>3, <3>1
  <2>5. CASE text = lastRead.stamp \/ text.kind = "broken"
    <3>1. lastRead'.off = source /\ thread' \in {"waiting", "issuing"}
      BY <2>1, <2>2, <2>3, <2>5, RefreshedOff DEF AfterReload
    <3>2. QED
      BY <2>2, <2>3, <3>1
  <2>6. QED
    BY <2>4, <2>5
<1>4. CASE Publish
  <2>1. lastRead.off \subseteq Item
    BY DEF Readers
  <2>2. QED
    BY <1>4, <2>1 DEF Publish, AfterReload
<1>5. QED
  BY <1>1, <1>2, <1>3, <1>4 DEF Watcher

\* Everybody else's.
LEMMA OthersWatched ==
  ASSUME WatchInv, Client \/ Others \/ UNCHANGED watchVars
  PROVE  WatchInv' /\ source' = source
<1> USE DEF WatchInv, fileVars, threadVars, clientVars
<1>1. CASE Client
  BY <1>1 DEF Client, ClientInitialized, SubscriberWakes, SendNotification, ClientLists
<1>2. CASE UNCHANGED watchVars
  BY <1>2 DEF watchVars
<1>3. CASE SaverWrites
  BY <1>3 DEF SaverWrites
<1>4. CASE SaverReplaces \/ UserEdits
  <2>1. file' \in Contents
    BY <1>4, FileChanges DEF SaverReplaces, UserEdits
  <2>2. thread = "publishing" => offered \subseteq offered'
    BY <1>4 DEF SaverReplaces, UserEdits, Seen
  <2>3. QED
    BY <1>4, <2>1, <2>2 DEF SaverReplaces, UserEdits
<1>5. CASE SomebodyHolds \/ SomebodyLetsGo
  <2>1. file' \in Contents
    BY <1>5, FileChanges DEF SomebodyHolds, SomebodyLetsGo
  <2>2. QED
    BY <1>5, <2>1 DEF SomebodyHolds, SomebodyLetsGo
<1>6. QED
  BY <1>1, <1>2, <1>3, <1>4, <1>5 DEF Others

\* A tool comes back only when the file said so since it was last read, never
\* because it could not be parsed or opened (reload_and_publish).
THEOREM NothingComesBack ==
  ASSUME "absence" \notin Racing
  PROVE  WatchSpec => NeverRepublished
<1> DEFINE Said == thread # "starting" => source \ source' \subseteq offered
<1>1. WatchInv /\ [WatchNext]_watchVars => WatchInv' /\ [Said]_watchVars
  BY WatcherKeeps, OthersWatched DEF WatchNext
<1>2. WatchSpec => [][Said]_watchVars
  BY <1>1, WatchStarts, PTL DEF WatchSpec
<1>3. QED
  BY <1>2 DEF NeverRepublished
=============================================================================
