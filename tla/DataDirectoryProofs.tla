--------------------------- MODULE DataDirectoryProofs ---------------------------
(***************************************************************************)
(* Proofs about DataDirectory, for any number of processes, settings and   *)
(* generated files.  SettingsFile: a save keeps what others saved, no      *)
(* request works with stale settings, and whoever reads the file meets     *)
(* whole documents.  AgentPlugin: a sync that runs alone leaves exactly    *)
(* what the settings ask for, whatever the tree was like before it.        *)
(***************************************************************************)
EXTENDS DataDirectory, SequenceTheorems, TLAPS

\* The settings of a reader are those of the content its stamp was made from.
Stamped(reader) ==
  reader.stamp.kind \in {"doc", "absent"} => reader.off = reader.stamp.off

\* Only the owner of the mutex is between its reading and its replacement.
OneMerges ==
  /\ \A s \in Saver : at[s] \in {"reading", "writing", "replacing"} => mutex = s
  /\ \A s \in Saver : replacing = s => at[s] = "replacing"

\* What it is about to write differs from the file by its change only.
MergedLatest ==
  \A s \in Saver :
    at[s] \in {"writing", "replacing"} /\ ~edited[s] /\ file.kind = "doc"
      => \A i \in Item \ change[s].item : i \in merged[s] <=> i \in file.off

SInv == TypeOK /\ OneMerges /\ MergedLatest /\ \A s \in Saver : Stamped(plugin[s])

-----------------------------------------------------------------------------
(* Reading.                                                                *)

LEMMA Kinds ==
  /\ \A off : F!Doc(off).kind = "doc" /\ F!Doc(off).off = off
  /\ F!Absent.kind = "absent" /\ F!Absent.off = {}
  /\ F!Broken.kind = "broken" /\ F!Broken.off = {}
  /\ F!Unreadable.kind = "unreadable" /\ F!Unreadable.off = {}
  /\ F!NoStamp.kind = "none" /\ F!NoStamp.off = {}
BY DEF F!Doc, F!Absent, F!Broken, F!Unreadable, F!NoStamp

LEMMA ContentKinds ==
  \A text \in F!Contents :
    /\ text.off \in SUBSET Item
    /\ text.kind \in {"doc", "absent", "broken"}
BY Kinds DEF F!Contents

\* Two contents with the same kind and the same items are the same.
LEMMA ContentOf ==
  \A text \in F!Contents :
    /\ text.kind = "doc" => text = F!Doc(text.off)
    /\ text.kind = "absent" => text = F!Absent
BY Kinds DEF F!Contents

LEMMA ReadTypes == file \in F!Contents => F!Reads \subseteq F!Contents \cup {F!Unreadable}
BY DEF F!Reads, F!Contents

\* A reading keeps a reader's settings and its stamp together.
LEMMA RefreshKeeps ==
  ASSUME NEW reader \in F!Readers, Stamped(reader),
         NEW text \in F!Contents \cup {F!Unreadable}
  PROVE  F!Refreshed(reader, text) \in F!Readers /\ Stamped(F!Refreshed(reader, text))
<1>1. CASE text.kind = "unreadable" \/ text = reader.stamp
  <2>1. F!Refreshed(reader, text) = reader BY <1>1 DEF F!Refreshed
  <2>2. QED BY <2>1
<1>2. CASE ~(text.kind = "unreadable" \/ text = reader.stamp) /\ text.kind = "broken"
  <2>1. F!Refreshed(reader, text) = [reader EXCEPT !.stamp = text] BY <1>2 DEF F!Refreshed
  <2>2. text \in F!Contents BY <1>2, Kinds
  <2>3. QED BY <1>2, <2>1, <2>2 DEF F!Readers, Stamped
<1>3. CASE ~(text.kind = "unreadable" \/ text = reader.stamp) /\ text.kind # "broken"
  <2>1. F!Refreshed(reader, text) = [stamp |-> text, off |-> text.off]
    BY <1>3 DEF F!Refreshed
  <2>2. text \in F!Contents BY <1>3, Kinds
  <2>3. QED BY <2>1, <2>2, ContentKinds DEF F!Readers, Stamped
<1>4. QED BY <1>1, <1>2, <1>3

LEMMA AllRefreshed ==
  ASSUME TypeOK, \A s \in Saver : Stamped(plugin[s]), NEW s \in Saver, NEW text \in F!Reads
  PROVE  /\ F!Refreshed(plugin[s], text) \in F!Readers
         /\ Stamped(F!Refreshed(plugin[s], text))
<1>1. text \in F!Contents \cup {F!Unreadable} BY ReadTypes DEF TypeOK
<1>2. plugin[s] \in F!Readers /\ Stamped(plugin[s]) BY DEF TypeOK
<1>3. QED BY <1>1, <1>2, RefreshKeeps

\* Whatever a stamped reader has seen, reading a good file gives the file.
LEMMA GoodIsFound ==
  ASSUME NEW reader \in F!Readers, Stamped(reader), NEW text \in F!Contents,
         text.kind \in {"doc", "absent"}
  PROVE  F!Refreshed(reader, text).off = text.off
<1>1. CASE text = reader.stamp BY <1>1 DEF F!Refreshed, Stamped
<1>2. CASE text # reader.stamp BY <1>2 DEF F!Refreshed
<1>3. QED BY <1>1, <1>2

-----------------------------------------------------------------------------
(* The invariant.                                                          *)

LEMMA SettingsInit == Init => SInv
<1> SUFFICES ASSUME Init PROVE SInv OBVIOUS
<1>1. [stamp |-> F!NoStamp, off |-> {}] \in F!Readers BY DEF F!Readers
<1>2. Nothing \in [item : SUBSET Item, on : BOOLEAN] BY DEF Nothing
<1>3. TypeOK BY <1>1, <1>2, SettingsAssumption DEF Init, TypeOK
<1>4. OneMerges /\ MergedLatest BY SettingsAssumption DEF Init, OneMerges, MergedLatest
<1>5. \A s \in Saver : Stamped(plugin[s]) BY Kinds DEF Init, Stamped
<1>6. QED BY <1>3, <1>4, <1>5 DEF SInv

LEMMA EndTypes ==
  ASSUME TypeOK, NEW s \in Saver, SaveEnds(s)
  PROVE  /\ at' \in [Saver -> {"closed", "acquiring", "reading", "writing", "replacing", "adopting"}]
         /\ change' \in [Saver -> [item : SUBSET Item, on : BOOLEAN]]
         /\ merged' \in [Saver -> SUBSET Item] /\ edited' \in [Saver -> BOOLEAN]
<1>1. Nothing \in [item : SUBSET Item, on : BOOLEAN] BY DEF Nothing
<1>2. QED BY <1>1 DEF TypeOK, SaveEnds, Goes

LEMMA OverlaidType ==
  ASSUME TypeOK, NEW s \in Saver, NEW text \in F!Contents
  PROVE  /\ Overlaid(s, text) \in SUBSET Item
         /\ \A i \in Item \ change[s].item : i \in Overlaid(s, text) <=> i \in text.off
<1>1. change[s].item \in SUBSET Item /\ text.off \in SUBSET Item BY ContentKinds DEF TypeOK
<1>2. QED BY <1>1 DEF Overlaid

LEMMA LeftIsContent == TypeOK => LeftByFailure \subseteq F!Contents
BY DEF LeftByFailure, F!Lost, F!Contents, TypeOK

LEMMA TypeStep ==
  ASSUME SInv, [Next]_vars
  PROVE  TypeOK' /\ \A s \in Saver : Stamped(plugin'[s])
<1> USE DEF SInv
<1> DEFINE Good == TypeOK' /\ \A s \in Saver : Stamped(plugin'[s])
<1>1. ASSUME NEW s \in Saver, Save(s) PROVE Good
  <2>1. CASE DialogAccepts(s)
    <3>1. PICK text \in F!Reads : plugin' = [plugin EXCEPT ![s] = F!Refreshed(@, text)]
      BY <2>1 DEF DialogAccepts
    <3>2. plugin' \in [Saver -> F!Readers] /\ \A u \in Saver : Stamped(plugin'[u])
      BY <3>1, AllRefreshed DEF TypeOK
    <3>3. change' \in [Saver -> [item : SUBSET Item, on : BOOLEAN]]
      BY <2>1 DEF DialogAccepts, TypeOK
    <3>4. QED BY <2>1, <3>2, <3>3 DEF DialogAccepts, Goes, TypeOK
  <2>2. CASE AcquireMutex(s) BY <2>2 DEF AcquireMutex, Goes, TypeOK
  <2>3. CASE MutexTimesOut(s) BY <2>3, EndTypes DEF MutexTimesOut, TypeOK
  <2>4. CASE ReadForMerge(s)
    <3>1. PICK text \in F!Reads \ {F!Unreadable} : merged' = [merged EXCEPT ![s] = Overlaid(s, text)]
      BY <2>4 DEF ReadForMerge
    <3>2. text \in F!Contents BY <3>1, ReadTypes DEF TypeOK
    <3>3. merged' \in [Saver -> SUBSET Item] BY <3>1, <3>2, OverlaidType DEF TypeOK
    <3>4. QED BY <2>4, <3>3 DEF ReadForMerge, Goes, TypeOK
  <2>5. CASE ReadForMergeFails(s) BY <2>5, EndTypes DEF ReadForMergeFails, Release, TypeOK
  <2>6. CASE WriteTemporary(s) BY <2>6 DEF WriteTemporary, Goes, TypeOK
  <2>7. CASE WriteFails(s) BY <2>7, EndTypes DEF WriteFails, Release, TypeOK
  <2>8. CASE ReplaceBegins(s) BY <2>8 DEF ReplaceBegins, TypeOK
  <2>9. CASE ReplaceEnds(s)
    <3>1. file' \in F!Contents BY <2>9 DEF ReplaceEnds, F!Contents, TypeOK
    <3>2. QED BY <2>9, <3>1 DEF ReplaceEnds, Release, Goes, TypeOK
  <2>10. CASE Adopt(s)
    <3>1. Adopted(s) \in F!Readers /\ Stamped(Adopted(s))
      BY Kinds DEF Adopted, F!Readers, F!Contents, Stamped, TypeOK
    <3>2. plugin' \in [Saver -> F!Readers] /\ \A u \in Saver : Stamped(plugin'[u])
      BY <2>10, <3>1 DEF Adopt, TypeOK
    <3>3. QED BY <2>10, <3>2, EndTypes DEF Adopt, TypeOK
  <2>11. CASE ReplaceFails(s)
    <3>1. file' \in F!Contents BY <2>11, LeftIsContent DEF ReplaceFails
    <3>2. QED BY <2>11, <3>1, EndTypes DEF ReplaceFails, Release, TypeOK
  <2>12. QED
    BY <1>1, <2>1, <2>2, <2>3, <2>4, <2>5, <2>6, <2>7, <2>8, <2>9, <2>10, <2>11 DEF Save
<1>2. ASSUME NEW s \in Saver, RequestRefreshes(s) PROVE Good
  <2>1. PICK text \in F!Reads : plugin' = [plugin EXCEPT ![s] = F!Refreshed(@, text)]
    BY <1>2 DEF RequestRefreshes
  <2>2. plugin' \in [Saver -> F!Readers] /\ \A u \in Saver : Stamped(plugin'[u])
    BY <2>1, AllRefreshed DEF TypeOK
  <2>3. QED BY <1>2, <2>2 DEF RequestRefreshes, saverVars, TypeOK
<1>3. ASSUME NEW s \in Saver, PluginCrashes(s) PROVE Good
  <2>1. file' \in F!Contents
    BY <1>3, LeftIsContent DEF PluginCrashes, LeftByCrash, F!Contents, TypeOK
  <2>2. [stamp |-> F!NoStamp, off |-> {}] \in F!Readers BY DEF F!Readers
  <2>3. plugin' \in [Saver -> F!Readers] /\ \A u \in Saver : Stamped(plugin'[u])
    BY <1>3, <2>2, Kinds DEF PluginCrashes, Stamped, TypeOK
  <2>4. replacing' \in Saver \cup {NoSaver} /\ mutex' \in Saver \cup {NoSaver}
    BY <1>3 DEF PluginCrashes, Release, TypeOK
  <2>5. held' \in BOOLEAN /\ writes' \in Nat /\ faults' \in Nat
    BY <1>3 DEF PluginCrashes, TypeOK
  <2>6. SaveEnds(s) BY <1>3 DEF PluginCrashes
  <2>7. QED BY <2>1, <2>3, <2>4, <2>5, <2>6, EndTypes DEF TypeOK
<1>4. ASSUME UserEdits PROVE Good
  <2>1. edited' \in [Saver -> BOOLEAN] BY <1>4 DEF UserEdits, TypeOK
  <2>2. QED BY <1>4, <2>1 DEF UserEdits, TypeOK
<1>5. ASSUME SomebodyHolds PROVE Good BY <1>5 DEF SomebodyHolds, saverVars, TypeOK
<1>6. ASSUME SomebodyLetsGo PROVE Good BY <1>6 DEF SomebodyLetsGo, saverVars, TypeOK
<1>7. CASE UNCHANGED vars BY <1>7 DEF vars, saverVars, TypeOK
<1>8. QED BY <1>1, <1>2, <1>3, <1>4, <1>5, <1>6, <1>7 DEF Next

LEMMA MergeStep ==
  ASSUME SInv, [Next]_vars
  PROVE  OneMerges' /\ MergedLatest'
<1> USE SettingsAssumption DEF SInv
<1> DEFINE Good == OneMerges' /\ MergedLatest'
<1>1. ASSUME NEW s \in Saver, Save(s) PROVE Good
  <2>1. CASE DialogAccepts(s)
    BY <2>1 DEF DialogAccepts, Goes, TypeOK, OneMerges, MergedLatest
  <2>2. CASE AcquireMutex(s)
    BY <2>2 DEF AcquireMutex, MutexFree, Goes, TypeOK, OneMerges, MergedLatest
  <2>3. CASE MutexTimesOut(s)
    BY <2>3 DEF MutexTimesOut, SaveEnds, Goes, TypeOK, OneMerges, MergedLatest
  <2>4. CASE ReadForMerge(s)
    <3>1. PICK text \in F!Reads \ {F!Unreadable} : merged' = [merged EXCEPT ![s] = Overlaid(s, text)]
      BY <2>4 DEF ReadForMerge
    <3>2. replacing = NoSaver BY <2>4 DEF ReadForMerge, TypeOK, OneMerges
    <3>3. text = file BY <3>1, <3>2 DEF F!Reads
    <3>4. \A i \in Item \ change[s].item : i \in merged'[s] <=> i \in file.off
      BY <3>1, <3>3, OverlaidType DEF TypeOK
    <3>5. OneMerges' BY <2>4 DEF ReadForMerge, Goes, TypeOK, OneMerges
    <3>6. \A u \in Saver : u # s => at[u] \notin {"writing", "replacing"}
      BY <2>4 DEF ReadForMerge, TypeOK, OneMerges
    <3>7. \A u \in Saver : u # s => at'[u] \notin {"writing", "replacing"}
      BY <2>4, <3>6 DEF ReadForMerge, Goes, TypeOK
    <3>8. file' = file /\ change' = change BY <2>4 DEF ReadForMerge
    <3>9. MergedLatest' BY <3>4, <3>7, <3>8 DEF MergedLatest
    <3>10. QED BY <3>5, <3>9
  <2>5. CASE ReadForMergeFails(s)
    BY <2>5 DEF ReadForMergeFails, SaveEnds, Release, Goes, TypeOK, OneMerges, MergedLatest
  <2>6. CASE WriteTemporary(s)
    BY <2>6 DEF WriteTemporary, Goes, TypeOK, OneMerges, MergedLatest
  <2>7. CASE WriteFails(s)
    BY <2>7 DEF WriteFails, SaveEnds, Release, Goes, TypeOK, OneMerges, MergedLatest
  <2>8. CASE ReplaceBegins(s)
    BY <2>8 DEF ReplaceBegins, TypeOK, OneMerges, MergedLatest
  <2>9. CASE ReplaceEnds(s)
    <3>1. \A u \in Saver : at[u] \in {"reading", "writing", "replacing"} => u = s
      BY <2>9 DEF ReplaceEnds, TypeOK, OneMerges
    <3>2. \A u \in Saver : at'[u] \notin {"reading", "writing", "replacing"}
      BY <2>9, <3>1 DEF ReplaceEnds, Goes, TypeOK
    <3>3. replacing' = NoSaver BY <2>9 DEF ReplaceEnds
    <3>4. QED BY <3>2, <3>3 DEF OneMerges, MergedLatest
  <2>10. CASE Adopt(s)
    BY <2>10 DEF Adopt, SaveEnds, Goes, TypeOK, OneMerges, MergedLatest
  <2>11. CASE ReplaceFails(s)
    <3>1. \A u \in Saver : at[u] \in {"reading", "writing", "replacing"} => u = s
      BY <2>11 DEF ReplaceFails, TypeOK, OneMerges
    <3>2. \A u \in Saver : at'[u] \notin {"reading", "writing", "replacing"}
      BY <2>11, <3>1 DEF ReplaceFails, SaveEnds, Goes, TypeOK
    <3>3. replacing' = NoSaver BY <2>11 DEF ReplaceFails
    <3>4. QED BY <3>2, <3>3 DEF OneMerges, MergedLatest
  <2>12. QED
    BY <1>1, <2>1, <2>2, <2>3, <2>4, <2>5, <2>6, <2>7, <2>8, <2>9, <2>10, <2>11 DEF Save
<1>2. ASSUME NEW s \in Saver, RequestRefreshes(s) PROVE Good
  BY <1>2 DEF RequestRefreshes, saverVars, OneMerges, MergedLatest
<1>3. ASSUME NEW s \in Saver, PluginCrashes(s) PROVE Good
  <2>1. CASE replacing = s
    <3>1. \A u \in Saver : at[u] \in {"reading", "writing", "replacing"} => u = s
      BY <2>1 DEF TypeOK, OneMerges
    <3>2. \A u \in Saver : at'[u] \notin {"reading", "writing", "replacing"}
      BY <1>3, <3>1 DEF PluginCrashes, SaveEnds, Goes, TypeOK
    <3>3. replacing' = NoSaver BY <1>3, <2>1 DEF PluginCrashes
    <3>4. QED BY <3>2, <3>3 DEF OneMerges, MergedLatest
  <2>2. CASE replacing # s
    BY <1>3, <2>2 DEF PluginCrashes, SaveEnds, Release, Goes, TypeOK, OneMerges, MergedLatest
  <2>3. QED BY <2>1, <2>2
<1>4. ASSUME UserEdits PROVE Good
  <2>1. OneMerges' BY <1>4 DEF UserEdits, OneMerges
  <2>2. \A s \in Saver : at'[s] \in {"writing", "replacing"} => edited'[s]
    BY <1>4 DEF UserEdits
  <2>3. QED BY <2>1, <2>2 DEF MergedLatest
<1>5. ASSUME SomebodyHolds PROVE Good
  BY <1>5 DEF SomebodyHolds, saverVars, OneMerges, MergedLatest
<1>6. ASSUME SomebodyLetsGo PROVE Good
  BY <1>6 DEF SomebodyLetsGo, saverVars, OneMerges, MergedLatest
<1>7. CASE UNCHANGED vars BY <1>7 DEF vars, saverVars, OneMerges, MergedLatest
<1>8. QED BY <1>1, <1>2, <1>3, <1>4, <1>5, <1>6, <1>7 DEF Next

LEMMA SettingsGoOn == SInv /\ [Next]_vars => SInv'
BY TypeStep, MergeStep DEF SInv

LEMMA SettingsInvariant == Spec => []SInv
BY SettingsInit, SettingsGoOn, PTL DEF Spec

-----------------------------------------------------------------------------
(* What follows.                                                           *)

\* Every variable keeps its type, whatever fails, crashes or is held
\* (settings.rs, atomic_file.rs).
THEOREM SettingsTypes == Spec => []TypeOK
<1>1. SInv => TypeOK BY DEF SInv
<1>2. QED BY <1>1, SettingsInvariant, PTL

\* The stamp is made from the content, so that adopting a save late, or meeting
\* broken content, never hides the file from the next request
\* (SettingsReader::refresh and adopt).
THEOREM SettingsFound == Spec => []RefreshFindsFile
<1>1. SInv => RefreshFindsFile
  <2> SUFFICES ASSUME SInv, NEW s \in Saver, file.kind \in {"doc", "absent"}
               PROVE  F!Refreshed(plugin[s], file).off = file.off
    BY DEF RefreshFindsFile
  <2>1. plugin[s] \in F!Readers /\ Stamped(plugin[s]) /\ file \in F!Contents
    BY DEF SInv, TypeOK
  <2>2. QED BY <2>1, GoodIsFound
<1>2. QED BY <1>1, SettingsInvariant, PTL

LEMMA SaveKeeps ==
  ASSUME SInv, [Next]_vars, NEW s \in Saver, replacing = s, replacing' # s, file' # file,
         file.kind = "doc", file'.kind = "doc", ~edited[s]
  PROVE  \A i \in Item \ change[s].item : i \in file'.off <=> i \in file.off
<1>1. file' = F!Doc(merged[s])
  <2>1. CASE \E u \in Saver : Save(u)
    <3>1. PICK u \in Saver : Save(u) BY <2>1
    <3>2. ReplaceEnds(u) \/ file' \in {file, F!Absent}
      BY <3>1 DEF Save, DialogAccepts, AcquireMutex, MutexTimesOut, ReadForMerge,
                  ReadForMergeFails, WriteTemporary, WriteFails, ReplaceBegins, Adopt,
                  ReplaceFails, LeftByFailure, F!Lost
    <3>3. ReplaceEnds(u) BY <3>2, Kinds
    <3>4. QED BY <3>3 DEF ReplaceEnds
  <2>2. CASE \E u \in Saver : PluginCrashes(u)
    <3>1. PICK u \in Saver : PluginCrashes(u) BY <2>2
    <3>2. file' \in {F!Doc(merged[u]), F!Absent} /\ replacing = u
      BY <3>1 DEF PluginCrashes, LeftByCrash, LeftByFailure, F!Lost
    <3>3. QED BY <3>2, Kinds
  <2>3. CASE UserEdits BY <2>3, SettingsAssumption DEF UserEdits
  <2>4. QED
    BY <2>1, <2>2, <2>3 DEF Next, RequestRefreshes, SomebodyHolds, SomebodyLetsGo, vars
<1>2. \A i \in Item \ change[s].item : i \in merged[s] <=> i \in file.off
  BY DEF SInv, OneMerges, MergedLatest
<1>3. QED BY <1>1, <1>2, Kinds

\* Reading, merging and replacing under the named mutex loses nothing another
\* dialog saved, nor what this version does not know (settings.rs, save_to).
THEOREM SettingsMerge == Spec => OthersChangesStay
<1> DEFINE Kept ==
      \A s \in Saver :
        replacing = s /\ replacing' # s /\ file' # file /\ ~edited[s]
        /\ file.kind = "doc" /\ file'.kind = "doc"
          => \A i \in Item \ change[s].item : i \in file'.off <=> i \in file.off
<1>1. SInv /\ [Next]_vars => [Kept]_vars
  <2> SUFFICES ASSUME SInv, [Next]_vars PROVE Kept OBVIOUS
  <2>1. QED BY SaveKeeps
<1>2. QED BY <1>1, SettingsInvariant, PTL DEF Spec, OthersChangesStay

LEMMA FileStep == SInv /\ [Next]_vars => [F!FileNext]_(F!fileVars)
<1> SUFFICES ASSUME SInv, [Next]_vars PROVE [F!FileNext]_(F!fileVars) OBVIOUS
<1> USE SettingsAssumption
<1>1. ASSUME NEW s \in Saver, Save(s) PROVE [F!FileNext]_(F!fileVars)
  <2>1. CASE ReplaceBegins(s)
    <3>1. F!ReplacementBegins BY <2>1 DEF ReplaceBegins, F!ReplacementBegins
    <3>2. QED BY <3>1 DEF F!FileNext
  <2>2. CASE ReplaceEnds(s)
    <3>1. merged[s] \in SUBSET Item BY DEF SInv, TypeOK
    <3>2. F!ReplacementEnds BY <2>2, <3>1 DEF ReplaceEnds, F!ReplacementEnds
    <3>3. QED BY <3>2 DEF F!FileNext
  <2>3. CASE ReplaceFails(s)
    <3>1. F!ReplacementEnds
      BY <2>3 DEF ReplaceFails, LeftByFailure, F!ReplacementEnds
    <3>2. QED BY <3>1 DEF F!FileNext
  <2>4. CASE ~ReplaceBegins(s) /\ ~ReplaceEnds(s) /\ ~ReplaceFails(s)
    <3>1. UNCHANGED <<file, held, replacing>>
      BY <1>1, <2>4 DEF Save, DialogAccepts, AcquireMutex, MutexTimesOut, ReadForMerge,
                  ReadForMergeFails, WriteTemporary, WriteFails, Adopt
    <3>2. QED BY <3>1 DEF F!fileVars
  <2>5. QED BY <2>1, <2>2, <2>3, <2>4
<1>2. ASSUME NEW s \in Saver, RequestRefreshes(s) PROVE [F!FileNext]_(F!fileVars)
  BY <1>2 DEF RequestRefreshes, saverVars, F!fileVars
<1>3. ASSUME NEW s \in Saver, PluginCrashes(s) PROVE [F!FileNext]_(F!fileVars)
  <2>1. CASE replacing = s
    <3>1. merged[s] \in SUBSET Item BY DEF SInv, TypeOK
    <3>2. file' \in {file, F!Doc(merged[s])} \cup F!Lost /\ replacing' = NoSaver
          /\ held' = held
      BY <1>3, <2>1 DEF PluginCrashes, LeftByCrash, LeftByFailure
    <3>3. F!ReplacementEnds BY <2>1, <3>1, <3>2 DEF F!ReplacementEnds
    <3>4. QED BY <3>3 DEF F!FileNext
  <2>2. CASE replacing # s BY <1>3, <2>2 DEF PluginCrashes, F!fileVars
  <2>3. QED BY <2>1, <2>2
<1>4. ASSUME UserEdits PROVE [F!FileNext]_(F!fileVars)
  <2>1. F!HandEdits BY <1>4 DEF UserEdits, F!HandEdits
  <2>2. QED BY <2>1 DEF F!FileNext
<1>5. ASSUME SomebodyHolds PROVE [F!FileNext]_(F!fileVars)
  <2>1. F!Hold BY <1>5 DEF SomebodyHolds, saverVars, F!Hold
  <2>2. QED BY <2>1 DEF F!FileNext
<1>6. ASSUME SomebodyLetsGo PROVE [F!FileNext]_(F!fileVars)
  <2>1. F!LetGo BY <1>6 DEF SomebodyLetsGo, saverVars, F!LetGo
  <2>2. QED BY <2>1 DEF F!FileNext
<1>7. CASE UNCHANGED vars BY <1>7 DEF vars, saverVars, F!fileVars
<1>8. QED BY <1>1, <1>2, <1>3, <1>4, <1>5, <1>6, <1>7 DEF Next

\* The savers implement SharedFile: the server's watcher meets the old document
\* or the new one, or cannot open the file (atomic_file.rs, settings.rs), or
\* finds none where "absence" and "loss" say so.
THEOREM SettingsWhole == Spec => FileStaysWhole
<1>1. Init => F!FileInit BY DEF Init, F!FileInit
<1>2. QED BY <1>1, FileStep, SettingsInvariant, PTL DEF Spec, FileStaysWhole, F!FileSpec
-----------------------------------------------------------------------------
(* The generated plugin.  A sync that runs alone makes its way through the *)
(* plan: what a phase has looked at is as the settings want it, and stays  *)
(* so.                                                                     *)

\* Whatever is below a directory or a file that is there is there as well.
Rooted ==
  /\ \A d \in dirs : Ancestors(d) \subseteq dirs
  /\ \A i \in Numbers : tree[i] # "none" => Ancestors(Generated[i].path) \subseteq dirs

\* Directories that no sync removes, for what others keep in them.
Kept == UNION {Ancestors(d) \cup {d} : d \in foreign}

\* What a process still has to look at is of its phase and its settings.
PhaseFits(h) ==
  /\ doing[h] = "pruning" =>
       /\ left[h] \subseteq RemovedPaths(using[h])
       /\ empty[h] \subseteq PrunedDirectories(using[h])
  /\ doing[h] = "writing" => left[h] \subseteq WrittenPaths(using[h]) \ {Exe}
                             /\ WrittenPaths(using[h]) # {}

\* What the phase has done, if nobody interferes.
PhaseDone(h) ==
  /\ doing[h] # "rest" => using[h] = offer
  /\ doing[h] = "pruning" =>
       /\ \A i \in RemovedPaths(using[h]) \ left[h] : tree[i] = "none"
       /\ dirs \cap PrunedDirectories(using[h]) \subseteq empty[h] \cup Kept
  /\ doing[h] = "writing" =>
       /\ \A i \in RemovedPaths(using[h]) : tree[i] = "none"
       /\ \A i \in WrittenPaths(using[h]) \ (left[h] \cup {Exe}) : tree[i] = "made"
       /\ dirs \cap PrunedDirectories(using[h]) \subseteq Kept

Undisturbed ==
  clean =>
    /\ \A g, h \in Host : doing[g] # "rest" /\ doing[h] # "rest" => g = h
    /\ \A h \in Host : PhaseDone(h)
    /\ TreeRepaired

AgentShape == AgentTypeOK /\ Rooted /\ \A h \in Host : PhaseFits(h)

-----------------------------------------------------------------------------
(* Paths.                                                                  *)

LEMMA FilesAre ==
  /\ Len(Generated) \in Nat /\ Exe \in Numbers
  /\ \A i \in Numbers : Generated[i].path \in Seq(Names)
<1>1. Generated \in Seq([path : Seq(Names), of : Toggles \cup {"executable"}])
  BY AgentAssumption
<1>2. Len(Generated) \in Nat
  BY <1>1, LenProperties
<1>3. ASSUME NEW i \in Numbers PROVE Generated[i].path \in Seq(Names)
  <2>1. Generated[i] \in [path : Seq(Names), of : Toggles \cup {"executable"}]
    BY <1>1, <1>3, LenProperties DEF Numbers
  <2>2. QED
    BY <2>1
<1>4. Exe \in Numbers
  <2>1. \E exe \in Numbers : Generated[exe].of = "executable"
    BY AgentAssumption
  <2>2. QED
    BY <2>1 DEF Exe
<1>5. QED
  BY <1>2, <1>3, <1>4

\* The beginning of a path.
LEMMA Beginning ==
  ASSUME NEW p \in Seq(Names), NEW k \in Nat, k <= Len(p)
  PROVE  /\ SubSeq(p, 1, k) \in Seq(Names) /\ Len(SubSeq(p, 1, k)) = k
         /\ \A j \in 1 .. k : SubSeq(p, 1, k)[j] = p[j]
<1>1. Len(p) \in Nat /\ \A j \in 1 .. Len(p) : p[j] \in Names
  BY LenProperties
<1>2. \A j \in 1 .. k : p[j] \in Names
  BY <1>1
<1>3. /\ SubSeq(p, 1, k) \in Seq(Names)
      /\ Len(SubSeq(p, 1, k)) = IF 1 <= k THEN k - 1 + 1 ELSE 0
      /\ \A j \in 1 .. k - 1 + 1 : SubSeq(p, 1, k)[j] = p[1 + j - 1]
  BY <1>2, SubSeqProperties
<1>4. k - 1 + 1 = k /\ (1 <= k \/ k = 0) /\ \A j \in 1 .. k : 1 + j - 1 = j
  OBVIOUS
<1>5. QED
  BY <1>3, <1>4

\* The beginning of a beginning is one of the whole.
LEMMA BeginningTwice ==
  ASSUME NEW p \in Seq(Names), NEW k \in Nat, k <= Len(p), NEW j \in Nat, j <= k
  PROVE  SubSeq(SubSeq(p, 1, k), 1, j) = SubSeq(p, 1, j)
<1>1. /\ SubSeq(p, 1, k) \in Seq(Names) /\ Len(SubSeq(p, 1, k)) = k
      /\ \A i \in 1 .. k : SubSeq(p, 1, k)[i] = p[i]
  BY Beginning
<1>2. DEFINE q == SubSeq(p, 1, k)
<1>3. q \in Seq(Names) /\ Len(q) = k /\ \A i \in 1 .. k : q[i] = p[i]
  BY <1>1
<1> HIDE DEF q
<1>4. /\ SubSeq(q, 1, j) \in Seq(Names) /\ Len(SubSeq(q, 1, j)) = j
      /\ \A i \in 1 .. j : SubSeq(q, 1, j)[i] = q[i]
  BY <1>3, Beginning
<1>5. Len(p) \in Nat
  BY LenProperties
<1>6. /\ SubSeq(p, 1, j) \in Seq(Names) /\ Len(SubSeq(p, 1, j)) = j
      /\ \A i \in 1 .. j : SubSeq(p, 1, j)[i] = p[i]
  <2>1. j <= Len(p)
    BY <1>5
  <2>2. QED
    BY <2>1, Beginning
<1>7. \A i \in 1 .. j : SubSeq(q, 1, j)[i] = SubSeq(p, 1, j)[i]
  BY <1>3, <1>4, <1>6
<1>8. SubSeq(q, 1, j) = SubSeq(p, 1, j)
  <2>1. \A i \in 1 .. Len(SubSeq(q, 1, j)) : SubSeq(q, 1, j)[i] = SubSeq(p, 1, j)[i]
    BY <1>4, <1>7
  <2>2. QED
    BY <1>4, <1>6, <2>1, SeqEqual
<1>9. QED
  BY <1>8 DEF q

LEMMA AncestorsAre ==
  ASSUME NEW p \in Seq(Names), NEW d \in Ancestors(p)
  PROVE  /\ d \in Seq(Names) /\ Len(d) \in Nat /\ Len(d) >= 1 /\ Len(d) < Len(p)
         /\ d = SubSeq(p, 1, Len(d)) /\ Len(p) \in Nat
<1>1. Len(p) \in Nat
  BY LenProperties
<1>2. PICK k \in 1 .. Len(p) - 1 : d = SubSeq(p, 1, k)
  BY DEF Ancestors
<1>3. k \in Nat /\ k <= Len(p) /\ k >= 1 /\ k < Len(p)
  BY <1>1
<1>4. d \in Seq(Names) /\ Len(d) = k
  BY <1>2, <1>3, Beginning
<1>5. QED
  BY <1>1, <1>2, <1>3, <1>4

LEMMA IsAncestor ==
  ASSUME NEW p \in Seq(Names), NEW k \in Nat, 1 <= k, k < Len(p)
  PROVE  SubSeq(p, 1, k) \in Ancestors(p)
<1>1. Len(p) \in Nat
  BY LenProperties
<1>2. k \in 1 .. Len(p) - 1
  BY <1>1
<1>3. QED
  BY <1>2 DEF Ancestors

LEMMA AncestorsNest ==
  ASSUME NEW p \in Seq(Names), NEW d \in Ancestors(p)
  PROVE  Ancestors(d) \subseteq Ancestors(p)
<1> SUFFICES ASSUME NEW c \in Ancestors(d) PROVE c \in Ancestors(p)
  OBVIOUS
<1>1. /\ d \in Seq(Names) /\ Len(d) \in Nat /\ Len(d) < Len(p)
      /\ d = SubSeq(p, 1, Len(d)) /\ Len(p) \in Nat
  BY AncestorsAre
<1>2. /\ Len(c) \in Nat /\ Len(c) >= 1 /\ Len(c) < Len(d) /\ c = SubSeq(d, 1, Len(c))
  BY <1>1, AncestorsAre
<1>3. PICK m \in Nat, n \in Nat : m = Len(d) /\ n = Len(c)
  BY <1>1, <1>2
<1>4. SubSeq(SubSeq(p, 1, m), 1, n) = SubSeq(p, 1, n)
  <2>1. m <= Len(p) /\ n <= m
    BY <1>1, <1>2, <1>3
  <2>2. QED
    BY <2>1, BeginningTwice
<1>5. c = SubSeq(p, 1, n)
  BY <1>1, <1>2, <1>3, <1>4
<1>6. 1 <= n /\ n < Len(p)
  BY <1>1, <1>2, <1>3
<1>7. QED
  BY <1>5, <1>6, IsAncestor

\* What a directory holds of a path below it is the path itself or the next
\* directory on the way to it.
LEMMA NextBelow ==
  ASSUME NEW p \in Seq(Names), NEW d \in Ancestors(p)
  PROVE  \/ Len(p) = Len(d) + 1 /\ SubSeq(p, 1, Len(d)) = d
         \/ \E c \in Ancestors(p) : d # c /\ Len(c) = Len(d) + 1 /\ SubSeq(c, 1, Len(d)) = d
<1>1. /\ Len(d) \in Nat /\ Len(d) >= 1 /\ Len(d) < Len(p)
      /\ d = SubSeq(p, 1, Len(d)) /\ Len(p) \in Nat
  BY AncestorsAre
<1>2. CASE Len(p) = Len(d) + 1
  BY <1>1, <1>2
<1>3. CASE Len(p) # Len(d) + 1
  <2>1. PICK m \in Nat : m = Len(d)
    BY <1>1
  <2>2. m + 1 \in Nat /\ 1 <= m + 1 /\ m + 1 < Len(p) /\ m + 1 <= Len(p) /\ m <= m + 1
    BY <1>1, <1>3, <2>1
  <2>3. PICK c : c = SubSeq(p, 1, m + 1)
    OBVIOUS
  <2>4. c \in Ancestors(p) /\ Len(c) = m + 1
    BY <2>2, <2>3, IsAncestor, Beginning
  <2>5. SubSeq(c, 1, m) = d
    <3>1. SubSeq(SubSeq(p, 1, m + 1), 1, m) = SubSeq(p, 1, m)
      BY <2>2, BeginningTwice
    <3>2. QED
      BY <1>1, <2>1, <2>3, <3>1
  <2>6. d # c
    BY <2>1, <2>4
  <2>7. QED
    BY <2>1, <2>4, <2>5, <2>6
<1>4. QED
  BY <1>2, <1>3

LEMMA DirectoriesNest ==
  ASSUME NEW S \in SUBSET Numbers, NEW d \in DirectoriesOf(S)
  PROVE  /\ d \in Seq(Names) /\ Len(d) \in Nat /\ Len(d) >= 1
         /\ Ancestors(d) \subseteq DirectoriesOf(S) /\ d \in DirectoriesOf(Numbers)
<1>1. PICK i \in S : d \in Ancestors(Generated[i].path)
  BY DEF DirectoriesOf
<1>2. Generated[i].path \in Seq(Names) /\ i \in Numbers
  BY FilesAre
<1>3. d \in Seq(Names) /\ Len(d) \in Nat /\ Len(d) >= 1
  BY <1>1, <1>2, AncestorsAre
<1>4. Ancestors(d) \subseteq Ancestors(Generated[i].path)
  BY <1>1, <1>2, AncestorsNest
<1>5. QED
  BY <1>1, <1>2, <1>3, <1>4 DEF DirectoriesOf

\* The directory that has an entry is on its way.
LEMMA ParentIs ==
  ASSUME NEW e \in Seq(Names), NEW d, Len(d) \in Nat, Len(d) >= 1,
         Len(e) = Len(d) + 1, SubSeq(e, 1, Len(d)) = d
  PROVE  d \in Ancestors(e)
<1>1. PICK n \in Nat : n = Len(d)
  OBVIOUS
<1>2. 1 <= n /\ n < Len(e)
  BY <1>1
<1>3. SubSeq(e, 1, n) \in Ancestors(e)
  BY <1>2, IsAncestor
<1>4. QED
  BY <1>1, <1>3

\* The plan: every file is written or removed, and every directory stays or is
\* pruned.
LEMMA PlanIs ==
  ASSUME NEW toggles
  PROVE  /\ WrittenPaths(toggles) \subseteq Numbers /\ RemovedPaths(toggles) \subseteq Numbers
         /\ RemovedPaths(toggles) = Numbers \ WrittenPaths(toggles)
         /\ WrittenPaths(toggles) # {} => Exe \in WrittenPaths(toggles)
         /\ PrunedDirectories(toggles) \subseteq DirectoriesOf(Numbers)
         /\ PrunedDirectories(toggles) =
              DirectoriesOf(Numbers) \ DirectoriesOf(WrittenPaths(toggles))
         /\ DirectoriesOf(WrittenPaths(toggles)) \subseteq DirectoriesOf(Numbers)
<1>1. WrittenPaths(toggles) \subseteq Numbers
  BY DEF WrittenPaths
<1>2. WrittenPaths(toggles) # {} => Exe \in WrittenPaths(toggles)
  <2>1. Generated[Exe].of = "executable" /\ Exe \in Numbers
    <3>1. \E exe \in Numbers : Generated[exe].of = "executable"
      BY AgentAssumption
    <3>2. QED
      BY <3>1 DEF Exe
  <2>2. QED
    BY <2>1 DEF WrittenPaths
<1>3. QED
  BY <1>1, <1>2 DEF RemovedPaths, PrunedDirectories, DirectoriesOf

-----------------------------------------------------------------------------
(* What is on the disk.                                                    *)

\* Nobody touches it.
LEMMA DiskRests ==
  ASSUME Rooted, UNCHANGED <<tree, dirs>>
  PROVE  Rooted'
BY DEF Rooted

\* A file is gone, or another one in its place.
LEMMA DiskChangesFile ==
  ASSUME AgentTypeOK, Rooted, NEW i \in Numbers, NEW t \in {"none", "other"},
         tree[i] # "none" \/ t = "none",
         tree' = [tree EXCEPT ![i] = t], UNCHANGED dirs
  PROVE  Rooted' /\ tree' \in [Numbers -> {"none", "made", "other"}]
<1>1. tree' \in [Numbers -> {"none", "made", "other"}]
  BY DEF AgentTypeOK
<1>2. \A j \in Numbers : tree'[j] # "none" => tree[j] # "none"
  BY DEF AgentTypeOK
<1>3. QED
  BY <1>1, <1>2 DEF Rooted

\* A directory goes: nothing was below it, and nobody else's file was in it.
LEMMA DiskLosesDirectory ==
  ASSUME AgentTypeOK, Rooted, NEW d \in dirs, IsEmpty(d), dirs' = dirs \ {d},
         UNCHANGED <<tree, foreign>>
  PROVE  Rooted' /\ dirs' \subseteq DirectoriesOf(Numbers) /\ foreign' \subseteq dirs'
<1>1. dirs \subseteq DirectoriesOf(Numbers) /\ foreign \subseteq dirs
  BY DEF AgentTypeOK
<1>2. d \notin foreign
  BY DEF IsEmpty
<1>3. ASSUME NEW p \in Seq(Names), Ancestors(p) \subseteq dirs, d \in Ancestors(p)
      PROVE  Len(p) = Len(d) + 1 /\ SubSeq(p, 1, Len(d)) = d
  <2>1. ~\E c \in Ancestors(p) : d # c /\ Len(c) = Len(d) + 1 /\ SubSeq(c, 1, Len(d)) = d
    BY <1>3 DEF IsEmpty
  <2>2. QED
    BY <1>3, <2>1, NextBelow
<1>4. ASSUME NEW e \in dirs, e # d PROVE d \notin Ancestors(e)
  <2>1. e \in Seq(Names) /\ Ancestors(e) \subseteq dirs
    BY <1>1, DirectoriesNest DEF Rooted
  <2>2. ASSUME d \in Ancestors(e) PROVE FALSE
    BY <1>3, <1>4, <2>1, <2>2 DEF IsEmpty
  <2>3. QED
    BY <2>2
<1>5. ASSUME NEW i \in Numbers, tree[i] # "none" PROVE d \notin Ancestors(Generated[i].path)
  <2>1. Generated[i].path \in Seq(Names) /\ Ancestors(Generated[i].path) \subseteq dirs
    BY <1>5, FilesAre DEF Rooted
  <2>2. ASSUME d \in Ancestors(Generated[i].path) PROVE FALSE
    BY <1>3, <1>5, <2>1, <2>2 DEF IsEmpty
  <2>3. QED
    BY <2>2
<1>6. Rooted'
  BY <1>4, <1>5 DEF Rooted
<1>7. QED
  BY <1>1, <1>2, <1>6

\* A file is written, and the directories above it are made; or only some of
\* them are.
LEMMA DiskGainsFile ==
  ASSUME AgentTypeOK, Rooted, NEW i \in Numbers, Replaces(i), UNCHANGED foreign
  PROVE  /\ Rooted' /\ tree' \in [Numbers -> {"none", "made", "other"}] /\ tree'[i] = "made"
         /\ \A j \in Numbers : j # i => tree'[j] = tree[j]
         /\ dirs \subseteq dirs' /\ dirs' \subseteq dirs \cup Ancestors(Generated[i].path)
         /\ dirs' \subseteq DirectoriesOf(Numbers) /\ foreign' \subseteq dirs'
<1>1. /\ tree \in [Numbers -> {"none", "made", "other"}]
      /\ dirs \subseteq DirectoriesOf(Numbers) /\ foreign \subseteq dirs
  BY DEF AgentTypeOK
<1>2. CASE IsUnchanged(i)
  <2>1. UNCHANGED <<tree, dirs>>
    BY <1>2 DEF Replaces
  <2>2. tree[i] = "made"
    BY <1>2 DEF IsUnchanged
  <2>3. QED
    BY <1>1, <2>1, <2>2, DiskRests
<1>3. CASE ~IsUnchanged(i)
  <2>1. /\ tree' = [tree EXCEPT ![i] = "made"]
        /\ dirs' = dirs \cup Ancestors(Generated[i].path)
    BY <1>3 DEF Replaces
  <2>2. Ancestors(Generated[i].path) \subseteq DirectoriesOf(Numbers)
    BY DEF DirectoriesOf
  <2>3. ASSUME NEW d \in dirs' PROVE Ancestors(d) \subseteq dirs'
    <3>1. CASE d \in dirs
      BY <2>1, <3>1 DEF Rooted
    <3>2. CASE d \in Ancestors(Generated[i].path)
      BY <2>1, <3>2, FilesAre, AncestorsNest
    <3>3. QED
      BY <2>1, <2>3, <3>1, <3>2
  <2>4. Rooted'
    BY <1>1, <2>1, <2>3 DEF Rooted
  <2>5. QED
    BY <1>1, <2>1, <2>2, <2>4
<1>4. QED
  BY <1>2, <1>3

LEMMA DiskGainsDirectories ==
  ASSUME AgentTypeOK, Rooted, NEW i \in Numbers, Fails(i), UNCHANGED foreign
  PROVE  /\ Rooted' /\ tree' \in [Numbers -> {"none", "made", "other"}]
         /\ dirs' \subseteq DirectoriesOf(Numbers) /\ foreign' \subseteq dirs'
<1>1. /\ dirs \subseteq DirectoriesOf(Numbers) /\ foreign \subseteq dirs
      /\ tree' \in [Numbers -> {"none", "made", "other"}]
      /\ \A j \in Numbers : tree'[j] # "none" => tree[j] # "none"
  BY DEF AgentTypeOK, Fails
<1>2. PICK made \in SUBSET (Ancestors(Generated[i].path) \ dirs) :
        /\ \A d \in made : Ancestors(d) \subseteq dirs \cup made
        /\ dirs' = dirs \cup made
  BY DEF Fails
<1>3. made \subseteq DirectoriesOf(Numbers)
  BY DEF DirectoriesOf
<1>4. Rooted'
  BY <1>1, <1>2 DEF Rooted
<1>5. QED
  BY <1>1, <1>2, <1>3, <1>4

-----------------------------------------------------------------------------
(* Where the processes are.                                                *)

\* A process goes on to a phase with what there is to do in it.
LEMMA HostMoves ==
  ASSUME AgentShape, NEW h \in Host, NEW phase \in {"rest", "pruning", "writing"},
         NEW files \in SUBSET Numbers, NEW directories \in SUBSET DirectoriesOf(Numbers),
         NEW toggles \in SUBSET Toggles,
         Moves(h, phase, files, directories), using' = [using EXCEPT ![h] = toggles],
         phase = "pruning" => /\ files \subseteq RemovedPaths(toggles)
                              /\ directories \subseteq PrunedDirectories(toggles),
         phase = "writing" => /\ files \subseteq WrittenPaths(toggles) \ {Exe}
                              /\ WrittenPaths(toggles) # {}
  PROVE  /\ doing' \in [Host -> {"rest", "pruning", "writing"}]
         /\ using' \in [Host -> SUBSET Toggles] /\ left' \in [Host -> SUBSET Numbers]
         /\ empty' \in [Host -> SUBSET DirectoriesOf(Numbers)]
         /\ doing'[h] = phase /\ using'[h] = toggles /\ left'[h] = files
         /\ empty'[h] = directories
         /\ \A g \in Host : g # h => doing'[g] = doing[g]
         /\ \A g \in Host : PhaseFits(g)'
<1>1. /\ doing \in [Host -> {"rest", "pruning", "writing"}]
      /\ using \in [Host -> SUBSET Toggles] /\ left \in [Host -> SUBSET Numbers]
      /\ empty \in [Host -> SUBSET DirectoriesOf(Numbers)]
  BY DEF AgentShape, AgentTypeOK
<1>2. /\ doing' = [doing EXCEPT ![h] = phase] /\ left' = [left EXCEPT ![h] = files]
      /\ empty' = [empty EXCEPT ![h] = directories]
  BY DEF Moves
<1>3. /\ doing' \in [Host -> {"rest", "pruning", "writing"}]
      /\ using' \in [Host -> SUBSET Toggles] /\ left' \in [Host -> SUBSET Numbers]
      /\ empty' \in [Host -> SUBSET DirectoriesOf(Numbers)]
      /\ doing'[h] = phase /\ using'[h] = toggles /\ left'[h] = files
      /\ empty'[h] = directories
  BY <1>1, <1>2
<1>4. \A g \in Host : g # h => /\ doing'[g] = doing[g] /\ using'[g] = using[g]
                               /\ left'[g] = left[g] /\ empty'[g] = empty[g]
  BY <1>1, <1>2
<1>5. ASSUME NEW g \in Host PROVE PhaseFits(g)'
  <2>1. CASE g = h
    BY <1>3, <2>1 DEF PhaseFits
  <2>2. CASE g # h
    BY <1>4, <2>2 DEF PhaseFits, AgentShape
  <2>3. QED
    BY <2>1, <2>2
<1>6. QED
  BY <1>3, <1>4, <1>5

\* The same with the settings it had.
LEMMA HostGoesOn ==
  ASSUME AgentShape, NEW h \in Host, NEW phase \in {"rest", "pruning", "writing"},
         NEW files \in SUBSET Numbers, NEW directories \in SUBSET DirectoriesOf(Numbers),
         Moves(h, phase, files, directories), UNCHANGED using,
         phase = "pruning" => /\ files \subseteq RemovedPaths(using[h])
                              /\ directories \subseteq PrunedDirectories(using[h]),
         phase = "writing" => /\ files \subseteq WrittenPaths(using[h]) \ {Exe}
                              /\ WrittenPaths(using[h]) # {}
  PROVE  /\ doing' \in [Host -> {"rest", "pruning", "writing"}]
         /\ using' \in [Host -> SUBSET Toggles] /\ left' \in [Host -> SUBSET Numbers]
         /\ empty' \in [Host -> SUBSET DirectoriesOf(Numbers)]
         /\ doing'[h] = phase /\ using'[h] = using[h] /\ left'[h] = files
         /\ empty'[h] = directories
         /\ \A g \in Host : g # h => doing'[g] = doing[g]
         /\ \A g \in Host : PhaseFits(g)'
<1>1. using \in [Host -> SUBSET Toggles]
  BY DEF AgentShape, AgentTypeOK
<1>2. PICK toggles \in SUBSET Toggles : toggles = using[h]
  BY <1>1
<1>3. using' = [using EXCEPT ![h] = toggles]
  BY <1>1, <1>2
<1>4. /\ phase = "pruning" => /\ files \subseteq RemovedPaths(toggles)
                              /\ directories \subseteq PrunedDirectories(toggles)
      /\ phase = "writing" => /\ files \subseteq WrittenPaths(toggles) \ {Exe}
                              /\ WrittenPaths(toggles) # {}
  BY <1>2
<1>5. QED
  BY <1>2, <1>3, <1>4, HostMoves

LEMMA HostEnds ==
  ASSUME AgentShape, NEW h \in Host, SyncEnds(h)
  PROVE  /\ doing' \in [Host -> {"rest", "pruning", "writing"}]
         /\ using' \in [Host -> SUBSET Toggles] /\ left' \in [Host -> SUBSET Numbers]
         /\ empty' \in [Host -> SUBSET DirectoriesOf(Numbers)]
         /\ doing'[h] = "rest" /\ \A g \in Host : g # h => doing'[g] = doing[g]
         /\ \A g \in Host : PhaseFits(g)'
<1>1. Moves(h, "rest", {}, {}) /\ using' = [using EXCEPT ![h] = {}]
  BY DEF SyncEnds
<1>2. "rest" \in {"rest", "pruning", "writing"} /\ {} \in SUBSET Numbers
      /\ {} \in SUBSET DirectoriesOf(Numbers) /\ {} \in SUBSET Toggles
  OBVIOUS
<1>3. QED
  BY <1>1, <1>2, HostMoves

\* An upset is counted.
LEMMA UpsetTypes ==
  ASSUME AgentTypeOK,
         \/ Upset
         \/ UNCHANGED <<clean, upsets>>
         \/ clean' \in BOOLEAN /\ UNCHANGED upsets
  PROVE  upsets' \in 0 .. MaxUpsets /\ clean' \in BOOLEAN
<1>1. CASE Upset
  <2>1. clean' \in BOOLEAN
    BY <1>1 DEF Upset
  <2>2. upsets' \in 0 .. MaxUpsets
    BY <1>1, AgentAssumption DEF AgentTypeOK, Upset
  <2>3. QED
    BY <2>1, <2>2
<1>2. CASE UNCHANGED <<clean, upsets>>
  BY <1>2 DEF AgentTypeOK
<1>3. CASE clean' \in BOOLEAN /\ UNCHANGED upsets
  BY <1>3 DEF AgentTypeOK
<1>4. QED
  BY <1>1, <1>2, <1>3

LEMMA ShapeInit == AgentInit => AgentShape
<1> SUFFICES ASSUME AgentInit PROVE AgentShape
  OBVIOUS
<1>1. AgentTypeOK
  <2>1. /\ tree \in [Numbers -> {"none", "made", "other"}]
        /\ foreign \subseteq dirs /\ dirs \subseteq DirectoriesOf(Numbers)
    BY DEF AgentInit
  <2>2. /\ doing \in [Host -> {"rest", "pruning", "writing"}]
        /\ using \in [Host -> SUBSET Toggles] /\ left \in [Host -> SUBSET Numbers]
        /\ empty \in [Host -> SUBSET DirectoriesOf(Numbers)]
    BY DEF AgentInit
  <2>3. offer \in Offers /\ running \in BOOLEAN /\ clean \in BOOLEAN /\ upsets \in 0 .. MaxUpsets
    <3>1. running \in BOOLEAN /\ clean \in BOOLEAN
      BY DEF AgentInit
    <3>2. QED
      BY <3>1, AgentAssumption DEF AgentInit
  <2>4. QED
    BY <2>1, <2>2, <2>3 DEF AgentTypeOK
<1>2. Rooted
  <2>1. CASE dirs = {} /\ tree = [i \in Numbers |-> "none"]
    BY <2>1 DEF Rooted
  <2>2. CASE dirs = DirectoriesOf(Numbers)
    <3>1. \A d \in dirs : Ancestors(d) \subseteq dirs
      BY <2>2, DirectoriesNest
    <3>2. \A i \in Numbers : Ancestors(Generated[i].path) \subseteq dirs
      BY <2>2 DEF DirectoriesOf
    <3>3. QED
      BY <3>1, <3>2 DEF Rooted
  <2>3. QED
    BY <2>1, <2>2 DEF AgentInit
<1>3. \A h \in Host : PhaseFits(h)
  BY DEF AgentInit, PhaseFits
<1>4. QED
  BY <1>1, <1>2, <1>3 DEF AgentShape

\* The parts of the shape, each from the steps that touch it.
LEMMA ShapeFrom ==
  ASSUME offer' \in Offers, tree' \in [Numbers -> {"none", "made", "other"}],
         foreign' \subseteq dirs', dirs' \subseteq DirectoriesOf(Numbers),
         running' \in BOOLEAN, clean' \in BOOLEAN, upsets' \in 0 .. MaxUpsets,
         doing' \in [Host -> {"rest", "pruning", "writing"}],
         using' \in [Host -> SUBSET Toggles], left' \in [Host -> SUBSET Numbers],
         empty' \in [Host -> SUBSET DirectoriesOf(Numbers)],
         Rooted', \A h \in Host : PhaseFits(h)'
  PROVE  AgentShape'
BY DEF AgentShape, AgentTypeOK

LEMMA BeginsShape ==
  ASSUME AgentShape, NEW h \in Host, NEW toggles \in SUBSET Toggles, BeginsSync(h, toggles),
         offer' \in Offers, UNCHANGED <<tree, dirs, foreign, running>>,
         upsets' \in 0 .. MaxUpsets, clean' \in BOOLEAN
  PROVE  /\ AgentShape' /\ doing'[h] = "pruning" /\ using'[h] = toggles
         /\ left'[h] = RemovedPaths(toggles) /\ empty'[h] = PrunedDirectories(toggles)
         /\ \A g \in Host : g # h => doing'[g] = doing[g]
<1>1. AgentTypeOK /\ Rooted
  BY DEF AgentShape
<1>2. /\ Moves(h, "pruning", RemovedPaths(toggles), PrunedDirectories(toggles))
      /\ using' = [using EXCEPT ![h] = toggles]
  BY DEF BeginsSync
<1>3. /\ RemovedPaths(toggles) \in SUBSET Numbers
      /\ PrunedDirectories(toggles) \in SUBSET DirectoriesOf(Numbers)
      /\ "pruning" \in {"rest", "pruning", "writing"} /\ "pruning" # "writing"
  BY PlanIs
<1>4. /\ doing' \in [Host -> {"rest", "pruning", "writing"}]
      /\ using' \in [Host -> SUBSET Toggles] /\ left' \in [Host -> SUBSET Numbers]
      /\ empty' \in [Host -> SUBSET DirectoriesOf(Numbers)]
      /\ doing'[h] = "pruning" /\ using'[h] = toggles
      /\ left'[h] = RemovedPaths(toggles) /\ empty'[h] = PrunedDirectories(toggles)
      /\ \A g \in Host : g # h => doing'[g] = doing[g]
      /\ \A g \in Host : PhaseFits(g)'
  BY <1>2, <1>3, HostMoves
<1>5. Rooted'
  BY <1>1, DiskRests
<1>6. /\ tree' \in [Numbers -> {"none", "made", "other"}] /\ foreign' \subseteq dirs'
      /\ dirs' \subseteq DirectoriesOf(Numbers) /\ running' \in BOOLEAN
  BY <1>1 DEF AgentTypeOK
<1>7. AgentShape'
  BY <1>4, <1>5, <1>6, ShapeFrom
<1>8. QED
  BY <1>4, <1>7

\* What RemoveFile and RemoveDirectory have done, whether they worked or not.
LEMMA RemoveFileShape ==
  ASSUME AgentShape, NEW h \in Host, RemoveFile(h)
  PROVE  /\ AgentShape'
         /\ \E i \in left[h] :
              /\ doing[h] = "pruning" /\ doing'[h] = "pruning" /\ using'[h] = using[h]
              /\ left'[h] = left[h] \ {i} /\ empty'[h] = empty[h]
              /\ \A g \in Host : g # h => doing'[g] = doing[g]
              /\ clean' => tree' = [tree EXCEPT ![i] = "none"] /\ clean
              /\ UNCHANGED <<offer, dirs, foreign>>
<1>1. AgentTypeOK /\ Rooted /\ PhaseFits(h)
  BY DEF AgentShape
<1>2. PICK i \in left[h] :
        /\ Moves(h, "pruning", left[h] \ {i}, empty[h])
        /\ \/ /\ tree' = [tree EXCEPT ![i] = "none"] /\ UNCHANGED <<clean, upsets>>
           \/ clean' = FALSE /\ UNCHANGED <<tree, upsets>>
           \/ Upset /\ UNCHANGED tree
  BY DEF RemoveFile
<1>3. doing[h] = "pruning" /\ UNCHANGED <<offer, dirs, foreign, running, using>>
  BY DEF RemoveFile
<1>4. PICK files \in SUBSET Numbers, directories \in SUBSET DirectoriesOf(Numbers) :
        files = left[h] \ {i} /\ directories = empty[h]
  BY <1>1 DEF AgentTypeOK
<1>5. Moves(h, "pruning", files, directories)
  BY <1>2, <1>4
<1>6. /\ files \subseteq RemovedPaths(using[h])
      /\ directories \subseteq PrunedDirectories(using[h])
      /\ "pruning" \in {"rest", "pruning", "writing"} /\ "pruning" # "writing"
  BY <1>1, <1>3, <1>4 DEF PhaseFits
<1>7. /\ doing' \in [Host -> {"rest", "pruning", "writing"}]
      /\ using' \in [Host -> SUBSET Toggles] /\ left' \in [Host -> SUBSET Numbers]
      /\ empty' \in [Host -> SUBSET DirectoriesOf(Numbers)]
      /\ doing'[h] = "pruning" /\ using'[h] = using[h]
      /\ left'[h] = files /\ empty'[h] = directories
      /\ \A g \in Host : g # h => doing'[g] = doing[g]
      /\ \A g \in Host : PhaseFits(g)'
  BY <1>3, <1>5, <1>6, HostGoesOn
<1>8. Rooted' /\ tree' \in [Numbers -> {"none", "made", "other"}]
  <2>1. CASE tree' = [tree EXCEPT ![i] = "none"]
    <3>1. i \in Numbers /\ UNCHANGED dirs
      BY <1>1, <1>3 DEF AgentTypeOK
    <3>2. QED
      BY <1>1, <2>1, <3>1, DiskChangesFile
  <2>2. CASE UNCHANGED tree
    BY <1>1, <1>3, <2>2, DiskRests DEF AgentTypeOK
  <2>3. QED
    BY <1>2, <2>1, <2>2
<1>9. upsets' \in 0 .. MaxUpsets /\ clean' \in BOOLEAN
  <2>1. CASE Upset
    BY <1>1, <2>1, UpsetTypes
  <2>2. CASE UNCHANGED <<clean, upsets>>
    BY <1>1, <2>2, UpsetTypes
  <2>3. CASE clean' = FALSE /\ UNCHANGED upsets
    <3>1. clean' \in BOOLEAN
      BY <2>3
    <3>2. QED
      BY <1>1, <2>3, <3>1, UpsetTypes
  <2>4. QED
    BY <1>2, <2>1, <2>2, <2>3
<1>10. /\ offer' \in Offers /\ foreign' \subseteq dirs'
       /\ dirs' \subseteq DirectoriesOf(Numbers) /\ running' \in BOOLEAN
  BY <1>1, <1>3 DEF AgentTypeOK
<1>11. AgentShape'
  BY <1>7, <1>8, <1>9, <1>10, ShapeFrom
<1>12. clean' => tree' = [tree EXCEPT ![i] = "none"] /\ clean
  BY <1>2 DEF Upset
<1>13. QED
  BY <1>3, <1>4, <1>7, <1>11, <1>12

LEMMA RemoveDirectoryShape ==
  ASSUME AgentShape, NEW h \in Host, RemoveDirectory(h)
  PROVE  /\ AgentShape'
         /\ \E d \in empty[h] :
              /\ \A e \in empty[h] : Len(e) <= Len(d)
              /\ doing[h] = "pruning" /\ left[h] = {}
              /\ doing'[h] = "pruning" /\ using'[h] = using[h]
              /\ left'[h] = {} /\ empty'[h] = empty[h] \ {d}
              /\ \A g \in Host : g # h => doing'[g] = doing[g]
              /\ clean' => /\ clean
                           /\ dirs' = IF IsEmpty(d) THEN dirs \ {d} ELSE dirs
              /\ UNCHANGED <<offer, tree, foreign>>
<1>1. AgentTypeOK /\ Rooted /\ PhaseFits(h)
  BY DEF AgentShape
<1>2. PICK d \in empty[h] :
        /\ \A e \in empty[h] : Len(e) <= Len(d)
        /\ Moves(h, "pruning", {}, empty[h] \ {d})
        /\ \/ /\ dirs' = IF IsEmpty(d) THEN dirs \ {d} ELSE dirs
              /\ UNCHANGED <<clean, upsets>>
           \/ Upset /\ UNCHANGED dirs
  BY DEF RemoveDirectory, DeepestFirst
<1>3. doing[h] = "pruning" /\ left[h] = {} /\ UNCHANGED <<offer, tree, foreign, running, using>>
  BY DEF RemoveDirectory
<1>4. PICK directories \in SUBSET DirectoriesOf(Numbers) : directories = empty[h] \ {d}
  BY <1>1 DEF AgentTypeOK
<1>5. Moves(h, "pruning", {}, directories)
  BY <1>2, <1>4
<1>6. /\ {} \subseteq RemovedPaths(using[h]) /\ {} \in SUBSET Numbers
      /\ directories \subseteq PrunedDirectories(using[h])
      /\ "pruning" \in {"rest", "pruning", "writing"} /\ "pruning" # "writing"
  BY <1>1, <1>3, <1>4 DEF PhaseFits
<1>7. /\ doing' \in [Host -> {"rest", "pruning", "writing"}]
      /\ using' \in [Host -> SUBSET Toggles] /\ left' \in [Host -> SUBSET Numbers]
      /\ empty' \in [Host -> SUBSET DirectoriesOf(Numbers)]
      /\ doing'[h] = "pruning" /\ using'[h] = using[h]
      /\ left'[h] = {} /\ empty'[h] = directories
      /\ \A g \in Host : g # h => doing'[g] = doing[g]
      /\ \A g \in Host : PhaseFits(g)'
  BY <1>3, <1>5, <1>6, HostGoesOn
<1>8. Rooted' /\ dirs' \subseteq DirectoriesOf(Numbers) /\ foreign' \subseteq dirs'
  <2>1. CASE dirs' = dirs \ {d} /\ IsEmpty(d) /\ d \in dirs
    BY <1>1, <1>3, <2>1, DiskLosesDirectory
  <2>2. CASE dirs' = dirs
    BY <1>1, <1>3, <2>2, DiskRests DEF AgentTypeOK
  <2>3. CASE dirs' = IF IsEmpty(d) THEN dirs \ {d} ELSE dirs
    <3>1. CASE ~IsEmpty(d)
      BY <2>2, <2>3, <3>1
    <3>2. CASE IsEmpty(d) /\ d \in dirs
      BY <2>1, <2>3, <3>2
    <3>3. CASE IsEmpty(d) /\ d \notin dirs
      <4>1. dirs \ {d} = dirs
        BY <3>3
      <4>2. QED
        BY <2>2, <2>3, <3>3, <4>1
    <3>4. QED
      BY <3>1, <3>2, <3>3
  <2>4. QED
    BY <1>2, <2>2, <2>3
<1>9. upsets' \in 0 .. MaxUpsets /\ clean' \in BOOLEAN
  <2>1. CASE Upset
    BY <1>1, <2>1, UpsetTypes
  <2>2. CASE UNCHANGED <<clean, upsets>>
    BY <1>1, <2>2, UpsetTypes
  <2>3. CASE clean' = FALSE /\ UNCHANGED upsets
    <3>1. clean' \in BOOLEAN
      BY <2>3
    <3>2. QED
      BY <1>1, <2>3, <3>1, UpsetTypes
  <2>4. QED
    BY <1>2, <2>1, <2>2, <2>3
<1>10. /\ offer' \in Offers /\ tree' \in [Numbers -> {"none", "made", "other"}]
       /\ running' \in BOOLEAN
  BY <1>1, <1>3 DEF AgentTypeOK
<1>11. AgentShape'
  BY <1>7, <1>8, <1>9, <1>10, ShapeFrom
<1>12. clean' => clean /\ dirs' = IF IsEmpty(d) THEN dirs \ {d} ELSE dirs
  BY <1>2 DEF Upset
<1>13. QED
  BY <1>2, <1>3, <1>4, <1>7, <1>11, <1>12

LEMMA EndsShape ==
  ASSUME AgentShape, NEW h \in Host, SyncEnds(h),
         Rooted', tree' \in [Numbers -> {"none", "made", "other"}],
         foreign' \subseteq dirs', dirs' \subseteq DirectoriesOf(Numbers),
         UNCHANGED <<offer, running>>,
         \/ Upset
         \/ UNCHANGED <<clean, upsets>>
         \/ clean' \in BOOLEAN /\ UNCHANGED upsets
  PROVE  AgentShape' /\ doing'[h] = "rest" /\ \A g \in Host : g # h => doing'[g] = doing[g]
<1>1. AgentTypeOK
  BY DEF AgentShape
<1>2. /\ doing' \in [Host -> {"rest", "pruning", "writing"}]
      /\ using' \in [Host -> SUBSET Toggles] /\ left' \in [Host -> SUBSET Numbers]
      /\ empty' \in [Host -> SUBSET DirectoriesOf(Numbers)]
      /\ doing'[h] = "rest" /\ \A g \in Host : g # h => doing'[g] = doing[g]
      /\ \A g \in Host : PhaseFits(g)'
  BY HostEnds
<1>3. upsets' \in 0 .. MaxUpsets /\ clean' \in BOOLEAN
  BY <1>1, UpsetTypes
<1>4. offer' \in Offers /\ running' \in BOOLEAN
  BY <1>1 DEF AgentTypeOK
<1>5. AgentShape'
  BY <1>2, <1>3, <1>4, ShapeFrom
<1>6. QED
  BY <1>2, <1>5

\* A sync that ends without having touched anything.
LEMMA StopsShape ==
  ASSUME AgentShape, NEW h \in Host, NothingToWrite(h) \/ SourceMissing(h) \/ HostDies(h)
  PROVE  /\ AgentShape' /\ doing'[h] = "rest" /\ \A g \in Host : g # h => doing'[g] = doing[g]
         /\ clean' => NothingToWrite(h)
<1>1. AgentTypeOK /\ Rooted
  BY DEF AgentShape
<1>2. /\ SyncEnds(h) /\ UNCHANGED <<offer, tree, dirs, foreign, running>>
      /\ \/ Upset
         \/ UNCHANGED <<clean, upsets>>
  BY DEF NothingToWrite, SourceMissing, HostDies
<1>3. /\ Rooted' /\ tree' \in [Numbers -> {"none", "made", "other"}]
      /\ foreign' \subseteq dirs' /\ dirs' \subseteq DirectoriesOf(Numbers)
  BY <1>1, <1>2, DiskRests DEF AgentTypeOK
<1>4. AgentShape' /\ doing'[h] = "rest" /\ \A g \in Host : g # h => doing'[g] = doing[g]
  <2>1. UNCHANGED <<offer, running>>
    BY <1>2
  <2>2. QED
    BY <1>2, <1>3, <2>1, EndsShape
<1>5. clean' => NothingToWrite(h)
  BY DEF SourceMissing, HostDies, Upset
<1>6. QED
  BY <1>4, <1>5

LEMMA SourceFoundShape ==
  ASSUME AgentShape, NEW h \in Host, SourceFound(h)
  PROVE  /\ AgentShape'
         /\ doing[h] = "pruning" /\ left[h] = {} /\ empty[h] = {}
         /\ doing'[h] = "writing" /\ using'[h] = using[h]
         /\ left'[h] = WrittenPaths(using[h]) \ {Exe}
         /\ \A g \in Host : g # h => doing'[g] = doing[g]
         /\ UNCHANGED <<offer, tree, dirs, foreign, clean>>
<1>1. AgentTypeOK /\ Rooted
  BY DEF AgentShape
<1>2. /\ doing[h] = "pruning" /\ left[h] = {} /\ empty[h] = {} /\ WrittenPaths(using[h]) # {}
      /\ Moves(h, "writing", WrittenPaths(using[h]) \ {Exe}, {})
      /\ UNCHANGED <<offer, tree, dirs, foreign, running, using, clean, upsets>>
  BY DEF SourceFound, Pruned
<1>3. PICK files \in SUBSET Numbers : files = WrittenPaths(using[h]) \ {Exe}
  BY PlanIs
<1>4. Moves(h, "writing", files, {})
  BY <1>2, <1>3
<1>5. /\ files \subseteq WrittenPaths(using[h]) \ {Exe} /\ WrittenPaths(using[h]) # {}
      /\ "writing" \in {"rest", "pruning", "writing"} /\ "writing" # "pruning"
      /\ {} \in SUBSET DirectoriesOf(Numbers) /\ UNCHANGED using
  BY <1>2, <1>3
<1>6. /\ doing' \in [Host -> {"rest", "pruning", "writing"}]
      /\ using' \in [Host -> SUBSET Toggles] /\ left' \in [Host -> SUBSET Numbers]
      /\ empty' \in [Host -> SUBSET DirectoriesOf(Numbers)]
      /\ doing'[h] = "writing" /\ using'[h] = using[h] /\ left'[h] = files
      /\ \A g \in Host : g # h => doing'[g] = doing[g]
      /\ \A g \in Host : PhaseFits(g)'
  BY <1>4, <1>5, HostGoesOn
<1>7. upsets' \in 0 .. MaxUpsets /\ clean' \in BOOLEAN
  BY <1>1, <1>2, UpsetTypes
<1>8. /\ offer' \in Offers /\ tree' \in [Numbers -> {"none", "made", "other"}]
      /\ foreign' \subseteq dirs' /\ dirs' \subseteq DirectoriesOf(Numbers) /\ running' \in BOOLEAN
      /\ Rooted'
  BY <1>1, <1>2, DiskRests DEF AgentTypeOK
<1>9. AgentShape'
  BY <1>6, <1>7, <1>8, ShapeFrom
<1>10. QED
  BY <1>2, <1>3, <1>6, <1>9

LEMMA WriteShape ==
  ASSUME AgentShape, NEW h \in Host, WriteIfChanged(h)
  PROVE  /\ AgentShape' /\ UNCHANGED offer
         /\ \A g \in Host : g # h => doing'[g] = doing[g]
         /\ clean' => /\ clean /\ doing[h] = "writing" /\ doing'[h] = "writing"
                      /\ UNCHANGED foreign
                      /\ \E i \in left[h] : /\ Replaces(i) /\ left'[h] = left[h] \ {i}
                                            /\ using'[h] = using[h]
<1>1. AgentTypeOK /\ Rooted /\ PhaseFits(h) /\ doing[h] = "writing"
  BY DEF AgentShape, WriteIfChanged
<1>2. PICK i \in left[h] :
        \/ Replaces(i) /\ Moves(h, "writing", left[h] \ {i}, {})
           /\ UNCHANGED <<using, clean, upsets>>
        \/ Fails(i) /\ SyncEnds(h) /\ Upset
  BY DEF WriteIfChanged
<1>3. UNCHANGED <<offer, foreign, running>> /\ i \in Numbers
  BY <1>1 DEF WriteIfChanged, AgentTypeOK
<1>4. CASE Replaces(i) /\ Moves(h, "writing", left[h] \ {i}, {})
           /\ UNCHANGED <<using, clean, upsets>>
  <2>1. PICK files \in SUBSET Numbers : files = left[h] \ {i}
    BY <1>1 DEF AgentTypeOK
  <2>2. Moves(h, "writing", files, {}) /\ UNCHANGED using
    BY <1>4, <2>1
  <2>3. /\ files \subseteq WrittenPaths(using[h]) \ {Exe} /\ WrittenPaths(using[h]) # {}
        /\ "writing" \in {"rest", "pruning", "writing"} /\ "writing" # "pruning"
        /\ {} \in SUBSET DirectoriesOf(Numbers)
    BY <1>1, <2>1 DEF PhaseFits
  <2>4. /\ doing' \in [Host -> {"rest", "pruning", "writing"}]
        /\ using' \in [Host -> SUBSET Toggles] /\ left' \in [Host -> SUBSET Numbers]
        /\ empty' \in [Host -> SUBSET DirectoriesOf(Numbers)]
        /\ doing'[h] = "writing" /\ using'[h] = using[h] /\ left'[h] = files
        /\ \A g \in Host : g # h => doing'[g] = doing[g]
        /\ \A g \in Host : PhaseFits(g)'
    BY <2>2, <2>3, HostGoesOn
  <2>5. upsets' \in 0 .. MaxUpsets /\ clean' \in BOOLEAN
    BY <1>1, <1>4, UpsetTypes
  <2>6. /\ Rooted' /\ tree' \in [Numbers -> {"none", "made", "other"}]
        /\ dirs' \subseteq DirectoriesOf(Numbers) /\ foreign' \subseteq dirs'
    BY <1>1, <1>3, <1>4, DiskGainsFile
  <2>7. offer' \in Offers /\ running' \in BOOLEAN
    BY <1>1, <1>3 DEF AgentTypeOK
  <2>8. AgentShape'
    BY <2>4, <2>5, <2>6, <2>7, ShapeFrom
  <2>9. QED
    BY <1>1, <1>3, <1>4, <2>1, <2>4, <2>8
<1>5. CASE Fails(i) /\ SyncEnds(h) /\ Upset
  <2>1. /\ Rooted' /\ tree' \in [Numbers -> {"none", "made", "other"}]
        /\ dirs' \subseteq DirectoriesOf(Numbers) /\ foreign' \subseteq dirs'
    BY <1>1, <1>3, <1>5, DiskGainsDirectories
  <2>2. tree' \in [Numbers -> {"none", "made", "other"}] /\ UNCHANGED <<offer, running>>
    BY <1>1, <1>3, <2>1 DEF AgentTypeOK
  <2>3. AgentShape' /\ \A g \in Host : g # h => doing'[g] = doing[g]
    BY <1>5, <2>1, <2>2, EndsShape
  <2>4. ~clean'
    BY <1>5 DEF Upset
  <2>5. QED
    BY <2>2, <2>3, <2>4
<1>6. QED
  BY <1>2, <1>4, <1>5

LEMMA CopyShape ==
  ASSUME AgentShape, NEW h \in Host, CopyExecutable(h)
  PROVE  /\ AgentShape' /\ doing'[h] = "rest" /\ \A g \in Host : g # h => doing'[g] = doing[g]
         /\ doing[h] = "writing" /\ left[h] = {} /\ UNCHANGED <<offer, foreign>>
         /\ clean' => clean /\ Replaces(Exe)
<1>1. AgentTypeOK /\ Rooted /\ Exe \in Numbers
  BY FilesAre DEF AgentShape
<1>2. /\ doing[h] = "writing" /\ left[h] = {} /\ SyncEnds(h)
      /\ UNCHANGED <<offer, foreign, running>>
      /\ \/ Replaces(Exe) /\ UNCHANGED <<clean, upsets>>
         \/ Fails(Exe) /\ clean' = FALSE /\ UNCHANGED upsets
         \/ Fails(Exe) /\ Upset
  BY DEF CopyExecutable
<1>3. CASE Replaces(Exe) /\ UNCHANGED <<clean, upsets>>
  <2>1. /\ Rooted' /\ tree' \in [Numbers -> {"none", "made", "other"}]
        /\ dirs' \subseteq DirectoriesOf(Numbers) /\ foreign' \subseteq dirs'
    BY <1>1, <1>2, <1>3, DiskGainsFile
  <2>2. AgentShape' /\ doing'[h] = "rest" /\ \A g \in Host : g # h => doing'[g] = doing[g]
    BY <1>2, <1>3, <2>1, EndsShape
  <2>3. QED
    BY <1>2, <1>3, <2>2
<1>4. CASE Fails(Exe) /\ (Upset \/ (clean' = FALSE /\ UNCHANGED upsets))
  <2>1. /\ Rooted' /\ tree' \in [Numbers -> {"none", "made", "other"}]
        /\ dirs' \subseteq DirectoriesOf(Numbers) /\ foreign' \subseteq dirs'
    BY <1>1, <1>2, <1>4, DiskGainsDirectories
  <2>2. tree' \in [Numbers -> {"none", "made", "other"}] /\ UNCHANGED <<offer, running>>
    BY <1>1, <1>2, <2>1 DEF AgentTypeOK
  <2>3. clean' = FALSE /\ (Upset \/ UNCHANGED upsets)
    BY <1>4 DEF Upset
  <2>4. AgentShape' /\ doing'[h] = "rest" /\ \A g \in Host : g # h => doing'[g] = doing[g]
    <3>1. CASE Upset
      BY <1>2, <2>1, <2>2, <3>1, EndsShape
    <3>2. CASE UNCHANGED upsets
      <4>1. clean' \in BOOLEAN
        BY <2>3
      <4>2. QED
        BY <1>2, <2>1, <2>2, <3>2, <4>1, EndsShape
    <3>3. QED
      BY <2>3, <3>1, <3>2
  <2>5. QED
    BY <1>2, <2>3, <2>4
<1>5. QED
  BY <1>2, <1>3, <1>4

\* What happens around the syncs.
LEMMA AroundShape ==
  ASSUME AgentShape, ClientRunsServer \/ ClientEnds \/ UserMeddles \/ UserChangesOffer
  PROVE  /\ AgentShape' /\ UNCHANGED <<doing, using, left, empty>>
         /\ clean' => UNCHANGED <<clean, offer, tree, dirs, foreign>>
<1>1. AgentTypeOK /\ Rooted
  BY DEF AgentShape
<1>2. UNCHANGED <<doing, using, left, empty>>
  BY DEF ClientRunsServer, ClientEnds, UserMeddles, UserChangesOffer
<1>3. /\ doing' \in [Host -> {"rest", "pruning", "writing"}]
      /\ using' \in [Host -> SUBSET Toggles] /\ left' \in [Host -> SUBSET Numbers]
      /\ empty' \in [Host -> SUBSET DirectoriesOf(Numbers)]
      /\ \A g \in Host : PhaseFits(g)'
  BY <1>1, <1>2 DEF AgentTypeOK, AgentShape, PhaseFits
<1>4. upsets' \in 0 .. MaxUpsets /\ clean' \in BOOLEAN
  <2>1. Upset \/ UNCHANGED <<clean, upsets>>
    BY DEF ClientRunsServer, ClientEnds, UserMeddles, UserChangesOffer
  <2>2. QED
    BY <1>1, <2>1, UpsetTypes
<1>5. offer' \in Offers /\ running' \in BOOLEAN /\ UNCHANGED dirs
      /\ dirs' \subseteq DirectoriesOf(Numbers)
  BY <1>1 DEF AgentTypeOK, ClientRunsServer, ClientEnds, UserMeddles, UserChangesOffer
<1>6. /\ Rooted' /\ tree' \in [Numbers -> {"none", "made", "other"}] /\ foreign' \subseteq dirs'
  <2>1. CASE UNCHANGED tree
    <3>1. foreign' \subseteq dirs
      BY <1>1 DEF AgentTypeOK, ClientRunsServer, ClientEnds, UserMeddles, UserChangesOffer
    <3>2. QED
      BY <1>1, <1>5, <2>1, <3>1, DiskRests DEF AgentTypeOK
  <2>2. CASE \E i \in Numbers : /\ tree[i] # "none" /\ UNCHANGED foreign
                                /\ \E t \in {"none", "other"} : tree' = [tree EXCEPT ![i] = t]
    <3>1. PICK i \in Numbers, t \in {"none", "other"} :
            tree[i] # "none" /\ tree' = [tree EXCEPT ![i] = t]
      BY <2>2
    <3>2. QED
      BY <1>1, <1>5, <2>2, <3>1, DiskChangesFile DEF AgentTypeOK
  <2>3. QED
    BY <2>1, <2>2 DEF ClientRunsServer, ClientEnds, UserMeddles, UserChangesOffer
<1>7. AgentShape'
  BY <1>3, <1>4, <1>5, <1>6, ShapeFrom
<1>8. clean' => UNCHANGED <<clean, offer, tree, dirs, foreign>>
  BY DEF ClientRunsServer, ClientEnds, UserMeddles, UserChangesOffer, Upset
<1>9. QED
  BY <1>2, <1>7, <1>8

\* A process starts a sync.
LEMMA StartsShape ==
  ASSUME AgentShape, NEW h \in Host, StartsUp(h) \/ SavesAndSyncs(h)
  PROVE  /\ AgentShape' /\ doing[h] = "rest"
         /\ \A g \in Host : g # h => doing'[g] = doing[g]
         /\ clean' => /\ \A g \in Host : doing[g] = "rest"
                      /\ doing'[h] = "pruning" /\ using'[h] = offer'
                      /\ left'[h] = RemovedPaths(using'[h])
                      /\ empty'[h] = PrunedDirectories(using'[h])
                      /\ UNCHANGED <<tree, dirs, foreign>>
<1>1. /\ doing[h] = "rest" /\ offer \in Offers
      /\ UNCHANGED <<tree, dirs, foreign, running>>
  BY DEF StartsUp, SavesAndSyncs, AgentShape, AgentTypeOK
<1>2. PICK toggles \in SUBSET Toggles :
        /\ BeginsSync(h, toggles) /\ offer' \in Offers
        /\ \/ /\ clean' = (\A g \in Host : doing[g] = "rest") /\ UNCHANGED upsets
              /\ toggles = offer'
           \/ Upset
  <2>1. Offers \subseteq SUBSET Toggles /\ {} \in SUBSET Toggles
    BY AgentAssumption
  <2>2. CASE StartsUp(h)
    BY <1>1, <2>1, <2>2 DEF StartsUp
  <2>3. CASE SavesAndSyncs(h)
    <3>1. PICK toggles \in Offers : offer' = toggles /\ BeginsSync(h, toggles)
      BY <2>3 DEF SavesAndSyncs
    <3>2. clean' = (\A g \in Host : doing[g] = "rest") /\ UNCHANGED upsets
      BY <2>3 DEF SavesAndSyncs
    <3>3. QED
      BY <2>1, <3>1, <3>2
  <2>4. QED
    BY <2>2, <2>3
<1>3. Upset \/ (clean' \in BOOLEAN /\ UNCHANGED upsets)
  <2>1. (\A g \in Host : doing[g] = "rest") \in BOOLEAN
    OBVIOUS
  <2>2. CASE clean' = (\A g \in Host : doing[g] = "rest") /\ UNCHANGED upsets
    <3>1. clean' \in BOOLEAN
      BY <2>1, <2>2, Zenon
    <3>2. QED
      BY <2>2, <3>1
  <2>3. QED
    BY <1>2, <2>2
<1>4. /\ AgentShape' /\ doing'[h] = "pruning" /\ using'[h] = toggles
      /\ left'[h] = RemovedPaths(toggles) /\ empty'[h] = PrunedDirectories(toggles)
      /\ \A g \in Host : g # h => doing'[g] = doing[g]
  <2>1. /\ BeginsSync(h, toggles) /\ offer' \in Offers
        /\ UNCHANGED <<tree, dirs, foreign, running>>
    BY <1>1, <1>2
  <2>2. AgentTypeOK
    BY DEF AgentShape
  <2>3. upsets' \in 0 .. MaxUpsets /\ clean' \in BOOLEAN
    BY <1>3, <2>2, UpsetTypes
  <2>4. QED
    BY <2>1, <2>3, BeginsShape
<1>5. clean' => toggles = offer' /\ \A g \in Host : doing[g] = "rest"
  BY <1>2 DEF Upset
<1>6. QED
  BY <1>1, <1>4, <1>5

-----------------------------------------------------------------------------
(* One sync alone.                                                         *)

LEMMA UndisturbedOn ==
  ASSUME Undisturbed, NEW h \in Host, doing[h] # "rest", doing'[h] # "rest",
         \A g \in Host : g # h => doing'[g] = doing[g],
         clean' => clean /\ (PhaseDone(h) => PhaseDone(h)')
  PROVE  Undisturbed'
<1> SUFFICES ASSUME clean' PROVE /\ \A g \in Host : g # h => doing'[g] = "rest"
                                 /\ PhaseDone(h)'
  BY DEF Undisturbed, PhaseDone, TreeRepaired
<1>1. clean /\ PhaseDone(h) /\ \A g \in Host : doing[g] # "rest" => g = h
  BY DEF Undisturbed
<1>2. QED
  BY <1>1

LEMMA UndisturbedEnds ==
  ASSUME Undisturbed, NEW h \in Host, doing[h] # "rest", doing'[h] = "rest",
         \A g \in Host : g # h => doing'[g] = doing[g],
         clean' => clean /\ (PhaseDone(h) => TreeRepaired')
  PROVE  Undisturbed'
<1> SUFFICES ASSUME clean' PROVE (\A g \in Host : doing'[g] = "rest") /\ TreeRepaired'
  BY DEF Undisturbed, PhaseDone
<1>1. clean /\ PhaseDone(h) /\ \A g \in Host : doing[g] # "rest" => g = h
  BY DEF Undisturbed
<1>2. QED
  BY <1>1

\* Nothing removed is left, all that is written is there, and of the directories
\* only those that others need: that is the tree the settings ask for.
LEMMA Repaired ==
  ASSUME AgentShape', NEW asked, asked = offer',
         \A i \in RemovedPaths(asked) : tree'[i] = "none",
         \A i \in WrittenPaths(asked) : tree'[i] = "made",
         dirs' \cap PrunedDirectories(asked) \subseteq Kept'
  PROVE  TreeRepaired'
<1>1. AgentTypeOK' /\ Rooted'
  BY DEF AgentShape
<1>2. \A i \in Numbers : tree'[i] = IF i \in WrittenPaths(asked) THEN "made" ELSE "none"
  BY PlanIs
<1>3. Kept' \subseteq dirs'
  BY <1>1 DEF Kept, Rooted, AgentTypeOK
<1>4. DirectoriesOf(WrittenPaths(asked)) \subseteq dirs'
  <2>1. ASSUME NEW i \in WrittenPaths(asked) PROVE Ancestors(Generated[i].path) \subseteq dirs'
    BY <1>1, <2>1, PlanIs DEF Rooted
  <2>2. QED
    BY <2>1 DEF DirectoriesOf
<1>5. dirs' \subseteq DirectoriesOf(WrittenPaths(asked)) \cup Kept'
  <2>1. dirs' \subseteq DirectoriesOf(Numbers)
    BY <1>1 DEF AgentTypeOK
  <2>2. QED
    BY <2>1, PlanIs
<1>6. dirs' = DirectoriesOf(WrittenPaths(asked)) \cup Kept'
  BY <1>3, <1>4, <1>5
<1>7. QED
  BY <1>2, <1>6 DEF TreeRepaired, Kept

\* A directory to be pruned that is not empty, and the deepest that is left, has
\* something of others in it or below it.
LEMMA NotEmptyIsKept ==
  ASSUME AgentShape, NEW toggles, NEW rest, NEW d \in PrunedDirectories(toggles), ~IsEmpty(d),
         \A i \in RemovedPaths(toggles) : tree[i] = "none",
         dirs \cap PrunedDirectories(toggles) \subseteq rest \cup Kept,
         \A e \in rest : Len(e) <= Len(d)
  PROVE  d \in Kept
<1>1. AgentTypeOK /\ Rooted /\ dirs \subseteq DirectoriesOf(Numbers)
  BY DEF AgentShape, AgentTypeOK
<1>2. /\ d \in DirectoriesOf(Numbers) /\ d \notin DirectoriesOf(WrittenPaths(toggles))
      /\ WrittenPaths(toggles) \in SUBSET Numbers /\ Numbers \in SUBSET Numbers
  BY PlanIs
<1>3. Len(d) \in Nat /\ Len(d) >= 1
  BY <1>2, DirectoriesNest
<1>4. CASE d \in foreign
  BY <1>4 DEF Kept
<1>5. ASSUME NEW e \in dirs, d # e, Len(e) = Len(d) + 1, SubSeq(e, 1, Len(d)) = d
      PROVE  d \in Kept
  <2>1. e \in DirectoriesOf(Numbers) /\ e \in Seq(Names)
    BY <1>1, <1>2, <1>5, DirectoriesNest
  <2>2. d \in Ancestors(e)
    BY <1>3, <1>5, <2>1, ParentIs
  <2>3. e \notin DirectoriesOf(WrittenPaths(toggles))
    BY <1>2, <2>2, DirectoriesNest
  <2>4. e \in PrunedDirectories(toggles)
    BY <2>1, <2>3, PlanIs
  <2>5. e \notin rest
    BY <1>3, <1>5
  <2>6. PICK f \in foreign : e \in Ancestors(f) \cup {f}
    BY <1>5, <2>4, <2>5 DEF Kept
  <2>7. f \in Seq(Names)
    <3>1. f \in DirectoriesOf(Numbers)
      BY <1>1 DEF AgentTypeOK
    <3>2. QED
      BY <1>2, <3>1, DirectoriesNest
  <2>8. d \in Ancestors(f)
    BY <2>2, <2>6, <2>7, AncestorsNest
  <2>9. QED
    BY <2>8 DEF Kept
<1>6. ASSUME NEW i \in Numbers, tree[i] # "none", Len(Generated[i].path) = Len(d) + 1,
             SubSeq(Generated[i].path, 1, Len(d)) = d
      PROVE  FALSE
  <2>1. i \in WrittenPaths(toggles)
    BY <1>6, PlanIs
  <2>2. Generated[i].path \in Seq(Names)
    BY FilesAre
  <2>3. PICK p \in Seq(Names) : p = Generated[i].path
    BY <2>2
  <2>4. d \in Ancestors(p)
    BY <1>3, <1>6, <2>3, ParentIs
  <2>5. QED
    BY <1>2, <2>1, <2>3, <2>4 DEF DirectoriesOf
<1>7. QED
  BY <1>4, <1>5, <1>6 DEF IsEmpty

LEMMA StartsUndisturbed ==
  ASSUME AgentShape, Undisturbed, NEW h \in Host, StartsUp(h) \/ SavesAndSyncs(h)
  PROVE  Undisturbed'
<1> SUFFICES ASSUME clean' PROVE Undisturbed'
  BY DEF Undisturbed
<1>1. /\ \A g \in Host : g # h => doing'[g] = doing[g]
      /\ \A g \in Host : doing[g] = "rest"
      /\ doing'[h] = "pruning" /\ using'[h] = offer'
      /\ left'[h] = RemovedPaths(using'[h])
      /\ empty'[h] = PrunedDirectories(using'[h])
  BY StartsShape
<1>2. PhaseDone(h)'
  BY <1>1 DEF PhaseDone
<1>3. \A g \in Host : g # h => doing'[g] = "rest"
  BY <1>1
<1>4. QED
  BY <1>1, <1>2, <1>3 DEF Undisturbed, PhaseDone, TreeRepaired

LEMMA RemoveFileUndisturbed ==
  ASSUME AgentShape, Undisturbed, NEW h \in Host, RemoveFile(h)
  PROVE  Undisturbed'
<1>1. PICK i \in left[h] :
        /\ doing[h] = "pruning" /\ doing'[h] = "pruning" /\ using'[h] = using[h]
        /\ left'[h] = left[h] \ {i} /\ empty'[h] = empty[h]
        /\ \A g \in Host : g # h => doing'[g] = doing[g]
        /\ clean' => tree' = [tree EXCEPT ![i] = "none"] /\ clean
        /\ UNCHANGED <<offer, dirs, foreign>>
  BY RemoveFileShape
<1>2. ASSUME clean', PhaseDone(h) PROVE PhaseDone(h)'
  <2>1. tree \in [Numbers -> {"none", "made", "other"}] /\ i \in Numbers
    BY DEF AgentShape, AgentTypeOK
  <2>2. tree' = [tree EXCEPT ![i] = "none"] /\ Kept' = Kept
    BY <1>1, <1>2 DEF Kept
  <2>3. \A j \in RemovedPaths(using[h]) \ (left[h] \ {i}) : tree'[j] = "none"
    <3>1. \A j \in RemovedPaths(using[h]) \ left[h] : tree[j] = "none"
      BY <1>1, <1>2 DEF PhaseDone
    <3>2. RemovedPaths(using[h]) \subseteq Numbers
      BY PlanIs
    <3>3. QED
      BY <2>1, <2>2, <3>1, <3>2
  <2>4. QED
    BY <1>1, <1>2, <2>2, <2>3 DEF PhaseDone
<1>3. QED
  BY <1>1, <1>2, UndisturbedOn

LEMMA RemoveDirectoryUndisturbed ==
  ASSUME AgentShape, Undisturbed, NEW h \in Host, RemoveDirectory(h)
  PROVE  Undisturbed'
<1>1. PICK d \in empty[h] :
        /\ \A e \in empty[h] : Len(e) <= Len(d)
        /\ doing[h] = "pruning" /\ left[h] = {}
        /\ doing'[h] = "pruning" /\ using'[h] = using[h]
        /\ left'[h] = {} /\ empty'[h] = empty[h] \ {d}
        /\ \A g \in Host : g # h => doing'[g] = doing[g]
        /\ clean' => /\ clean
                     /\ dirs' = IF IsEmpty(d) THEN dirs \ {d} ELSE dirs
        /\ UNCHANGED <<offer, tree, foreign>>
  BY RemoveDirectoryShape
<1>2. ASSUME clean', PhaseDone(h) PROVE PhaseDone(h)'
  <2>1. /\ \A i \in RemovedPaths(using[h]) : tree[i] = "none"
        /\ dirs \cap PrunedDirectories(using[h]) \subseteq empty[h] \cup Kept
        /\ using[h] = offer
    BY <1>1, <1>2 DEF PhaseDone
  <2>2. Kept' = Kept /\ dirs' = IF IsEmpty(d) THEN dirs \ {d} ELSE dirs
    BY <1>1, <1>2 DEF Kept
  <2>3. d \in PrunedDirectories(using[h])
    BY <1>1 DEF AgentShape, PhaseFits
  <2>4. IsEmpty(d) \/ d \in Kept
    <3>1. PICK toggles, rest : toggles = using[h] /\ rest = empty[h]
      OBVIOUS
    <3>2. d \in PrunedDirectories(toggles) /\ (\A e \in rest : Len(e) <= Len(d))
          /\ (\A i \in RemovedPaths(toggles) : tree[i] = "none")
          /\ dirs \cap PrunedDirectories(toggles) \subseteq rest \cup Kept
      BY <1>1, <2>1, <2>3, <3>1
    <3>3. QED
      BY <3>2, NotEmptyIsKept
  <2>5. dirs' \cap PrunedDirectories(using[h]) \subseteq (empty[h] \ {d}) \cup Kept
    BY <2>1, <2>2, <2>4
  <2>6. QED
    BY <1>1, <2>1, <2>2, <2>5 DEF PhaseDone
<1>3. QED
  BY <1>1, <1>2, UndisturbedOn

LEMMA StopsUndisturbed ==
  ASSUME AgentShape, Undisturbed, NEW h \in Host,
         NothingToWrite(h) \/ SourceMissing(h) \/ HostDies(h)
  PROVE  Undisturbed'
<1>1. /\ AgentShape' /\ doing'[h] = "rest" /\ \A g \in Host : g # h => doing'[g] = doing[g]
      /\ clean' => NothingToWrite(h)
  BY StopsShape
<1>2. doing[h] # "rest"
  BY DEF NothingToWrite, SourceMissing, HostDies, Pruned
<1>3. clean' => clean
  BY <1>1 DEF NothingToWrite
<1>4. ASSUME clean', PhaseDone(h) PROVE TreeRepaired'
  <2>1. /\ doing[h] = "pruning" /\ left[h] = {} /\ empty[h] = {} /\ WrittenPaths(using[h]) = {}
        /\ UNCHANGED <<offer, tree, dirs, foreign, clean>>
    BY <1>1, <1>4 DEF NothingToWrite, Pruned
  <2>2. PICK asked : asked = offer'
    OBVIOUS
  <2>3. /\ using[h] = asked
        /\ \A i \in RemovedPaths(asked) : tree'[i] = "none"
        /\ dirs' \cap PrunedDirectories(asked) \subseteq Kept'
    BY <1>4, <2>1, <2>2 DEF PhaseDone, Kept
  <2>4. \A i \in WrittenPaths(asked) : tree'[i] = "made"
    BY <2>1, <2>3
  <2>5. QED
    BY <1>1, <2>2, <2>3, <2>4, Repaired
<1>5. QED
  BY <1>1, <1>2, <1>3, <1>4, UndisturbedEnds

LEMMA SourceFoundUndisturbed ==
  ASSUME AgentShape, Undisturbed, NEW h \in Host, SourceFound(h)
  PROVE  Undisturbed'
<1>1. /\ doing[h] = "pruning" /\ left[h] = {} /\ empty[h] = {}
      /\ doing'[h] = "writing" /\ using'[h] = using[h]
      /\ left'[h] = WrittenPaths(using[h]) \ {Exe}
      /\ \A g \in Host : g # h => doing'[g] = doing[g]
      /\ UNCHANGED <<offer, tree, dirs, foreign, clean>>
  BY SourceFoundShape
<1>2. ASSUME PhaseDone(h) PROVE PhaseDone(h)'
  <2>1. /\ using[h] = offer
        /\ \A i \in RemovedPaths(using[h]) : tree[i] = "none"
        /\ dirs \cap PrunedDirectories(using[h]) \subseteq Kept
    BY <1>1, <1>2 DEF PhaseDone
  <2>2. WrittenPaths(using[h]) \ (left'[h] \cup {Exe}) = {}
    BY <1>1
  <2>3. QED
    BY <1>1, <2>1, <2>2 DEF PhaseDone, Kept
<1>3. QED
  BY <1>1, <1>2, UndisturbedOn

\* The way to a file that is written is not pruned.
LEMMA WritesKeepPruned ==
  ASSUME NEW toggles, NEW i \in WrittenPaths(toggles),
         dirs' \subseteq dirs \cup Ancestors(Generated[i].path)
  PROVE  dirs' \cap PrunedDirectories(toggles) \subseteq dirs \cap PrunedDirectories(toggles)
<1>1. Ancestors(Generated[i].path) \subseteq DirectoriesOf(WrittenPaths(toggles))
  BY DEF DirectoriesOf
<1>2. QED
  BY <1>1, PlanIs

LEMMA WriteUndisturbed ==
  ASSUME AgentShape, Undisturbed, NEW h \in Host, WriteIfChanged(h)
  PROVE  Undisturbed'
<1> SUFFICES ASSUME clean' PROVE Undisturbed'
  BY DEF Undisturbed
<1>1. /\ UNCHANGED offer /\ \A g \in Host : g # h => doing'[g] = doing[g]
      /\ clean /\ doing[h] = "writing" /\ doing'[h] = "writing" /\ UNCHANGED foreign
      /\ \E i \in left[h] : Replaces(i) /\ left'[h] = left[h] \ {i} /\ using'[h] = using[h]
  BY WriteShape
<1>2. PICK i \in left[h] : Replaces(i) /\ left'[h] = left[h] \ {i} /\ using'[h] = using[h]
  BY <1>1
<1>3. i \in WrittenPaths(using[h]) /\ i \in Numbers
  BY <1>1, PlanIs DEF AgentShape, PhaseFits
<1>4. AgentTypeOK /\ Rooted
  BY DEF AgentShape
<1>5. /\ tree'[i] = "made" /\ \A j \in Numbers : j # i => tree'[j] = tree[j]
      /\ dirs' \subseteq dirs \cup Ancestors(Generated[i].path)
  BY <1>1, <1>2, <1>3, <1>4, DiskGainsFile
<1>6. ASSUME PhaseDone(h) PROVE PhaseDone(h)'
  <2>1. /\ using[h] = offer
        /\ \A j \in RemovedPaths(using[h]) : tree[j] = "none"
        /\ \A j \in WrittenPaths(using[h]) \ (left[h] \cup {Exe}) : tree[j] = "made"
        /\ dirs \cap PrunedDirectories(using[h]) \subseteq Kept
    BY <1>1, <1>6 DEF PhaseDone
  <2>2. PICK toggles : toggles = using[h]
    OBVIOUS
  <2>3. \A j \in RemovedPaths(toggles) : tree'[j] = "none"
    BY <1>3, <1>5, <2>1, <2>2, PlanIs
  <2>4. \A j \in WrittenPaths(toggles) \ ((left[h] \ {i}) \cup {Exe}) : tree'[j] = "made"
    BY <1>3, <1>5, <2>1, <2>2, PlanIs
  <2>5. dirs' \cap PrunedDirectories(toggles) \subseteq Kept
    BY <1>3, <1>5, <2>1, <2>2, WritesKeepPruned
  <2>6. QED
    BY <1>1, <1>2, <2>1, <2>2, <2>3, <2>4, <2>5 DEF PhaseDone, Kept
<1>7. QED
  BY <1>1, <1>6, UndisturbedOn

LEMMA CopyUndisturbed ==
  ASSUME AgentShape, Undisturbed, NEW h \in Host, CopyExecutable(h)
  PROVE  Undisturbed'
<1>1. /\ AgentShape' /\ doing'[h] = "rest" /\ \A g \in Host : g # h => doing'[g] = doing[g]
      /\ doing[h] = "writing" /\ left[h] = {} /\ UNCHANGED <<offer, foreign>>
      /\ clean' => clean /\ Replaces(Exe)
  BY CopyShape
<1>2. ASSUME clean', PhaseDone(h) PROVE clean /\ TreeRepaired'
  <2>1. AgentTypeOK /\ Rooted /\ Exe \in Numbers
    BY FilesAre DEF AgentShape
  <2>2. PICK exe \in Numbers : exe = Exe
    BY <2>1
  <2>3. /\ tree'[exe] = "made" /\ \A j \in Numbers : j # exe => tree'[j] = tree[j]
        /\ dirs' \subseteq dirs \cup Ancestors(Generated[exe].path)
    BY <1>1, <1>2, <2>1, <2>2, DiskGainsFile
  <2>4. PICK asked : asked = offer'
    OBVIOUS
  <2>5. /\ using[h] = asked
        /\ \A j \in RemovedPaths(asked) : tree[j] = "none"
        /\ \A j \in WrittenPaths(asked) \ {exe} : tree[j] = "made"
        /\ dirs \cap PrunedDirectories(asked) \subseteq Kept
    BY <1>1, <1>2, <2>2, <2>4 DEF PhaseDone
  <2>6. exe \in WrittenPaths(asked)
    BY <1>1, <2>2, <2>5, PlanIs DEF AgentShape, PhaseFits
  <2>7. \A j \in RemovedPaths(asked) : tree'[j] = "none"
    BY <2>3, <2>5, <2>6, PlanIs
  <2>8. \A j \in WrittenPaths(asked) : tree'[j] = "made"
    BY <2>3, <2>5, PlanIs
  <2>9. dirs' \cap PrunedDirectories(asked) \subseteq Kept'
    <3>1. dirs' \cap PrunedDirectories(asked) \subseteq dirs \cap PrunedDirectories(asked)
      BY <2>3, <2>6, WritesKeepPruned
    <3>2. QED
      BY <1>1, <2>5, <3>1 DEF Kept
  <2>10. QED
    BY <1>1, <1>2, <2>4, <2>7, <2>8, <2>9, Repaired
<1>3. QED
  BY <1>1, <1>2, UndisturbedEnds

LEMMA AroundUndisturbed ==
  ASSUME AgentShape, Undisturbed,
         ClientRunsServer \/ ClientEnds \/ UserMeddles \/ UserChangesOffer
  PROVE  Undisturbed'
<1>1. /\ UNCHANGED <<doing, using, left, empty>>
      /\ clean' => UNCHANGED <<clean, offer, tree, dirs, foreign>>
  BY AroundShape
<1> SUFFICES ASSUME clean' PROVE Undisturbed'
  BY DEF Undisturbed
<1>2. UNCHANGED <<clean, offer, tree, dirs, foreign>> /\ Kept' = Kept
  BY <1>1 DEF Kept
<1>3. /\ \A g, h \in Host : doing[g] # "rest" /\ doing[h] # "rest" => g = h
      /\ \A h \in Host : PhaseDone(h)
      /\ TreeRepaired
  BY <1>2 DEF Undisturbed
<1>4. ASSUME NEW h \in Host PROVE PhaseDone(h)'
  <2>1. PhaseDone(h)
    BY <1>3
  <2>2. QED
    BY <1>1, <1>2, <2>1 DEF PhaseDone
<1>5. TreeRepaired'
  BY <1>1, <1>2, <1>3 DEF TreeRepaired
<1>6. QED
  BY <1>1, <1>3, <1>4, <1>5 DEF Undisturbed

-----------------------------------------------------------------------------
AgentInv == AgentShape /\ Undisturbed

LEMMA AgentStarts == AgentInit => AgentInv
BY ShapeInit DEF AgentInit, AgentInv, Undisturbed

LEMMA AgentGoesOn == AgentInv /\ [AgentNext]_agentVars => AgentInv'
<1> SUFFICES ASSUME AgentInv, [AgentNext]_agentVars PROVE AgentInv'
  OBVIOUS
<1>1. AgentShape /\ Undisturbed
  BY DEF AgentInv
<1>2. ASSUME NEW h \in Host, StartsUp(h) \/ SavesAndSyncs(h) PROVE AgentInv'
  BY <1>1, <1>2, StartsShape, StartsUndisturbed DEF AgentInv
<1>3. ASSUME NEW h \in Host, RemoveFile(h) PROVE AgentInv'
  BY <1>1, <1>3, RemoveFileShape, RemoveFileUndisturbed DEF AgentInv
<1>4. ASSUME NEW h \in Host, RemoveDirectory(h) PROVE AgentInv'
  BY <1>1, <1>4, RemoveDirectoryShape, RemoveDirectoryUndisturbed DEF AgentInv
<1>5. ASSUME NEW h \in Host, NothingToWrite(h) \/ SourceMissing(h) \/ HostDies(h)
      PROVE  AgentInv'
  BY <1>1, <1>5, StopsShape, StopsUndisturbed DEF AgentInv
<1>6. ASSUME NEW h \in Host, SourceFound(h) PROVE AgentInv'
  BY <1>1, <1>6, SourceFoundShape, SourceFoundUndisturbed DEF AgentInv
<1>7. ASSUME NEW h \in Host, WriteIfChanged(h) PROVE AgentInv'
  BY <1>1, <1>7, WriteShape, WriteUndisturbed DEF AgentInv
<1>8. ASSUME NEW h \in Host, CopyExecutable(h) PROVE AgentInv'
  BY <1>1, <1>8, CopyShape, CopyUndisturbed DEF AgentInv
<1>9. CASE ClientRunsServer \/ ClientEnds \/ UserMeddles \/ UserChangesOffer
  BY <1>1, <1>9, AroundShape, AroundUndisturbed DEF AgentInv
<1>10. CASE UNCHANGED agentVars
  BY <1>1, <1>10 DEF agentVars, AgentInv, AgentShape, AgentTypeOK, Rooted, PhaseFits,
                     Undisturbed, PhaseDone, TreeRepaired, Kept
<1>11. QED
  BY <1>2, <1>3, <1>4, <1>5, <1>6, <1>7, <1>8, <1>9, <1>10 DEF AgentNext, Sync

LEMMA SyncRepairs == AgentSpec => []TreeRepaired
<1>1. AgentInv => TreeRepaired
  BY DEF AgentInv, Undisturbed, TreeRepaired
<1>2. QED
  BY AgentStarts, AgentGoesOn, <1>1, PTL DEF AgentSpec

-----------------------------------------------------------------------------
(* The directory as a whole.                                               *)

\* Each part of the directory behaves as its module says.
THEOREM DirectoryRunsBoth == DataSpec => Spec /\ AgentSpec
<1>1. DataInit => Init /\ AgentInit
  BY DEF DataInit
<1>2. [SettingsStep \/ PluginStep]_dataVars => [Next]_vars /\ [AgentNext]_agentVars
  <2>1. UNCHANGED dataVars => UNCHANGED vars /\ UNCHANGED agentVars
    BY DEF dataVars, vars, agentVars
  <2>2. SettingsStep => Next /\ UNCHANGED agentVars
    BY DEF SettingsStep
  <2>3. PluginStep => AgentNext /\ UNCHANGED vars
    BY DEF PluginStep
  <2>4. QED
    BY <2>1, <2>2, <2>3
<1>3. QED
  BY <1>1, <1>2, PTL DEF DataSpec, Spec, AgentSpec

\* One sync that nothing disturbed leaves exactly what the settings ask for: all
\* that was agreed to, nothing that was taken back, no empty directory, and the
\* files of others, over whatever the syncs before it left behind (apply).
THEOREM TreeIsRepaired == DataSpec => []TreeRepaired
BY DirectoryRunsBoth, SyncRepairs, PTL
=============================================================================
