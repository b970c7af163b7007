------------------------------- MODULE SharedFile -------------------------------
(***************************************************************************)
(* The settings file as whoever reads it meets it, and what SettingsReader *)
(* (crates/core/src/settings.rs) makes of a reading.  SettingsFile         *)
(* implements it, SettingsWatch reads it.                                  *)
(*                                                                         *)
(* A document is the set of items it moves away from their default; what a *)
(* version of the program does not know is an item like any other.         *)
(***************************************************************************)
CONSTANTS
  Item,    \* settings
  Racing   \* "absence" \in Racing: ReplaceFileW lets a reader find no file;
           \* "loss": called without a backup it may fail and leave none

\* What a read returns. A stamp is the content it was made from.
Doc(off) == [kind |-> "doc", off |-> off]
Absent == [kind |-> "absent", off |-> {}]
Broken == [kind |-> "broken", off |-> {}]
Unreadable == [kind |-> "unreadable", off |-> {}]
NoStamp == [kind |-> "none", off |-> {}]
Contents == {Doc(off) : off \in SUBSET Item} \cup {Absent, Broken}
Readers == [stamp : Contents \cup {NoStamp}, off : SUBSET Item]

VARIABLES
  file,
  held,      \* TRUE while somebody else has the file open for himself
  replaced   \* TRUE while a process is inside ReplaceFileW

fileVars == <<file, held, replaced>>

\* What read_to_string can return now. While ReplaceFileW is at work the old
\* content, or nothing that can be opened.
Reads ==
  IF held THEN {Unreadable}
  ELSE {file} \cup IF ~replaced THEN {}
                   ELSE {Unreadable} \cup IF "absence" \in Racing THEN {Absent} ELSE {}

\* SettingsReader::refresh with what was read. A stamp that stayed means that
\* nothing is parsed; broken content moves the stamp and keeps the settings.
\* Mutant: what could not be read is stamped like the rest.
UnreadableStamped(reader, text) ==
  IF text = reader.stamp THEN reader
  ELSE IF text.kind \in {"broken", "unreadable"} THEN [reader EXCEPT !.stamp = text]
  ELSE [stamp |-> text, off |-> text.off]
Refreshed(reader, text) ==
  IF text.kind = "unreadable" \/ text = reader.stamp THEN reader
  ELSE IF text.kind = "broken" THEN [reader EXCEPT !.stamp = text]
  ELSE [stamp |-> text, off |-> text.off]

FileInit == file \in Contents /\ held = FALSE /\ replaced = FALSE

ReplacementBegins == ~held /\ ~replaced /\ replaced' = TRUE /\ UNCHANGED <<file, held>>

\* ERROR_UNABLE_TO_MOVE_REPLACEMENT: the old file is gone, the new one has not
\* got its name, and the guard deletes it.
Lost == IF "loss" \in Racing THEN {Absent} ELSE {}

\* A replacement leaves a whole document, or nothing of it.
ReplacementEnds ==
  /\ replaced /\ replaced' = FALSE
  /\ \E text \in {file} \cup {Doc(off) : off \in SUBSET Item} \cup Lost : file' = text
  /\ UNCHANGED held

\* By hand, without the mutex.
HandEdits ==
  /\ ~held /\ ~replaced
  /\ \E text \in Contents \ {file} : file' = text
  /\ UNCHANGED <<held, replaced>>

Hold == ~held /\ ~replaced /\ held' = TRUE /\ UNCHANGED <<file, replaced>>
LetGo == held /\ held' = FALSE /\ UNCHANGED <<file, replaced>>

FileNext == ReplacementBegins \/ ReplacementEnds \/ HandEdits \/ Hold \/ LetGo
FileSpec == FileInit /\ [][FileNext]_fileVars
=============================================================================
