-------------------------------- MODULE Listing --------------------------------
(***************************************************************************)
(* Listing the objects of a scene page by page                             *)
(* (crates/plugin/src/read/adapter.rs list_objects, crates/core/src/page.rs)*)
(* against a project that changes between the pages and inside a request:  *)
(* the scene, its top layer and the epoch are read first, the revision and *)
(* the objects in the read section that follows.                           *)
(*                                                                         *)
(* A page is a read section, so one step; the host delivers the event of a *)
(* change in its window some time after the change. Project loads are one  *)
(* step here, EditRequest has the steps they consist of.                   *)
(***************************************************************************)
EXTENDS Naturals, Sequences, FiniteSets

CONSTANTS
  Timelines,       \* what a scene can hold: the <<layer, start>> of its objects,
                   \* in the order the section enumerates them
  PageLimit,
  MaxSceneChanges  \* bound: changes of what is shown, in all

ASSUME ListingAssumption ==
  /\ Timelines \subseteq Seq(Nat \X Nat) /\ <<>> \in Timelines
  /\ \A s \in Timelines : \A j, k \in DOMAIN s : j <= k => s[j][1] <= s[k][1]
  /\ PageLimit \in Nat \ {0} /\ MaxSceneChanges \in Nat

VARIABLES
  held,        \* the objects of the scene that is shown
  shown,       \* the scene that is shown
  epoch, revision,
  undelivered, \* events of changes in the window the plugin has yet to get
  info,        \* what the request under way read before its section
  got,         \* what the client has put together: the items, the epoch they
               \* carry, the snapshot revision and the next offset
  moment,      \* history: the objects of the scene at the last section
  slipped,     \* history: the shown scene, the top layer or the epoch changed
               \* between the two parts of a request, or an event was late
  changes      \* bound counter

listVars == <<held, shown, epoch, revision, undelivered, info, got, moment, slipped, changes>>

\* Values that stand for an absent one: no request, no page, no further page.
NoInfo == [scene |-> 0, top |-> 0, epoch |-> 0, revision |-> 0, asked |-> FALSE]
NoPage == [items |-> <<>>, epoch |-> 0, snapshot |-> 0, next |-> 0, state |-> "none"]

-----------------------------------------------------------------------------
\* The top layer that holds an object.
TopOccupied(objs) == IF objs = <<>> THEN 0 ELSE objs[Len(objs)][1]

\* The objects of the layers up to `top'.
Listed(objs, top) ==
  SubSeq(objs, 1, Cardinality({k \in DOMAIN objs : objs[k][1] <= top}))

\* take_window: the items from an offset on, and the offset of the next page,
\* 0 where there is none.
Window(items, offset) ==
  SubSeq(items, offset + 1, IF offset + PageLimit < Len(items) THEN offset + PageLimit
                                                              ELSE Len(items))
NextOffset(items, offset) ==
  IF offset + PageLimit < Len(items) THEN offset + PageLimit ELSE 0

\* take_page: a page that continues a listing must be of its revision. Mutant:
\* compared with what was current when the request came.
MatchesRequest(snapshot, at) == snapshot = at.revision
MatchesSnapshot(snapshot, at) == snapshot = revision

-----------------------------------------------------------------------------
ListInit ==
  /\ held \in Timelines /\ shown = 0
  /\ epoch = 0 /\ revision = 0 /\ undelivered = 0
  /\ info = NoInfo /\ got = NoPage /\ moment = <<>> /\ slipped = FALSE
  /\ changes = 0

Changes == changes < MaxSceneChanges /\ changes' = changes + 1
ClientUnchanged == UNCHANGED <<info, got, moment>>

\* A change that the request under way does not see, having read before it.
Slips == slipped' = (slipped \/ (info.asked
                         /\ (TopOccupied(held') # info.top \/ shown' # info.scene
                             \/ epoch' # info.epoch)))

\* The user adds, moves or deletes objects, or shows another scene.
WindowChanges ==
  /\ Changes
  /\ held' \in Timelines
  /\ shown' \in {0, 1} /\ <<held', shown'>> # <<held, shown>>
  /\ undelivered' = undelivered + 1
  /\ UNCHANGED <<epoch, revision>> /\ ClientUnchanged /\ Slips

\* on_object_updated, on_scene_changed
EventArrives ==
  /\ undelivered > 0
  /\ undelivered' = undelivered - 1 /\ revision' = revision + 1
  /\ UNCHANGED <<held, shown, epoch, slipped, changes>> /\ ClientUnchanged

\* on_edit_issued: an edit through the plugin advances the revision in its
\* section. The accept thread serves one request at a time.
EditIssued ==
  /\ Changes /\ ~info.asked
  /\ held' \in Timelines
  /\ revision' = revision + 1
  /\ UNCHANGED <<shown, epoch, undelivered, slipped>> /\ ClientUnchanged

\* on_project_load: another project, another epoch, revision 0.
ProjectLoads ==
  /\ Changes
  /\ held' \in Timelines /\ shown' = 0
  /\ epoch' = epoch + 1 /\ revision' = 0
  /\ UNCHANGED undelivered /\ ClientUnchanged /\ Slips

\* list_objects up to its section: the scene is compared with the one asked for.
ListObjects ==
  /\ ~info.asked /\ got.state \in {"none", "more"}
  /\ shown = 0
  /\ info' = [scene |-> shown, top |-> TopOccupied(held), epoch |-> epoch,
              asked |-> TRUE, revision |-> revision]
  /\ UNCHANGED <<held, shown, epoch, revision, undelivered, got, moment, slipped, changes>>

\* The client joins a page to those it has when it brings items of the same
\* epoch, as the page before it announced; otherwise it starts again.
Joins(page) ==
  IF got.state = "none" \/ (page.items # <<>> /\ page.epoch = got.epoch)
  THEN [page EXCEPT !.items = got.items \o page.items]
  ELSE [NoPage EXCEPT !.state = "again"]

\* The section: placements of every layer up to the top that was read before,
\* cut to the page.
ListSection ==
  /\ info.asked
  /\ info' = NoInfo
  /\ got.state = "more" => MatchesSnapshot(got.snapshot, info)
  /\ LET items == Listed(held, info.top)
         next == NextOffset(items, got.next)
     IN got' = Joins([items |-> Window(items, got.next), epoch |-> info.epoch,
                      snapshot |-> revision, next |-> next,
                      state |-> IF next = 0 THEN "all" ELSE "more"])
  /\ moment' = held
  /\ slipped' = (slipped \/ (got.state = "more" /\ undelivered > 0))
  /\ UNCHANGED <<held, shown, epoch, revision, undelivered, changes>>

\* SnapshotRevisionMismatch: the client starts again.
SnapshotMismatch ==
  /\ info.asked /\ got.state = "more" /\ ~MatchesSnapshot(got.snapshot, info)
  /\ info' = NoInfo
  /\ got' = [NoPage EXCEPT !.state = "again"]
  /\ UNCHANGED <<held, shown, epoch, revision, undelivered, moment, slipped, changes>>

\* Playback has begun, or the host fails a read: the client may ask again.
ListFails ==
  /\ info.asked
  /\ info' = NoInfo
  /\ UNCHANGED <<held, shown, epoch, revision, undelivered, got, moment, slipped, changes>>

ListNext ==
  \/ WindowChanges \/ EventArrives \/ EditIssued \/ ProjectLoads
  \/ ListObjects \/ ListSection \/ SnapshotMismatch \/ ListFails

ListSpec == ListInit /\ [][ListNext]_listVars

-----------------------------------------------------------------------------
ListTypeOK ==
  /\ {held, moment} \subseteq Timelines /\ shown \in {0, 1}
  /\ {epoch, revision, undelivered} \subseteq Nat
  /\ info \in [scene : {0, 1}, top : Nat, epoch : Nat, revision : Nat, asked : BOOLEAN]
  /\ got \in [items : Seq(Nat \X Nat), epoch : Nat, snapshot : Nat, next : Nat,
             state : {"none", "more", "all", "again"}]
  /\ slipped \in BOOLEAN /\ changes \in 0 .. MaxSceneChanges

\* The pages a client joins are those of one moment: what it has is the
\* beginning of what the scene held when the last page was cut, and all of it
\* at the end, whatever was changed, undone or loaded between the pages
\* (take_page).
PagesFitTogether ==
  ~slipped =>
    /\ got.state = "more" => got.items = SubSeq(moment, 1, got.next)
    /\ got.state = "all" => got.items = moment
=============================================================================
