---------------------------- MODULE ObjectTimeline ----------------------------
(***************************************************************************)
(* The requests on the objects of a scene and on its layers                *)
(* (crates/plugin/src/edit/adapter.rs with adapter/placement.rs and        *)
(* section.rs): create, move, delete, name, the middle points that divide  *)
(* an object into sections, and the state of a layer. Each is one edit     *)
(* section, so one step.                                                   *)
(*                                                                         *)
(* The host may put an object elsewhere, drop a change without a word,     *)
(* report failure, or fail a read. It does not look at the locks of the    *)
(* layers. The user edits between the client's read and its request.       *)
(***************************************************************************)
EXTENDS Naturals, Sequences, FiniteSets

CONSTANTS
  Layers,            \* a set of naturals, from 0 on
  Frames,            \* a set of naturals: where an object can start
  InitialObjects,    \* the objects the scene can hold at first
  Aliases,           \* what can be created: the places of one or two objects
                     \* relative to the place asked for, as <<layers, frames>>;
                     \* one that tells no place is <<0, 0>>
  ObjectNames,
  LayersAsked,       \* bound: the layers set_layer_state is asked about
  MaxTimelineEdits       \* bound: user edits between the read and the request

\* An object: its place, its length in frames, the offsets of its middle points
\* from its start, and its name.
IsObject(o) ==
  /\ o \in [layer : Layers, start : Nat, length : Nat \ {0}, points : SUBSET Nat,
            name : ObjectNames]
  /\ o.points \subseteq 1 .. o.length - 1

ASSUME TimelineAssumption ==
  /\ Layers \subseteq Nat /\ IsFiniteSet(Layers)
  /\ LayersAsked \subseteq Layers /\ Frames \subseteq Nat
  /\ "standard" \in ObjectNames
  /\ \A o \in InitialObjects : IsObject(o)
  /\ Aliases \subseteq Seq(Nat \X Nat) \ {<<>>}
  /\ MaxTimelineEdits \in Nat

VARIABLES
  objects,     \* what the scene holds
  layers,      \* LayerState of every layer
  read,        \* the object the client read: its selector is made from it
  former,      \* history: the objects the request met
  formerLayers,
  editsMade,   \* bound counter
  answer

timelineVars == <<objects, layers, read, former, formerLayers, editsMade, answer>>

Place(o) == <<o.layer, o.start>>
Covers(o, layer, frame) ==
  o.layer = layer /\ o.start <= frame /\ frame < o.start + o.length
Apart(o, q) == ~Covers(o, q.layer, q.start) /\ ~Covers(q, o.layer, o.start)

\* The host never puts one object over another.
HasRoom(o, objs) == \A q \in objs : Apart(o, q)
Scenes == {objs \in SUBSET InitialObjects : \A o \in objs : HasRoom(o, objs \ {o})}

LayerState == [name : ObjectNames, enabled : BOOLEAN, locked : BOOLEAN]

NoAnswer == [kind |-> "none", result |-> "none", about |-> {}, wanted |-> {}]

-----------------------------------------------------------------------------
(* What a request checks                                                   *)

\* resolve_object: by layer and start; the fingerprint is over the place, the
\* name and the alias of the object.
Resolved == read \in objects

\* ensure_layer_unlocked
Unlocked(layer) == ~layers[layer].locked

\* ensure_layers_unlocked, for a move. Mutant: the layer moved to is not asked.
SourceUnlocked(from, to) == Unlocked(from)
BothUnlocked(from, to) == Unlocked(from) /\ Unlocked(to)

\* ensure_destination_free: nobody but `but' covers the one frame asked for.
DestinationFree(layer, frame, but) == \A o \in objects \ but : ~Covers(o, layer, frame)

\* occupied_layer_max and creation_scan_range.
TopLayer(objs, floor) ==
  CHOOSE l \in Layers :
    /\ l \in {floor} \cup {o.layer : o \in objs}
    /\ \A k \in {floor} \cup {o.layer : o \in objs} : k <= l

\* The top layer of the scan after a creation: read again, since the creation
\* may have gone above the scan before it. Mutant: the top of the first scan.
FirstTop(was, now, floor) == TopLayer(was, floor)
GrownTop(was, now, floor) == TopLayer(now, TopLayer(was, floor))

\* created_placements: the places of the second scan that the first had not.
Created(was, now, floor) ==
  {Place(o) : o \in {q \in now : q.layer <= GrownTop(was, now, floor)}}
    \ {Place(o) : o \in was}

\* The starts of the sections, in order, as offsets: the object's own start and
\* its middle points.
Ascending(s) == \A j, k \in DOMAIN s : j < k => s[j] < s[k]
InOrder(S) == CHOOSE s \in [1 .. Cardinality(S) -> S] : Ascending(s)
SectionStarts(o) == InOrder({0} \cup o.points)

\* ensure_section_can_be_created, of an offset from the start. Mutant: the
\* start of the object is not taken for that of a section.
ForgetsTheStart(o, offset) == offset \in 0 .. o.length - 1 /\ offset \notin o.points
SectionCanBeCreated(o, offset) == offset \in 0 .. o.length - 1 /\ offset \notin {0} \cup o.points

\* ensure_section_exists; section 0 is rejected with the request.
SectionExists(o, section) == section \in 1 .. Cardinality(o.points)

\* ensure_section_move_stays_between_neighbours.
StaysBetweenNeighbours(o, section, offset) ==
  LET starts == SectionStarts(o) IN
  /\ starts[section] < offset
  /\ IF section + 2 <= Len(starts) THEN offset < starts[section + 2]
     ELSE offset <= o.length - 1

-----------------------------------------------------------------------------
TimelineInit ==
  /\ objects \in Scenes
  /\ layers \in [Layers -> {[name |-> "standard", enabled |-> TRUE, locked |-> b] : b \in BOOLEAN}]
  /\ read \in objects
  /\ former = objects /\ formerLayers = layers
  /\ editsMade = 0
  /\ answer = NoAnswer

Idle == answer = NoAnswer

\* What the user makes of an object: one in another place, of another name, or
\* with one more middle point.
Edited(o) ==
  {[o EXCEPT !.layer = place[1], !.start = place[2]] : place \in Layers \X Frames}
  \cup {[o EXCEPT !.name = n] : n \in ObjectNames}
  \cup {[o EXCEPT !.points = o.points \cup {p}] : p \in 1 .. o.length - 1}

\* The user moves, deletes, renames or divides an object, or locks a layer.
UserEditsTimeline ==
  /\ Idle /\ editsMade < MaxTimelineEdits
  /\ editsMade' = editsMade + 1
  /\ \/ /\ \E o \in objects :
             \/ objects' = objects \ {o}
             \/ \E q \in Edited(o) :
                  /\ HasRoom(q, objects \ {o})
                  /\ objects' = (objects \ {o}) \cup {q}
        /\ UNCHANGED layers
     \/ /\ \E l \in Layers, locked \in BOOLEAN : layers' = [layers EXCEPT ![l].locked = locked]
        /\ UNCHANGED objects
  /\ UNCHANGED <<read, former, formerLayers, answer>>

\* The request ends with the scene `objs'; `about' is what the answer names,
\* `wanted' the layer a creation was asked for.
Answers(objs, kind, result, about, wanted) ==
  /\ objects' = objs /\ former' = objects /\ formerLayers' = layers
  /\ answer' = [kind |-> kind, result |-> result, about |-> about, wanted |-> wanted]
  /\ UNCHANGED <<layers, read, editsMade>>

\* Any check fails, a read before the change fails, or the call never reached
\* the SDK (NotIssued).
TimelineRefused == Idle /\ Answers(objects, "any", "refused", {}, {})

\* The call reports failure, or what it changed cannot be read again: marked as
\* one that may have changed the scene.
MayHaveChanged(scenes, kind, wanted) ==
  \E objs \in scenes \cup {objects} : Answers(objs, kind, "failed", {}, wanted)

\* Where the host puts a new object asked for at `frame': there or later.
NewObjects(layer, frame) ==
  {[layer |-> layer, start |-> f, length |-> 1, points |-> {}, name |-> "standard"] :
     f \in {g \in Frames : frame <= g}}

\* relative_placements and requested_placements: the places asked for.
Requested(alias, layer, frame) ==
  [k \in DOMAIN alias |-> <<layer + alias[k][1], frame + alias[k][2]>>]

\* The scenes a creation may give: nothing, the first object, or both.
Fitting(place, objs) == {o \in NewObjects(place[1], place[2]) : HasRoom(o, objs)}
CreatedScenes(places) ==
  LET first == Fitting(places[1], objects)
      Further(o) == UNION {Fitting(places[k], objects \cup {o}) : k \in 2 .. Len(places)}
  IN {objects} \cup {objects \cup {o} : o \in first}
     \cup UNION {{objects \cup {o, q} : q \in Further(o)} : o \in first}

\* The lock is that of the layer asked for; the objects of an alias may go to
\* other layers. Mutant: no lock is asked.
CreatesAnywhere(layer) == TRUE
CreationUnlocked(layer) == Unlocked(layer)

CreateObject ==
  /\ Idle
  /\ \E alias \in Aliases, layer \in Layers, frame \in Frames :
       LET places == Requested(alias, layer, frame) IN
       /\ \A k \in DOMAIN places : places[k][1] \in Layers
       /\ CreationUnlocked(layer) /\ DestinationFree(places[1][1], places[1][2], {})
       /\ \/ MayHaveChanged(CreatedScenes(places), "create", {layer})
          \/ \E objs \in CreatedScenes(places) :
               LET created == Created(objects, objs, layer) IN
               Answers(objs, "create", IF created = {} THEN "failed" ELSE "done", created,
                       {layer})

\* The object put somewhere on a layer, or left where it was.
Displaced(layer) == {[read EXCEPT !.layer = layer, !.start = f] : f \in Frames}
MovedScenes(layer) ==
  LET others == objects \ {read}
  IN {objects} \cup {others \cup {o} : o \in {q \in Displaced(layer) : HasRoom(q, others)}}

\* The answer holds the place read again, not the one asked for.
PlaceReadAgain(objs, layer, frame) ==
  IF objs = objects THEN {Place(read)} ELSE {Place(o) : o \in objs \ objects}

MoveObject ==
  /\ Idle /\ Resolved
  /\ \E layer \in Layers, frame \in Frames :
       /\ BothUnlocked(read.layer, layer) /\ DestinationFree(layer, frame, {read})
       /\ \/ MayHaveChanged(MovedScenes(layer), "move", {})
          \/ \E objs \in MovedScenes(layer) :
               Answers(objs, "move", "done", PlaceReadAgain(objs, layer, frame), {})

\* Deleting has no result: the place is looked at again.
DeleteObject ==
  /\ Idle /\ Resolved /\ Unlocked(read.layer)
  /\ \/ MayHaveChanged({objects \ {read}}, "delete", {})
     \/ Answers(objects \ {read}, "delete", "done", {}, {})

\* set_object_name asks no lock; the name is read again.
SetObjectName ==
  /\ Idle /\ Resolved
  /\ \E name \in ObjectNames :
       LET renamed == (objects \ {read}) \cup {[read EXCEPT !.name = name]} IN
       \/ MayHaveChanged({renamed}, "name", {})
       \/ Answers(renamed, "name", "done", {Place(read)}, {})

\* change_sections: the lock first, then the check against the sections as they
\* are now, then the call, then both are read again: the answer lists them, and
\* is not compared with what was asked for. `about' holds the number of the
\* section and the offset.
ChangeSections(points, kind, about) ==
  LET divided == (objects \ {read}) \cup {[read EXCEPT !.points = points]} IN
  \/ MayHaveChanged({divided}, kind, {})
  \/ \E objs \in {divided, objects} : Answers(objs, kind, "done", about, {})

CreateObjectSection ==
  /\ Idle /\ Resolved /\ Unlocked(read.layer)
  /\ \E offset \in 0 .. read.length :
       /\ SectionCanBeCreated(read, offset)
       /\ ChangeSections(read.points \cup {offset}, "divide", {<<0, offset>>})

DeleteObjectSection ==
  /\ Idle /\ Resolved /\ Unlocked(read.layer)
  /\ \E section \in 1 .. read.length :
       /\ SectionExists(read, section)
       /\ ChangeSections(read.points \ {SectionStarts(read)[section + 1]},
                         "join", {<<section, 0>>})

\* The host keeps the middle points in order of their frames.
MoveObjectSection ==
  /\ Idle /\ Resolved /\ Unlocked(read.layer)
  /\ \E section \in 1 .. read.length, offset \in 0 .. read.length :
       /\ SectionExists(read, section) /\ StaysBetweenNeighbours(read, section, offset)
       /\ ChangeSections((read.points \ {SectionStarts(read)[section + 1]}) \cup {offset},
                         "shift", {<<section, offset>>})

-----------------------------------------------------------------------------
(* set_layer_state: up to three setters, in this order                     *)

Axes == <<"name", "enabled", "locked">>

\* A failure carries the mark as soon as one setter has been issued
\* (MutationPermit::attribute).
MarkOfFailure(asked, n) ==
  IF \E k \in 1 .. n - 1 : Axes[k] \in asked THEN "failed" ELSE "refused"

\* The layer after the first n setters, of which the host ignored some.
After(state, goal, done) == [x \in DOMAIN state |-> IF x \in done THEN goal[x] ELSE state[x]]

AnswersLayer(l, state, result, asked, goal) ==
  /\ layers' = [layers EXCEPT ![l] = state]
  /\ formerLayers' = layers /\ former' = objects
  /\ answer' = [kind |-> "layer", result |-> result, about |-> {<<l, x, goal[x]>> : x \in asked},
                wanted |-> {}]
  /\ UNCHANGED <<objects, read, editsMade>>

\* No lock is asked: a locked layer could not be unlocked again. What was asked
\* for is read again (layer_state_applied).
SetLayerState ==
  /\ Idle
  /\ \E l \in LayersAsked, asked \in SUBSET {"name", "enabled", "locked"}, goal \in LayerState :
       /\ \A x \in DOMAIN goal \ asked : goal[x] = layers[l][x]
       /\ \E heeded \in SUBSET asked :
         LET state == After(layers[l], goal, heeded) IN
         \* All are issued; the layer is read again, or cannot be.
         \/ AnswersLayer(l, state,
              IF \A x \in asked : state[x] = goal[x] THEN "done" ELSE "failed", asked, goal)
         \/ AnswersLayer(l, state, MarkOfFailure(asked, 4), asked, goal)
         \* The n-th reports failure, having acted or not.
         \/ \E n \in 1 .. 3 :
              /\ Axes[n] \in asked /\ heeded \subseteq {Axes[k] : k \in 1 .. n}
              /\ AnswersLayer(l, state, "failed", asked, goal)
         \* The n-th never reaches the SDK.
         \/ \E n \in 1 .. 3 :
              /\ Axes[n] \in asked /\ heeded \subseteq {Axes[k] : k \in 1 .. n - 1}
              /\ AnswersLayer(l, state, MarkOfFailure(asked, n), asked, goal)

TimelineNext ==
  \/ UserEditsTimeline \/ TimelineRefused \/ CreateObject \/ MoveObject \/ DeleteObject
  \/ SetObjectName \/ CreateObjectSection \/ DeleteObjectSection \/ MoveObjectSection
  \/ SetLayerState


-----------------------------------------------------------------------------
TimelineTypeOK ==
  /\ \A o \in objects \cup former \cup {read} : IsObject(o)
  /\ {layers, formerLayers} \subseteq [Layers -> LayerState]
  /\ editsMade \in 0 .. MaxTimelineEdits
  /\ answer.result \in {"none", "refused", "done", "failed"} /\ answer.wanted \subseteq Layers

DoneTimeline(kind) == answer.kind = kind /\ answer.result = "done"

\* Every object a creation brought into the scene is named in the answer, on
\* whatever layer the host put it, so that the client can move and delete all
\* of them; and what was there before is still there (created_placements).
CreatedAreNamed ==
  DoneTimeline("create") =>
    /\ answer.about = {Place(o) : o \in objects \ former}
    /\ former \subseteq objects

\* A move answered as done names the place the object has now, wherever the
\* host put it, and nothing else moved.
MovedIsNamed ==
  DoneTimeline("move") =>
    \E o \in objects :
      /\ answer.about = {Place(o)}
      /\ objects = (former \ {read}) \cup {o}
      /\ o.points = read.points /\ o.name = read.name

\* The user's locks hold although the host does not heed them: no request, done
\* or failed, moves, deletes or divides an object of a locked layer, moves one
\* onto it, or creates one on it that was asked for there; only with an alias that
\* holds other layers too does a creation reach them (ensure_layers_unlocked).
LockedLayersHold ==
  \A l \in Layers :
    answer.kind \notin {"none", "any"} /\ formerLayers[l].locked =>
      LET Shape(objs) == {[o EXCEPT !.name = "standard"] : o \in {q \in objs : q.layer = l}} IN
      /\ Shape(former) \subseteq Shape(objects)
      /\ Shape(objects) # Shape(former) => answer.kind = "create" /\ l \notin answer.wanted

\* A section that was moved keeps its number, starts where it was asked to, and
\* leaves the other sections their starts: what the client knows of the other
\* sections stays true (ensure_section_move_stays_between_neighbours).
SectionKeepsItsNumber ==
  DoneTimeline("shift") /\ objects # former =>
    \E o \in objects \ (former \ {read}), a \in answer.about :
      SectionStarts(o) = [SectionStarts(read) EXCEPT ![a[1] + 1] = a[2]]

\* A refusal without the mark means that no setter of the request acted, also
\* when it is the second or third that never reached the SDK.
UnmarkedChangedNoLayer == answer.result = "refused" => layers = formerLayers \/ answer.kind = "any"
=============================================================================
