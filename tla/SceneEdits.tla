------------------------------ MODULE SceneEdits ------------------------------
(***************************************************************************)
(* The requests on one scene, side by side: the effects of an object, the  *)
(* objects and layers, the settings and the selection, the listing, the    *)
(* value of an item. Each request stays within one of these five, and a    *)
(* behaviour is about one of them: `part' says which, and the others rest. *)
(***************************************************************************)
EXTENDS EffectColumn, ObjectTimeline, SceneSettings, Listing, ItemWrites

VARIABLE part

vars == <<part, columnVars, timelineVars, settingsVars, listVars, itemVars>>

ColumnAtRest ==
  /\ column = <<>> /\ seen = <<>> /\ before = <<>>
  /\ obliging = TRUE /\ userEdits = 0 /\ reply = NoReply

TimelineAtRest ==
  /\ objects = {CHOOSE o \in InitialObjects : TRUE} /\ former = objects
  /\ read = CHOOSE o \in objects : TRUE
  /\ layers = [l \in Layers |-> [name |-> "standard", enabled |-> TRUE, locked |-> FALSE]]
  /\ formerLayers = layers /\ editsMade = 0 /\ answer = NoAnswer

ListingAtRest == ListInit /\ held = <<>>

ItemAtRest ==
  /\ itemType = "data" /\ sections = 1 /\ item = Number(0) /\ writable = {}
  /\ given = NoValue /\ asked = NoValue /\ itemBefore = item /\ itemReply = "none"

Init ==
  \/ part = "column" /\ ColumnInit
     /\ TimelineAtRest /\ SettingsInit /\ ListingAtRest /\ ItemAtRest
  \/ part = "timeline" /\ TimelineInit
     /\ ColumnAtRest /\ SettingsInit /\ ListingAtRest /\ ItemAtRest
  \/ part = "settings" /\ SettingsInit
     /\ ColumnAtRest /\ TimelineAtRest /\ ListingAtRest /\ ItemAtRest
  \/ part = "listing" /\ ListInit
     /\ ColumnAtRest /\ TimelineAtRest /\ SettingsInit /\ ItemAtRest
  \/ part = "item" /\ ItemInit
     /\ ColumnAtRest /\ TimelineAtRest /\ SettingsInit /\ ListingAtRest

ColumnStep ==
  part = "column" /\ ColumnNext
  /\ UNCHANGED <<part, timelineVars, settingsVars, listVars, itemVars>>
TimelineStep ==
  part = "timeline" /\ TimelineNext
  /\ UNCHANGED <<part, columnVars, settingsVars, listVars, itemVars>>
SettingsStep ==
  part = "settings" /\ SettingsNext
  /\ UNCHANGED <<part, columnVars, timelineVars, listVars, itemVars>>
ListStep ==
  part = "listing" /\ ListNext
  /\ UNCHANGED <<part, columnVars, timelineVars, settingsVars, itemVars>>
ItemStep ==
  part = "item" /\ ItemNext
  /\ UNCHANGED <<part, columnVars, timelineVars, settingsVars, listVars>>

Next == ColumnStep \/ TimelineStep \/ SettingsStep \/ ListStep \/ ItemStep

Spec == Init /\ [][Next]_vars

-----------------------------------------------------------------------------
\* The types of the first four: among them that the middle points of an object lie
\* strictly inside it, whatever is created, moved or deleted.
TypeOK == ColumnTypeOK /\ TimelineTypeOK /\ SettingsTypeOK /\ ListTypeOK

\* What is new in the scene after a request that was answered as done is what
\* the answer names, wherever the host put it and whatever twins it has there:
\* the client makes its next selectors from it, and has no other way to learn
\* of an object or effect (added_effect_position, created_placements, reread).
AnswerNamesWhatIsThere == AddedIsNamed /\ CreatedAreNamed /\ MovedIsNamed

\* What an answer says that is left is left: "restored" means the whole of what
\* stood there; a failure without the mark of a change means that no setter of
\* the request acted, also when a later one or only the observation failed; the
\* settings that cannot be undone survive a name that was not taken; the lists
\* of a selection tell what was done (restore.rs, MutationPermit::attribute,
\* set_scene_settings, apply_selection).
AnswerAdmitsWhatIsLeft ==
  /\ RestoredIsAsBefore
  /\ UnmarkedChangedNoLayer
  /\ UnmarkedChangedNothing /\ NameFailureSparesTheRest
  /\ SelectionListsTell

\* A request changes what it was made for and nothing else: the effect that was
\* read, as it was read, and no other of the column; a move that went elsewhere
\* leaves nothing behind when the host carries out the move back; no object of
\* a layer the user locked; a section, and not the number of another.
OnlyWhatWasAsked ==
  /\ OnlyTheReadEffectChanged /\ DoneMoveKeepsEffects /\ MoveIsUndone
  /\ LockedLayersHold /\ SectionKeepsItsNumber

\* The value of an item is to the host what it is to the client: a write that
\* is done means what was asked, and takes no movement away unasked; what was
\* read can be sent back; and no line the plugin composed, or let through,
\* brings the editor down (track_value.rs, item_value.rs, text_codec.rs).
ItemsMeanWhatIsSaid == WrittenIsMeant /\ ReadsAsItIs
=============================================================================
