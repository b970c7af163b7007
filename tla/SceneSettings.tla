----------------------------- MODULE SceneSettings -----------------------------
(***************************************************************************)
(* The requests on what belongs to a whole scene                           *)
(* (crates/plugin/src/edit/adapter.rs and adapter/selection.rs): its name, *)
(* size and sample rate, its tempo grid, and the selection in its window.  *)
(* Such a request issues several setters in a fixed order inside one edit  *)
(* section. What the size, the rate and the selection have become can only *)
(* be observed after the section, so the user may come in between.         *)
(***************************************************************************)
EXTENDS Naturals, Sequences

CONSTANTS
  Values,            \* what a setting can be: numbers, from 0 on
  MaxSettingsEdits   \* bound: user edits while a request is under way

ASSUME SettingsAssumption == Values \subseteq Nat /\ 0 \in Values /\ MaxSettingsEdits \in Nat

SceneFields == {"name", "size", "rate"}
SelectionFields == {"cursor", "range", "display", "focus"}

VARIABLES
  content,     \* the settings of the scene and its grid. The grid stands for
               \* the number of its entries: only that is compared.
  selection,   \* the selection in the window
  waiting,     \* the request whose section has ended
  met, left,   \* history: what the section of the request found and left
  windowEdits, \* bound counter
  told         \* what the client was answered

settingsVars == <<content, selection, waiting, met, left, windowEdits, told>>

Contents == [SceneFields \cup {"grid"} -> Values]
Selections == [SelectionFields -> Values]
Both == [content |-> content, selection |-> selection]

\* A request: what it asks for and the setters that went well; after
\* SetSceneSettings, whether one was issued.
NoRequest == [kind |-> "none", goal |-> <<>>, well |-> {}, issued |-> FALSE]
NotTold == [result |-> "none", kind |-> "none", applied |-> {}, goal |-> <<>>]

-----------------------------------------------------------------------------
\* The order in which the setters of a scene are issued.
If(x, asked) == IF x \in asked THEN <<x>> ELSE <<>>
SceneOrder(asked) == If("name", asked) \o If("size", asked) \o If("rate", asked)

\* apply_selection's order.
SelectionOrder(asked) ==
  If("cursor", asked) \o If("range", asked) \o If("display", asked) \o If("focus", asked)

FirstOf(order, n) == {order[k] : k \in 1 .. n}

\* What the host may make of the setters of `fields': each has some value then.
Touched(state, fields) ==
  {[x \in DOMAIN state |-> IF x \in fields THEN f[x] ELSE state[x]] : f \in [fields -> Values]}

\* The setters that selection tries.
StopsAtFailure(order, well) ==
  FirstOf(order, CHOOSE n \in 1 .. Len(order) :
                   /\ FirstOf(order, n - 1) \subseteq well
                   /\ n = Len(order) \/ order[n] \notin well)

\* selection_applied: the display counts only where it is seen as asked for.
SelectionApplied(well, goal) ==
  {x \in well : x = "display" => selection["display"] = goal["display"]}

\* Whether an observation that fails is marked.
SomeIssued(asked) == asked # {}

-----------------------------------------------------------------------------
SettingsInit ==
  /\ content = [x \in SceneFields \cup {"grid"} |-> 0]
  /\ selection = [x \in SelectionFields |-> 0]
  /\ waiting = NoRequest
  /\ met = Both /\ left = Both
  /\ windowEdits = 0
  /\ told = NotTold

NoneUnderWay == waiting = NoRequest /\ told = NotTold

\* The user changes a setting of the scene or the selection in the window,
\* before the request or between its section and the observation.
UserEditsSettings ==
  /\ told = NotTold /\ windowEdits < MaxSettingsEdits
  /\ windowEdits' = windowEdits + 1
  /\ \/ \E x \in DOMAIN content, v \in Values :
          content' = [content EXCEPT ![x] = v] /\ UNCHANGED selection
     \/ \E x \in DOMAIN selection, v \in Values :
          selection' = [selection EXCEPT ![x] = v] /\ UNCHANGED content
  /\ UNCHANGED <<waiting, met, left, told>>

\* The section ends with the given state of the scene and the selection.
Section(c, s) ==
  /\ content' = c /\ selection' = s
  /\ met' = Both /\ left' = [content |-> c, selection |-> s]
  /\ UNCHANGED windowEdits

Tells(kind, result, applied, goal) ==
  told' = [kind |-> kind, result |-> result, applied |-> applied, goal |-> goal]

\* A failure inside the section is the answer.
FailsInSection(c, kind, result, goal) ==
  Section(c, selection) /\ Tells(kind, result, {}, goal) /\ UNCHANGED waiting

\* The boundary does not hold, or the focus cannot be resolved.
SettingsRefused == NoneUnderWay /\ FailsInSection(content, "any", "refused", <<>>)

\* The list replaces the one before; the call has no result, and the list read
\* again may be rounded and reordered.
SetGridBpm ==
  /\ NoneUnderWay
  /\ \E count, become \in Values :
       LET c == [content EXCEPT !["grid"] = become] IN
       \/ /\ Section(c, selection) /\ UNCHANGED waiting
          /\ Tells("grid", IF become = count THEN "done" ELSE "failed", {}, [grid |-> count])
       \/ FailsInSection(c, "grid", "failed", [grid |-> count])

\* set_scene_settings: the name is verified in the section before anything else
\* is issued; a failure carries the mark once a setter has been issued.
SetSceneSettings ==
  /\ NoneUnderWay
  /\ \E asked \in SUBSET SceneFields : \E goal \in [asked -> Values] :
       LET order == SceneOrder(asked)
           Verified(c, fields) == "name" \in fields => c["name"] = goal["name"]
       IN
       \/ \E c \in Touched(content, asked) :
            /\ Verified(c, asked)
            /\ Section(c, selection)
            /\ waiting' = [kind |-> "scene", goal |-> goal, well |-> asked,
                           issued |-> SomeIssued(asked)]
            /\ UNCHANGED told
       \* The name is not what was asked for.
       \/ \E n \in DOMAIN order : order[n] = "name" /\
            \E c \in Touched(content, FirstOf(order, n)) :
              ~Verified(c, {"name"}) /\ FailsInSection(c, "scene", "failed", goal)
       \* The n-th setter reports failure, having acted or not.
       \/ \E n \in DOMAIN order : \E c \in Touched(content, FirstOf(order, n)) :
            /\ Verified(c, FirstOf(order, n - 1))
            /\ FailsInSection(c, "scene", "failed", goal)
       \* It never reaches the SDK.
       \/ \E n \in DOMAIN order : \E c \in Touched(content, FirstOf(order, n - 1)) :
            /\ Verified(c, FirstOf(order, n - 1))
            /\ FailsInSection(c, "scene", IF n > 1 THEN "failed" ELSE "refused", goal)

\* set_selection: nothing is taken back, and a failure is told in the two lists
\* only. Showing the focus after the section may move the display.
SetSelection ==
  /\ NoneUnderWay
  /\ \E asked \in (SUBSET SelectionFields) \ {{}} :
     \E accepted \in SUBSET asked :
       LET order == SelectionOrder(asked)
           tried == StopsAtFailure(order, accepted)
           well == tried \cap accepted
       IN \E s \in Touched(selection, tried \cup (IF "focus" \in well THEN {"display"} ELSE {})) :
            /\ Section(content, s)
            /\ waiting' = [kind |-> "selection", goal |-> [x \in asked |-> 1], well |-> well,
                           issued |-> TRUE]
            /\ UNCHANGED told

\* observed_scene and observed_selection, after the section. A selection is no
\* change of the project, so its failure carries no mark.
ObservationFails ==
  /\ waiting # NoRequest
  /\ waiting' = NoRequest
  /\ Tells(waiting.kind,
           IF waiting.kind = "scene" /\ waiting.issued THEN "failed" ELSE "refused",
           {}, waiting.goal)
  /\ UNCHANGED <<content, selection, met, left, windowEdits>>

ObserveScene ==
  /\ waiting.kind = "scene"
  /\ waiting' = NoRequest
  /\ Tells("scene", "done", {}, waiting.goal)
  /\ UNCHANGED <<content, selection, met, left, windowEdits>>

ObserveSelection ==
  /\ waiting.kind = "selection"
  /\ waiting' = NoRequest
  /\ Tells("selection", "done", SelectionApplied(waiting.well, waiting.goal), waiting.goal)
  /\ UNCHANGED <<content, selection, met, left, windowEdits>>

SettingsNext ==
  \/ UserEditsSettings \/ SettingsRefused \/ SetGridBpm \/ SetSceneSettings \/ SetSelection
  \/ ObservationFails \/ ObserveScene \/ ObserveSelection


-----------------------------------------------------------------------------
SettingsTypeOK ==
  /\ content \in Contents /\ selection \in Selections
  /\ {met, left} \subseteq [content : Contents, selection : Selections]
  /\ waiting.kind \in {"none", "scene", "selection"} /\ waiting.issued \in BOOLEAN
  /\ waiting.well \subseteq DOMAIN waiting.goal
  /\ windowEdits \in 0 .. MaxSettingsEdits
  /\ told.result \in {"none", "refused", "done", "failed"}
  /\ told.applied \subseteq SelectionFields

\* The size and the rate cannot be undone: a request answered as failed because
\* the host did not take the name leaves them as they were.
NameFailureSparesTheRest ==
  /\ told.kind = "scene" /\ told.result = "failed"
  /\ "name" \in DOMAIN told.goal /\ left.content["name"] # told.goal["name"]
  => \A x \in {"size", "rate"} : left.content[x] = met.content[x]

\* An answer without the mark means that the request changed nothing of the
\* project, also when only the observation after the section failed.
UnmarkedChangedNothing ==
  told.result = "refused" /\ told.kind # "selection" => left.content = met.content

\* The two lists of a selection can be read back into what happened: after a
\* field that was not applied, none is, and none was touched by the request;
\* the display, which counts only as seen, is where it was asked to be.
SelectionListsTell ==
  told.kind = "selection" /\ told.result = "done" =>
    LET order == SelectionOrder(DOMAIN told.goal) IN
    /\ \A j, k \in DOMAIN order :
         /\ j < k /\ order[j] # "display" /\ order[j] \notin told.applied
         => order[k] \notin told.applied /\ left.selection[order[k]] = met.selection[order[k]]
    /\ "display" \in told.applied => selection["display"] = told.goal["display"]
=============================================================================
