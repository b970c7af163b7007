------------------------------ MODULE AgentPlugin ------------------------------
(***************************************************************************)
(* The marketplaces, manifests, skills and the copy of the server that the *)
(* plugin puts under its data directory when the user agrees               *)
(* (crates/plugin/src/agent_plugin.rs, agent_plugin/install.rs): brought   *)
(* into line with the settings when an AviUtl2 process starts and when its *)
(* dialog has saved.  Nothing keeps two processes apart.                   *)
(***************************************************************************)
EXTENDS Naturals, Sequences

CONSTANTS
  Host,      \* AviUtl2 processes
  Generated, \* the files in path order: [path |-> names, of |-> what it belongs to]
  Offers,    \* bound: sets of toggles that a user turns on
  MaxUpsets  \* bound: failures, crashes, changes by hand

Toggles == {"generate", "claude", "agent_plugins", "skill"}
Numbers == 1 .. Len(Generated)
Names == UNION {{Generated[i].path[k] : k \in 1 .. Len(Generated[i].path)} : i \in Numbers}

ASSUME AgentAssumption ==
  /\ MaxUpsets \in Nat /\ Offers \subseteq SUBSET Toggles
  /\ Generated \in Seq([path : Seq(Names), of : Toggles \cup {"executable"}])
  /\ \E exe \in Numbers : \A i \in Numbers : Generated[i].of = "executable" <=> i = exe

\* The README belongs to whatever is generated, like the copy of the server.
Exe == CHOOSE i \in Numbers : Generated[i].of = "executable"

VARIABLES
  offer,    \* the toggles that are on in the settings file
  tree,     \* per generated file: "none", "made" (as this version makes it), "other"
  dirs,     \* the directories that are there
  foreign,  \* those with a file of somebody else in them
  running,  \* a client has started the server from its copy
  doing,    \* per process, where its sync is
  using,    \* the toggles of its snapshot
  left,     \* the files its present phase still has to look at
  empty,    \* the directories it still has to prune, if they are empty
  clean,    \* history: one sync alone has run since the last upset or overlap
  upsets

agentVars == <<offer, tree, dirs, foreign, running, doing, using, left, empty, clean, upsets>>

-----------------------------------------------------------------------------
(* plan: what is written and what is removed.                              *)

Ancestors(path) == {SubSeq(path, 1, k) : k \in 1 .. Len(path) - 1}
DirectoriesOf(files) == UNION {Ancestors(Generated[i].path) : i \in files}

\* A skill without a manifest is found by nobody.
WrittenPaths(toggles) ==
  IF "generate" \in toggles /\ toggles \cap {"claude", "agent_plugins"} # {}
  THEN {i \in Numbers : Generated[i].of \in toggles \cup {"executable"}}
  ELSE {}
RemovedPaths(toggles) == Numbers \ WrittenPaths(toggles)
PrunedDirectories(toggles) ==
  DirectoriesOf(Numbers) \ DirectoriesOf(WrittenPaths(toggles))

\* Which directory is pruned first. Mutant: in the order of paths.
ParentFirst(d, rest) == \A e \in rest : Len(d) <= Len(e)
DeepestFirst(d, rest) == \A e \in rest : Len(e) <= Len(d)

IsEmpty(d) ==
  /\ d \notin foreign
  /\ ~\E e \in dirs : d # e /\ Len(e) = Len(d) + 1 /\ SubSeq(e, 1, Len(d)) = d
  /\ ~\E i \in Numbers : /\ tree[i] # "none" /\ Len(Generated[i].path) = Len(d) + 1
                         /\ SubSeq(Generated[i].path, 1, Len(d)) = d

-----------------------------------------------------------------------------
AgentInit ==
  /\ offer \in Offers
  /\ \/ tree = [i \in Numbers |-> "none"] /\ dirs = {}
     \/ tree = [i \in Numbers |-> "other"] /\ dirs = DirectoriesOf(Numbers)
  /\ foreign = {} /\ running = FALSE
  /\ doing = [h \in Host |-> "rest"] /\ using = [h \in Host |-> {}]
  /\ left = [h \in Host |-> {}] /\ empty = [h \in Host |-> {}]
  /\ clean = FALSE /\ upsets = 0

Moves(h, phase, files, directories) ==
  /\ doing' = [doing EXCEPT ![h] = phase]
  /\ left' = [left EXCEPT ![h] = files] /\ empty' = [empty EXCEPT ![h] = directories]
SyncEnds(h) == Moves(h, "rest", {}, {}) /\ using' = [using EXCEPT ![h] = {}]
Upset == upsets < MaxUpsets /\ upsets' = upsets + 1 /\ clean' = FALSE

\* sync_now: the snapshot is taken, and prune begins.
BeginsSync(h, toggles) ==
  /\ using' = [using EXCEPT ![h] = toggles]
  /\ Moves(h, "pruning", RemovedPaths(toggles), PrunedDirectories(toggles))

\* The end of register. Settings that cannot be read count as the defaults.
StartsUp(h) ==
  /\ doing[h] = "rest"
  /\ \/ BeginsSync(h, offer) /\ clean' = (\A g \in Host : doing[g] = "rest")
        /\ UNCHANGED upsets
     \/ BeginsSync(h, {}) /\ Upset
  /\ UNCHANGED <<offer, tree, dirs, foreign, running>>

\* The dialog saves and, if that worked, syncs (SettingsFile has the save).
SavesAndSyncs(h) ==
  /\ doing[h] = "rest"
  /\ \E toggles \in Offers : offer' = toggles /\ BeginsSync(h, toggles)
  /\ clean' = (\A g \in Host : doing[g] = "rest")
  /\ UNCHANGED <<tree, dirs, foreign, running, upsets>>

-----------------------------------------------------------------------------
(* prune: a removal that fails is logged, and the next one is tried.       *)

RemoveFile(h) ==
  /\ doing[h] = "pruning" /\ left[h] # {}
  /\ \E i \in left[h] :
       /\ \A j \in left[h] : i <= j
       /\ Moves(h, "pruning", left[h] \ {i}, empty[h])
       /\ \/ /\ ~(i = Exe /\ running)
             /\ tree' = [tree EXCEPT ![i] = "none"] /\ UNCHANGED <<clean, upsets>>
          \/ i = Exe /\ running /\ clean' = FALSE /\ UNCHANGED <<tree, upsets>>
          \/ tree[i] # "none" /\ Upset /\ UNCHANGED tree
  /\ UNCHANGED <<offer, dirs, foreign, running, using>>

\* Only an empty directory goes.
RemoveDirectory(h) ==
  /\ doing[h] = "pruning" /\ left[h] = {}
  /\ \E d \in empty[h] :
       /\ DeepestFirst(d, empty[h])
       /\ Moves(h, "pruning", {}, empty[h] \ {d})
       /\ \/ /\ dirs' = IF IsEmpty(d) THEN dirs \ {d} ELSE dirs
             /\ UNCHANGED <<clean, upsets>>
          \/ d \in dirs /\ Upset /\ UNCHANGED dirs
  /\ UNCHANGED <<offer, tree, foreign, running, using>>

-----------------------------------------------------------------------------
(* apply, after prune.                                                     *)

Pruned(h) == doing[h] = "pruning" /\ left[h] = {} /\ empty[h] = {}

NothingToWrite(h) ==
  /\ Pruned(h) /\ WrittenPaths(using[h]) = {}
  /\ SyncEnds(h)
  /\ UNCHANGED <<offer, tree, dirs, foreign, running, clean, upsets>>

\* Without a server beside the plugin no manifest is written.
SourceMissing(h) ==
  /\ Pruned(h) /\ WrittenPaths(using[h]) # {}
  /\ SyncEnds(h) /\ Upset
  /\ UNCHANGED <<offer, tree, dirs, foreign, running>>

SourceFound(h) ==
  /\ Pruned(h) /\ WrittenPaths(using[h]) # {}
  /\ Moves(h, "writing", WrittenPaths(using[h]) \ {Exe}, {})
  /\ UNCHANGED <<offer, tree, dirs, foreign, running, using, clean, upsets>>

\* Mutant: a file that is there is not written again.
IsThere(i) == tree[i] # "none"
IsUnchanged(i) == tree[i] = "made"

Replaces(i) ==
  IF IsUnchanged(i) THEN UNCHANGED <<tree, dirs>>
  ELSE tree' = [tree EXCEPT ![i] = "made"] /\ dirs' = dirs \cup Ancestors(Generated[i].path)
\* A replacement may fail half-way and leave none.
Fails(i) ==
  /\ ~IsUnchanged(i)
  /\ \E made \in SUBSET (Ancestors(Generated[i].path) \ dirs) :
       /\ \A d \in made : Ancestors(d) \subseteq dirs \cup made
       /\ dirs' = dirs \cup made
  /\ \/ UNCHANGED tree
     \/ ~(i = Exe /\ running) /\ tree' = [tree EXCEPT ![i] = "none"]

WriteIfChanged(h) ==
  /\ doing[h] = "writing" /\ left[h] # {}
  /\ \E i \in left[h] :
       /\ \A j \in left[h] : i <= j
       /\ \/ Replaces(i) /\ Moves(h, "writing", left[h] \ {i}, {})
             /\ UNCHANGED <<using, clean, upsets>>
          \/ Fails(i) /\ SyncEnds(h) /\ Upset
  /\ UNCHANGED <<offer, foreign, running>>

\* An executable that runs cannot be replaced; the failure is only logged.
CopyExecutable(h) ==
  /\ doing[h] = "writing" /\ left[h] = {}
  /\ SyncEnds(h)
  /\ \/ (~running \/ IsUnchanged(Exe)) /\ Replaces(Exe) /\ UNCHANGED <<clean, upsets>>
     \/ running /\ Fails(Exe) /\ clean' = FALSE /\ UNCHANGED upsets
     \/ Fails(Exe) /\ Upset
  /\ UNCHANGED <<offer, foreign, running>>

Sync(h) ==
  \/ RemoveFile(h) \/ RemoveDirectory(h) \/ NothingToWrite(h)
  \/ SourceMissing(h) \/ SourceFound(h) \/ WriteIfChanged(h) \/ CopyExecutable(h)

-----------------------------------------------------------------------------
(* Around it.                                                              *)

HostDies(h) ==
  /\ doing[h] # "rest" /\ SyncEnds(h) /\ Upset
  /\ UNCHANGED <<offer, tree, dirs, foreign, running>>

ClientRunsServer ==
  /\ ~running /\ tree[Exe] # "none" /\ running' = TRUE
  /\ UNCHANGED <<offer, tree, dirs, foreign, doing, using, left, empty, clean, upsets>>

ClientEnds ==
  /\ running /\ running' = FALSE
  /\ UNCHANGED <<offer, tree, dirs, foreign, doing, using, left, empty, clean, upsets>>

\* The user edits or removes a generated file, or puts one of his own there.
UserMeddles ==
  /\ Upset
  /\ \/ \E i \in Numbers :
          /\ tree[i] # "none" /\ ~(i = Exe /\ running)
          /\ \E t \in {"none", "other"} \ {tree[i]} : tree' = [tree EXCEPT ![i] = t]
          /\ UNCHANGED foreign
     \/ \E d \in dirs \ foreign : foreign' = foreign \cup {d} /\ UNCHANGED tree
  /\ UNCHANGED <<offer, dirs, running, doing, using, left, empty>>

\* By hand, in the settings file.
UserChangesOffer ==
  /\ Upset
  /\ \E toggles \in Offers \ {offer} : offer' = toggles
  /\ UNCHANGED <<tree, dirs, foreign, running, doing, using, left, empty>>

AgentNext ==
  \/ \E h \in Host : StartsUp(h) \/ SavesAndSyncs(h) \/ Sync(h) \/ HostDies(h)
  \/ ClientRunsServer \/ ClientEnds \/ UserMeddles \/ UserChangesOffer

AgentSpec == AgentInit /\ [][AgentNext]_agentVars
-----------------------------------------------------------------------------
AgentTypeOK ==
  /\ offer \in Offers /\ tree \in [Numbers -> {"none", "made", "other"}]
  /\ foreign \subseteq dirs /\ dirs \subseteq DirectoriesOf(Numbers)
  /\ running \in BOOLEAN /\ clean \in BOOLEAN /\ upsets \in 0 .. MaxUpsets
  /\ doing \in [Host -> {"rest", "pruning", "writing"}]
  /\ using \in [Host -> SUBSET Toggles] /\ left \in [Host -> SUBSET Numbers]
  /\ empty \in [Host -> SUBSET DirectoriesOf(Numbers)]

\* One sync that nothing disturbed leaves exactly what the settings ask for, over
\* whatever earlier ones left behind that failed half-way, died, met a running
\* server, overlapped, or were of another version, and whatever the user did to
\* the files in between: all that was agreed to, nothing that was taken back, no
\* empty directory, and the files of others (GenerationPlan, apply).
TreeRepaired ==
  clean /\ (\A h \in Host : doing[h] = "rest") =>
    /\ \A i \in Numbers : tree[i] = IF i \in WrittenPaths(offer) THEN "made" ELSE "none"
    /\ dirs = DirectoriesOf(WrittenPaths(offer))
              \cup UNION {Ancestors(d) \cup {d} : d \in foreign}
=============================================================================
