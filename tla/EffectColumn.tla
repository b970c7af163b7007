----------------------------- MODULE EffectColumn -----------------------------
(***************************************************************************)
(* The requests on the column of effects of one object                     *)
(* (crates/plugin/src/edit/adapter.rs with adapter/effect_column.rs,       *)
(* restore.rs and item_write.rs): add, delete, enable, move, set an item.  *)
(* A request is one edit section and holds the host's main thread, so it   *)
(* is one step: resolve, mutate, read again, and put back what did not     *)
(* come out as asked.                                                      *)
(*                                                                         *)
(* The host is free: it drops a change without a word, puts an effect      *)
(* elsewhere, adjusts a value, loses an effect, or fails a call or a read. *)
(* The user edits the same column between the client's read and request.   *)
(***************************************************************************)
EXTENDS Naturals, Sequences, SequencesExt

CONSTANTS
  EffectNames,
  Settings,      \* what the one item of an effect can hold
  Moving,        \* those of them that hold a movement over time
  MaxEffects,    \* bound: effects in the column before the request
  MaxColumnEdits   \* bound: user edits between the read and the request

ASSUME ColumnAssumption ==
  /\ Moving \subseteq Settings
  /\ MaxEffects \in Nat /\ MaxColumnEdits \in Nat

VARIABLES
  column,     \* the effects of the object, in order
  seen,       \* the column the client read: its selectors are made from it
  before,     \* history: the column the request met
  obliging,   \* the host carries out what it is asked for, and every read
              \* succeeds; only the first move may land elsewhere
  userEdits,  \* bound counter
  reply       \* what the client was answered

columnVars == <<column, seen, before, obliging, userEdits, reply>>

\* HostEffect. `on' stands for the flags, enabled and locked.
Effects == [name : EffectNames, on : BOOLEAN, value : Settings]
Columns(n) == UNION {[1 .. k -> Effects] : k \in 0 .. n}

\* The answer: a refusal is a failure without the mark that a change may be in,
\* "failed" is one with it; `restore' is ItemRestore; `at' is the position of
\* the effect the answer describes.
NoReply == [kind |-> "none", at |-> 0, goal |-> 0, result |-> "none", restore |-> "notAttempted"]

-----------------------------------------------------------------------------
(* Selectors                                                               *)

\* renumber: the index of an effect among those of its name.
Index(c, p) == Cardinality({q \in 1 .. p - 1 : c[q].name = c[p].name})

\* The alias of the object holds the names and settings of its effects.
ObjectPrint(c) == [p \in DOMAIN c |-> <<c[p].name, c[p].value>>]

\* effect_fingerprint_inputs: the effect, its position and their number.
EffectPrint(c, p) == <<c[p], Index(c, p), p, Len(c)>>

\* resolve_effect: by name and index in the column as it is now; both
\* fingerprints must be those of the selector made for position p.
FindEffectPosition(c, name, index) ==
  {q \in DOMAIN c : c[q].name = name /\ Index(c, q) = index}
ResolvesTo(p, q) ==
  /\ ObjectPrint(column) = ObjectPrint(seen)
  /\ q \in FindEffectPosition(column, seen[p].name, Index(seen, p))
  /\ EffectPrint(column, q) = EffectPrint(seen, p)

-----------------------------------------------------------------------------
(* Columns before and after                                                *)

\* is_same_effect_column. Mutant: only the place the effect came from is looked at.
SameAtOnePlace(c, d, p) == Len(c) = Len(d) /\ (p \in DOMAIN c => c[p] = d[p])
SameColumn(c, d, p) == c = d

\* One effect taken out and put in at `to'.
Moved(c, from, to) == InsertAt(RemoveAt(c, from), to, c[from])

\* restore_target: the first position from which a move to `from' gives the
\* column as it was.
RestoreTarget(was, now, from) ==
  LET fits == {p \in DOMAIN now : Moved(now, p, from) = was}
  IN {p \in fits : \A q \in fits : p <= q}

EffectNamesOf(c) == [p \in DOMAIN c |-> c[p].name]

\* added_effect_position: where the names differ first, if taking one name out
\* there gives the names as they were.
AddedEffectPosition(was, now) ==
  {p \in DOMAIN now :
     /\ Len(now) = Len(was) + 1
     /\ RemoveAt(now, p) = was
     /\ \A q \in 1 .. p - 1 : now[q] = was[q]
     /\ p <= Len(was) => now[p] # was[p]}

\* The check of the length after a move.
LengthKept(was, now) == Len(was) = Len(now)

-----------------------------------------------------------------------------
(* What the host makes of a call. Only Columns that can be told apart from  *)
(* one another matter; a call that reports failure may have acted as well.  *)

Inserted(c, e) == {InsertAt(c, p, e) : p \in 1 .. Len(c) + 1}
NewEffects(name) == {e \in Effects : e.name = name /\ e.on}

\* Where an effect is added is the host's affair, but never right before one of
\* its own name: the names could not tell the two apart.
NotBeforeTwin(was, now, e) ==
  \E p \in DOMAIN now :
    now = InsertAt(was, p, e) /\ (p <= Len(was) => was[p].name # e.name)
HostAdds(name) ==
  UNION {LET once == {c \in Inserted(column, e) : NotBeforeTwin(column, c, e)}
         IN once \cup (IF obliging THEN {} ELSE {column, column \o <<e, e>>}) :
           e \in NewEffects(name)}

HostEnables(p, on) ==
  {[column EXCEPT ![p].on = on]} \cup (IF obliging THEN {} ELSE {column})

HostWrites(c, p, value) ==
  IF obliging THEN {[c EXCEPT ![p].value = value]}
  ELSE {[c EXCEPT ![p].value = v] : v \in Settings}

Elsewhere(c, p) == {Moved(c, p, q) : q \in DOMAIN c}
HostMoves(c, p, to) ==
  IF obliging THEN {Moved(c, p, to)}
  ELSE Elsewhere(c, p) \cup {RemoveAt(Moved(c, p, to), q) : q \in DOMAIN c \ {to}}

-----------------------------------------------------------------------------
ColumnInit ==
  /\ column \in Columns(MaxEffects)
  /\ seen = column /\ before = column
  /\ obliging \in BOOLEAN
  /\ userEdits = 0
  /\ reply = NoReply

\* The user changes the column in the host's window.
UserEdits ==
  /\ reply = NoReply /\ userEdits < MaxColumnEdits
  /\ userEdits' = userEdits + 1
  /\ \/ \E p \in DOMAIN column, e \in Effects : column' = [column EXCEPT ![p] = e]
     \/ \E p, q \in DOMAIN column : column' = Moved(column, p, q)
     \/ \E p \in DOMAIN column : column' = RemoveAt(column, p)
     \/ /\ Len(column) < MaxEffects
        /\ \E e \in Effects : column' \in Inserted(column, e)
  /\ UNCHANGED <<seen, before, obliging, reply>>

\* The request ends with the column `c'.
Ends(c, kind, at, goal, result, restore) ==
  /\ column' = c /\ before' = column
  /\ reply' = [kind |-> kind, at |-> at, goal |-> goal, result |-> result, restore |-> restore]
  /\ UNCHANGED <<seen, obliging, userEdits>>

\* Stale, out of range, not registered, not movable, a movement would be lost,
\* a read failed, or the call never reached the SDK (NotIssued).
ColumnRefused ==
  /\ reply = NoReply
  /\ Ends(column, "any", 0, 0, "refused", "notAttempted")

\* A request whose mutating call reports failure, or whose column cannot be
\* read again where nothing is put back.
Unread(columns, kind, at, goal) ==
  /\ ~obliging
  /\ \E c \in columns \cup {column} : Ends(c, kind, at, goal, "failed", "notAttempted")

AddEffect ==
  /\ reply = NoReply /\ ObjectPrint(column) = ObjectPrint(seen)
  /\ \E name \in EffectNames :
       \/ Unread(HostAdds(name), "add", 0, name)
       \/ \E c \in HostAdds(name) :
            LET added == AddedEffectPosition(EffectNamesOf(column), EffectNamesOf(c))
            IN \/ \E p \in added : Ends(c, "add", p, name, "done", "notAttempted")
               \/ added = {} /\ Ends(c, "add", 0, name, "failed", "notAttempted")

\* delete_effect answers with the object alone; the column is not compared.
DeleteEffect ==
  /\ reply = NoReply
  /\ \E p \in DOMAIN seen, q \in DOMAIN column :
       /\ ResolvesTo(p, q)
       /\ \/ Unread({RemoveAt(column, q)}, "delete", p, 0)
          \/ Ends(RemoveAt(column, q), "delete", p, 0, "done", "notAttempted")

SetEffectEnabled ==
  /\ reply = NoReply
  /\ \E p \in DOMAIN seen, q \in DOMAIN column, on \in BOOLEAN :
       /\ ResolvesTo(p, q)
       /\ \/ Unread(HostEnables(q, on), "enable", p, on)
          \/ \E c \in HostEnables(q, on) :
               Ends(c, "enable", p, on,
                    IF c[q].on = on THEN "done" ELSE "failed", "notAttempted")

-----------------------------------------------------------------------------
(* set_object_item                                                         *)

\* restore_item_value: write the origin again; only reading it back counts.
PutValueBack(c, q, p, value, origin) ==
  \E d \in HostWrites(c, q, origin) \cup (IF obliging THEN {} ELSE {c}) :
    \/ d[q].value = origin /\ Ends(d, "set", p, value, "failed", "restored")
    \/ (obliging => d[q].value # origin) /\ Ends(d, "set", p, value, "failed", "failed")

\* verify_written_item and restore_after_failed_verification: nothing is
\* written again when the host left the value alone.
Verify(c, q, p, value, origin) ==
  CASE c[q].value = value  -> Ends(c, "set", p, value, "done", "notAttempted")
    [] c[q].value = origin /\ value # origin -> Ends(c, "set", p, value, "failed", "restored")
    [] OTHER -> PutValueBack(c, q, p, value, origin)

SetObjectItem ==
  /\ reply = NoReply
  /\ \E p \in DOMAIN seen, q \in DOMAIN column, value \in Settings :
       LET origin == column[q].value IN
       /\ ResolvesTo(p, q)
       /\ origin \in Moving => value \in Moving  \* ensure_movement_write_with_origin
       /\ \/ Unread(HostWrites(column, q, value), "set", p, value)
          \/ \E c \in HostWrites(column, q, value) :
               \/ Verify(c, q, p, value, origin)
               \* The value cannot be read: it is written again.
               \/ ~obliging /\ PutValueBack(c, q, p, value, origin)

-----------------------------------------------------------------------------
(* move_effect                                                             *)

\* restore_moved_effect: find the effect to send back, and believe only the
\* whole column read again.
PutEffectBack(c, q, p, to) ==
  LET target == RestoreTarget(column, c, q) IN
  \/ target = {} /\ Ends(c, "move", p, to, "failed", "failed")
  \/ \E r \in target, d \in UNION {HostMoves(c, t, q) : t \in target} \cup {c} :
       /\ obliging => d = Moved(c, r, q)
       /\ \/ SameColumn(column, d, q) /\ Ends(d, "move", p, to, "failed", "restored")
          \/ /\ obliging => ~SameColumn(column, d, q)
             /\ Ends(d, "move", p, to, "failed", "failed")

\* The column after the first move, read again.
Arrived(c, q, to) == to \in DOMAIN c /\ c[to] = column[q]

MoveEffect ==
  /\ reply = NoReply
  /\ \E p \in DOMAIN seen, q \in DOMAIN column, to \in DOMAIN column :
       /\ ResolvesTo(p, q)
       /\ \/ Unread(HostMoves(column, q, to), "move", p, to)
          \/ \E c \in HostMoves(column, q, to) \cup Elsewhere(column, q) :
               CASE ~LengthKept(column, c) -> Ends(c, "move", p, to, "failed", "failed")
                 [] LengthKept(column, c) /\ Arrived(c, q, to) ->
                      Ends(c, "move", p, to, "done", "notAttempted")
                 [] LengthKept(column, c) /\ ~Arrived(c, q, to) ->
                      IF c = column THEN Ends(c, "move", p, to, "failed", "restored")
                      ELSE PutEffectBack(c, q, p, to)

ColumnNext ==
  \/ UserEdits \/ ColumnRefused \/ AddEffect \/ DeleteEffect \/ SetEffectEnabled
  \/ SetObjectItem \/ MoveEffect


-----------------------------------------------------------------------------
ColumnTypeOK ==
  /\ {column, seen, before} \subseteq Seq(Effects)
  /\ Len(column) <= MaxEffects + 2 /\ Len(before) <= MaxEffects
  /\ obliging \in BOOLEAN /\ userEdits \in 0 .. MaxColumnEdits
  /\ reply.kind \in {"none", "any", "add", "delete", "enable", "set", "move"}
  /\ reply.at \in 0 .. MaxEffects + 1
  /\ reply.result \in {"none", "refused", "done", "failed"}
  /\ reply.restore \in {"notAttempted", "restored", "failed"}

Done(kind) == reply.kind = kind /\ reply.result = "done"

\* The answer of an addition names the added effect, wherever the host put it:
\* the client's next selector is made from it (added_effect_position).
AddedIsNamed ==
  Done("add") =>
    /\ RemoveAt(column, reply.at) = before
    /\ column[reply.at].name = reply.goal

\* A change of one effect that is answered as done changed the effect the
\* client had read, as it had read it, and nothing else of the column.
OnlyTheReadEffectChanged ==
  LET p == reply.at IN
  /\ reply.kind \in {"delete", "enable", "set", "move"} => before[p] = seen[p]
  /\ Done("delete") => column = RemoveAt(before, p)
  /\ Done("enable") => column = [before EXCEPT ![p].on = reply.goal]
  /\ Done("set") => column = [before EXCEPT ![p].value = reply.goal]

\* A move answered as done has an effect as the moved one stands at the place
\* asked for, and no effect came or went.
DoneMoveKeepsEffects ==
  Done("move") =>
    /\ column[reply.goal] = before[reply.at]
    /\ \A e \in Effects :
         Cardinality({p \in DOMAIN column : column[p] = e})
           = Cardinality({p \in DOMAIN before : before[p] = e})

\* A failure that says restored left the whole column as it was: not merely
\* the effect that was moved, since those between have moved too (restore.rs).
RestoredIsAsBefore == reply.restore = "restored" => column = before

\* When the host only put the moved effect in another place and carries out the
\* move back, the column is as before, whatever twins it holds: the effect sent
\* back is one that makes it so (restore_target).
MoveIsUndone ==
  obliging /\ reply.kind = "move" /\ reply.result = "failed" => column = before
=============================================================================
