------------------------------ MODULE ItemWrites ------------------------------
(***************************************************************************)
(* What an item of an effect holds in the host, and the requests on it:    *)
(* reading it, set_object_item (crates/plugin/src/edit/adapter.rs with     *)
(* adapter/item_write.rs and restore.rs) and an object made from the text  *)
(* of an alias that has a row for it (crates/plugin/src/alias.rs).         *)
(*                                                                         *)
(* The host is not the plugin's: it takes a line apart by its own rules,   *)
(* corrects a value, does not take it, loses a movement, or goes down with *)
(* the whole editor over a line it cannot take apart. What it holds is     *)
(* kept here as what it means, and only the host turns it into a line.     *)
(***************************************************************************)
EXTENDS ItemSpelling

CONSTANTS
  HostItems,    \* what items hold at first: [type, sections, holds]
  Requests,     \* for a type of item, the values a client asks for
  AliasRows,    \* the lines for the item in the text of an alias
  HostModes,    \* the modes the host knows
  LostModes,    \* those of them it loses when they are written
  Facets,       \* the modes the embedded table says cannot be written
  DefaultParams,  \* the parameters of a mode when none are given
  TopValue,     \* the highest number an item takes
  Offered       \* the words the host takes

VARIABLES
  itemType, sections,  \* of the item and its object
  item,        \* what the item holds, as the host understands it
  writable,    \* the modes the plugin takes to be writable: `movements'
  given,       \* what the client read of the item
  asked,       \* the value of the last request
  itemBefore,  \* history: what the item kept before it
  itemReply    \* "none" before the first request

itemVars == <<itemType, sections, item, writable, given, asked, itemBefore, itemReply>>

NoValue == Unknown(<<>>)

-----------------------------------------------------------------------------
(* The host                                                                *)

Number(n) == [values |-> <<n>>, mode |-> None, flags |-> 0, rest |-> <<>>, text |-> <<>>]
Movement(values, mode, flags, rest) ==
  [values |-> values, mode |-> Some(mode), flags |-> flags, rest |-> rest, text |-> <<>>]
HeldText(text) == [Number(0) EXCEPT !.text = text]
Crash == [Number(0) EXCEPT !.values = <<>>]

NotEmpty(parts) ==
  FlattenSeq([k \in DOMAIN parts |-> IF parts[k] = <<>> THEN <<>> ELSE <<parts[k]>>])

\* A line without a comma is a number. Otherwise the last field of the first
\* section is the flags, the one before it the mode; what follows the first
\* bar is the expression, when the flags announce one, and the parameters.
HostReadsFields(fields, after) ==
  LET n == Len(fields)
  IN CASE n = 1 /\ after = <<>> /\ IsNumber(fields[1]) -> Number(NumberOf(fields[1]))
       [] n > 2 /\ fields[n - 1] \in HostModes /\ IsNumber(fields[n])
          /\ \A k \in 1 .. n - 2 : IsNumber(fields[k]) ->
            Movement(NumbersOf(SubSeq(fields, 1, n - 2)), fields[n - 1], NumberOf(fields[n]),
                   NotEmpty(after))
       [] OTHER -> Crash
HostReadsParts(bars) == HostReadsFields(Parts(Head(bars), ","), Tail(bars))
HostReads(line) == HostReadsParts(Parts(line, "|"))

\* What the host makes of what it read.
HostKeeps(kept) ==
  LET values == [k \in DOMAIN kept.values |->
                   IF kept.values[k] > TopValue THEN TopValue ELSE kept.values[k]]
  IN IF kept = Crash THEN Crash
     ELSE IF kept.mode # None /\ kept.mode[1] \notin LostModes
     THEN [kept EXCEPT !.values = values]
     ELSE Number(values[1])

\* Parameters of another number than the mode takes are replaced, but only later:
\* right after a set the line is given as it was taken, and what replaces it
\* shows when the object has been read again.
Announced(kept) == IF HasBit(kept.flags, 8) /\ kept.rest # <<>> THEN 1 ELSE 0
ExpressionOf(kept) == SubSeq(kept.rest, 1, Announced(kept))
ParamsOf(kept) == SubSeq(kept.rest, Announced(kept) + 1, Len(kept.rest))
Settled(kept) ==
  LET params == ParamsOf(kept)
      default == IF kept.mode = None THEN <<>> ELSE DefaultParams[kept.mode[1]]
      fits == Len(params) = 1 /\ Len(Parts(params[1], ",")) = Len(Parts(default, ","))
  IN IF default = <<>> \/ fits \/ (HasBit(kept.flags, 8) /\ kept.rest = <<>>) THEN kept
     ELSE [kept EXCEPT !.rest = ExpressionOf(kept) \o <<default>>]

\* A backslash escapes when an even number of them stand directly before it and
\* it has something to escape.
Backslashes(line) ==
  LET run[p \in 0 .. Len(line)] ==
        IF p = 0 THEN 0 ELSE IF line[p] = "\\" THEN run[p - 1] + 1 ELSE 0
  IN run
Odd(line, p) == Backslashes(line)[p - 1] % 2 = 1
HostUnescapes(line) ==
  FlattenSeq([p \in DOMAIN line |->
    CASE line[p] = "\\" /\ ~Odd(line, p) /\ p < Len(line) /\ line[p + 1] \in {"\\", "n"} -> <<>>
      [] line[p] = "n" /\ Odd(line, p) -> <<"LF">>
      [] OTHER -> <<line[p]>>])

\* What an item of the type holds once the host has taken the line.
HostTakes(type, line, kept) ==
  CASE type \in {"track", "range", "check"} ->
         HostKeeps(HostReads(line))
    [] type = "text" -> HeldText(HostUnescapes(line))
    [] type = "color" -> HeldText(IF Len(line) = 1 /\ line[1] \in Offered \cap DOMAIN Lowered
                                  THEN <<Lowered[line[1]]>> ELSE <<"black">>)
    [] OTHER -> IF line \in {<<w>> : w \in Offered} THEN HeldText(line) ELSE kept

\* The line the host gives for what an item holds. A movement with neither
\* expression nor parameters ends in a bar.
HostSpells(type, kept) ==
  CASE type = "text" -> Escaped(kept.text)
    [] type \in {"track", "range", "check"} ->
         IF kept.mode = None THEN <<Numeral[kept.values[1]]>>
         ELSE Joined(<<FirstSection(kept.values, kept.mode, kept.flags)>>
                     \o (IF kept.rest = <<>> THEN << <<>> >> ELSE kept.rest), "|")
    [] OTHER -> kept.text

\* Lines without a control character, and a list of numbers as parameters are.
Plain(line) == line \in Lines /\ ToSet(line) \cap Controls = {}
NumberList(line) == \A field \in ToSet(Parts(line, ",")) : IsNumber(field)

\* A movement as an item of numbers holds it. At first its parameters are numbers.
IsMovement(kept) ==
  /\ kept.values \in Seq(0 .. TopValue) \ {<<>>} /\ kept.flags \in Numbers
  /\ kept.mode \in {Some(m) : m \in HostModes}
  /\ kept.rest \in Seq(Lines)
  /\ \A k \in DOMAIN kept.rest : kept.rest[k] # <<>> /\ "|" \notin ToSet(kept.rest[k])
  /\ kept = Movement(kept.values, kept.mode[1], kept.flags, kept.rest)
HasReadableParams(kept) ==
  Len(ParamsOf(kept)) <= 1 /\ \A params \in ToSet(ParamsOf(kept)) : NumberList(params)
IsLowered(word) ==
  /\ word \in DOMAIN Lowered /\ Lowered[word] = word
  /\ word = "black" \/ word \in Offered

HeldAtFirst(type, kept) ==
  CASE type \in {"track", "range", "check"} /\ kept.mode = None ->
         kept \in {Number(n) : n \in 0 .. TopValue}
    [] type = "track" /\ kept.mode # None ->
         IsMovement(kept) /\ HasReadableParams(kept) /\ Settled(kept) = kept
    [] type = "text" ->
         kept = HeldText(kept.text) /\ kept.text \in Lines /\ "CR" \notin ToSet(kept.text)
    [] type = "color" -> \E word \in DOMAIN Lowered : kept = HeldText(<<word>>) /\ IsLowered(word)
    [] type \in {"word", "data"} -> kept = HeldText(kept.text) /\ Plain(kept.text)
    [] OTHER -> FALSE

\* A value as the types of the request allow it.
IsRequest(value) ==
  /\ value.text \in Lines
  /\ value.track.values \in Seq(Numbers) /\ value.track.params \in Seq(Numbers)
  /\ \A optional \in {value.track.mode, value.track.expression} :
       optional \in Seq(Lines) /\ Len(optional) <= 1
  /\ value.track.named \in 0 .. 7 /\ value.track.reserved \in Nat
  /\ FlagBits(value.track) \in Numbers
  /\ value.kind \in {"number", "bool"} => \E n \in Numbers : value.track = Static(n)
  /\ value.kind = "color" /\ Len(value.text) = 1 => value.text[1] \in DOMAIN Lowered

\* The host's modes have names that the grammar of a line leaves alone, and
\* parameters that are numbers; a word it takes it takes in small letters too.
ASSUME ItemAssumption ==
  /\ TopValue \in Numbers /\ LostModes \subseteq HostModes
  /\ \A mode \in HostModes :
       Plain(mode) /\ mode # <<>> /\ ToSet(mode) \cap {",", "|"} = {} /\ ~IsNumber(mode)
  /\ DefaultParams \in [HostModes -> Lines]
  /\ \A mode \in HostModes : DefaultParams[mode] # <<>> =>
       NumberList(DefaultParams[mode]) /\ "|" \notin ToSet(DefaultParams[mode])
  /\ Offered \subseteq Tokens \ Controls /\ IsLowered("black")
  /\ \A word \in Offered \cap DOMAIN Lowered : Lowered[word] \in Offered
  /\ \A row \in AliasRows : Plain(row)
  /\ \A start \in HostItems : start.type \in ItemTypes /\ HeldAtFirst(start.type, start.holds)
  /\ \A type \in ItemTypes : \A value \in Requests[type] : IsRequest(value)

-----------------------------------------------------------------------------
(* The plugin                                                              *)

\* resolve, read once: the file of the settings cannot be read, or it lists the
\* modes of the host. The table knows some of those that cannot be written.
ModesRead == {{}, HostModes \ Facets}

ItemInit ==
  /\ \E start \in HostItems :
       itemType = start.type /\ sections = start.sections /\ item = start.holds
  /\ writable \in ModesRead
  /\ given = NoValue /\ asked = NoValue /\ itemBefore = item /\ itemReply = "none"

\* host_item: the line, and the track info of an item that moves.
ReadItem ==
  /\ item # Crash
  /\ given' = ReadValue(itemType, HostSpells(itemType, item), item.mode # None)
  /\ asked' = NoValue /\ itemBefore' = item /\ itemReply' = "read"
  /\ UNCHANGED <<itemType, sections, item, writable>>

\* The item after the set of a line: taken, or the host does nothing.
AfterSet(line, kept) == {HostTakes(itemType, line, kept), kept}

\* prepare_item_write and ensure_movement_write_with_origin: what is refused
\* before the set, since nothing could bring a lost movement back.
Refuses(value, origin) ==
  \/ value.kind = "unknown"
  \/ ~CanEncode(itemType, value, sections, writable)
  \/ DropsMovement(itemType, value, origin)

\* restore_after_failed_verification: the line that was there is set again, when
\* it is not there, and read at once. Pairs of the item and the reply.
Restored(after, origin) ==
  IF HostSpells(itemType, after) = origin
  THEN {<<after, "restored">>}
  ELSE {<<Settled(last),
          IF HostSpells(itemType, last) = origin THEN "restored" ELSE "notRestored">> :
          last \in AfterSet(origin, after)}

\* verify_written_item: the object is read again, and then the value.
Verified(value, after, origin) ==
  IF Matches(itemType, value, HostSpells(itemType, after))
  THEN {<<after, "done">>}
  ELSE Restored(after, origin)

\* set_object_item, over the line that is there.
SetOver(value, origin) ==
  \/ Refuses(value, origin) /\ item' = item /\ itemReply' = "refused"
  \/ /\ ~Refuses(value, origin)
     /\ \E taken \in AfterSet(Encoded(value), item) :
          IF taken = Crash
          THEN item' = Crash /\ itemReply' = "crashed"
          ELSE \E outcome \in Verified(value, Settled(taken), origin) :
                 item' = outcome[1] /\ itemReply' = outcome[2]
SetItem(value) ==
  /\ item # Crash
  /\ asked' = value /\ itemBefore' = item
  /\ SetOver(value, HostSpells(itemType, item))
  /\ UNCHANGED <<itemType, sections, writable, given>>

WriteItem == itemReply = "none" /\ \E value \in Requests[itemType] : SetItem(value)

\* The client sends what it has read, after whatever request.
WriteBack == itemReply = "read" /\ SetItem(given)

\* admit_track_row: without a frame= row the number of the values is not known.
\* Any line that is not a movement passes.
AdmitsTrack(track, framed) ==
  CASE track.is = "notAMovement" -> TRUE
    [] track.is = "notRepresentable" -> FALSE
    [] OTHER -> TrackFits(track.value,
                          IF framed THEN sections ELSE Len(track.value.values) - 1, writable)

\* admit_rows, and create_object_from_alias: the host drops a row it cannot
\* take apart, without a word, and the new item is at its default.
CreateWithRow(line, framed) ==
  /\ asked' = Value("row", Static(0), line)
  /\ IF AdmitsTrack(DecodedTrack(line), framed) /\ (itemType = "text" => EscapesAreWhole(line))
     THEN /\ itemReply' = "created"
          /\ LET taken == HostTakes(itemType, line, HeldText(<<>>))
             IN item' = IF taken = Crash THEN Number(0) ELSE Settled(taken)
     ELSE item' = item /\ itemReply' = "refused"
  /\ UNCHANGED <<itemType, sections, writable, given, itemBefore>>

CreateFromAlias ==
  itemReply = "none" /\ \E line \in AliasRows : \E framed \in BOOLEAN : CreateWithRow(line, framed)

ItemNext == ReadItem \/ WriteItem \/ WriteBack \/ CreateFromAlias

-----------------------------------------------------------------------------
(* What a request promises                                                 *)

\* What the host is to hold after the value was written. Of the expression the
\* plugin only compares that there is one.
Means(value, kept) ==
  CASE value.kind \in {"number", "bool"} ->
         kept = Number(value.track.values[1])
    [] value.kind = "track" ->
         LET v == value.track
         IN /\ kept.values = v.values /\ kept.mode = v.mode /\ kept.flags = FlagBits(v)
            /\ ExpressionOf(kept) \in {v.expression, ExpressionOf(itemBefore)}
            /\ v.params # <<>> => ParamsOf(kept) = <<Joined(Spelled(v.params), ",")>>
    [] value.kind = "text" -> kept.text = WithoutCr(value.text)
    [] value.kind = "color" -> kept.text = <<Lowered[value.text[1]]>>
    [] OTHER -> kept.text = value.text

\* A movement that is answered as written has the expression that was asked for
\* (the doc of track_read_back_matches: the value written and the value read are
\* the same movement).
ExpressionIsWritten ==
  itemReply = "done" /\ asked.kind = "track" => ExpressionOf(item) = asked.track.expression

\* No line the plugin lets through brings the host down; a write that is
\* answered as done means to the host what was asked, and one that is answered
\* as restored left what was there; a movement goes only for a movement, or the
\* explicit wish for none (encode_track_value, write_drops_existing_movement,
\* track_read_back_matches).
WrittenIsMeant ==
  /\ itemReply # "crashed"
  /\ itemReply = "done" => Means(asked, item)
  /\ itemReply \in {"restored", "refused"} => item = itemBefore
  /\ itemBefore.mode # None /\ asked.kind = "number" => item = itemBefore

SaysTheSame(row, now) ==
  \/ row.is = "notAMovement"
  \/ /\ now.is = "value"
     /\ row.value.mode = now.value.mode \/ row.value.mode[1] \in LostModes

\* A value that was read and is sent back as it is changes nothing, and is
\* refused only for what the object or the host's modes say against it (unless
\* the host loses the mode whenever it is written); a row of an alias that was
\* let through is what it says: a text as it is spelled, a movement as one that
\* can be read again (decode_track_value, decode_host_text, admit_rows).
ReadsAsItIs ==
  /\ asked = given /\ given.kind # "unknown"
     /\ ToSet(given.track.mode) \cap LostModes = {} =>
       /\ item = itemBefore
       /\ itemReply = "refused" =>
            \/ Len(HostSpells(itemType, item)) > MaxTokens
            \/ given.kind = "track" /\ ~TrackFits(given.track, sections, writable)
  /\ itemReply = "created" /\ itemType = "text" => HostSpells(itemType, item) = asked.text
  /\ itemReply = "created" /\ itemType = "track" =>
       SaysTheSame(DecodedTrack(asked.text), DecodedTrack(HostSpells(itemType, item)))
=============================================================================
