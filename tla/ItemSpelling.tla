----------------------------- MODULE ItemSpelling -----------------------------
(***************************************************************************)
(* The one line of text in which the host hands over and takes the value   *)
(* of an item of an effect, and the values a client sees and sends         *)
(* (crates/core/src: item_value.rs, track_value.rs, text_codec.rs,         *)
(* validation.rs; the read of an item in crates/plugin/src/read/sdk.rs).   *)
(*                                                                         *)
(* A line is a sequence of tokens: a numeral, a word, or a character that  *)
(* the line's grammar or the escapes of a text give a meaning to. A number *)
(* is a natural: its digits after the point are the host's to choose, and  *)
(* both sides compare numbers.                                             *)
(***************************************************************************)
EXTENDS Naturals, Sequences, SequencesExt

CONSTANTS
  Tokens,     \* what lines are made of
  MaxTokens,  \* MAX_ITEM_VALUE_BYTES, in tokens
  MaxNumber,  \* the highest number that is spelled
  Numeral,    \* how a number is spelled: one token
  Lowered     \* the words of colours: a function to how the host writes them

Numbers == 0 .. MaxNumber
Numerals == {Numeral[n] : n \in Numbers}
Controls == {"LF", "CR"}
Lines == Seq(Tokens)

\* A numeral is of one number and no other token; what is lowered stays so.
ASSUME SpellingAssumption ==
  /\ MaxTokens \in Nat \ {0} /\ MaxNumber \in Nat \ {0}
  /\ {",", "|", "\\", "n"} \cup Controls \subseteq Tokens
  /\ Numeral \in [Numbers -> Tokens]
  /\ \A j, k \in Numbers : Numeral[j] = Numeral[k] => j = k
  /\ Numerals \cap (Controls \cup {",", "|", "\\", "n"}) = {}
  /\ Lowered \in [DOMAIN Lowered -> DOMAIN Lowered]
  /\ \A w \in DOMAIN Lowered :
       w \in Tokens \ Controls /\ Lowered[Lowered[w]] = Lowered[w]

\* An optional text or number is a sequence of at most one.
None == <<>>
Some(x) == <<x>>

\* str::split: every mark ends a part and begins one.
Grown(parts, token, mark) ==
  IF token = mark THEN Append(parts, <<>>)
  ELSE [parts EXCEPT ![Len(parts)] = Append(@, token)]
Parts(line, mark) ==
  LET upTo[n \in 0 .. Len(line)] ==
        IF n = 0 THEN << <<>> >> ELSE Grown(upTo[n - 1], line[n], mark)
  IN upTo[Len(line)]

Joined(parts, mark) == Tail(FlattenSeq([k \in DOMAIN parts |-> <<mark>> \o parts[k]]))

Spelled(numbers) == [k \in DOMAIN numbers |-> <<Numeral[numbers[k]]>>]

\* parse_finite, reads_as_number: a field that is one numeral.
IsNumber(field) == Len(field) = 1 /\ field[1] \in Numerals
NumberOf(field) == CHOOSE n \in Numbers : Numeral[n] = field[1]
NumbersOf(fields) == [k \in DOMAIN fields |-> NumberOf(fields[k])]

HasBit(n, bit) == (n \div bit) % 2 = 1

-----------------------------------------------------------------------------
(* Values                                                                  *)

\* TrackValue. `named' is the three booleans as one number below 8; bit 8 says
\* that there is an expression.
Static(n) ==
  [values |-> <<n>>, mode |-> None, params |-> <<>>, named |-> 0, reserved |-> 0,
   expression |-> None]

\* flag_bits.
FlagBits(v) == v.named + (IF v.expression = None THEN 0 ELSE 8) + v.reserved

\* ItemValue: a number, bool or track in `track', the other kinds in `text'.
Value(kind, track, text) == [kind |-> kind, track |-> track, text |-> text]
Unknown(line) == Value("unknown", Static(0), line)

\* EffectItemType, as far as they differ: integer and number are "track",
\* scene and range are "range", the types with a plain text are "word".
ItemTypes == {"track", "range", "check", "color", "word", "text", "data"}

\* is_writable and accepts: the kinds a type takes.
Accepts(type) ==
  CASE type = "track" -> {"number", "track"}
    [] type = "range" -> {"number"}
    [] type = "check" -> {"bool"}
    [] type = "data" -> {}
    [] OTHER -> {type}

-----------------------------------------------------------------------------
(* Validation                                                              *)

\* validate_item_text.
OneLine(text) == ToSet(text) \cap Controls = {} /\ Len(text) <= MaxTokens

\* validate_multiline_item_text: a CR is half of a CRLF.
ManyLines(text) ==
  \A p \in DOMAIN text : text[p] = "CR" => p < Len(text) /\ text[p + 1] = "LF"

\* validate_track_syntax.
TrackSyntax(v) ==
  IF v.mode = None
  THEN Len(v.values) = 1 /\ v.params = <<>> /\ FlagBits(v) = 0
  ELSE
    /\ \A bit \in {1, 2, 4, 8} : ~HasBit(v.reserved, bit)
    /\ \A text \in ToSet(v.expression) :
         OneLine(text) /\ text # <<>> /\ "|" \notin ToSet(text)
    /\ \A name \in ToSet(v.mode) :
         /\ OneLine(name) /\ name # <<>> /\ ToSet(name) \cap {",", "|"} = {}
         /\ ~IsNumber(name)
    /\ Len(v.values) >= 2

\* validate_track_value: the values are one more than the sections of the
\* object, and the mode is among those the plugin knows the host to take.
TrackFits(v, sections, writable) ==
  /\ TrackSyntax(v)
  /\ v.mode # None => Len(v.values) = sections + 1 /\ v.mode[1] \in writable

-----------------------------------------------------------------------------
(* Texts: text_codec.rs                                                    *)

\* encode_multiline_text: CRLF becomes LF.
WithoutCr(text) ==
  FlattenSeq([p \in DOMAIN text |-> IF text[p] = "CR" THEN <<>> ELSE <<text[p]>>])

\* encode_host_text.
Escaped(text) ==
  FlattenSeq([p \in DOMAIN text |->
    CASE text[p] = "\\" -> <<"\\", "\\">>
      [] text[p] = "LF" -> <<"\\", "n">>
      [] OTHER -> <<text[p]>>])

\* decode_host_text: what follows a backslash is read with it. A backslash that
\* escapes nothing stays.
ReadOn(sofar, token) ==
  IF sofar.open
  THEN [open |-> FALSE,
        text |-> sofar.text \o (CASE token = "\\" -> <<"\\">>
                                 [] token = "n" -> <<"LF">>
                                 [] OTHER -> <<"\\", token>>)]
  ELSE IF token = "\\" THEN [sofar EXCEPT !.open = TRUE]
  ELSE [sofar EXCEPT !.text = Append(@, token)]
Unescaped(line) ==
  LET upTo[n \in 0 .. Len(line)] ==
        IF n = 0 THEN [open |-> FALSE, text |-> <<>>] ELSE ReadOn(upTo[n - 1], line[n])
      last == upTo[Len(line)]
  IN IF last.open THEN Append(last.text, "\\") ELSE last.text

\* validate_alias_text_escapes: every backslash escapes. A line of an alias has
\* no LF of its own.
EscapesAreWhole(line) == Escaped(Unescaped(line)) = line

-----------------------------------------------------------------------------
(* Encoding and decoding                                                   *)

\* encode_track_value, after the validation.
FirstSection(values, mode, flags) ==
  Joined(Spelled(values) \o mode \o Spelled(<<flags>>), ",")
EncodedTrack(v) ==
  IF v.mode = None THEN Spelled(v.values)[1]
  ELSE Joined(<<FirstSection(v.values, v.mode, FlagBits(v))>> \o v.expression
              \o (IF v.params = <<>> THEN <<>> ELSE <<Joined(Spelled(v.params), ",")>>), "|")

\* encode_value.
Encoded(value) ==
  CASE value.kind \in {"number", "bool", "track"} -> EncodedTrack(value.track)
    [] value.kind = "text" -> Escaped(WithoutCr(value.text))
    [] OTHER -> value.text

\* encode_item_value: what can be encoded for an item of the type.
CanEncode(type, value, sections, writable) ==
  /\ value.kind \in Accepts(type)
  /\ CASE value.kind = "track" -> TrackFits(value.track, sections, writable)
       [] value.kind = "text" -> ManyLines(value.text)
       [] value.kind \in {"word", "color"} -> OneLine(value.text)
       [] OTHER -> TRUE
  /\ Len(Encoded(value)) <= MaxTokens

NotAMovement == [is |-> "notAMovement", value |-> Static(0)]
NotRepresentable == [is |-> "notRepresentable", value |-> Static(0)]
Readable(v) == [is |-> "value", value |-> v]

\* parse_params, of what follows the expression.
DecodedParams(v, rest) ==
  IF rest \in {<<>>, <<<<>>>>} THEN Readable(v)
  ELSE IF Len(rest) > 1 \/ \E f \in ToSet(Parts(rest[1], ",")) : ~IsNumber(f)
  THEN NotAMovement
  ELSE Readable([v EXCEPT !.params = NumbersOf(Parts(rest[1], ","))])

\* split_expression: bit 8 says that the next section is an expression.
DecodedMovement(values, mode, flags, after) ==
  LET referring == HasBit(flags, 8)
  IN IF referring /\ (after = <<>> \/ after[1] = <<>> \/ ToSet(after[1]) \cap Controls # {})
     THEN NotRepresentable
     ELSE IF \E f \in ToSet(values) : ~IsNumber(f)
     THEN NotAMovement
     ELSE IF Len(values) < 2
     THEN NotRepresentable
     ELSE DecodedParams(
            [values |-> NumbersOf(values), mode |-> Some(mode), params |-> <<>>,
             named |-> flags % 8, reserved |-> (flags \div 16) * 16,
             expression |-> IF referring THEN Some(after[1]) ELSE None],
            IF referring THEN Tail(after) ELSE after)

\* The mode and the flags are counted from the end of the first section.
DecodedFields(fields, after) ==
  LET n == Len(fields)
  IN IF n = 1 /\ after = <<>> /\ IsNumber(fields[1])
     THEN Readable(Static(NumberOf(fields[1])))
     ELSE IF n < 3 \/ ~IsNumber(fields[n]) \/ fields[n - 1] = <<>> \/ IsNumber(fields[n - 1])
             \/ ToSet(fields[n - 1]) \cap Controls # {}
     THEN NotAMovement
     ELSE DecodedMovement(SubSeq(fields, 1, n - 2), fields[n - 1], NumberOf(fields[n]), after)

\* decode_track_value.
DecodedSections(sections) == DecodedFields(Parts(Head(sections), ","), Tail(sections))
DecodedTrack(line) == DecodedSections(Parts(line, "|"))

\* movement_or_unknown. The host gives a track info for an item that moves.
MovementOrUnknown(track, line, moves) ==
  IF moves /\ track.is = "value" THEN Value("track", track.value, <<>>) ELSE Unknown(line)

\* item_value: what a client is told of an item whose line is this one.
ReadValue(type, line, moves) ==
  CASE type \in {"track", "range"} /\ IsNumber(line) ->
         Value("number", Static(NumberOf(line)), <<>>)
    [] type = "check" /\ line \in {<<Numeral[0]>>, <<Numeral[1]>>} ->
         Value("bool", Static(NumberOf(line)), <<>>)
    [] type = "track" /\ ~IsNumber(line) -> MovementOrUnknown(DecodedTrack(line), line, moves)
    [] type \in {"word", "color"} -> Value(type, Static(0), line)
    [] type = "text" -> Value("text", Static(0), Unescaped(line))
    [] OTHER -> Unknown(line)

\* write_drops_existing_movement: a line that is a movement nobody can read still
\* is one. Mutant: it counts as none.
ReadsAsMovement(track) == track.is = "value" /\ track.value.mode # None
HoldsMovement(track) == track.is = "notRepresentable" \/ ReadsAsMovement(track)
DropsReadableMovement(type, value, line) ==
  type = "track" /\ value.kind # "track" /\ ReadsAsMovement(DecodedTrack(line))
DropsMovement(type, value, line) ==
  type = "track" /\ value.kind # "track" /\ HoldsMovement(DecodedTrack(line))

\* track_read_back_matches: parameters nobody asked for are the host's choice.
SameMovement(asked, observed) ==
  /\ asked.is = "value" /\ observed.is = "value"
  /\ asked.value.values = observed.value.values /\ asked.value.mode = observed.value.mode
  /\ FlagBits(asked.value) = FlagBits(observed.value)
  /\ asked.value.params \in {<<>>, observed.value.params}

\* read_back_check and ReadBackComparison::matches.
MatchesLine(type, kind, line, observed) ==
  CASE kind = "track" -> SameMovement(DecodedTrack(line), DecodedTrack(observed))
    [] type = "color" /\ Len(line) = 1 /\ Len(observed) = 1 ->
         Lowered[line[1]] = Lowered[observed[1]]
    [] OTHER -> line = observed
Matches(type, value, observed) == MatchesLine(type, value.kind, Encoded(value), observed)
=============================================================================
