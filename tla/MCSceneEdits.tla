------------------------------ MODULE MCSceneEdits ------------------------------
\* Values of the constants of SceneEdits for TLC.
EXTENDS SceneEdits

Object(layer, start, length, points) ==
  [layer |-> layer, start |-> start, length |-> length, points |-> points, name |-> "standard"]

\* Two objects of layer 0 that exclude each other, one behind both, one on
\* layer 1; layer 2 is free.
MCInitialObjects ==
  {Object(0, 0, 2, {}), Object(0, 0, 4, {1, 3}), Object(0, 3, 1, {}), Object(1, 1, 2, {1})}
MCLayers == 0 .. 2
MCFrames == 0 .. 3

\* One object where it was asked for; one a layer below; two, the second off
\* in both directions.
MCAliases == { << <<0, 0>> >>, << <<1, 0>> >>, << <<0, 0>>, <<2, 1>> >> }

Earlier(p, q) == p[1] < q[1] \/ (p[1] = q[1] /\ p[2] < q[2])

\* Up to three objects on two layers, as the section enumerates them.
MCTimelines ==
  {s \in UNION {[1 .. n -> {0, 1} \X {0, 1}] : n \in 0 .. 3} :
     \A j, k \in DOMAIN s : j < k => Earlier(s[j], s[k])}

\* Values of the constants of ItemWrites for TLC.
MCNumeral == [n \in 0 .. 31 |-> ToString(n)]
MCTokens ==
  {MCNumeral[n] : n \in 0 .. 31} \cup {",", "|", "\\", "n", "LF", "CR", "a", "ref", "one", "two",
    "none", "linear", "random", "turned", "drift", "other", "Red", "red", "black", "puce"}
Linear == <<"linear">>
Random == <<"random">>
Turned == <<"turned">>
Drift == <<"drift">>
MCHostModes == {Linear, Random, Turned, Drift}
MCLostModes == {Turned, Drift}
MCFacets == {Turned}
MCDefaultParams == [mode \in MCHostModes |-> IF mode = Random THEN <<"7">> ELSE <<>>]
MCLowered == [w \in {"Red", "red", "black", "puce"} |-> IF w = "Red" THEN "red" ELSE w]

Texts(tokens, n) == UNION {[1 .. k -> tokens] : k \in 0 .. n}

\* Whole movements, for one section and for two; one with a value for a section
\* the object has not; two that nobody can read; one with another expression than
\* is asked for.
Movements ==
  {Movement(<<1, 2>>, Linear, flags, <<>>) : flags \in {0, 5, 16}}
  \cup {Movement(<<1, 1, 2>>, Linear, 0, << <<"1", ",", "2">> >>),
        Movement(<<0, 1>>, Linear, 8, << <<"ref">> >>), Movement(<<2>>, Linear, 0, <<>>),
        Movement(<<0, 1>>, Linear, 8, <<>>),
        Movement(<<1, 2>>, Linear, 8, << <<"other">> >>)}
  \cup {Movement(<<0, 1>>, mode, 24, << <<"ref">>, <<"7">> >>) : mode \in MCHostModes}

Holding(type, kept) == {[type |-> type, sections |-> 1, holds |-> h] : h \in kept}
MCHostItems ==
  Holding("track", Movements \cup {Number(0), Number(2)})
  \cup {[start EXCEPT !.sections = 2] : start \in Holding("track", Movements)}
  \cup UNION {Holding(type, {Number(0), Number(1)}) : type \in {"range", "check"}}
  \cup Holding("word", {HeldText(<<"one">>)}) \cup Holding("data", {HeldText(<<"one">>)})
  \cup Holding("color", {HeldText(<<"red">>), HeldText(<<"black">>)})
  \cup Holding("text", {HeldText(t) : t \in Texts({"a", "\\", "n", "LF"}, 3)})

Track(values, mode, params, flags, expression) ==
  Value("track",
        [values |-> values, mode |-> mode, params |-> params, named |-> flags[1],
         reserved |-> flags[2], expression |-> expression], <<>>)

Tracks ==
  {Track(values, mode, params, flags, expression) :
     values \in {<<1>>, <<1, 2>>, <<1, 3>>, <<1, 2, 1>>},
     mode \in {<<>>} \cup {<<m>> : m \in {Linear, Random, Turned, Drift, <<"2">>}},
     params \in {<<>>, <<1, 2>>}, flags \in { <<0, 0>>, <<5, 16>>, <<0, 1>> },
     expression \in {<<>>, << <<"ref">> >>, << <<"a", "|", "1">> >>}}
  \cup {Track(<<1, 2>>, <<m>>, <<>>, <<0, 0>>, <<>>) :
          m \in {<<"other">>, <<>>, <<"linear", ",", "a">>, <<"LF">>}}
  \cup {Track(<<1, 2>>, <<Linear>>, <<>>, <<0, 0>>, << <<>> >>)}

\* One value of each kind, and more of those the type takes.
MCRequests ==
  [type \in ItemTypes |->
     {Track(<<1, 2>>, <<Linear>>, <<>>, <<0, 0>>, <<>>), Value("bool", Static(1), <<>>),
      Unknown(<<"one">>)}
     \cup {Value("number", Static(n), <<>>) : n \in 0 .. 3}
     \cup {Value(kind, Static(0), <<"black">>) : kind \in {"word", "color", "text"}}
     \cup CASE type = "track" -> Tracks
            [] type = "check" -> {Value("bool", Static(0), <<>>)}
            [] type = "text" -> {Value("text", Static(0), t) :
                                   t \in Texts({"a", "\\", "n", "LF", "CR"}, 3)}
            [] type = "word" -> {Value("word", Static(0), t) :
                                   t \in {<<"one">>, <<"two">>, <<"none">>, <<"LF">>}}
            [] type = "color" -> {Value("color", Static(0), <<w>>) : w \in {"Red", "puce"}}
            [] OTHER -> {}]

MCAliasRows ==
  {HostSpells("track", m) : m \in Movements}
  \cup {<<"1", ",", "other", ",", "0">>, <<"1", ",", "2", ",", "2", ",", "0">>,
        <<"1", ",", "linear">>, <<"a", ",", "n", ",", "0">>, <<"1">>}
  \cup Texts({"a", "\\", "n"}, 3)
=============================================================================
