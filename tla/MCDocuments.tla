------------------------------ MODULE MCDocuments ------------------------------
\* The values, types and limits the documents are checked with. A name of one cell
\* keeps its letters on the wire, longer ones go as hashes; "clash" and "crash" share theirs.
EXTENDS Documents

Hashes == (<<99, 108, 97>> :> 7) @@ (<<99, 114, 97>> :> 7) @@ (<<108, 111, 110>> :> 70) @@ (<<115, 105, 100>> :> 3)
MCFieldId(name) == IF name \in DOMAIN Hashes THEN Hashes[name] ELSE 200000

A == <<97>>
B == <<98>>
C == <<99>>
Clash == <<99, 108, 97>>
Crash == <<99, 114, 97>>
Long == <<108, 111, 110>>
Side == <<115, 105, 100>>

Bool == [t |-> "Bool"]
U8 == [t |-> "Unsigned", bits |-> 8]
U16 == [t |-> "Unsigned", bits |-> 16]
I8 == [t |-> "Signed", bits |-> 8]
I16 == [t |-> "Signed", bits |-> 16]
F32 == [t |-> "Float", n |-> 4]
Text == [t |-> "Text"]
Color == [t |-> "Enum", names |-> (0 :> <<114>> @@ 1 :> <<103>>), of |-> U8]
Bits3 == [t |-> "Bits", n |-> 3]
Of(t, T) == [t |-> t, of |-> T]
PairOf(T, U) == [t |-> "Pair", first |-> T, second |-> U]
Keyed(t, K, T) == [t |-> t, key |-> K, of |-> T]
StructOf(fields) == [t |-> "Struct", fields |-> fields]
Plain(name, T) == FieldOf(name, T, NoTags)
Tagged(name, T, tags) == FieldOf(name, T, tags)

Ample == [text |-> 40, elements |-> 9, fields |-> 9, depth |-> 5, allocation |-> 200, input |-> 100]

Evolved(b, T, v, R, old, limits, ample) ==
  [backend |-> b, type |-> T, tags |-> NoTags, value |-> v, readType |-> R, readTags |-> NoTags, old |-> old,
   limits |-> limits, ample |-> ample]
Simple(b, T, v, old) == Evolved(b, T, v, T, old, Ample, TRUE)
TaggedRoot(b, T, tags, v, old) == [Simple(b, T, v, old) EXCEPT !.tags = tags, !.readTags = tags]
Tight(T, v, old, limits, ample) == Evolved("Binary", T, v, T, old, limits, ample)

\* A record with a field of most kinds, the versions of it before and after, and values of it.
Inner == StructOf(<<Plain(C, U8), Tagged(Side, Bool, {"ignore"})>>)
Record == StructOf(<<Plain(A, I8), Plain(Long, Text), Plain(B, Of("Optional", U8)), Tagged(Side, U16, {"fixed"}),
                     Tagged(<<102>>, Inner, {"flat"}), Tagged(<<104>>, U8, {"ignore"})>>)
RecordValue == <<-3, <<0, 255>>, << >>, 258, <<5, TRUE>>, 9>>
RecordOld == <<1, <<120>>, <<7>>, 1, <<1, FALSE>>, 4>>
Newer == StructOf(<<Plain(Long, Text), Plain(B, Of("Optional", U8)), Tagged(<<110>>, U8, {"skippable"}),
                    Tagged(<<112>>, Of("Optional", U8), {"skippable"}), Plain(<<111>>, Of("Variant", <<Nothing, U8>>)), Plain(A, I8)>>)
NewerOld == <<<< >>, <<1>>, 6, <<6>>, [index |-> 2, value |-> 3], 0>>
Strict == StructOf(<<Plain(A, I8), Plain(<<110>>, U8)>>)
Wrong == StructOf(<<Plain(Long, Text), Plain(A, U8)>>)
Mixed == StructOf(<<Plain(A, Of("Variant", <<Nothing, Text>>)), Plain(B, Color), Plain(C, Bits3),
                      Tagged(Long, Of("Variant", <<U8, Text>>), {"untagged", "fixed"})>>)
MixedValue == <<[index |-> 1, value |-> << >>], 1, <<1, 0, 1>>, [index |-> 1, value |-> 200]>>
MixedOld == <<[index |-> 2, value |-> <<65>>], 0, <<0, 0, 0>>, [index |-> 2, value |-> <<66>>]>>
Row == [t |-> "Positional", fields |-> <<Plain(<< >>, U8), Tagged(<< >>, Text, {"ignore"}), Plain(<< >>, Bool)>>]
Header == StructOf(<<Tagged(A, U16, {"fixed"}), Tagged(Long, I8, {"fixed"}), Tagged(B, Bool, {"fixed"}),
                     Tagged(C, Color, {"fixed"})>>)
TwoTexts == Of("List", Text)
Texts == <<<<104, 105>>, <<33>>>>
Nested == Of("List", Of("List", U8))

BinaryCases ==
  <<Simple("Binary", U8, 200, 1), Simple("Binary", U16, 300, 1), Simple("Binary", I8, -128, 1),
   Simple("Binary", I16, -200, 1), Simple("Binary", Bool, TRUE, FALSE), Simple("Binary", F32, <<64, 73, 15, 219>>, <<0, 0, 0, 0>>),
   Simple("Binary", Text, <<104, 105>>, <<120>>), Simple("Binary", TwoTexts, Texts, <<<<120>>>>),
   Simple("Binary", Of("Set", U8), {1, 2}, {9}), Simple("Binary", Of("Multiset", I8), <<1, 1, 2>>, << >>),
   Simple("Binary", [t |-> "Tuple", of |-> <<I8, Text, Of("Optional", Bool)>>], <<-1, <<65>>, <<TRUE>>>>, <<4, << >>, << >>>>),
   Simple("Binary", PairOf(Text, Of("Pointer", U8)), <<<<65>>, << >>>>, <<<< >>, <<3>>>>),
   Simple("Binary", Of("Map", U8), (A :> 1) @@ (B :> 2), (C :> 3)),
   Simple("Binary", Keyed("KeyMap", U8, Bool), (0 :> TRUE) @@ (1 :> FALSE), (5 :> TRUE)),
   Simple("Binary", Keyed("Multimap", U8, Bool), <<<<1, TRUE>>, <<1, FALSE>>>>, << >>),
   Simple("Binary", Of("Variant", <<I8, Text>>), [index |-> 2, value |-> <<65>>], [index |-> 1, value |-> 4]),
   Simple("Binary", Of("Atomic", I8), 5, 0), Simple("Binary", Of("Optional", U8), << >>, <<3>>),
   Simple("Binary", [t |-> "Named", name |-> A, of |-> U8], 5, 0), Simple("Binary", Row, <<1, <<65>>, TRUE>>, <<0, <<66>>, FALSE>>),
   Simple("Binary", ArrayType(U8, 2), <<1, 2>>, <<7, 8>>),
   Simple("Binary", Color, 1, 0), Simple("Binary", Color, 7, 0),
   Simple("Binary", Record, RecordValue, RecordOld), Simple("Binary", Mixed, MixedValue, MixedOld),
   Simple("Binary", StructOf(<<Plain(Clash, U8), Plain(Crash, U8)>>), <<1, 2>>, <<0, 0>>),
   Simple("Binary", StructOf(<<Tagged(A, U8, {"misfit"})>>), <<1>>, <<0>>),
   TaggedRoot("Binary", Header, {"raw"}, <<513, -2, TRUE, 1>>, <<0, 0, FALSE, 0>>),
   TaggedRoot("Binary", Record, {"raw"}, RecordValue, RecordOld),
   Evolved("Binary", Record, RecordValue, Newer, NewerOld, Ample, TRUE),
   Evolved("Binary", Record, RecordValue, Strict, <<0, 0>>, Ample, TRUE),
   Evolved("Binary", Record, RecordValue, Wrong, <<<< >>, 0>>, Ample, TRUE),
   Evolved("Binary", Record, RecordValue, Of("Map", U8), (C :> 3), Ample, TRUE),
   Tight(TwoTexts, Texts, <<<<120>>>>, [Ample EXCEPT !.allocation = 14], TRUE),
   Tight(TwoTexts, Texts, <<<<120>>>>, [Ample EXCEPT !.allocation = 13], FALSE),
   Tight(TwoTexts, Texts, <<<<120>>>>, [Ample EXCEPT !.input = 12, !.elements = 2, !.text = 2], TRUE),
   Tight(TwoTexts, Texts, <<<<120>>>>, [Ample EXCEPT !.input = 11], FALSE),
   Tight(TwoTexts, Texts, <<<<120>>>>, [Ample EXCEPT !.text = 1], FALSE),
   Tight(Nested, <<<<1>>, << >>>>, <<<<9>>>>, [Ample EXCEPT !.depth = 2], TRUE),
   Tight(Nested, <<<<1>>, << >>>>, <<<<9>>>>, [Ample EXCEPT !.depth = 1], FALSE),
   Tight(Of("Map", U8), (A :> 1) @@ (B :> 2), << >>, [Ample EXCEPT !.fields = 1], FALSE)>>

JsonCases ==
  <<Simple("Json", U8, 200, 1), Simple("Json", TwoTexts, Texts, <<<<120>>>>), Simple("Json", Of("Set", U8), {1, 2}, {9}),
   Simple("Json", Of("Multiset", I8), <<1, 1, 2>>, << >>),
   Simple("Json", Of("Map", U8), (A :> 1) @@ (B :> 2), (C :> 3)),
   Simple("Json", Keyed("KeyMap", U8, Bool), (0 :> TRUE) @@ (1 :> FALSE), (5 :> TRUE)),
   Simple("Json", [t |-> "Tuple", of |-> <<I8, Text>>], <<-1, <<65>>>>, <<4, << >>>>),
   Simple("Json", PairOf(Text, U8), <<<<65>>, 3>>, <<<< >>, 4>>),
   Simple("Json", Of("Variant", <<I8, Text>>), [index |-> 2, value |-> <<65>>], [index |-> 1, value |-> 4]),
   Simple("Json", Of("Optional", U8), << >>, <<3>>), Simple("Json", Nothing, << >>, << >>),
   Simple("Json", Row, <<1, <<65>>, TRUE>>, <<0, <<66>>, FALSE>>),
   Simple("Json", Record, RecordValue, RecordOld), Simple("Json", Mixed, MixedValue, MixedOld),
   Simple("Json", StructOf(<<Plain(A, Of("Pointer", U8)), Plain(B, Nothing)>>), <<<< >>, << >>>>, <<<<3>>, << >>>>),
   Simple("Json", StructOf(<<Plain(Clash, U8), Plain(Crash, U8)>>), <<1, 2>>, <<0, 0>>),
   Evolved("Json", Record, RecordValue, Newer, NewerOld, Ample, TRUE),
   Evolved("Json", Record, RecordValue, Strict, <<0, 0>>, Ample, TRUE),
   Evolved("Json", Record, RecordValue, Wrong, <<<< >>, 0>>, Ample, TRUE)>>

\* Values a TOML table and a YAML mapping hold, and values one of them has no form for.
Kinds == StructOf(<<Plain(A, Of("Map", U8)), Plain(B, Keyed("KeyMap", U8, Bool)), Plain(C, [t |-> "Tuple", of |-> <<I8, Text>>]),
                    Plain(Long, Of("Variant", <<I8, Text>>)), Tagged(Side, Of("Set", U8), {"collectionStyle"}),
                    Plain(<<102>>, F32), Tagged(<<103>>, Color, {"scalarStyle"})>>)
KindsValue == <<(A :> 1) @@ (B :> 20), (0 :> TRUE) @@ (1 :> FALSE), <<-12, <<49>>>>, [index |-> 2, value |-> <<65>>], {1, 2},
                <<64, 73, 15, 219>>, 1>>
KindsOld == <<<< >>, << >>, <<4, << >>>>, [index |-> 1, value |-> 4], {9}, <<0, 0, 0, 0>>, 0>>
Only(T) == StructOf(<<Plain(A, T)>>)
TextCases(b) ==
  <<Simple(b, Record, RecordValue, RecordOld), Simple(b, Kinds, KindsValue, KindsOld), Simple(b, TwoTexts, Texts, <<<<120>>>>),
    Simple(b, Of("Map", U8), (A :> 1) @@ (B :> 2), (C :> 3)),
    Simple(b, Only(Of("Pointer", U8)), <<<< >>>>, <<<<3>>>>), Simple(b, Only(U16), <<40000>>, <<0>>), Simple(b, Only(I16), <<-32768>>, <<0>>),
    Simple(b, Only(F32), <<<<127, 128, 0, 0>>>>, <<<<0, 0, 0, 0>>>>),
    Simple(b, StructOf(<<Tagged(A, U8, {"collectionStyle"})>>), <<1>>, <<0>>),
    Evolved(b, Record, RecordValue, Newer, NewerOld, Ample, TRUE), Evolved(b, Record, RecordValue, Strict, <<0, 0>>, Ample, TRUE),
    Evolved(b, Record, RecordValue, Wrong, <<<< >>, 0>>, Ample, TRUE),
    [Simple(b, Mixed, MixedValue, MixedOld) EXCEPT !.ample = b = "Toml"],
    [Simple(b, Only(Color), <<7>>, <<0>>) EXCEPT !.ample = b = "Toml"]>>
TwiceNamed == StructOf(<<Plain(A, U8), Tagged(<<102>>, Only(U8), {"flat"})>>)

MCCases == BinaryCases \o JsonCases \o TextCases("Toml") \o TextCases("Libfyaml") \o TextCases("YamlCpp")
           \o <<Simple("Libfyaml", TwiceNamed, <<1, <<2>>>>, <<0, <<0>>>>)>>
MCChangedBytes == {0, 1, 2, 9, 128, 255}
===============================================================================
