---------------------------- MODULE MCArgParser ----------------------------
(* The programs, words, environments and files of the run of ArgParser.     *)
EXTENDS ArgParser

Json == [Import |-> {"json", "toml"}, Export |-> {"json", "yml"},
         names |-> (<<"Import", "json">> :> <<"in">>)]
NoFormats == [Import |-> {}, Export |-> {}, names |-> <<>>]

Prog(fields, commands, formats, unknown, cluster) ==
    [fields |-> fields, commands |-> commands, io |-> formats, unknown |-> unknown,
     cluster |-> cluster, version |-> TRUE]
Ref(form, up, path) == [form |-> form, up |-> up, path |-> path]
Sibling(name) == Ref("plain", 0, <<name>>)

Verbose == [Field EXCEPT !.name = "verbose", !.base = "bool", !.initial = <<FALSE>>, !.short = "v"]
Jobs  == [Field EXCEPT !.name = "jobs", !.base = "int", !.initial = <<0>>, !.short = "j",
                       !.default = <<Plain(<<"3">>)>>, !.range = <<-1, 5>>, !.env = "JOBS"]
List  == [Field EXCEPT !.name = "list", !.base = "int", !.shape = "vec", !.short = "l",
                       !.separator = TRUE, !.default = <<Plain(<<"3">>)>>]
Out   == [Field EXCEPT !.name = "out", !.base = "int", !.shape = "opt", !.implicit = <<Plain(<<"9">>)>>]
Input == [Field EXCEPT !.name = "input", !.positional = TRUE, !.required = TRUE, !.initial = <<Plain(<<>>)>>]
Rest  == [Field EXCEPT !.name = "rest", !.positional = TRUE, !.shape = "vec", !.required = TRUE,
                       !.initial = <<Plain(<<"9">>)>>]
Mode  == [Field EXCEPT !.name = "mode", !.shape = "opt", !.default = <<Plain(<<"low">>)>>]
Size  == [Field EXCEPT !.name = "size", !.base = "int", !.initial = <<1>>, !.default = <<Plain(<<"3">>)>>,
                       !.skippable = TRUE, !.required = TRUE]
Login == [Field EXCEPT !.prefix = <<"auth">>, !.name = "login", !.shape = "opt",
                       !.aliases = <<<<"user">>>>, !.requires = <<Sibling("token")>>]
Token == [Field EXCEPT !.prefix = <<"auth">>, !.name = "token", !.shape = "opt",
                       !.choices = {Plain(<<"1">>), Plain(<<"3">>)}]
Text  == [Field EXCEPT !.name = "text", !.base = "bool", !.initial = <<FALSE>>, !.short = "t",
                       !.conflicts = <<Ref("root", 0, <<"quiet">>)>>]
Quiet == [Field EXCEPT !.absolute = <<"quiet">>, !.prefix = <<"auth">>, !.name = "q", !.base = "bool",
                       !.initial = <<FALSE>>, !.shortAliases = <<"q">>]
Level == [Field EXCEPT !.name = "level", !.base = "enum", !.names = {"low"}, !.shape = "opt"]

\* "tool" and "rel" are structs of options, "set" has commands, the others
\* declare what the schema must refuse.
MCProgram(n) ==
    CASE n = "tool" -> Prog(<<Verbose, Jobs, List, Out, Input>>, <<>>, Json, FALSE, FALSE)
      [] n = "rel"  -> Prog(<<Login, Token, Text, Quiet, Level, Rest>>, <<>>, NoFormats, TRUE, TRUE)
      [] n = "set"  -> Prog(<<>>, <<[name |-> Plain(<<"build">>), fields |-> <<Jobs, Verbose, Mode, Size>>],
                                    [name |-> Plain(<<"clean">>), fields |-> <<>>]>>, Json, FALSE, FALSE)
      [] n = "lenient" -> Prog(<<>>, <<[name |-> Plain(<<"clean">>), fields |-> <<Rest, [Level EXCEPT !.required = TRUE]>>]>>, Json, TRUE, FALSE)
      [] n = "default" -> Prog(<<[Jobs EXCEPT !.default = <<Plain(<<"9">>)>>]>>, <<>>, Json, FALSE, FALSE)
      [] n = "twice"   -> Prog(<<Quiet, [Out EXCEPT !.shortAliases = <<"q">>]>>, <<>>, Json, FALSE, FALSE)
      [] n = "alias"   -> Prog(<<Quiet, [Out EXCEPT !.aliases = <<<<"quiet">>>>]>>, <<>>, Json, FALSE, FALSE)
      [] n = "taken"   -> Prog(<<[Out EXCEPT !.name = "in"]>>, <<>>, Json, FALSE, FALSE)
      [] n = "order"   -> Prog(<<Rest, Input>>, <<>>, Json, FALSE, FALSE)
      [] n = "itself"  -> Prog(<<[Out EXCEPT !.requires = <<Ref("long", 0, <<"out">>)>>]>>, <<>>, Json, FALSE, FALSE)
      [] n = "nobody"  -> Prog(<<[Login EXCEPT !.requires = <<Ref("plain", 1, <<"token">>)>>], Token>>,
                               <<>>, Json, FALSE, FALSE)

Number(c) == Plain(<<c>>)
MCWords(n) ==
    CASE n = "tool" -> {Short(<<"v">>), Long(<<"jobs">>), Short(<<"j", "3">>), Short(<<"1">>), Number("1"),
                        LongIs(<<"list">>, <<"1", ",", "3">>), Long(<<"out">>), LongIs(<<"in">>, <<"f">>),
                        Long(<<"Export", "json">>), End}
      [] n = "rel"  -> {Long(<<"user">>), LongIs(<<"auth", "token">>, <<"1">>), Short(<<"t">>), Short(<<"t", "q">>),
                        LongIs(<<"quiet">>, <<"0">>), Long(<<"level">>), Plain(<<"low">>), Long(<<"other">>), Number("3")}
      [] n \in {"set", "lenient"} ->
                       {Plain(<<"build">>), Plain(<<"clean">>), Long(<<"in">>), LongIs(<<"Import", "toml">>, <<"f">>),
                        Short(<<"j", "3">>), Long(<<"help">>), End, Plain(<<"f">>), NoCommand}
      [] OTHER -> {Short(<<"q">>), Long(<<"in">>), Short(<<"V">>)}
MCEnvironments(n) ==
    IF n \in {"tool", "set"} THEN {<<>>, ("JOBS" :> Number("1"))} ELSE {<<>>}
File(name, fields) == [ok |-> TRUE, command |-> name, fields |-> fields]
MCFiles(n) ==
    CASE n = "tool" -> {File(NoCommand, [verbose |-> <<TRUE>>, jobs |-> <<9>>, list |-> <<1>>, input |-> <<Number("1")>>]),
                        File(NoCommand, [jobs |-> <<9>>])}
      [] n = "set"  -> {File(Plain(<<"build">>), [jobs |-> <<1>>, verbose |-> <<TRUE>>]),
                        File(NoCommand, [jobs |-> <<1>>, verbose |-> <<FALSE>>])}
      [] n = "lenient" -> {File(Plain(<<"clean">>), [rest |-> <<Number("1")>>])}
      [] OTHER -> {}
=============================================================================
