----------------------------- MODULE ArgParser -----------------------------
(***************************************************************************)
(* The argument parser (argparser/*.hpp): one call of parser<T>(argc,      *)
(* argv, config), for a struct of options or a set of commands, with the   *)
(* environment, one configuration file and the exports it writes.          *)
(*                                                                         *)
(* A program is [fields, commands, io, unknown, cluster, version]: either  *)
(* the fields of its options (commands = <<>>), or its commands, each      *)
(* [name, fields]; a command without fields is a placeholder.  A text is   *)
(* the word of argv it came from or a Plain one.  A field's value is the   *)
(* sequence of the values it holds.                                        *)
(***************************************************************************)
EXTENDS ArgSchema, TLC

CONSTANTS Names,        \* the programs called
          Program(_),   \* what the program of a name declares
          Words(_),     \* the words its argv is made of
          Environments(_), \* its environments, functions from names to texts
          Files(_),     \* what the file an import names may hold
          MaxWords,     \* bound: the length of argv, without argv[0]
          Available     \* the formats the build has a serializer for

ASSUME ProgramsHaveOptions ==
    \A n \in Names : Program(n).commands = <<>> \/ Program(n).fields = <<>>

IsSequence(s) == Len(s) \in Nat /\ s = [k \in 1..Len(s) |-> s[k]]

\* The fields a program declares for a command, or without one.
FieldsFor(p, name) ==
    IF p.commands = <<>> THEN {p.fields}
    ELSE {p.commands[k].fields : k \in {j \in DOMAIN p.commands : p.commands[j].name = name}}

Declarations(p) == {p.fields} \cup {p.commands[k].fields : k \in DOMAIN p.commands}

\* A separator belongs to a vector and a range is not the wrong way round: schema.hpp:357
\* and tags.hpp:152 assert it when a program is compiled.
\* A member that is no vector is made with the value it has, an optional with one or none.
ASSUME FieldsAreDeclared ==
    \A n \in Names : \A fields \in Declarations(Program(n)) :
        /\ IsSequence(fields)
        /\ \A k \in DOMAIN fields :
              /\ DOMAIN fields[k] = DOMAIN Field
              /\ fields[k].shape \in {"one", "opt", "vec"}
              /\ fields[k].separator => fields[k].shape = "vec"
              /\ fields[k].range # <<>> => fields[k].range[1] <= fields[k].range[2]
              /\ fields[k].shape = "one" => Len(fields[k].initial) = 1
              /\ fields[k].shape = "opt" => Len(fields[k].initial) <= 1
              /\ IsSequence(fields[k].default)
              /\ IsSequence(fields[k].aliases) /\ IsSequence(fields[k].shortAliases)

\* What a file holds for a field is of the field's type.
ASSUME FilesAreTyped ==
    \A n \in Names : \A f \in Files(n) : \A fields \in FieldsFor(Program(n), f.command) :
        \A k \in DOMAIN fields : fields[k].name \in DOMAIN f.fields =>
            /\ fields[k].shape = "one" => Len(f.fields[fields[k].name]) = 1
            /\ fields[k].shape = "opt" => Len(f.fields[fields[k].name]) <= 1

ASSUME WordsAreSequences ==
    \A n \in Names : \A w \in Words(n) : IsSequence(w.body)

\* How the parser reads a word: "--", --name[=value], -body[=value] or plain.
Word(kind, name, body, inline, value) ==
    [kind |-> kind, name |-> name, body |-> body, inline |-> inline, value |-> value]
Plain(chars)      == Word("plain", <<>>, <<>>, FALSE, chars)
End               == Word("end", <<>>, <<>>, FALSE, <<>>)
Long(name)        == Word("long", name, <<>>, FALSE, <<>>)
LongIs(name, v)   == Word("long", name, <<>>, TRUE, v)
Short(body)       == Word("short", <<>>, body, FALSE, <<>>)
NoCommand         == Plain(<<>>)

VARIABLES
    program, argv, env, file,
    stage,    \* "root": before the command of a command set; "options"
    pc,       \* the step of parse_options_into, try_parse_command or the root
    schema,
    at,       \* idx: the next word
    forced,   \* forcePositional
    cursor,   \* positional_index
    raw,      \* RawParseResult: the texts of each option
    rootIo, io, \* ConfigIoSelection of the root, and of the call
    command,  \* the name of the selected command
    object, supplied,
    outputs,  \* the files written: format, command and object
    error

inputs == <<program, argv, env, file>>
scanned == <<at, forced, cursor, raw>>
result == <<object, supplied>>
vars == <<inputs, stage, pc, schema, scanned, rootIo, io, command, result, outputs, error>>

Specs  == schema.specs
Users  == 1..schema.users
NoIo   == [import |-> <<>>, exports |-> <<>>]
NoFile == [ok |-> FALSE]

SchemaOf(fields) == Collect(fields, program.io, Available)
NothingRaw(s)    == [i \in DOMAIN s.specs |-> <<>>]

Init ==
    /\ \E n \in Names :
          /\ program = Program(n)
          /\ argv \in UNION {[1..k -> Words(n)] : k \in 0..MaxWords}
          /\ env \in Environments(n)
          /\ file \in Files(n) \cup {NoFile}
    /\ stage = IF program.commands = <<>> THEN "options" ELSE "root"
    /\ pc = "validate"
    /\ schema = SchemaOf(program.fields)
    /\ at = 1 /\ forced = FALSE /\ cursor = 1 /\ raw = NothingRaw(schema)
    /\ rootIo = NoIo /\ io = NoIo /\ command = NoCommand
    /\ object = <<>> /\ supplied = <<>> /\ outputs = <<>> /\ error = "none"

Fail(e) == pc' = "failed" /\ error' = e

-----------------------------------------------------------------------------
(* Reading the words of argv.  A reading is [raw, at, error].               *)

Reading(r, a, e) == [raw |-> r, at |-> a, error |-> e]

\* A bare number is no option, so an implicit value gives way to it.
Numerals == ("0" :> 0 @@ "1" :> 1 @@ "3" :> 3 @@ "9" :> 9)
IsNegativeNumber(w) ==
    w.kind = "short" /\ ~w.inline /\ w.body # <<>> /\ \A k \in DOMAIN w.body : w.body[k] \in DOMAIN Numerals
LooksLikeOption(w) == w.kind \in {"long", "end"} \/ (w.kind = "short" /\ ~IsNegativeNumber(w))

\* `next' is where reading goes on when the text is taken.
Record(r, i, text, next) ==
    IF ~Specs[i].repeatable /\ r[i] # <<>> THEN Reading(r, next, "InvalidValue")
    ELSE Reading([r EXCEPT ![i] = Append(@, text)], next, "none")

RecordOption(r, i, text, inline) ==
    LET spec == Specs[i]
        more == at < Len(argv)
    IN  IF spec.flag \/ inline THEN Record(r, i, text, at + 1)
        ELSE IF more /\ (spec.implicit = <<>> \/ ~LooksLikeOption(argv[at + 1]))
             THEN Record(r, i, argv[at + 1], at + 2)
        ELSE IF spec.implicit # <<>> THEN Record(r, i, spec.implicit[1], at + 1)
        ELSE Reading(r, at + 1, "MissingValue")

\* Mutant: an unknown option takes the next word with it.
UnknownWithValue(r) == Reading(r, at + 2, IF program.unknown THEN "none" ELSE "UnknownOption")

Unknown(r) == Reading(r, at + 1, IF program.unknown THEN "none" ELSE "UnknownOption")

ReadLong(w) ==
    LET i == FindLong(Specs, w.name)
    IN  IF i = 0 THEN Unknown(raw) ELSE RecordOption(raw, i, Plain(w.value), w.inline)

\* The k-th letter of a cluster: a flag, or the one option that ends it with its value.
ReadLetter(before, w, k) ==
    LET r == before.reading.raw
        i == FindShort(Specs, w.body[k])
        rest == SubSeq(w.body, k + 1, Len(w.body))
    IN  IF before.last \/ before.reading.error # "none" THEN before
        ELSE IF i = 0 THEN [reading |-> Unknown(r), last |-> FALSE]
        ELSE IF Specs[i].flag
             THEN [reading |-> Record(r, i, Plain(<<>>), at + 1), last |-> FALSE]
        ELSE [reading |-> IF rest # <<>> THEN Record(r, i, Plain(rest), at + 1)
                          ELSE RecordOption(r, i, Plain(<<>>), FALSE),
              last |-> TRUE]

ReadCluster(w) ==
    LET Upto[k \in 0..Len(w.body)] ==
            IF k = 0 THEN [reading |-> Reading(raw, at + 1, "none"), last |-> FALSE]
            ELSE ReadLetter(Upto[k - 1], w, k)
    IN  Upto[Len(w.body)].reading

\* Without clusters -nVALUE gives the option n its value.
ReadShort(w) ==
    LET whole == IF Len(w.body) = 1 THEN FindShort(Specs, w.body[1]) ELSE 0
        first == FindShort(Specs, w.body[1])
    IN  IF program.cluster /\ Len(w.body) > 1 /\ ~w.inline THEN ReadCluster(w)
        ELSE IF whole # 0 THEN RecordOption(raw, whole, Plain(w.value), w.inline)
        ELSE IF Len(w.body) > 1 /\ ~w.inline /\ first # 0
             THEN RecordOption(raw, first, Plain(Tail(w.body)), TRUE)
        ELSE Unknown(raw)

Positionals ==
    LET Upto[k \in 0..schema.users] ==
            IF k = 0 THEN <<>>
            ELSE IF Specs[k].positional THEN Append(Upto[k - 1], k) ELSE Upto[k - 1]
    IN  Upto[schema.users]

ReadPositional(w) ==
    IF cursor > Len(Positionals) THEN Reading(raw, at + 1, "UnexpectedPositional")
    ELSE Record(raw, Positionals[cursor], w, at + 1)

Declared(w) ==
    IF w.kind = "long" THEN FindLong(Specs, w.name) # 0
    ELSE w.kind = "short" /\ Len(w.body) = 1 /\ FindShort(Specs, w.body[1]) # 0

Spelled(w, long, short) == w = Long(<<long>>) \/ w = Short(<<short>>)

\* The built-in option a word asks for, unless the program declares it.
Asked(w) ==
    IF Declared(w) THEN "none"
    ELSE IF Spelled(w, "help", "h") THEN "HelpRequested"
    ELSE IF program.version /\ Spelled(w, "version", "V") THEN "VersionRequested"
    ELSE "none"

-----------------------------------------------------------------------------
(* The steps of a call.                                                     *)

Validate ==
    /\ pc = "validate"
    /\ IF Accepted(schema) THEN pc' = "scan" /\ UNCHANGED error ELSE Fail("InvalidDefinition")
    /\ UNCHANGED <<inputs, stage, schema, scanned, rootIo, io, command, result, outputs>>

Take(reading) ==
    /\ raw' = reading.raw /\ at' = reading.at
    /\ IF reading.error = "none" THEN UNCHANGED <<pc, error>> ELSE Fail(reading.error)

Scanning(s) == pc = "scan" /\ stage = s
KeepScan == UNCHANGED <<inputs, stage, schema, rootIo, io, command, result, outputs>>

ScanEnds ==
    /\ pc = "scan" /\ at > Len(argv)
    /\ pc' = "collect"
    /\ KeepScan /\ UNCHANGED <<scanned, error>>

ScanAsked ==
    /\ pc = "scan" /\ at <= Len(argv) /\ ~forced
    /\ Asked(argv[at]) # "none"
    /\ Fail(Asked(argv[at]))
    /\ KeepScan /\ UNCHANGED scanned

ScanEndOfOptions ==
    /\ Scanning("options") /\ at <= Len(argv) /\ ~forced
    /\ argv[at].kind = "end"
    /\ forced' = TRUE /\ at' = at + 1
    /\ KeepScan /\ UNCHANGED <<pc, raw, cursor, error>>

ScanOption ==
    /\ Scanning("options") /\ at <= Len(argv) /\ ~forced
    /\ Asked(argv[at]) = "none"
    /\ \/ argv[at].kind = "long" /\ Take(ReadLong(argv[at]))
       \/ argv[at].kind = "short" /\ Take(ReadShort(argv[at]))
    /\ KeepScan /\ UNCHANGED <<forced, cursor>>

ScanPositional ==
    /\ Scanning("options") /\ at <= Len(argv)
    /\ forced \/ argv[at].kind = "plain"
    /\ LET reading == ReadPositional(argv[at])
       IN  /\ Take(reading)
           /\ cursor' = IF reading.error = "none" /\ ~Specs[Positionals[cursor]].repeatable
                        THEN cursor + 1 ELSE cursor
    /\ KeepScan /\ UNCHANGED forced

\* Before the command only the options for configuration files are known.
ScanRootOption ==
    /\ Scanning("root") /\ at <= Len(argv)
    /\ Asked(argv[at]) = "none"
    /\ \/ argv[at].kind = "long" /\ Take(ReadLong(argv[at]))
       \/ argv[at].kind = "short" /\ Take(Unknown(raw))
    /\ KeepScan /\ UNCHANGED <<forced, cursor>>

\* The command is the first plain word, or any word after "--".
ScanCommand ==
    /\ Scanning("root") /\ at <= Len(argv)
    /\ LET skip == IF argv[at].kind = "end" THEN 1 ELSE 0
       IN  /\ argv[at].kind \in {"plain", "end"}
           /\ IF at + skip <= Len(argv)
              THEN command' = argv[at + skip] /\ at' = at + skip + 1
              ELSE UNCHANGED <<command, at>>
    /\ pc' = "collect"
    /\ UNCHANGED <<inputs, stage, schema, forced, cursor, raw, rootIo, io, result, outputs, error>>

\* The formats of the built-in options given, in the order of the schema.
Given(dir) ==
    LET Found[k \in 0..Len(Specs)] ==
            IF k = 0 THEN <<>>
            ELSE IF k > schema.users /\ raw[k] # <<>> /\ Specs[k].builtin[1] = dir
                 THEN Append(Found[k - 1], Specs[k].builtin[2])
            ELSE Found[k - 1]
    IN  Found[Len(Specs)]

\* collect_config_io_selection and, for a command, merge_config_io_selection.
Selected == [import |-> rootIo.import \o Given("Import"), exports |-> rootIo.exports \o Given("Export")]

CollectOptions ==
    /\ pc = "collect" /\ stage = "options"
    /\ io' = Selected
    /\ IF Len(Selected.import) > 1 THEN Fail("InvalidValue")
       ELSE pc' = "defaults" /\ UNCHANGED error
    /\ UNCHANGED <<inputs, stage, schema, scanned, rootIo, command, result, outputs>>

\* An imported file may name the command, then no word is left for it.
RootCommand ==
    IF command # NoCommand \/ Selected.import = <<>> \/ ~file.ok THEN command ELSE file.command

SelectorFails == command = NoCommand /\ Selected.import # <<>> /\ ~file.ok

FieldsOf(name) ==
    program.commands[CHOOSE k \in DOMAIN program.commands : program.commands[k].name = name].fields

CollectRoot ==
    /\ pc = "collect" /\ stage = "root"
    /\ rootIo' = Selected
    /\ command' = RootCommand
    /\ \/ /\ Len(Selected.import) > 1 \/ SelectorFails
          /\ Fail("InvalidValue") /\ UNCHANGED <<stage, schema, at, raw>>
       \/ /\ Len(Selected.import) <= 1 /\ RootCommand = NoCommand /\ ~SelectorFails
          /\ Fail("MissingRequired") /\ UNCHANGED <<stage, schema, at, raw>>
       \/ /\ Len(Selected.import) <= 1 /\ RootCommand # NoCommand
          /\ IF \E k \in DOMAIN program.commands : program.commands[k].name = RootCommand
             THEN /\ stage' = "options" /\ pc' = "validate" /\ UNCHANGED error
                  /\ schema' = SchemaOf(FieldsOf(RootCommand))
                  /\ raw' = NothingRaw(schema')
                  /\ at' = IF command = NoCommand THEN Len(argv) + 1 ELSE at
             ELSE Fail("UnknownCommand") /\ UNCHANGED <<stage, schema, at, raw>>
    /\ UNCHANGED <<inputs, forced, cursor, io, result, outputs>>

-----------------------------------------------------------------------------
(* From texts to values.                                                    *)

IsOneOf(text, words) == text.kind = "plain" /\ \E w \in words : text.value = <<w>>
IsNumber(text)  == IsOneOf(text, DOMAIN Numerals) \/ (IsNegativeNumber(text) /\ Len(text.body) = 1)
NumberOf(text)  == IF text.kind = "plain" THEN Numerals[text.value[1]] ELSE -Numerals[text.body[1]]

\* parse_scalar: <<>> when the text is no value of the type.
Scalar(spec, text) ==
    CASE spec.base = "bool" ->
            IF text = Plain(<<>>) \/ IsOneOf(text, {"1", "true"}) THEN <<TRUE>>
            ELSE IF IsOneOf(text, {"0", "false"}) THEN <<FALSE>> ELSE <<>>
      [] spec.base = "int"  -> IF IsNumber(text) THEN <<NumberOf(text)>> ELSE <<>>
      [] spec.base = "enum" -> IF IsOneOf(text, spec.names) \/ IsNumber(text) THEN <<text>> ELSE <<>>
      [] OTHER -> <<text>>

\* The parts of a text between separators.
Parts(spec, text) ==
    IF ~spec.separator \/ text.kind # "plain" THEN <<text>>
    ELSE LET Cut(parts, c) ==
                IF c = "," THEN Append(parts, <<>>)
                ELSE Append(Front(parts), Append(Last(parts), c))
             cut == FoldLeft(Cut, <<<<>>>>, text.value)
         IN  [k \in DOMAIN cut |-> Plain(cut[k])]

InRange(spec, v) == spec.range = <<>> \/ (spec.range[1] <= v /\ v < spec.range[2])
IsChoice(spec, v) == spec.choices = {} \/ v \in spec.choices
ValidField(spec, values) ==
    \A k \in DOMAIN values : InRange(spec, values[k]) /\ IsChoice(spec, values[k])

\* What one text makes of a field, <<>> when it cannot be parsed or is not valid.
Assign(spec, values, text) ==
    LET scalars == [k \in DOMAIN Parts(spec, text) |-> Scalar(spec, Parts(spec, text)[k])]
        now == IF spec.shape = "vec" THEN values \o FlattenSeq(scalars) ELSE scalars[1]
    IN  IF <<>> \in ToSet(scalars) \/ ~ValidField(spec, now) THEN <<>> ELSE <<now>>

\* assign_text_to_field for every text in turn.
AssignAll(spec, values, texts) ==
    LET Upto[k \in 0..Len(texts)] ==
            IF k = 0 THEN <<values>>
            ELSE IF Upto[k - 1] = <<>> THEN <<>> ELSE Assign(spec, Upto[k - 1][1], texts[k])
    IN  Upto[Len(texts)]

\* The fields and their presence as a step leaves them, or its error.
SetFields(fields, given, next) ==
    IF \E i \in Users : fields[i] = <<>>
    THEN Fail("InvalidValue") /\ UNCHANGED result
    ELSE /\ object' = [i \in Users |-> fields[i][1]] /\ supplied' = given
         /\ pc' = next /\ UNCHANGED error

Defaults ==
    /\ pc = "defaults"
    /\ SetFields([i \in Users |-> AssignAll(Specs[i], Specs[i].initial, Specs[i].default)],
                 [i \in Users |-> Specs[i].default # <<>>], "import")
    /\ UNCHANGED <<inputs, stage, schema, scanned, rootIo, io, command, outputs>>

InFile(i) == Specs[i].name \in DOMAIN file.fields

\* Every field that is neither optional nor skippable must be in the file.
Decodes ==
    /\ file.ok
    /\ \A i \in Users : Specs[i].shape = "opt" \/ Specs[i].skippable \/ InFile(i)

\* The file is read into a fresh object: a skippable field it lacks is as declared.
Imported(i) ==
    IF InFile(i) THEN file.fields[Specs[i].name]
    ELSE IF Specs[i].skippable THEN Specs[i].initial ELSE <<>>

\* The object read replaces the one made so far, presence included.
Import ==
    /\ pc = "import"
    /\ IF io.import = <<>> THEN pc' = "explicit" /\ UNCHANGED <<result, error>>
       ELSE IF Decodes /\ (program.commands # <<>> => file.command = command)
       THEN SetFields([i \in Users |-> <<Imported(i)>>],
                      [i \in Users |-> Specs[i].shape = "opt" => Imported(i) # <<>>], "explicit")
       ELSE Fail("InvalidValue") /\ UNCHANGED result
    /\ UNCHANGED <<inputs, stage, schema, scanned, rootIo, io, command, outputs>>

\* What the words, or else the environment, say of an option.
FromEnv(i) == IF Specs[i].env \in DOMAIN env THEN <<env[Specs[i].env]>> ELSE <<>>
Explicit(i) == IF raw[i] # <<>> THEN raw[i] ELSE FromEnv(i)

\* Mutant: the values of a vector are added to its default.
BaseKept(i) == object[i]

\* A vector that has its values from a default or a file starts again.
Base(i) ==
    IF Specs[i].shape = "vec" /\ supplied[i] /\ Explicit(i) # <<>> THEN <<>> ELSE object[i]

Materialize ==
    /\ pc = "explicit"
    /\ SetFields([i \in Users |-> AssignAll(Specs[i], Base(i), Explicit(i))],
                 [i \in Users |-> supplied[i] \/ Explicit(i) # <<>>], "check")
    /\ UNCHANGED <<inputs, stage, schema, scanned, rootIo, io, command, outputs>>

\* Mutant: only flags are in force.
ActiveFlag(i) == supplied[i] /\ Specs[i].base = "bool" /\ TRUE \in ToSet(object[i])

\* field_relationship_active
Active(i) ==
    supplied[i] /\ IF Specs[i].base = "bool" THEN TRUE \in ToSet(object[i]) ELSE object[i] # <<>>

Check ==
    /\ pc = "check"
    /\ LET missing == \E i \in Users : Specs[i].required /\ ~supplied[i]
           lacks(i) == \E t \in Targets(Specs, i, Specs[i].requires) : t \notin Users \/ ~Active(t)
           clashes(i) == \E t \in Targets(Specs, i, Specs[i].conflicts) : t \in Users /\ Active(t)
           broken == {i \in Users : Active(i) /\ (lacks(i) \/ clashes(i))}
       IN  IF missing THEN Fail("MissingRequired")
           ELSE IF broken # {}
           THEN Fail(IF lacks(Min(broken)) THEN "MissingRequired" ELSE "InvalidValue")
           ELSE pc' = "export" /\ UNCHANGED error
    /\ UNCHANGED <<inputs, stage, schema, scanned, rootIo, io, command, result, outputs>>

\* The files are written one after the other until one fails.  A file is emptied when it
\* is opened, and nobody looks at the flush: what a write leaves is whole or a part of it,
\* whether it was reported or not.
Written(k, contents) ==
    [format |-> io.exports[k], command |-> command, object |-> object, contents |-> contents]
ExportEnds(contents) ==
    LET n == Len(contents)
    IN  \/ n = Len(io.exports) /\ pc' = "done" /\ UNCHANGED error
        \/ n < Len(io.exports) /\ Fail("InvalidValue")
        \/ n > 0 /\ contents[n] = "part" /\ Fail("InvalidValue")
Export ==
    /\ pc = "export"
    /\ \E n \in 0..Len(io.exports) : \E contents \in [1..n -> {"whole", "part"}] :
          /\ outputs' = [k \in 1..n |-> Written(k, contents[k])]
          /\ ExportEnds(contents)
    /\ UNCHANGED <<inputs, stage, schema, scanned, rootIo, io, command, result>>

Finished == pc \in {"done", "failed"} /\ UNCHANGED vars

Scan ==
    \/ ScanEnds \/ ScanAsked \/ ScanEndOfOptions \/ ScanOption \/ ScanPositional
    \/ ScanRootOption \/ ScanCommand

Next ==
    \/ Validate \/ Scan \/ CollectRoot \/ CollectOptions
    \/ Defaults \/ Import \/ Materialize \/ Check \/ Export
    \/ Finished

Spec == Init /\ [][Next]_vars

-----------------------------------------------------------------------------
(* Properties.                                                              *)

Done == pc = "done"

\* Every part of a call has its shape: a scalar field holds one value, an
\* optional at most one, and the raw texts are as many as the options.
TypeOK ==
    /\ pc \in {"validate", "scan", "collect", "defaults", "import", "explicit", "check",
               "export", "done", "failed"}
    /\ stage \in {"root", "options"}
    /\ at \in 1..(Len(argv) + 1) /\ forced \in BOOLEAN /\ cursor \in 1..(Len(Positionals) + 1)
    /\ DOMAIN raw = DOMAIN Specs
    /\ pc \in {"export", "done"} =>
         /\ DOMAIN object = Users /\ supplied \in [Users -> BOOLEAN]
         /\ \A i \in Users : Specs[i].shape # "vec" =>
                Len(object[i]) <= 1 /\ (Specs[i].shape = "one" => Len(object[i]) = 1)
    /\ error = "none" <=> pc # "failed"

\* What the texts of one source make of a field that starts as `base'; of a field
\* that is no vector they leave the last, read on its own.
Holds(i, base, texts) ==
    object[i] = IF Specs[i].shape = "vec" THEN AssignAll(Specs[i], base, texts)[1]
                ELSE Assign(Specs[i], <<>>, Last(texts))[1]

\* The order of the documentation: argv before the environment, the imported file,
\* the default and the value the struct is made with.
FromFirstSource(i) ==
    IF raw[i] # <<>> THEN Holds(i, <<>>, raw[i])
    ELSE IF Specs[i].env \in DOMAIN env THEN Holds(i, <<>>, <<env[Specs[i].env]>>)
    ELSE IF io.import # <<>> /\ InFile(i) THEN object[i] = Imported(i)
    ELSE IF Specs[i].default # <<>> THEN Holds(i, <<>>, Specs[i].default)
    ELSE object[i] = Specs[i].initial

\* First way the code leaves that order: without a default and an import a vector keeps
\* its initial value in front of what argv or the environment gives, and a default is
\* added to it (materializer.hpp:419, 218).
InitialStaysInFront(i) ==
    /\ Specs[i].shape = "vec" /\ Specs[i].initial # <<>> /\ io.import = <<>>
    /\ IF Explicit(i) # <<>>
       THEN Specs[i].default = <<>> /\ Holds(i, Specs[i].initial, Explicit(i))
       ELSE Specs[i].default # <<>> /\ Holds(i, Specs[i].initial, Specs[i].default)

\* Second way: an import replaces the whole object, so a field neither the file nor argv
\* or the environment gives loses its default; an optional is empty then, whatever it was
\* made with (argparser.hpp:212, reflection.hpp:37).
ImportDropsDefault(i) ==
    /\ io.import # <<>> /\ ~InFile(i) /\ Explicit(i) = <<>>
    /\ object[i] = IF Specs[i].skippable THEN Specs[i].initial ELSE <<>>

\* Every field of a result is what the first source in the documented order
\* made of it and of no other, but for the two ways above in which the code
\* leaves that order (README_en.md:377, "Precedence is CLI > environment > config
\* import > arg_default > the struct initializer").
Precedence ==
    Done => \A i \in Users :
        FromFirstSource(i) \/ InitialStaysInFront(i) \/ ImportDropsDefault(i)

\* A call that succeeds, or that touches a file, has a source for every required
\* option, and no two options in force whose declaration excludes that
\* (materializer.hpp:691, argparser.hpp:231).  An option is in force when a source gave
\* it a value that is not false; a skippable field a file lacks counts as given (materializer.hpp:582).
Sourced(i) ==
    \/ raw[i] # <<>> \/ Specs[i].env \in DOMAIN env
    \/ IF io.import = <<>> THEN Specs[i].default # <<>>
       ELSE InFile(i) /\ (Specs[i].shape = "opt" => Imported(i) # <<>>)
SkippedCounts(i) ==
    /\ io.import # <<>> /\ ~InFile(i) /\ Specs[i].skippable
    /\ Specs[i].shape = "opt" => Specs[i].initial # <<>>
InForce(i) ==
    /\ Sourced(i) \/ SkippedCounts(i)
    /\ IF Specs[i].base = "bool" THEN TRUE \in ToSet(object[i]) ELSE object[i] # <<>>
Obeyed(i) ==
    /\ Specs[i].required => Sourced(i) \/ SkippedCounts(i)
    /\ InForce(i) =>
         /\ \A t \in Targets(Specs, i, Specs[i].requires) : t \in Users /\ InForce(t)
         /\ \A t \in Targets(Specs, i, Specs[i].conflicts) : t \in Users => ~InForce(t)
RelationsHold == Done \/ outputs # <<>> => \A i \in Users : Obeyed(i)

\* Once a schema is accepted no spelling of an option means two of them, so
\* the order in which options are declared decides nothing (schema.hpp:533).
SpellingsAreUnique ==
    pc \notin {"validate", "failed"} =>
        \A i, j \in DOMAIN Specs : i # j /\ ~Specs[i].positional /\ ~Specs[j].positional =>
            /\ ({Specs[i].long} \cup ToSet(Specs[i].aliases))
                 \cap ({Specs[j].long} \cup ToSet(Specs[j].aliases)) = {}
            /\ (({Specs[i].short} \cup ToSet(Specs[i].shortAliases)) \ {""})
                 \cap ({Specs[j].short} \cup ToSet(Specs[j].shortAliases)) = {}

\* An empty word in the command's place is no command: when a file names one,
\* what stands behind the word is not read (argparser.hpp:344).
EmptyCommand == program.commands # <<>> /\ Contains(argv, NoCommand)

\* A plain word that does not stand behind a declared option is a positional
\* of the result: no unknown option takes it for its value, whatever
\* allowUnknown says (config.hpp:41, "its following token is never guessed as its value").
NoWordIsLost ==
    Done /\ ~EmptyCommand => \A k \in DOMAIN argv :
        /\ argv[k].kind = "plain" /\ argv[k] # command
        /\ k = 1 \/ argv[k - 1].kind \in {"plain", "end"}
                 \/ (argv[k - 1].kind = "long" /\ ~Declared(argv[k - 1]))
        => \E i \in Users : Specs[i].positional /\ Contains(raw[i], argv[k])

\* An option with an implicit value never takes the option behind it for its
\* value: what it has is a text that is none, or the implicit value (raw_parser.hpp:84).
ImplicitLeavesOptions ==
    pc \in {"collect", "done"} => \A i \in DOMAIN Specs :
        Specs[i].implicit # <<>> /\ ~Specs[i].positional =>
            \A k \in DOMAIN raw[i] :
                raw[i][k] = Specs[i].implicit[1] \/ ~LooksLikeOption(raw[i][k])

\* What is exported is the object the caller gets, or a part of it.  A call that
\* succeeds has written every file; one that fails has touched none, or left some behind
\* of which the last may be the one that failed (argparser.hpp:236, config_io.hpp:344).
ExportsAreTheResult ==
    /\ \A k \in DOMAIN outputs :
          /\ outputs[k].object = object /\ outputs[k].command = command
          /\ outputs[k].format = io.exports[k]
    /\ outputs # <<>> => pc \in {"done", "failed"} /\ Len(outputs) <= Len(io.exports)
    /\ pc = "failed" /\ outputs # <<>> =>
         Len(outputs) < Len(io.exports) \/ Last(outputs).contents = "part"
    /\ Done => Len(outputs) = Len(io.exports)

\* The command of the result is one of the program's and the one the imported
\* file is for, and at most one file is imported, counting the options before
\* and behind the command (argparser.hpp:412, 435).
CommandAgrees ==
    Done /\ program.commands # <<>> =>
        /\ \E k \in DOMAIN program.commands :
              program.commands[k].name = command /\ schema = SchemaOf(program.commands[k].fields)
        /\ io.import # <<>> => file.ok /\ file.command = command
        /\ Len(io.import) <= 1

\* Every word and every command goes where the declarations say, whatever their order.
WordsFollowTheSchema == TypeOK /\ SpellingsAreUnique /\ NoWordIsLost /\ ImplicitLeavesOptions /\ CommandAgrees

\* What is returned or exported is one object, and it passed every check.
ResultsAreChecked == RelationsHold /\ ExportsAreTheResult
=============================================================================
