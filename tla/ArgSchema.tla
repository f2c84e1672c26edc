----------------------------- MODULE ArgSchema -----------------------------
(***************************************************************************)
(* The schema of the argument parser (argparser/detail/schema.hpp): what   *)
(* an options struct declares, how the names in it are resolved, and when  *)
(* the declaration is accepted.                                            *)
(*                                                                         *)
(* A name is a path, the sequence of its segments; a short name is one     *)
(* character and "" for none.  A schema is [specs, users]: the options of  *)
(* the struct, the first `users` of them, then the built-in ones.          *)
(***************************************************************************)
EXTENDS Integers, Sequences, FiniteSets, SequencesExt

\* A field of the struct without any tag; a program gives what it changes.
\* prefix is the path of the enclosing structs.  base is the type of a
\* scalar, shape says whether the field is one, an optional or a vector.
Field ==
    [prefix |-> <<>>, name |-> "", absolute |-> <<>>, short |-> "",
     aliases |-> <<>>, shortAliases |-> <<>>, ignored |-> FALSE,
     positional |-> FALSE, flag |-> FALSE, required |-> FALSE,
     base |-> "text", shape |-> "one", names |-> {}, initial |-> <<>>,
     default |-> <<>>, implicit |-> <<>>, env |-> "", range |-> <<>>,
     choices |-> {}, separator |-> FALSE, requires |-> <<>>, conflicts |-> <<>>,
     long |-> <<>>, scope |-> <<>>, repeatable |-> FALSE, skippable |-> FALSE, builtin |-> <<>>]

\* The tag `repeatable' is for vectors only (tags.hpp:163) and adds nothing to them.
MakeSpec(field) ==
    [field EXCEPT
        !.long = IF field.absolute # <<>> THEN field.absolute
                 ELSE Append(field.prefix, field.name),
        !.scope = IF field.absolute # <<>> THEN Front(field.absolute) ELSE field.prefix,
        !.flag = @ \/ (field.base = "bool" /\ field.shape = "one"),
        !.repeatable = field.shape = "vec"]

UserSpecs(fields) ==
    LET Kept[k \in 0..Len(fields)] ==
            IF k = 0 THEN <<>>
            ELSE IF fields[k].ignored THEN Kept[k - 1]
            ELSE Append(Kept[k - 1], MakeSpec(fields[k]))
    IN  Kept[Len(fields)]

FindLong(specs, path) ==
    SelectInSeq(specs, LAMBDA s : /\ ~s.positional
                                  /\ path = s.long \/ Contains(s.aliases, path))

FindShort(specs, char) ==
    SelectInSeq(specs, LAMBDA s : /\ ~s.positional
                                  /\ char # ""
                                  /\ char = s.short \/ Contains(s.shortAliases, char))

-----------------------------------------------------------------------------
(* Names in `requires' and `conflicts'.  A reference is [form, up, path]:   *)
(* "long" and "short" are spelled as options, "root" starts with a slash,   *)
(* "here" with ./, and "plain" with neither; up counts the ../ before it.   *)

Ancestor(scope, up) == SubSeq(scope, 1, IF up > Len(scope) THEN 0 ELSE Len(scope) - up)

\* A plain name with several segments is absolute, also after a ../ .
Absolute(spec, ref) ==
    IF ref.form = "root" \/ (ref.form = "plain" /\ Len(ref.path) > 1)
    THEN ref.path
    ELSE Ancestor(spec.scope, ref.up) \o ref.path

IsCalled(spec, path) ==
    \/ path \in {spec.long, <<spec.short>>}
    \/ Contains(spec.aliases, path)
    \/ \E c \in ToSet(spec.shortAliases) : path = <<c>>

FindReference(specs, spec, ref) ==
    CASE ref.form = "long"  -> FindLong(specs, ref.path)
      [] ref.form = "short" -> FindShort(specs, ref.path[1])
      [] OTHER ->
           LET exact == SelectInSeq(specs, LAMBDA s : IsCalled(s, Absolute(spec, ref)))
           IN  IF exact = 0 /\ ref.form = "plain" /\ ref.up = 0 /\ Len(ref.path) = 1
               THEN FindShort(specs, ref.path[1]) ELSE exact

Targets(specs, i, refs) == {FindReference(specs, specs[i], r) : r \in ToSet(refs)}

-----------------------------------------------------------------------------
(* The built-in options that import and export configuration files.         *)

Registry == <<"json", "yaml", "binary", "toml">>

\* The names a format goes by.
Matches(format) ==
    CASE format = "yaml" -> {"yaml", "yml"} [] format = "binary" -> {"binary", "bin"}
      [] OTHER -> {format}

\* io is [Import, Export, names]: the formats enabled in each direction, and
\* the option names given instead of the ones of the format.
OptionName(io, dir, format) ==
    IF <<dir, format>> \in DOMAIN io.names THEN io.names[<<dir, format>>] ELSE <<dir, format>>

BuiltinSpec(io, dir, format) ==
    [Field EXCEPT !.long = OptionName(io, dir, format), !.builtin = <<dir, format>>]

\* An option whose name is empty or taken is left out.
PushIfAvailable(specs, spec) ==
    IF spec.long = <<>> \/ FindLong(specs, spec.long) # 0 THEN specs ELSE Append(specs, spec)

\* The options of a format, first the one that imports.
ConfigIoSpecs(specs, io, available, format) ==
    LET Push(pushed, dir, listed) ==
            IF format \in available /\ listed \cap Matches(format) # {}
            THEN PushIfAvailable(pushed, BuiltinSpec(io, dir, format)) ELSE pushed
    IN  Push(Push(specs, "Import", io.Import), "Export", io.Export)

Collect(fields, io, available) ==
    LET users == UserSpecs(fields)
        Pushed[k \in 0..Len(Registry)] ==
            IF k = 0 THEN users ELSE ConfigIoSpecs(Pushed[k - 1], io, available, Registry[k])
    IN  [users |-> Len(users), specs |-> Pushed[Len(Registry)]]

-----------------------------------------------------------------------------
(* Whether a schema is accepted.                                            *)

ValidPath(path) == path # <<>> /\ "" \notin ToSet(path)

LongNames(spec)  == (IF spec.positional THEN <<>> ELSE <<spec.long>>) \o spec.aliases
ShortNames(spec) == (IF spec.positional \/ spec.short = "" THEN <<>> ELSE <<spec.short>>)
                        \o spec.shortAliases

\* Every name is written once, in one place of one sequence.
Unrepeated(names) ==
    \A i, j \in DOMAIN names : \A k \in DOMAIN names[i], l \in DOMAIN names[j] :
        names[i][k] = names[j][l] => i = j /\ k = l

RepeatableIsLast(specs) ==
    \A i, j \in DOMAIN specs :
        specs[i].positional /\ specs[j].positional /\ specs[i].repeatable => j <= i

ReferencesResolve(schema) ==
    \A i \in 1..schema.users :
        {0, i} \cap Targets(schema.specs, i, schema.specs[i].requires \o schema.specs[i].conflicts) = {}

Accepted(schema) ==
    /\ \A i \in DOMAIN schema.specs :
           LET spec == schema.specs[i]
           IN  /\ ValidPath(spec.long)
               /\ ~(spec.positional /\ spec.flag)
               /\ \A path \in ToSet(spec.aliases) : ValidPath(path)
    /\ Unrepeated([i \in DOMAIN schema.specs |-> LongNames(schema.specs[i])])
    /\ Unrepeated([i \in DOMAIN schema.specs |-> ShortNames(schema.specs[i])])
    /\ RepeatableIsLast(schema.specs)
    /\ ReferencesResolve(schema)
=============================================================================
