------------------------------ MODULE TypeSchema ------------------------------
\* The schema a type has (toSchema in serialization/parsing, parsing/schema/type.hpp)
\* and which documents it admits.
EXTENDS TypeParsers

None == [s |-> "None"]
IntegerSchema(min, max) == [s |-> "Integer", min |-> min, max |-> max]
TextSchema(names) == [s |-> "Text", names |-> names]  \* no names: any text
ItemsSchema(items, unique) == [s |-> "Array", items |-> items, prefix |-> << >>, size |-> -1, unique |-> unique]
PrefixSchema(prefix) == [s |-> "Array", items |-> None, prefix |-> prefix, size |-> Len(prefix), unique |-> FALSE]
ObjectSchema(properties, required, others) ==
  [s |-> "Object", properties |-> properties, required |-> required, others |-> others]
AnyOfSchema(types) == [s |-> "AnyOf", types |-> types]
OptionalSchema(of) == [s |-> "Optional", of |-> of]

Members(names, schemas) == [name \in ToSet(names) |-> schemas[Min({i \in DOMAIN names : names[i] = name})]]

RECURSIVE SchemaOf(_, _)

\* One field after the other: a flat object lends its members where they are not there yet.
AddField(object, field) ==
  LET schema == SchemaOf(field.type, field.tags)
      own == IF schema.s = "Optional" THEN schema.of ELSE schema
      Required == ~OptionalLike(field.type) /\ "skippable" \notin field.tags
  IN IF "ignore" \in field.tags THEN object
     ELSE IF "flat" \in field.tags /\ own.s = "Object"
          THEN [object EXCEPT !.properties = @ @@ own.properties, !.required = @ \cup own.required]
     ELSE [object EXCEPT !.properties = (field.name :> schema) @@ @,
                         !.required = IF Required THEN @ \cup {field.name} ELSE @]

StructSchema(T) == FoldLeft(AddField, ObjectSchema(<< >>, {}, None), T.fields)
PositionalSchema(T) ==
  PrefixSchema([j \in DOMAIN Kept(T) |-> LET field == T.fields[Kept(T)[j]] IN SchemaOf(field.type, field.tags)])

ArithmeticSchema(T) == CASE T.t = "Bool" -> [s |-> "Bool"]
                         [] T.t = "Float" -> [s |-> "Float"]
                         [] OTHER -> IntegerSchema(Least(T), Most(T))
EnumSchema(T) == TextSchema({T.names[v] : v \in DOMAIN T.names})
NullableSchema(T) == OptionalSchema(SchemaOf(T.of, NoTags))
ArraySchema(T) == PrefixSchema([i \in DOMAIN T.of |-> SchemaOf(T.of[i], NoTags)])
EntrySchema(names, types) ==
  ObjectSchema(Members(names, [i \in DOMAIN types |-> SchemaOf(types[i], NoTags)]), ToSet(names), None)
OpenObjectSchema(T) == ObjectSchema(<< >>, {}, SchemaOf(T.of, NoTags))
MapSchema(T) == IF T.t = "Map" THEN OpenObjectSchema(T)
                ELSE ItemsSchema(EntrySchema(<<KeyName, ValueName>>, <<T.key, T.of>>), FALSE)
VariantSchema(T, tags) ==
  LET types == AnyOfSchema([i \in DOMAIN T.of |-> SchemaOf(T.of[i], PayloadTags(tags))])
  IN IF "untagged" \in tags THEN types ELSE PrefixSchema(<<IntegerSchema(0, Len(T.of) - 1), types>>)

\* The tags of a field reach the schema of a union, and of no other type.
SchemaOf(T, tags) ==
  CASE T.t \in {"Bool", "Signed", "Unsigned", "Float"} -> ArithmeticSchema(T)
    [] T.t = "Enum" -> EnumSchema(T)
    [] T.t \in {"Text", "Bits"} -> TextSchema({})
    [] T.t = "Null" -> [s |-> "Null"]
    [] T.t \in {"Optional", "Pointer"} -> NullableSchema(T)
    [] T.t = "Atomic" -> SchemaOf(T.of, NoTags)
    [] T.t \in {"List", "Set", "Multiset"} -> ItemsSchema(SchemaOf(T.of, NoTags), T.t = "Set")
    [] T.t = "Tuple" -> ArraySchema(T)
    [] T.t = "Pair" -> EntrySchema(<<FirstName, SecondName>>, <<T.first, T.second>>)
    [] T.t = "Named" -> OpenObjectSchema(T)
    [] T.t \in {"Map", "KeyMap", "Multimap"} -> MapSchema(T)
    [] T.t = "Variant" -> VariantSchema(T, tags)
    [] T.t = "Struct" -> StructSchema(T)
    [] T.t = "Positional" -> PositionalSchema(T)

\* Whether a document is one the schema admits.
RECURSIVE Fits(_, _)
FitsArray(node, schema) ==
  /\ node.k = "Array"
  /\ schema.size >= 0 => Len(node.kids) = schema.size
  /\ schema.items # None => \A i \in DOMAIN node.kids : Fits(node.kids[i], schema.items)
  /\ \A i \in DOMAIN schema.prefix : Fits(node.kids[i], schema.prefix[i])
  /\ schema.unique => \A i, j \in DOMAIN node.kids : i # j => node.kids[i] # node.kids[j]
FitsObject(node, schema) ==
  /\ node.k = "Object"
  /\ \A name \in schema.required : NameKey(name) \in ToSet(node.keys)
  /\ \A i \in DOMAIN node.keys :
       LET name == Tail(node.keys[i])
       IN IF name \in DOMAIN schema.properties THEN Fits(node.kids[i], schema.properties[name])
          ELSE schema.others # None => Fits(node.kids[i], schema.others)
Fits(node, schema) ==
  CASE schema.s = "Optional" -> node.k = "Null" \/ Fits(node, schema.of)
    [] schema.s = "AnyOf" -> \E i \in DOMAIN schema.types : Fits(node, schema.types[i])
    [] schema.s = "Array" -> FitsArray(node, schema)
    [] schema.s = "Object" -> FitsObject(node, schema)
    [] schema.s = "Integer" -> node.k \in {"Signed", "Unsigned"} /\ schema.min <= node.v /\ node.v <= schema.max
    [] schema.s = "Text" -> node.k = "Text" /\ (schema.names # {} => node.v \in schema.names)
    [] OTHER -> node.k = schema.s
===============================================================================
