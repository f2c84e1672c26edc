---------------------------- MODULE ProtoFactory ----------------------------
(***************************************************************************)
(* ProtoFactory (src/proto_base.cpp, include/nekoproto/proto/proto_base.hpp)*)
(* of one program: the numbers given to protocol names for the life of the *)
(* process, and the creators a factory finds by number or by name.         *)
(* Numbers up to Reserved are asked for, those above are counted.          *)
(***************************************************************************)
EXTENDS Integers, Sequences, FiniteSets, SequencesExt

CONSTANTS
  Dictionary,  \* protocol names, in the order of the maps that are keyed by them
  Reserved,    \* NEKO_RESERVED_PROTO_TYPE_SIZE
  NoProto      \* an empty IProto

ASSUME FactoryAssumption ==
  /\ Dictionary \in Seq(Range(Dictionary))
  /\ Reserved \in Nat \ {0}
  /\ NoProto \notin Range(Dictionary)

Name == Range(Dictionary)

(* A program before its static initialisers: no number is given, no        *)
(* factory built.  types: name -> number (kProtoNameMap), counter:         *)
(* kCounter, statics: the names in static_init_funcs; size, creators:      *)
(* mCreaterList, dynamic: mDynamicCreaterMap, both number -> name.         *)
Fresh ==
  [types |-> <<>>, counter |-> Reserved, statics |-> {}, built |-> FALSE,
   size |-> 0, creators |-> <<>>, dynamic |-> <<>>]

Number(p, n) == IF n \in DOMAIN p.types THEN p.types[n] ELSE -1

(* map[key] = value, and map.insert, which leaves a key that is there. *)
Put(map, key, value) == [k \in DOMAIN map \cup {key} |-> IF k = key THEN value ELSE map[k]]
Insert(map, key, value) == [k \in DOMAIN map \cup {key} |-> IF k \in DOMAIN map THEN map[k] ELSE value]

Counted(p, n) == [p EXCEPT !.types = Insert(@, n, p.counter + 1), !.counter = @ + 1]

DeclareAgain(p, n, specify) ==
  [p EXCEPT !.types = Put(@, n, IF specify = -1 THEN p.counter + 1 ELSE specify),
            !.counter = IF specify = -1 THEN @ + 1 ELSE @]

(* _protoType of a declaration: a name keeps the number it has. *)
Declare(p, n, specify) ==
  IF n \in DOMAIN p.types THEN p
  ELSE IF specify = -1 THEN Counted(p, n)
  ELSE IF specify > Reserved \/ specify \in Range(p.types) THEN p
  ELSE [p EXCEPT !.types = Insert(@, n, specify)]

(* What the static initialiser of a protocol may ask for without failing   *)
(* its assertion.                                                          *)
MaySpecify(p, specify) == specify = -1 \/ (specify <= Reserved /\ specify \notin Range(p.types))

(* The initialiser: a number only if one is asked for, and a place among   *)
(* those _init registers.                                                  *)
DeclareStatic(p, n, specify) ==
  [(IF specify = -1 THEN p ELSE Declare(p, n, specify)) EXCEPT !.statics = @ \cup {n}]

(* regist: into the list if there is room, otherwise into the map, where   *)
(* the first creator of a number stays.                                    *)
Regist(p, n) ==
  LET q == Declare(p, n, -1)
      t == Number(q, n)
  IN  IF t < q.size THEN [q EXCEPT !.creators = Put(@, t, n)]
      ELSE [q EXCEPT !.dynamic = Insert(@, t, n)]

Sized(p) == [p EXCEPT !.size = Cardinality(p.statics) + Reserved + 1, !.built = TRUE]

RegistStatic(p, n) == IF n \in p.statics THEN Regist(p, n) ELSE p

(* The constructor: _init registers the static protocols by name. *)
Construct(p) ==
  LET Upto[k \in 0..Len(Dictionary)] ==
        IF k = 0 THEN Sized(p) ELSE RegistStatic(Upto[k - 1], Dictionary[k])
  IN  Upto[Len(Dictionary)]

Create(p, t) ==
  IF t > 0 /\ t < p.size /\ t \in DOMAIN p.creators THEN p.creators[t]
  ELSE IF t >= p.size /\ t \in DOMAIN p.dynamic THEN p.dynamic[t]
  ELSE NoProto

CreateNamed(p, n) == Create(p, Number(p, n))

(* The table a program tells its peer: numbers that were counted. *)
TableOf(p) ==
  LET counted == {n \in DOMAIN p.types : p.types[n] > Reserved}
  IN  [t \in {p.types[n] : n \in counted} |-> CHOOSE n \in counted : p.types[n] = t]
=============================================================================
