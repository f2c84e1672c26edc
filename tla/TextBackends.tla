----------------------------- MODULE TextBackends ------------------------------
\* What the TOML and YAML writers make of the tree the parsers write, and what their
\* readers take for an arithmetic value (toml/tomlplusplus_writer.hpp and its reader,
\* yaml/libfyaml_writer.hpp, yaml/yamlcpp_writer.hpp and their readers). The text of a
\* tree is the libraries'. A TOML integer is an int64, here of sixteen bits; a YAML
\* scalar is its text. The text of a float is not spelled out.
EXTENDS TypeParsers

Yaml == {"Libfyaml", "YamlCpp"}

\* ------------------------------------------------------------------- writing

\* A floating point value of four bytes that is an infinity or not a number.
NonFinite(node) == node.k = "Float" /\ node.v[1] % 128 = 127 /\ node.v[2] >= 128

\* An assigned member replaces the one of its name.
Assigned(keys, nodes) ==
  LET last == SetToSortSeq({i \in DOMAIN keys : \A j \in DOMAIN keys : j > i => keys[j] # keys[i]}, <)
  IN ObjectNode([i \in DOMAIN last |-> keys[last[i]]], [i \in DOMAIN last |-> nodes[last[i]]])

TomlMost == 2 ^ 15 - 1
TomlScalar(node) ==
  IF node.k = "Null" \/ NonFinite(node) \/ (node.k = "Unsigned" /\ node.v > TomlMost) THEN Failed
  ELSE IF node.k = "Unsigned" THEN Written(Leaf("Signed", node.v))
  ELSE Written(node)

RECURSIVE TomlNode(_)
TomlNode(node) ==
  IF node.k \notin {"Array", "Object"} THEN TomlScalar(node)
  ELSE LET kids == [i \in DOMAIN node.kids |-> TomlNode(node.kids[i])]
       IN IF node.k = "Array" THEN AddArray(kids)
          ELSE IF Complete(kids) THEN Written(Assigned(node.keys, NodesOf(kids))) ELSE Failed

\* A TOML document is a table.
TomlDocument(node) == IF node.k = "Object" THEN TomlNode(node) ELSE Failed

\* The text of a scalar: a word, or decimal digits.
Word(truth) == IF truth THEN <<116, 114, 117, 101>> ELSE <<102, 97, 108, 115, 101>>
Minus == 45
RECURSIVE Digits(_)
Digits(n) == IF n < 10 THEN <<48 + n>> ELSE Append(Digits(n \div 10), 48 + (n % 10))
Spelled(node) ==
  IF node.k = "Bool" THEN Word(node.v) ELSE IF node.v < 0 THEN <<Minus>> \o Digits(-node.v) ELSE Digits(node.v)

YamlScalar(node) ==
  IF NonFinite(node) THEN Failed
  ELSE IF node.k \in {"Bool", "Signed", "Unsigned"} THEN Written(Leaf("Text", Spelled(node)))
  ELSE Written(node)

\* libfyaml appends a member and refuses a name that is there, yaml-cpp assigns it.
YamlMapping(keys, nodes, b) ==
  IF b = "YamlCpp" THEN Written(Assigned(keys, nodes))
  ELSE IF \E i, j \in DOMAIN keys : i # j /\ keys[i] = keys[j] THEN Failed
  ELSE Written(ObjectNode(keys, nodes))

RECURSIVE YamlNode(_, _)
YamlNode(node, b) ==
  IF node.k \notin {"Array", "Object"} THEN YamlScalar(node)
  ELSE LET kids == [i \in DOMAIN node.kids |-> YamlNode(node.kids[i], b)]
       IN IF node.k = "Array" THEN AddArray(kids)
          ELSE IF Complete(kids) THEN YamlMapping(node.keys, NodesOf(kids), b) ELSE Failed

\* The document a backend makes of a tree, or a failure.
TextDocument(node, b) ==
  CASE b = "Toml" -> TomlDocument(node)
    [] b \in Yaml -> YamlNode(node, b)
    [] OTHER -> Written(node)

\* ------------------------------------------------------------------- reading

\* A TOML value has one type; only a floating point target takes an integer too.
TomlHolds(T, node) ==
  CASE T.t = "Bool" -> node.k = "Bool"
    [] T.t = "Float" -> node.k \in {"Float", "Signed"}
    [] OTHER -> node.k = "Signed" /\ InRange(T, node.v)

\* A YAML scalar is whatever its text reads as, quoted or not: no sign but a minus, all of it digits.
TrueWords == {Word(TRUE), <<84, 114, 117, 101>>, <<84, 82, 85, 69>>, <<49>>}
FalseWords == {Word(FALSE), <<70, 97, 108, 115, 101>>, <<70, 65, 76, 83, 69>>, <<48>>}
Decimal(text) == FoldLeft(LAMBDA n, cell : 10 * n + cell - 48, 0, text)
AllDigits(text) == text # << >> /\ ToSet(text) \subseteq 48..57
YamlInteger(T, text) ==
  CASE AllDigits(text) -> {Decimal(text)} \cap Least(T)..Most(T)
    [] T.t = "Signed" /\ text # << >> /\ Head(text) = Minus /\ AllDigits(Tail(text)) -> {-Decimal(Tail(text))} \cap Least(T)..Most(T)
    [] OTHER -> {}

\* The values a node has as one of an arithmetic type: one, or none.
YamlValues(T, node) ==
  CASE T.t = "Bool" -> {truth \in BOOLEAN : node.k = "Text" /\ node.v \in (IF truth THEN TrueWords ELSE FalseWords)}
    [] T.t = "Float" -> IF node.k = "Float" THEN {node.v} ELSE IF node.k = "Text" /\ AllDigits(node.v) THEN {Decimal(node.v)} ELSE {}
    [] OTHER -> IF node.k = "Text" THEN YamlInteger(T, node.v) ELSE {}

\* What a parser makes of no bytes at all: an empty TOML table, a null of yaml-cpp, no document of the others.
TomlInput(data) == IF data = << >> THEN <<ObjectNode(<< >>, << >>)>> ELSE data
YamlCppInput(data) == IF data = << >> THEN <<NullNode>> ELSE data
LibfyamlInput(data) == data
TextInput(data, b) ==
  CASE b = "Toml" -> TomlInput(data)
    [] b = "YamlCpp" -> YamlCppInput(data)
    [] OTHER -> LibfyamlInput(data)
===============================================================================
