---------------------------- MODULE JsonRpcCodec ----------------------------
\* What JSON-RPC makes of calls and answers (jsonrpc/backend.hpp, protocol.hpp and
\* jsonrpc_traits.hpp): a message is a Json tree, written and read by the parsers of
\* TypeParsers and TypeReaders, or Garbled when its text is no Json. Its length is the
\* number of its nodes.
EXTENDS TypeReaders

CONSTANT Methods  \* name |-> [args, names, returns]: the types of the arguments, their names if it has any, the type it returns

Void == Nothing  \* what a method gives that returns nothing: std::nullptr_t
Garbled == [k |-> "Garbled"]
RECURSIVE Length(_)
Length(tree) ==
  IF tree.k \notin {"Array", "Object"} THEN 1 ELSE FoldLeft(LAMBDA sum, kid : sum + Length(kid), 1, tree.kids)

\* ------------------------------------------------------------------ parameters

\* One argument that is a reflected struct, an optional one, or a tuple is the params itself.
AutoExpands(m) ==
  Len(m.args) = 1 /\ (m.args[1].t = "Struct" \/ (m.args[1].t = "Optional" /\ m.args[1].of.t = "Struct"))
IsTopTuple(m) == Len(m.args) = 1 /\ m.args[1].t = "Tuple"
ParamsType(m) == IF AutoExpands(m) \/ IsTopTuple(m) THEN m.args[1] ELSE [t |-> "Tuple", of |-> m.args]
ParamsSize(m) ==
  LET T == ParamsType(m) IN IF T.t = "Tuple" THEN Len(T.of) ELSE IF T.t = "Struct" THEN Len(T.fields) ELSE Len(T.of.fields)

RECURSIVE NullAble(_)
NullAble(T) == CASE T.t = "Optional" -> TRUE
                 [] T.t = "Struct" -> \A i \in DOMAIN T.fields : NullAble(T.fields[i].type)
                 [] T.t = "Tuple" -> \A i \in DOMAIN T.of : NullAble(T.of[i])
                 [] OTHER -> FALSE

FillParams(m, args) == IF AutoExpands(m) \/ IsTopTuple(m) THEN args[1] ELSE args
ArgumentsOf(m, params) == IF AutoExpands(m) \/ IsTopTuple(m) THEN <<params>> ELSE params

\* Named parameters are the fields of an object; only as many as there are, and only of a tuple.
IsNamed(m) == m.names # << >>
NamesFit(m) == Len(m.names) = ParamsSize(m) /\ ParamsSize(m) > 0 /\ ParamsType(m).t = "Tuple"
NamedType(m) ==
  [t |-> "Struct", fields |-> [i \in DOMAIN m.names |-> FieldOf(m.names[i], ParamsType(m).of[i], NoTags)]]

\* -------------------------------------------------------------------- requests

Version == <<2, 0>>
JsonrpcField == <<1>>
MethodField == <<2>>
IdField == <<3>>
ParamsField == <<4>>
ResultField == <<5>>
ErrorField == <<6>>
CodeField == <<7>>
MessageField == <<8>>
TextType == [t |-> "Text"]

\* An id is one of its alternatives alone. No Json value is two of them, so that the
\* first that can be read is the only one, as of an untagged union.
IdType == [t |-> "Variant", of |-> <<Nothing, [t |-> "Unsigned", bits |-> 16], TextType>>]
NullId == NullOf(IdType)
Numbered(n) == [index |-> 2, value |-> n]
SameId(x, y) == x.index = y.index /\ x.value = y.value
IdMember == FieldOf(IdField, IdType, {"untagged"})

HeadFields == <<FieldOf(JsonrpcField, [t |-> "Optional", of |-> TextType], NoTags), FieldOf(MethodField, TextType, NoTags), IdMember>>
HeadType == [t |-> "Struct", fields |-> HeadFields]

WriteRequest(m, name, id, params) ==
  LET type == IF IsNamed(m) THEN NamedType(m) ELSE ParamsType(m)
  IN IF IsNamed(m) /\ ~NamesFit(m) THEN Failed
     ELSE Write([t |-> "Struct", fields |-> Append(HeadFields, FieldOf(ParamsField, type, NoTags))],
                <<<<Version>>, name, id, params>>, NoTags, "Json")

Unspent == [left |-> 0, used |-> {}]
ReadHead(tree) == Read(HeadType, At(tree, << >>), <<<< >>, << >>, NullId>>, NoTags, "Json", Unspent)

\* Named parameters may also come in their order; a failure of a field is none where all may be null.
ReadNamedParams(m, in, old) ==
  IF ~HasMember(in, ParamsField) THEN NoField(old, Unspent)
  ELSE LET member == MemberOf(in, ParamsField)
       IN IF member.node.k = "Object" THEN ReadFields(NamedType(m), member, old, "Json", Unspent)
          ELSE Read(ParamsType(m), member, old, NoTags, "Json", Unspent)
Swallow(m, read) == IF ~read.ok /\ NullAble(ParamsType(m)) /\ read.ofField THEN [read EXCEPT !.ok = TRUE] ELSE read
DecodeParams(m, tree) ==
  LET in == At(tree, << >>)
      old == Default(ParamsType(m))
  IN IF IsNamed(m) /\ ~NamesFit(m) THEN No(old, Unspent)
     ELSE Swallow(m, IF IsNamed(m) THEN ReadNamedParams(m, in, old)
                     ELSE ReadField(FieldOf(ParamsField, ParamsType(m), NoTags), in, old, "Json", Unspent))

\* ---------------------------------------------------------------------- errors

\* An error is a category and a value; the codes of JsonRpcError and RpcError.
Err(category, value) == [category |-> category, value |-> value]
InvalidRequest == Err("jsonrpc", -32600)
MethodNotFound == Err("rpc", 5)
ParseError == Err("jsonrpc", -32700)
InternalError == Err("jsonrpc", -32603)
MessageTooLarge == Err("jsonrpc", -32003)
ResponseIdNotMatch == Err("jsonrpc", -32002)
ClientNotInit == Err("jsonrpc", -32001)

\* An RpcError has its code, every other error its own number.
RpcCode ==
  [value \in 0..16 |-> CASE value = 0 -> 0
                         [] value \in {1, 2, 3} -> -32000 - (value - 1)
                         [] value = 5 -> -32601
                         [] value = 6 -> -32602
                         [] value = 7 -> -32603
                         [] value = 15 -> -32004
                         [] value = 16 -> -32005
                         [] OTHER -> -32600]
CodeOf(error) == IF error.category = "rpc" THEN RpcCode[error.value] ELSE error.value

\* The caller takes a positive number for an error of the transport.
ErrorOf(code) == IF code > 0 THEN Err("io", code) ELSE Err("jsonrpc", code)

\* --------------------------------------------------------------------- answers

ErrorType ==
  [t |-> "Struct", fields |-> <<FieldOf(CodeField, [t |-> "Signed", bits |-> 24], NoTags), FieldOf(MessageField, TextType, NoTags)>>]
ResponseType(m) ==
  [t |-> "Struct",
   fields |-> <<FieldOf(JsonrpcField, TextType, NoTags),
                FieldOf(ResultField, [t |-> "Optional", of |-> m.returns], NoTags),
                FieldOf(ErrorField, [t |-> "Optional", of |-> ErrorType], NoTags), IdMember>>]
NoMethod == [args |-> << >>, names |-> << >>, returns |-> Void]

WriteResponse(m, result, error, id) == Write(ResponseType(m), <<Version, result, error, id>>, NoTags, "Json")
ErrorResponse(id, error) == WriteResponse(NoMethod, << >>, <<<<CodeOf(error), << >>>>>>, id).value

ExpectsResponse(head) == ~SameId(head[3], NullId)

\* What a method gave, as the responses to its request: none to a notification.
AppendReturn(m, head, outcome) ==
  IF ~ExpectsResponse(head) THEN << >>
  ELSE IF ~outcome.ok THEN <<ErrorResponse(head[3], outcome.error)>>
  ELSE LET written == WriteResponse(m, <<outcome.value>>, << >>, head[3])
       IN IF written.ok THEN <<written.value>> ELSE <<ErrorResponse(head[3], InternalError)>>

\* The requests of a message, and the errors of those elements that are none.
Refused(error) == [batch |-> FALSE, requests |-> << >>, errors |-> <<ErrorResponse(NullId, error)>>]
DecodeElement(tree) == [tree |-> tree, head |-> IF tree.k = "Object" THEN ReadHead(tree) ELSE No(<< >>, Unspent)]
IsRequest(element) == element.head.ok /\ element.head.value[1] = <<Version>>
Sorted(elements, batch) ==
  LET good == SelectSeq(elements, IsRequest)
  IN [batch |-> batch,
      requests |-> [i \in DOMAIN good |-> [tree |-> good[i].tree, head |-> good[i].head.value]],
      errors |-> [i \in 1..(Len(elements) - Len(good)) |-> ErrorResponse(NullId, InvalidRequest)]]
DecodeIncoming(tree, limit) ==
  IF Length(tree) > limit THEN Refused(MessageTooLarge)
  ELSE IF tree = Garbled THEN Refused(ParseError)
  ELSE IF tree = ArrayNode(<< >>) THEN Refused(InvalidRequest)
  ELSE LET elements == IF tree.k = "Array" THEN tree.kids ELSE <<tree>>
       IN Sorted([i \in DOMAIN elements |-> DecodeElement(elements[i])], tree.k = "Array")

\* An array only for a batch, nothing where there is no answer to give or it is too long.
EncodeResponses(responses, batch, limit) ==
  IF responses = << >> THEN << >>
  ELSE LET tree == IF batch THEN ArrayNode(responses) ELSE responses[1]
       IN IF Length(tree) > limit THEN << >> ELSE <<tree>>

\* The id of an answer, if it is an object that has one.
Given(read) == IF read.ok THEN <<read.value>> ELSE << >>
ResponseId(tree) ==
  LET in == At(tree, << >>)
  IN IF tree.k # "Object" \/ ~HasMember(in, IdField) THEN << >> ELSE Given(ReadField(IdMember, in, NullId, "Json", Unspent))

\* What the caller makes of the answer to its call.
Value(v) == [ok |-> TRUE, value |-> v]
Failure(error) == [ok |-> FALSE, error |-> error]
ReadResponse(m, tree) == Read(ResponseType(m), At(tree, << >>), <<Version, << >>, << >>, NullId>>, NoTags, "Json", Unspent)
ResponseValue(m, response, expected) ==
  CASE response[1] # Version -> Failure(InvalidRequest)
    [] ~SameId(response[4], expected) -> Failure(ResponseIdNotMatch)
    [] response[3] # << >> -> Failure(IF response[2] # << >> THEN InvalidRequest ELSE ErrorOf(response[3][1][1]))
    [] m.returns = Void -> Value(<< >>)
    [] response[2] = << >> -> Failure(InvalidRequest)
    [] OTHER -> Value(response[2][1])
ReadAnswer(m, read, expected) == IF read.ok THEN ResponseValue(m, read.value, expected) ELSE Failure(ParseError)
DecodeResponse(m, tree, expected, limit) ==
  IF Length(tree) > limit THEN Failure(MessageTooLarge)
  ELSE IF tree = Garbled THEN Failure(ParseError)
  ELSE ReadAnswer(m, ReadResponse(m, tree), expected)
=============================================================================
