------------------------------- MODULE MCJsonRpc -------------------------------
\* The methods, calls and foreign messages JSON-RPC is checked with. Names are
\* sequences of cells; the fields of the protocol are <<1>> to <<8>>.
EXTENDS JsonRpc

MCFieldId(name) == 0

U8 == [t |-> "Unsigned", bits |-> 8]
U16 == [t |-> "Unsigned", bits |-> 16]
Of(t, T) == [t |-> t, of |-> T]
StructOf(fields) == [t |-> "Struct", fields |-> fields]
A == <<97>>
B == <<98>>

Sum == <<115>>    \* named parameters, the second may be left out
Store == <<116>>  \* one struct, whose fields are the params
Find == <<102>>   \* everything optional, gives an optional
Rows == <<114>>   \* gives a list, which may be too long
Log == <<108>>    \* a list
Ping == <<112>>   \* neither parameters nor a value
Odd == <<111>>    \* one name for a struct of two fields
Gone == <<103>>   \* known to the client only

Entry == StructOf(<<FieldOf(A, U8, NoTags), FieldOf(B, Of("Optional", TextType), NoTags)>>)
Filter == StructOf(<<FieldOf(A, Of("Optional", U8), NoTags), FieldOf(B, Of("Optional", Entry), NoTags)>>)
Method(args, names, returns) == [args |-> args, names |-> names, returns |-> returns]
MCMethods ==
  (Sum :> Method(<<U16, Of("Optional", U8)>>, <<A, B>>, U16)) @@
  (Store :> Method(<<Entry>>, << >>, Void)) @@
  (Find :> Method(<<Of("Optional", Filter)>>, << >>, Of("Optional", U8))) @@
  (Rows :> Method(<<Of("Tuple", <<U8, TextType>>)>>, << >>, Of("List", U8))) @@
  (Ping :> Method(<< >>, << >>, Void)) @@
  (Log :> Method(<<Of("List", U8)>>, << >>, Void)) @@
  (Odd :> Method(<<Entry>>, <<A>>, Void)) @@
  (Gone :> Method(<<U8>>, << >>, U8))
MCBound == {Sum, Store, Find, Rows, Log, Ping}
MCOutcomes ==
  (Sum :> <<Value(300), Failure(Err("rpc", 6))>>) @@
  (Store :> <<Value(<< >>), Failure(Err("jsonrpc", -5))>>) @@
  (Find :> <<Value(<< >>), Failure(Err("io", 7))>>) @@
  (Rows :> <<Value(<<1, 2>>), Value(<<1, 2, 3, 4, 5, 6, 7, 8, 9, 10, 11, 12, 13>>)>>) @@
  (Log :> <<Value(<< >>)>>) @@
  (Ping :> <<Value(<< >>)>>)

Call_(method, args, notify) == [method |-> method, args |-> args, notify |-> notify]
MCCalls ==
  <<Call_(Odd, <<<<3, << >>>>>>, FALSE), Call_(Sum, <<258, << >>>>, FALSE), Call_(Find, <<<<<<<<7>>, << >>>>>>>>, FALSE),
    Call_(Log, <<[i \in 1..20 |-> i]>>, FALSE), Call_(Rows, <<<<1, <<65>>>>>>, FALSE), Call_(Log, <<[i \in 1..12 |-> i]>>, TRUE)>>

Obj(members) == ObjectNode([i \in DOMAIN members |-> NameKey(members[i][1])], [i \in DOMAIN members |-> members[i][2]])
V2 == <<JsonrpcField, Leaf("Text", Version)>>
Named(method) == <<MethodField, Leaf("Text", method)>>
Numbered_(n) == <<IdField, Leaf("Unsigned", n)>>
Texted(t) == <<IdField, Leaf("Text", t)>>
With_(params) == <<ParamsField, params>>
Ask(method, id_, rest) == Obj(<<V2, Named(method), id_>> \o rest)
Tell(method, rest) == Obj(<<V2, Named(method)>> \o rest)
Num(n) == Leaf("Unsigned", n)
MCForeign ==
  <<Garbled, ArrayNode(<< >>), Num(3),
    Ask(Sum, Numbered_(9), <<With_(ArrayNode(<<Num(1), Num(2)>>))>>),
    Ask(Sum, Texted(A), <<With_(Obj(<<<<B, Num(2)>>>>))>>),
    Ask(Sum, Numbered_(9), << >>),
    Ask(Find, Numbered_(9), << >>), Ask(Ping, Texted(A), << >>),
    Ask(Rows, Numbered_(1), <<With_(ArrayNode(<<Num(1), Leaf("Text", A)>>))>>),
    Ask(Find, Numbered_(9), <<With_(Num(4))>>), Ask(Find, Numbered_(9), <<With_(Obj(<<<<B, Obj(<< >>)>>>>))>>),
    Tell(Store, <<With_(Obj(<<<<A, Num(4)>>>>))>>), Tell(Gone, << >>), Tell(Store, <<With_(Num(4))>>),
    Obj(<<Named(Ping), Numbered_(1)>>), Ask(Ping, <<IdField, Leaf("Signed", -1)>>, << >>),
    ArrayNode(<<Tell(Ping, << >>), Tell(Ping, << >>)>>),
    ArrayNode(<<Ask(Ping, Numbered_(2), << >>)>>),
    ArrayNode(<<Ask(Ping, Numbered_(2), << >>), Num(3), Tell(Ping, << >>), Ask(Gone, Numbered_(2), << >>)>>),
    ArrayNode(<<Num(1), Num(2), Num(3), Num(4)>>),
    ArrayNode([i \in 1..30 |-> Num(1)])>>
MCStrays == <<Ask(Sum, Texted(A), << >>), ArrayNode([i \in 1..30 |-> Num(1)])>>
================================================================================
