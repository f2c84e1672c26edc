-------------------------------- MODULE JsonRpc --------------------------------
\* Calls over a connection that speaks JSON-RPC 2.0: RpcClient and RpcServer with
\* JsonRpcBackend. The client numbers its requests and matches answers by id, the
\* server runs requests concurrently, both refuse what is longer than their limit.
\* Besides, messages of peers that are not this client are handed to
\* RpcServer::processMessage. A method gives any of its outcomes.
EXTENDS JsonRpcCodec

CONSTANTS
  Calls,      \* sequence of [method, args, notify]
  Foreign,    \* sequence of the messages of other peers
  Strays,     \* sequence of messages that answer no request; the server sends one of them at most
  Bound,      \* the methods the server has
  Outcomes,   \* [method |-> sequence of what it may give]
  ClientMax,  \* options.max_message_bytes
  ServerMax

VARIABLES
  nextId,      \* ClientContext::next_id
  phase,       \* [call -> "idle" | "waiting" | "ended"]
  id,          \* [call -> EncodedRequest::id]
  message,     \* [call -> the message sent, or << >>]
  result,      \* [call -> what the caller got, or << >>]
  toServer,    \* calls whose message is under way, in order
  handling,    \* calls whose message is being processed
  answers,     \* messages under way to the client
  clientOpen, serverOpen,  \* the endpoints
  ran,         \* [call -> the invocations its message made]
  direct,      \* the last of Foreign that was processed: its number, its reply, the invocations it made
  stray        \* one of Strays was sent

callVars == <<nextId, phase, id, message, result>>
netVars == <<toServer, handling, answers, clientOpen, serverOpen>>
vars == <<callVars, netVars, ran, direct, stray>>

Call == DOMAIN Calls
MethodOf(c) == Methods[Calls[c].method]
NotificationOk == Failure(Err("jsonrpc", 0))
UnexpectedEOF == Failure(Err("io", 2))
Canceled == Failure(Err("io", 1))

Init ==
  /\ nextId = 0
  /\ phase = [c \in Call |-> "idle"]
  /\ id = [c \in Call |-> NullId]
  /\ message = [c \in Call |-> << >>]
  /\ result = [c \in Call |-> << >>]
  /\ toServer = << >> /\ handling = {} /\ answers = << >>
  /\ clientOpen = TRUE /\ serverOpen = TRUE
  /\ ran = [c \in Call |-> << >>]
  /\ direct = << >>
  /\ stray = FALSE

\* ------------------------------------------------------------------ the client

Ended(c, r) == phase' = [phase EXCEPT ![c] = "ended"] /\ result' = [result EXCEPT ![c] = r]

\* _callRemoteParallel: a number is used up even when its request cannot be encoded.
\* The calls are made in their order, each may wait while the next ones are made.
Send(c) ==
  LET call == Calls[c]
      mine == IF call.notify THEN NullId ELSE Numbered(nextId)
      written == WriteRequest(MethodOf(c), call.method, mine, FillParams(MethodOf(c), call.args))
  IN /\ phase[c] = "idle" /\ \A d \in 1..(c - 1) : phase[d] # "idle"
     /\ IF ~clientOpen THEN Ended(c, Failure(ClientNotInit)) /\ UNCHANGED <<nextId, id, message, toServer>>
        ELSE /\ nextId' = IF call.notify THEN nextId ELSE nextId + 1
             /\ id' = [id EXCEPT ![c] = mine]
             /\ IF ~written.ok THEN Ended(c, Failure(InvalidRequest)) /\ UNCHANGED <<message, toServer>>
                ELSE IF Length(written.value) > ClientMax THEN Ended(c, Failure(MessageTooLarge)) /\ UNCHANGED <<message, toServer>>
                ELSE /\ message' = [message EXCEPT ![c] = written.value]
                     /\ toServer' = Append(toServer, c)
                     /\ IF call.notify THEN Ended(c, NotificationOk)
                        ELSE phase' = [phase EXCEPT ![c] = "waiting"] /\ UNCHANGED result
     /\ UNCHANGED <<handling, answers, clientOpen, serverOpen, ran, direct, stray>>

\* The caller stops waiting (timeout or stop); the backend has no cancel message.
GiveUp(c) ==
  /\ phase[c] = "waiting"
  /\ Ended(c, Canceled)
  /\ UNCHANGED <<nextId, id, message, netVars, ran, direct, stray>>

Waiting == {c \in Call : phase[c] = "waiting"}
Disconnect(error) ==
  /\ clientOpen' = FALSE
  /\ phase' = [c \in Call |-> IF c \in Waiting THEN "ended" ELSE phase[c]]
  /\ result' = [c \in Call |-> IF c \in Waiting THEN error ELSE result[c]]

\* _receiveLoop: the call whose id an answer has, any other answer is ignored.
AnsweredByAnyId(tree) == {c \in Waiting : ResponseId(tree) # << >>}
AnsweredBy(tree) == {c \in Waiting : \E given \in ToSet(ResponseId(tree)) : SameId(given, id[c])}
Deliver ==
  /\ clientOpen /\ answers # << >>
  /\ answers' = Tail(answers)
  /\ LET tree == Head(answers)
     IN \/ /\ Length(tree) > ClientMax
           /\ Disconnect(Failure(MessageTooLarge))
        \/ /\ Length(tree) <= ClientMax
           /\ UNCHANGED clientOpen
           /\ \E whose \in {AnsweredBy(tree)} :
                \/ whose = {} /\ UNCHANGED <<phase, result>>
                \/ \E c \in whose : Ended(c, DecodeResponse(MethodOf(c), tree, id[c], ClientMax))
  /\ UNCHANGED <<nextId, id, message, toServer, handling, serverOpen, ran, direct, stray>>

EndOfStream ==
  /\ clientOpen /\ ~serverOpen /\ answers = << >>
  /\ Disconnect(UnexpectedEOF)
  /\ UNCHANGED <<nextId, id, message, toServer, handling, answers, serverOpen, ran, direct, stray>>

\* ------------------------------------------------------------------ the server

\* _handleClient: a message longer than the limit ends the connection.
Receive ==
  /\ serverOpen /\ toServer # << >>
  /\ toServer' = Tail(toServer)
  /\ LET c == Head(toServer)
     IN IF Length(message[c]) > ServerMax THEN serverOpen' = FALSE /\ UNCHANGED handling
        ELSE handling' = handling \cup {c} /\ UNCHANGED serverOpen
  /\ UNCHANGED <<callVars, answers, clientOpen, ran, direct, stray>>

\* _handle: what one request appends to the responses, and the invocation it makes.
AppendError(head, error) == IF ExpectsResponse(head) THEN <<ErrorResponse(head[3], error)>> ELSE << >>
OutcomesOf(name) == IF name \in Bound THEN Outcomes[name] ELSE <<"none">>
Refusal(head, error) == [slot |-> AppendError(head, error), ran |-> << >>]
Invoked(request, name, args, outcome) ==
  [slot |-> AppendReturn(Methods[name], request.head, outcome),
   ran |-> <<[name |-> name, args |-> args, outcome |-> outcome, request |-> request.tree]>>]
Invoke(request, name, params, choice) ==
  IF ~params.ok THEN Refusal(request.head, InvalidRequest)
  ELSE Invoked(request, name, ArgumentsOf(Methods[name], params.value), Outcomes[name][choice])
Answer(request, choice) ==
  LET name == request.head[2]
  IN IF name \notin Bound THEN Refusal(request.head, MethodNotFound)
     ELSE Invoke(request, name, DecodeParams(Methods[name], request.tree), choice)

\* processMessage: the errors of the message itself, then every request in its place.
Choosings(requests) ==
  LET most == Max({1} \cup {Len(Outcomes[name]) : name \in Bound})
  IN {choice \in [DOMAIN requests -> 1..most] : \A i \in DOMAIN requests : choice[i] \in DOMAIN OutcomesOf(requests[i].head[2])}
SlotsOnly(incoming, handled) == FlattenSeq([i \in DOMAIN handled |-> handled[i].slot])
Responses(incoming, handled) == incoming.errors \o FlattenSeq([i \in DOMAIN handled |-> handled[i].slot])
Replied(incoming, handled, responses) ==
  [silent |-> responses = << >>, reply |-> EncodeResponses(responses, incoming.batch, ServerMax),
   made |-> FlattenSeq([i \in DOMAIN handled |-> handled[i].ran])]
Processed(incoming, handled) == Replied(incoming, handled, Responses(incoming, handled))
Process(incoming) ==
  {Processed(incoming, [i \in DOMAIN incoming.requests |-> Answer(incoming.requests[i], choice[i])]) :
     choice \in Choosings(incoming.requests)}

\* Responses that cannot be encoded close the endpoint.
Handle(c) ==
  /\ c \in handling
  /\ handling' = handling \ {c}
  /\ \E did \in Process(DecodeIncoming(message[c], ServerMax)) :
       /\ ran' = [ran EXCEPT ![c] = @ \o did.made]
       /\ answers' = IF serverOpen THEN answers \o did.reply ELSE answers
       /\ serverOpen' = (serverOpen /\ (did.silent \/ did.reply # << >>))
  /\ UNCHANGED <<callVars, toServer, clientOpen, direct, stray>>

\* RpcServer::processMessage(message) has a session of its own and no endpoint. It shares no
\* state with the connection, so that a behaviour is about one or the other.
ProcessForeign(f) ==
  /\ \A c \in Call : phase[c] = "idle"
  /\ \E did \in Process(DecodeIncoming(Foreign[f], ServerMax)) : direct' = <<[asked |-> f, reply |-> did.reply, made |-> did.made]>>
  /\ UNCHANGED <<callVars, netVars, ran, stray>>

SendStray ==
  /\ serverOpen /\ ~stray
  /\ stray' = TRUE
  /\ \E s \in DOMAIN Strays : answers' = Append(answers, Strays[s])
  /\ UNCHANGED <<callVars, toServer, handling, clientOpen, serverOpen, ran, direct>>

Next ==
  \/ /\ direct = << >>
     /\ \/ \E c \in Call : Send(c) \/ GiveUp(c) \/ Handle(c)
        \/ Deliver
        \/ EndOfStream
        \/ Receive
        \/ SendStray
  \/ \E f \in DOMAIN Foreign : ProcessForeign(f)

Spec == Init /\ [][Next]_vars

----------------------------------------------------------------------------
\* A call is executed at most once, and with the arguments its caller passed: by name, in order or as the params.
ArgsArrive ==
  \A c \in Call : \/ ran[c] = << >>
                  \/ Len(ran[c]) = 1 /\ ran[c][1].name = Calls[c].method /\ ran[c][1].args = Calls[c].args

\* How a caller sees an outcome. The errors of JSON-RPC and of a transport come back as they are; those of RpcError as
\* the JsonRpcError of their code. An empty optional cannot be told from no result.
Seen(c, outcome) ==
  IF ~outcome.ok THEN LET code == CodeOf(outcome.error) IN Failure(Err(IF code > 0 THEN "io" ELSE "jsonrpc", code))
  ELSE IF MethodOf(c).returns.t = "Optional" /\ outcome.value = << >> THEN Failure(InvalidRequest)
  ELSE outcome

\* What the caller of a method gets is what its own invocation gave, or an error
\* that only stands for itself: the call was not made, not answered, or not fit to be.
OwnOutcome ==
  \A c \in Call :
    \/ phase[c] # "ended" \/ Calls[c].notify
    \/ ran[c] # << >> /\ result[c] = Seen(c, ran[c][1].outcome)
    \/ result[c] \in {Failure(ClientNotInit), Failure(MessageTooLarge), UnexpectedEOF, Canceled}
    \/ message[c] = << >> /\ result[c] = Failure(InvalidRequest)
    \/ Calls[c].method \notin Bound /\ ran[c] = << >> /\ result[c] = Failure(Err("jsonrpc", -32601))

\* No call waits once nothing of it is under way: lost with the connection, refused or answered.
NoCallForgotten ==
  toServer = << >> /\ handling = {} /\ answers = << >> /\ (serverOpen \/ ~clientOpen) => Waiting = {}

\* The elements of a message as JSON-RPC 2.0 has them.
Element(tree) == IF tree.k = "Array" THEN tree.kids ELSE <<tree>>
TheMember(tree, name) == tree.kids[CHOOSE i \in DOMAIN tree.keys : tree.keys[i] = NameKey(name)]
Has(tree, name) == \E i \in DOMAIN tree.keys : tree.keys[i] = NameKey(name)
FitId(node) == node.k \in {"Null", "Text"} \/ (node.k = "Unsigned" /\ node.v \in 0..65535)
Valid(tree) ==
  /\ tree.k = "Object" /\ Has(tree, JsonrpcField) /\ Has(tree, MethodField)
  /\ TheMember(tree, JsonrpcField) = Leaf("Text", Version)
  /\ TheMember(tree, MethodField).k = "Text"
  /\ Has(tree, IdField) => FitId(TheMember(tree, IdField))
Identified(tree) == Valid(tree) /\ Has(tree, IdField) /\ TheMember(tree, IdField).k # "Null"
IdNode(tree) == IF Has(tree, IdField) THEN TheMember(tree, IdField) ELSE NullNode
CountOf(s, P(_)) == Cardinality({i \in DOMAIN s : P(s[i])})

\* A reply has one response for every request with an id, and an error without one for
\* whatever is no request, as an array exactly when the message was one that had
\* elements; there is no reply to notifications, nor one that is longer than the limit.
AnswerLength(name, outcome) == IF outcome.ok THEN 3 + Length(Write(Methods[name].returns, outcome.value, NoTags, "Json").value) ELSE 6
LongestAnswer == Max({6} \cup UNION {{AnswerLength(name, Outcomes[name][i]) : i \in DOMAIN Outcomes[name]} : name \in Bound})
EveryElementAnswered ==
  direct # << >> =>
    LET tree == Foreign[direct[1].asked]
        reply == direct[1].reply
        asked == Element(tree)
        given == IF reply = << >> THEN << >> ELSE Element(reply[1])
        expected == CountOf(asked, Identified) + CountOf(asked, LAMBDA t : ~Valid(t))
        whole == tree = Garbled \/ asked = << >> \/ Length(tree) > ServerMax
    IN \/ whole /\ Len(given) = 1 /\ reply[1].k = "Object" /\ IdNode(given[1]).k = "Null"
       \/ ~whole /\ reply = << >> /\ expected > 0 /\ 1 + LongestAnswer * expected > ServerMax
       \/ /\ ~whole /\ Len(given) = expected
          /\ given # << >> => (reply[1].k = "Array" <=> tree.k = "Array")
          /\ \A i \in DOMAIN asked :
               Identified(asked[i]) => LET Mine(t) == IdNode(t).k = IdNode(asked[i]).k /\ IdNode(t).v = IdNode(asked[i]).v
                                       IN CountOf(given, Mine) = CountOf(asked, LAMBDA t : Identified(t) /\ Mine(t))

\* A method is invoked with exactly the parameters of its request, by name or in order.
\* When all of them may be null it is also invoked with none, if the request has no
\* parameters or one that is given lacks a member of its own (InvalidField is swallowed).
NothingInvented ==
  direct # << >> =>
    \A i \in DOMAIN direct[1].made :
      LET made == direct[1].made[i]
          m == Methods[made.name]
          given == FillParams(m, made.args)
          params == TheMember(made.request, ParamsField)
          again == {Write(T, given, NoTags, "Json").value : T \in IF IsNamed(m) THEN {ParamsType(m), NamedType(m)} ELSE {ParamsType(m)}}
      IN \/ Has(made.request, ParamsField) /\ \E tree \in again : tree = params
         \/ /\ NullAble(ParamsType(m)) /\ given = Default(ParamsType(m))
            /\ Has(made.request, ParamsField) =>
                 params.k = "Object" /\ \E j \in DOMAIN params.kids : params.kids[j].k = "Object" /\ params.kids[j].kids = << >>

\* A call is its own: its arguments, its outcome, and an end once nothing of it is under way.
CallsAreTheirOwn == ArgsArrive /\ OwnOutcome /\ NoCallForgotten

\* Every message is served by the letter: all of its elements, and nothing but them.
MessagesServed == EveryElementAnswered /\ NothingInvented
================================================================================
