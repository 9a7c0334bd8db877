------------------------------ MODULE WireInputs ------------------------------
(***************************************************************************)
(* What travels between the two sides, one message at a time: values of    *)
(* every protocol type, whatever a client may send to a server and what    *)
(* its handlers may return, and the calls of Client with what a client may *)
(* answer.                                                                 *)
(***************************************************************************)
EXTENDS Inputs
LOCAL INSTANCE Dispatch
LOCAL INSTANCE FiniteSets
LOCAL INSTANCE Integers
LOCAL INSTANCE SequencesExt

\* A JSON object made of members that are there or not.
Raw(id, method, params) ==
    Object(Member("id", id) @@ Member("method", method) @@ Member("params", params))

\* The same message without parameters, its members by their place.
RawInOrder(id, method) ==
    LET item(value) == IF value = {} THEN Null ELSE Only(value)
    IN Array(<<item(id), item(method)>>)

WellTyped(type, depth) == {Encode(Types, Ref(type), v) : v \in Samples(Types, Ref(type), depth)}

Required(T) ==
    IF Kind(T) # "struct" THEN {}
    ELSE {f \in DOMAIN T.struct :
             Kind(T.struct[f]) \notin {"opt", "many", "nullable", "default", "rest", "any"}}

HasOrder(T) == "order" \in DOMAIN T

\* The members of an object by their place, null where there is none, and the
\* same row cut off behind the last member that is there.
Row(T, members) ==
    [i \in DOMAIN T.order |-> IF T.order[i] \in DOMAIN members THEN members[T.order[i]] ELSE Null]
CutRow(T, members) ==
    LET given == {i \in DOMAIN T.order : T.order[i] \in DOMAIN members}
    IN SubSeq(Row(T, members), 1, CHOOSE n \in {0} \cup given : \A i \in given : i <= n)

\* The ways to write a struct: by name, and by place where its members have one.
WaysToWrite(T, json) ==
    {json} \cup IF HasOrder(T) THEN {Array(Row(T, json.object)), Array(CutRow(T, json.object))}
              ELSE {}

\* Parameters of another type: neither an object nor an array, or a required
\* member missing or null; a row that is too long or lacks a required member, and
\* any array where members have no place.
IllWritten(T, members) ==
    {String("text")}
    \cup UNION {{Object([m \in DOMAIN members \ {f} |-> members[m]]),
                 Object([members EXCEPT ![f] = Null])} : f \in Required(T)}
    \cup IF HasOrder(T)
         THEN {Array(Append(Row(T, members), Null)), Array(Front(CutRow(T, members)))}
         ELSE {Array(<<>>), Array(<<Null>>)}

-----------------------------------------------------------------------------
(* Inputs *)

ClientId == Number(7)
Ids == {{}, {Null}, {ClientId}, {String("id")}, {Fraction}, {Boolean(TRUE)}, {Object(NoMembers)}}

Failures == {[response |-> ErrorOf(-32803)], [serde |-> TRUE], [protocol |-> TRUE]}

\* What the application's handler returns.
Given(method) ==
    LET result == ResultOf(method)
    IN {LeftOut} \cup {Failure(err) : err \in Failures}
       \cup {{v} : v \in Samples(Types, result.type, 1)}
       \cup IF result.optional THEN {{}} ELSE {}

\* A frame, and the parameters it means, written as an object.
FrameWith(json, means, expects, given) ==
    [kind |-> "frame", json |-> json, means |-> means, expects |-> expects, given |-> given]
FrameInput(json, expects, given) == FrameWith(json, {}, expects, given)

\* Parameters of a route, what they mean, and whether they are of its type.
ParamsOf(type) ==
    UNION {UNION {{[json |-> w, means |-> {json}, right |-> TRUE] : w \in WaysToWrite(T, json)} :
                      json \in WellTyped(type, 1)}
           \cup {[json |-> w, means |-> {}, right |-> FALSE] :
                    w \in UNION {IllWritten(T, json.object) : json \in WellTyped(type, 0)}} :
           T \in {Types[type]}}

InitTypes ==
    \E type \in DOMAIN Types :
        \E v \in Samples(Types, Types[type], 2) : input = [kind |-> "type", type |-> type, value |-> v]

InitFrames ==
    \* parameters of all kinds, of requests to handlers left out and of
    \* notifications,
    \/ \E method \in DOMAIN Requests \cup DOMAIN NotificationRoutes :
          LET asked == method \in DOMAIN Requests
              route == IF asked THEN Requests[method] ELSE NotificationRoutes[method]
          IN \E p \in ParamsOf(route.params), id \in IF asked THEN {{ClientId}} ELSE {{}, {Null}} :
                input = FrameWith(Raw(id, {String(method)}, {p.json}), p.means,
                            IF asked THEN IF p.right THEN "default" ELSE "invalidParams"
                            ELSE IF p.right THEN "silence" ELSE "warning", LeftOut)
    \* and good ones of requests, to handlers that return all kinds of outcomes
    \/ \E method \in DOMAIN Requests :
          \E given \in Given(method), id \in {ClientId, String("id")},
             p \in WellTyped(Requests[method].params, 0) :
             /\ given # LeftOut
             /\ input = FrameInput(Raw({id}, {String(method)}, {p}), "outcome", given)
    \/ \E given \in Given("custom/method") :
          input = FrameInput(Raw({ClientId}, {String("custom/method")}, {}),
                             IF given = LeftOut THEN "methodNotFound" ELSE "outcome", given)
    \* a second handshake, and the end
    \/ \E method \in {"initialize", "shutdown"}, id \in {ClientId, String("id")} :
          input = FrameInput(Raw({id}, {String(method)}, {}), method, LeftOut)
    \* ids and methods of all kinds, by name and by place, and what is neither an
    \* object nor an array, or too long
    \/ \E id \in Ids, method \in {{}, {Null}, {String("custom/method")}, {Number(1)}} :
          \E json \in {Raw(id, method, {}), RawInOrder(id, method)} :
             LET isId == id \subseteq {Null, ClientId, String("id")}
             IN input = FrameInput(json,
                            CASE ~isId \/ method = {Number(1)} -> "parseError"
                              [] method \in {{}, {Null}} \/ id \in {{}, {Null}} -> "silence"
                              [] OTHER -> "methodNotFound", LeftOut)
    \/ \E json \in {Null, String("text"), Array([i \in 1..6 |-> Null])} :
          input = FrameInput(json, "parseError", LeftOut)
    \* no member at all, and settings that are null
    \/ \E json \in {Array(<<>>), Raw({}, {String("workspace/didChangeConfiguration")},
                                  {Array(<<Null>>)})} :
          input = FrameInput(json, "silence", LeftOut)

\* A call with its parameters, and what the client makes of it.
InitCalls ==
    \E name \in DOMAIN Calls :
        \E v \in IF Calls[name].params = {} THEN {<<>>}
                 ELSE UNION {Samples(Types, Ref(T), 1) : T \in Calls[name].params},
           answer \in ({{}} \cup {{o} : o \in Samples(Types, Calls[name].result.type, 1)}
                             \cup {Failure([response |-> ErrorOf(-32803)])}) :
           input = [kind |-> "call", name |-> name, value |-> v, answer |-> answer]

-----------------------------------------------------------------------------
(* Properties *)

\* Lists that no union can tell apart when they are empty.
AlikeWhenEmpty == {"DocumentSymbolResponse", "GotoDefinitionResponse"}

\* What was written, what it reads as, and how that is written in turn.
SameValue(type, value, json, read, again) ==
    LET withoutData(j) == [m \in DOMAIN j.object \ {"data"} |-> j.object[m]]
    IN /\ read # {}
       /\ CASE type = "WorkspaceSymbolResponse" ->
                  /\ Len(again.array) = Len(json.array)
                  /\ \A i \in DOMAIN json.array :
                        withoutData(again.array[i]) = withoutData(json.array[i])
            [] type \in AlikeWhenEmpty /\ json = Array(<<>>) -> again = json
            [] OTHER -> read = {value}

ReadBack(types, T, value, json, read) ==
    SameValue(T.ref, value, json, read, Encode(types, T, Only(read)))
Survives(types, T, value, json) == ReadBack(types, T, value, json, Decode(types, T, json))

\* Whatever one side writes the other reads back, through optional members,
\* flattened parameters, tags, and untagged unions that take the first
\* alternative that reads.  Two kinds of value come back as another alternative:
\* an empty list of symbols or locations, which is written alike for all of
\* them, and workspace symbols with full locations, which read as the older type
\* and lose their data.
RoundTrip ==
    input.kind = "type" =>
    LET T == Ref(input.type)
    IN Survives(Types, T, input.value, Encode(Types, T, input.value))

\* How a client reads the reply: its members, and the code of an error.
Members(json) == DOMAIN json.object
ErrorCode(json) == json.object["error"].object["code"].number
SaysNothing ==
    {Null, Array(<<>>), Object("items" :> Array(<<>>)),
     Object("items" :> Array(<<>>) @@ "kind" :> String("full"))}

\* What the server writes for a frame's body.
Replies(json, given) == {EncodeMessage(Types, m) : m \in Reply(json, given)}

\* The id of a message, by its name or its place.
IdOf(json) == IF IsArray(json) THEN Head(json.array) ELSE json.object["id"]

\* The codes of an error that reaches the client.  into_response_error is said to
\* give failures of serialization INTERNAL_ERROR (error.rs, lines 154-156), and
\* gives them INVALID_PARAMS: either will do.
CodesOf(err) == CASE "response" \in DOMAIN err -> {-32803}
                  [] "serde" \in DOMAIN err -> {-32602, -32603}
                  [] OTHER -> {-32603}

\* The replies to a frame are those it expects, for a result of the type.
RightReplies(frame, replies, result) ==
    LET reply == Only(replies)
        body == reply.object
        answered(member) ==
            /\ Cardinality(replies) = 1
            /\ body["jsonrpc"] = String("2.0") /\ body["id"] = IdOf(frame.json)
            /\ Members(reply) = {"jsonrpc", "id", member}
        failed(codes) == answered("error") /\ ErrorCode(reply) \in codes
    IN CASE frame.expects = "default" ->
                /\ answered("result")
                /\ IF result.default = GivenValue THEN body["result"] = Only(frame.means)
                   ELSE body["result"] \in SaysNothing
         [] frame.expects = "outcome" ->
                IF Failed(frame.given) THEN failed(CodesOf(Only(frame.given).error))
                ELSE /\ answered("result")
                     /\ FromJson(result, body["result"]) # {}
                     /\ frame.given = {} <=> body["result"] = Null
         [] frame.expects = "invalidParams" -> failed({-32602})
         [] frame.expects = "methodNotFound" -> failed({-32601})
         [] frame.expects = "initialize" -> failed({-32600})
         [] frame.expects = "shutdown" -> answered("result") /\ body["result"] = Null
         [] frame.expects = "parseError" ->
                Cardinality(replies) = 1 /\ body["id"] = Null /\ ErrorCode(reply) = -32700
         [] frame.expects = "warning" ->
                /\ Cardinality(replies) = 1
                /\ "id" \notin Members(reply) /\ body["method"] = String("window/logMessage")
                /\ Decode(Types, Ref("LogMessageParams"), body["params"]) # {}
         [] OTHER -> replies = {}

\* Every request is answered once, under its own id, with a result or an error
\* and never both (a null result is written), and nothing else is answered:
\* what cannot be told to be a request, a notification or a response gets a
\* parse error under a null id, a notification that cannot be read a warning.
\* A handler left out gives the protocol's empty answer, or the item back that
\* was to be resolved; the outcome of another reaches the client as it is, a
\* failure under the code of its kind (or INTERNAL_ERROR for a failure of
\* serialization, as documented); parameters of another type never reach a
\* handler, and those of its type do, by name or by place; and parameters that
\* are null, absent or empty mean the same.
RepliesMatchRequests ==
    input.kind = "frame" =>
    LET json == input.json
        method == json.object["method"].string
        without == [m \in DOMAIN json.object \ {"params"} |-> json.object[m]]
        with(p) == Object(Member("params", p) @@ without)
    IN /\ RightReplies(input, Replies(json, input.given), ResultOf(method))
       /\ IsObject(json) =>
             Cardinality({Replies(with(p), input.given) :
                             p \in {{}, {Null}, {Object(NoMembers)}}}) = 1

\* A client reads the message of a call for what it is.
ReadAsSent(call, value, message, read) ==
    /\ read = {message}
    /\ Only(read).kind = IF call.answered THEN "request" ELSE "notification"
    /\ \A T \in call.params : Decode(Types, Ref(T), Only(Only(read).params)) = {value}

\* What the call returns for the JSON of a response.
Outcomes(result, json) ==
    UNION {DecodeResponse(result, m) : m \in Classify(Types, json)}

\* A response comes back as the answer it was written for, and with a null
\* result left out.
AnswerReturned(result, answer, json) ==
    IF answer = {}
    THEN {Outcomes(result, j) : j \in {json, Object([m \in Members(json) \ {"result"} |-> json.object[m]])}}
             = {IF result.optional THEN {{}} ELSE {}}
    ELSE Outcomes(result, json) = {answer}

\* A client that speaks the protocol understands every call: it reads the
\* message for what it is, with the method and the values passed; and whatever
\* it answers comes back as the call's outcome: the value, nothing where that
\* is allowed (whether the result is null or not there), the error, and a
\* failure where it answers nothing to a call that needs a value.
CallsUnderstood ==
    input.kind = "call" =>
    LET call == Calls[input.name]
        message == CallMessage(call, ClientId, input.value)
        reply == IF Failed(input.answer)
                 THEN Response({ClientId}, {}, {Only(input.answer).error.response})
                 ELSE Response({ClientId}, {ToJson(call.result, input.answer)}, {})
    IN /\ ReadAsSent(call, input.value, message, Classify(Types, EncodeMessage(Types, message)))
       /\ call.answered =>
             AnswerReturned(call.result, input.answer, EncodeMessage(Types, reply))
=============================================================================
