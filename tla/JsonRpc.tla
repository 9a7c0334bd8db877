-------------------------------- MODULE JsonRpc --------------------------------
(***************************************************************************)
(* The messages of src/src/jsonrpc.rs and the errors of src/src/error.rs:  *)
(* how a message is written, and how a JSON value read off the wire is     *)
(* told to be a request, a notification or a response.                     *)
(*                                                                         *)
(* A member that may be missing is a set of at most one value.  An id is   *)
(* the JSON value it is written as.                                        *)
(***************************************************************************)
EXTENDS Serde

\* A number that is no i64, and a value that is no number, string or object.
Fraction == [fraction |-> TRUE]

Request(id, method, params) ==
    [kind |-> "request", id |-> {id}, method |-> {method}, params |-> params,
     result |-> {}, error |-> {}]
Notification(method, params) ==
    [kind |-> "notification", id |-> {}, method |-> {method}, params |-> params,
     result |-> {}, error |-> {}]
Response(id, result, error) ==
    [kind |-> "response", id |-> id, method |-> {}, params |-> {},
     result |-> result, error |-> error]

-----------------------------------------------------------------------------
(* error.rs *)

Codes == [parseError |-> -32700, invalidRequest |-> -32600, methodNotFound |-> -32601,
          invalidParams |-> -32602, internalError |-> -32603]

ResponseError == Struct(<<"code" :> Num, "message" :> Str, "data" :> Opt(AnyValue)>>)

ErrorOf(code) == [struct |-> [code |-> [num |-> code], message |-> [str |-> "text"]]]

\* What a handler failed with: an error meant for the client, or a failure of
\* serialization, of the protocol or of the transport.
IntoResponseError(err) ==
    IF "response" \in DOMAIN err THEN err.response
    ELSE ErrorOf(IF "serde" \in DOMAIN err THEN Codes.invalidParams ELSE Codes.internalError)

-----------------------------------------------------------------------------
(* Writing *)

Member(name, value) == [m \in {name : v \in value} |-> Only(value)]

EncodeError(types, error) == Encode(types, ResponseError, error)

\* A response has an id, null if it is not known, and an error or else a
\* result, null if there is none.
EncodeMessage(types, msg) ==
    Object(("jsonrpc" :> String("2.0"))
        @@ Member("id", IF msg.kind = "response" /\ msg.id = {} THEN {Null} ELSE msg.id)
        @@ Member("method", {String(m) : m \in msg.method})
        @@ Member("params", msg.params)
        @@ Member("error", {EncodeError(types, e) : e \in msg.error})
        @@ Member("result", CASE msg.kind # "response" \/ msg.error # {} -> {}
                              [] msg.result = {} -> {Null}
                              [] OTHER -> msg.result))

-----------------------------------------------------------------------------
(* Reading.  A member that is null reads as one that is not there. *)

RawMessage == Struct(<<"id" :> Opt(AnyValue), "method" :> Opt(Str), "params" :> Opt(AnyValue),
                       "result" :> Opt(AnyValue), "error" :> Opt(ResponseError)>>)

IsRequestId(id) == "number" \in DOMAIN id \/ "string" \in DOMAIN id

\* Mutant: a request needs an id it can answer; another is a notification.
MessageOf_BadIdIsNone(raw) ==
    LET given(name) == IF name \in DOMAIN raw THEN {raw[name]} ELSE {}
        values(name) == {v.any : v \in given(name)}
        id == {v \in values("id") : IsRequestId(v)}
        method == {m.str : m \in given("method")}
    IN IF method = {} THEN {Response(id, values("result"), given("error"))}
       ELSE IF id = {} THEN {Notification(Only(method), values("params"))}
       ELSE {Request(Only(id), Only(method), values("params"))}

\* What the members say, or nothing where the id is no integer and no string.
MessageOf(raw) ==
    LET given(name) == IF name \in DOMAIN raw THEN {raw[name]} ELSE {}
        values(name) == {v.any : v \in given(name)}
        id == values("id")
        method == {m.str : m \in given("method")}
    IN IF \E v \in id : ~IsRequestId(v) THEN {}
       ELSE IF method = {} THEN {Response(id, values("result"), given("error"))}
       ELSE IF id = {} THEN {Notification(Only(method), values("params"))}
       ELSE {Request(Only(id), Only(method), values("params"))}

\* The message, or nothing where serde reports an error: neither an object nor
\* an array, a member of the wrong type, or a wrong id.
Classify(types, json) ==
    UNION {MessageOf(raw.struct) : raw \in Decode(types, RawMessage, json)}
==============================================================================
