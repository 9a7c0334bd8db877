---------------------------- MODULE ClientCalls ----------------------------
(***************************************************************************)
(* Server-to-client requests: Client::send_request, its timeout variant    *)
(* and Client::resolve of src/src/client.rs, with the parts of the message *)
(* loop (src/src/server.rs run_loop) that decide whether a response that   *)
(* arrived is ever read: the loop awaits the notification worker and the   *)
(* shutdown handler inline.  initialize has already been answered.         *)
(***************************************************************************)
EXTENDS Naturals, Sequences

CONSTANTS
    Calls,           \* the calls of send_request made in a run
    Caller,          \* who makes each: a request task, the notification
                     \* handler, the shutdown handler or a background task
    Timed,           \* the calls made with a timeout
    MaxResponses     \* bound: responses the client sends

ASSUME CallsAssumption ==
    /\ Caller \in [Calls -> {"task", "note", "shutdown", "background"}]
    /\ Timed \subseteq Calls

VARIABLES
    nextId,          \* Client.next_id
    pending,         \* Client.pending: entries of an id and the call whose
                     \* oneshot sender is kept under it
    call, id, reply, \* each call's place in send_request, id, and oneshot channel
    asked, cancels,  \* ids the client was asked, and told to cancel, so far
    inbox, answered, \* messages to the loop, and the responses among them so far
    loop,            \* run_loop
    note,            \* one queued didChange and its handler
    writerDead

callVars == <<nextId, pending, call, id, reply, asked, cancels>>
peerVars == <<inbox, answered>>
loopVars == <<loop, note, writerDead>>
vars == <<callVars, peerVars, loopVars>>

Entry(c) == [id |-> id[c], call |-> c]
Without(i) == {e \in pending : e.id # i}
NoReply == 0
Response(i) == [type |-> "response", id |-> i]
Plain(t) == [type |-> t, id |-> 0]
InFlight == {"numbered", "registered", "unsent", "waiting", "expired", "forgotten"}
Finished == {"ok", "failed", "timedout", "aborted"}

Init ==
    /\ nextId = 1 /\ pending = {}
    /\ call = [c \in Calls |-> "idle"] /\ id = [c \in Calls |-> 0]
    /\ reply = [c \in Calls |-> NoReply]
    /\ asked = {} /\ cancels = {}
    /\ inbox = <<>> /\ answered = 0
    /\ loop = "reading" /\ note = "none" /\ writerDead = FALSE

Goto(c, place) == call' = [call EXCEPT ![c] = place]

-----------------------------------------------------------------------------
(* The caller *)

\* Whether the code that makes the call is running.
CallerRuns(c) ==
    CASE Caller[c] = "task" -> loop # "closed"
      [] Caller[c] = "note" -> note = "running"
      [] Caller[c] = "shutdown" -> loop = "shutting"
      [] Caller[c] = "background" -> TRUE

\* Mutant: a load and a store in place of the fetch_add.
AllocateId_NoAdvance(c) ==
    /\ call[c] = "idle" /\ CallerRuns(c)
    /\ id' = [id EXCEPT ![c] = nextId]
    /\ nextId' \in {nextId, nextId + 1}
    /\ Goto(c, "numbered")
    /\ UNCHANGED <<pending, reply, asked, cancels, peerVars, loopVars>>

\* Mutant: the id is what next_id holds before its first advance.
AllocateId_FromZero(c) ==
    /\ call[c] = "idle" /\ CallerRuns(c)
    /\ id' = [id EXCEPT ![c] = nextId - 1]
    /\ nextId' = nextId + 1
    /\ Goto(c, "numbered")
    /\ UNCHANGED <<pending, reply, asked, cancels, peerVars, loopVars>>

\* start_request: next_id.fetch_add.
AllocateId(c) ==
    /\ call[c] = "idle" /\ CallerRuns(c)
    /\ id' = [id EXCEPT ![c] = nextId]
    /\ nextId' = nextId + 1
    /\ Goto(c, "numbered")
    /\ UNCHANGED <<pending, reply, asked, cancels, peerVars, loopVars>>

\* The params do not serialize: nothing was registered yet.
ParamsFail(c) ==
    /\ call[c] = "numbered"
    /\ Goto(c, "failed")
    /\ UNCHANGED <<nextId, pending, id, reply, asked, cancels, peerVars, loopVars>>

Register(c) ==
    /\ call[c] = "numbered"
    /\ pending' = Without(id[c]) \cup {Entry(c)}
    /\ Goto(c, "registered")
    /\ UNCHANGED <<nextId, id, reply, asked, cancels, peerVars, loopVars>>

\* The queue takes the request, even after the loop returned: this caller's
\* Client keeps the writer alive.
SendRequest(c) ==
    /\ call[c] = "registered" /\ ~writerDead
    /\ asked' = asked \cup {id[c]}
    /\ Goto(c, "waiting")
    /\ UNCHANGED <<nextId, pending, id, reply, cancels, peerVars, loopVars>>

\* The queue is at its limit, or its receiver died with the writer.
SendRefused(c) ==
    /\ call[c] = "registered"
    /\ Goto(c, "unsent")
    /\ UNCHANGED <<nextId, pending, id, reply, asked, cancels, peerVars, loopVars>>

\* Mutant: the error returns before the entry is removed.
RollBack_Leaks(c) ==
    /\ call[c] = "unsent"
    /\ Goto(c, "failed")
    /\ UNCHANGED <<nextId, pending, id, reply, asked, cancels, peerVars, loopVars>>

RollBack(c) ==
    /\ call[c] = "unsent"
    /\ pending' = Without(id[c])
    /\ Goto(c, "failed")
    /\ UNCHANGED <<nextId, id, reply, asked, cancels, peerVars, loopVars>>

\* rx.await is ready; decode_response may map it to an error.
ReturnReply(c) ==
    /\ call[c] = "waiting" /\ reply[c] # NoReply
    /\ \E outcome \in {"ok", "failed"} : Goto(c, outcome)
    /\ UNCHANGED <<nextId, pending, id, reply, asked, cancels, peerVars, loopVars>>

\* Mutant: the clock is driven by the message loop.
Expire_WithLoop(c) ==
    /\ call[c] = "waiting" /\ c \in Timed /\ reply[c] = NoReply /\ loop = "reading"
    /\ Goto(c, "expired")
    /\ UNCHANGED <<nextId, pending, id, reply, asked, cancels, peerVars, loopVars>>

\* tokio::time::timeout polls the channel before its clock.
Expire(c) ==
    /\ call[c] = "waiting" /\ c \in Timed /\ reply[c] = NoReply
    /\ Goto(c, "expired")
    /\ UNCHANGED <<nextId, pending, id, reply, asked, cancels, peerVars, loopVars>>

\* Mutant: the entry stays for the late response to remove.
ForgetExpired_Keeps(c) ==
    /\ call[c] = "expired"
    /\ Goto(c, "forgotten")
    /\ UNCHANGED <<nextId, pending, id, reply, asked, cancels, peerVars, loopVars>>

ForgetExpired(c) ==
    /\ call[c] = "expired"
    /\ pending' = Without(id[c])
    /\ Goto(c, "forgotten")
    /\ UNCHANGED <<nextId, id, reply, asked, cancels, peerVars, loopVars>>

\* The best-effort $/cancelRequest, and the REQUEST_FAILED error.
SendCancel(c) ==
    /\ call[c] = "forgotten"
    /\ cancels' \in {cancels, IF writerDead THEN cancels ELSE cancels \cup {id[c]}}
    /\ Goto(c, "timedout")
    /\ UNCHANGED <<nextId, pending, id, reply, asked, peerVars, loopVars>>

\* The waiting task is aborted: a request by $/cancelRequest or teardown, the
\* notification worker by teardown.  Its receiver drops, its entry stays.
Abort(c) ==
    /\ call[c] = "waiting"
    /\ \/ Caller[c] = "task"
       \/ Caller[c] = "note" /\ loop = "closed"
    /\ Goto(c, "aborted")
    /\ note' = IF Caller[c] = "note" THEN "done" ELSE note
    /\ UNCHANGED <<nextId, pending, id, reply, asked, cancels, peerVars, loop, writerDead>>

-----------------------------------------------------------------------------
(* The client (editor) and the message loop *)

Arrives(m) == loop # "closed" /\ inbox' = Append(inbox, m)

\* The client answers what it was asked, perhaps late, perhaps twice.
ClientAnswers ==
    /\ answered < MaxResponses
    /\ \E i \in asked : Arrives(Response(i))
    /\ answered' = answered + 1
    /\ UNCHANGED <<callVars, loopVars>>

\* A response whose id is null.
ClientSendsNullId ==
    /\ answered < MaxResponses
    /\ Arrives(Response(0))
    /\ answered' = answered + 1
    /\ UNCHANGED <<callVars, loopVars>>

ClientNotifies ==
    /\ note = "none" /\ Arrives(Plain("note"))
    /\ note' = "sent"
    /\ UNCHANGED <<callVars, answered, loop, writerDead>>

ClientShutsDown ==
    /\ \A k \in DOMAIN inbox : inbox[k].type # "shutdown"
    /\ Arrives(Plain("shutdown"))
    /\ UNCHANGED <<callVars, answered, loopVars>>

Reads(t) == loop = "reading" /\ inbox # <<>> /\ Head(inbox).type = t /\ inbox' = Tail(inbox)

\* Mutant: the response goes to the lowest waiting call, not its own.
ReadResponse_ByOrder ==
    /\ Reads("response")
    /\ LET lowest == {e \in pending : \A f \in pending : e.id <= f.id}
           i == Head(inbox).id
       IN /\ pending' = IF i = 0 THEN pending ELSE pending \ lowest
          /\ reply' = [c \in Calls |->
                 IF i # 0 /\ Entry(c) \in lowest /\ call[c] = "waiting" THEN i ELSE reply[c]]
    /\ UNCHANGED <<nextId, call, id, asked, cancels, answered, loopVars>>

\* resolve: unknown ids are dropped; a receiver that gave up drops the answer.
ReadResponse ==
    /\ Reads("response")
    /\ LET i == Head(inbox).id
       IN /\ pending' = Without(i)
          /\ reply' = [c \in Calls |->
                 IF [id |-> i, call |-> c] \in pending /\ call[c] = "waiting" THEN i ELSE reply[c]]
    /\ UNCHANGED <<nextId, call, id, asked, cancels, answered, loopVars>>

ReadNote ==
    /\ Reads("note")
    /\ note' = "queued"
    /\ UNCHANGED <<callVars, answered, loop, writerDead>>

ReadShutdown ==
    /\ Reads("shutdown")
    /\ loop' = "draining"
    /\ UNCHANGED <<callVars, answered, note, writerDead>>

\* wait_for_notifications: every notification read so far has been handled.
CallShutdown ==
    /\ loop = "draining" /\ note \notin {"queued", "running"}
    /\ loop' = "shutting"
    /\ UNCHANGED <<callVars, peerVars, note, writerDead>>

ShutdownReturns ==
    /\ loop = "shutting"
    /\ \A c \in Calls : Caller[c] = "shutdown" => call[c] \notin InFlight
    /\ loop' = "reading"
    /\ UNCHANGED <<callVars, peerVars, note, writerDead>>

\* EOF, exit, the shutdown signal or the dead writer: seen only while reading.
CloseConnection ==
    /\ loop = "reading"
    /\ loop' = "closed" /\ inbox' = <<>>
    /\ UNCHANGED <<callVars, answered, note, writerDead>>

WriterFails ==
    /\ ~writerDead /\ writerDead' = TRUE
    /\ UNCHANGED <<callVars, peerVars, loop, note>>

RunNote ==
    /\ note = "queued"
    /\ note' = "running"
    /\ UNCHANGED <<callVars, peerVars, loop, writerDead>>

NoteReturns ==
    /\ note = "running"
    /\ \A c \in Calls : Caller[c] = "note" => call[c] \notin InFlight
    /\ note' = "done"
    /\ UNCHANGED <<callVars, peerVars, loop, writerDead>>

\* The connection is over and every call is: the task that served it is gone.
Terminated ==
    /\ loop = "closed" /\ \A c \in Calls : call[c] \notin InFlight
    /\ UNCHANGED vars

CallStep(c) ==
    \/ Register(c) \/ ParamsFail(c) \/ SendRequest(c) \/ SendRefused(c) \/ RollBack(c)
    \/ ReturnReply(c) \/ Expire(c) \/ ForgetExpired(c) \/ SendCancel(c)
LoopStep == ReadResponse \/ ReadNote \/ ReadShutdown \/ CallShutdown \/ ShutdownReturns
NoteStep == RunNote \/ NoteReturns

Next ==
    \/ \E c \in Calls : AllocateId(c) \/ CallStep(c) \/ Abort(c)
    \/ ClientAnswers \/ ClientSendsNullId \/ ClientNotifies \/ ClientShutsDown
    \/ LoopStep \/ NoteStep \/ CloseConnection \/ WriterFails \/ Terminated

Spec == Init /\ [][Next]_vars

\* Tasks that can run are run, the timer fires, a handler returns unless it
\* awaits a call, and teardown's aborts arrive.
FairSpec ==
    /\ Spec
    /\ \A c \in Calls : WF_vars(CallStep(c)) /\ WF_vars(loop = "closed" /\ Abort(c))
    /\ WF_vars(LoopStep) /\ WF_vars(NoteStep)

-----------------------------------------------------------------------------
(* Properties *)

TypeOK ==
    /\ nextId \in Nat \ {0}
    /\ pending \subseteq [id : Nat, call : Calls]
    /\ call \in [Calls -> {"idle"} \cup InFlight \cup Finished]
    /\ id \in [Calls -> Nat] /\ reply \in [Calls -> Nat]
    /\ asked \subseteq Nat \ {0} /\ cancels \subseteq Nat
    /\ inbox \in Seq([type : {"response", "note", "shutdown"}, id : Nat])
    /\ answered \in Nat
    /\ loop \in {"reading", "draining", "shutting", "closed"}
    /\ note \in {"none", "sent", "queued", "running", "done"}
    /\ writerDead \in BOOLEAN

\* A call is only ever given the response to its own request, whatever the
\* order in which the client answers, and however many calls share the Client.
RightAnswer ==
    \A c \in Calls : reply[c] # NoReply => reply[c] = id[c] /\ id[c] \in asked

\* Registering before sending, under ids that are never shared, means that the
\* answer of a waiting call always finds its entry: none is dropped as unknown.
WaitingIsReachable ==
    \A c \in Calls :
        call[c] \in {"registered", "waiting"} /\ reply[c] = NoReply => Entry(c) \in pending

\* A call that returned, by an answer, a refused send or a timeout, leaves no
\* entry behind; the entries that outlive their call belong to aborted ones.
NoEntryAfterReturn ==
    \A e \in pending :
        /\ id[e.call] = e.id
        /\ call[e.call] \in {"registered", "unsent", "waiting", "expired", "aborted"}

\* $/cancelRequest goes out only for a request that timed out, and after its
\* entry is gone: a response that crosses it changes nothing.
CancelAfterForget ==
    \A i \in cancels :
        /\ Without(i) = pending
        /\ \E c \in Calls : id[c] = i /\ call[c] = "timedout"

\* send_request_with_timeout always returns, whatever the client, the message
\* loop and the connection do.
TimedCallReturns ==
    \A c \in Timed : call[c] = "waiting" ~> call[c] \in Finished

\* A response that reached the loop while it reads is delivered: its call
\* returns, unless the loop stops reading for a shutdown or for good.
AnswerReturns ==
    \A c \in Calls :
        (\E k \in DOMAIN inbox : inbox[k] = Response(id[c])) /\ call[c] = "waiting" ~>
            call[c] \in Finished \/ loop # "reading"

\* The README's "without ever blocking the message loop: ... response delivery
\* stay responsive even mid-`didChange`": a response that arrived is read.
DeliveryStaysResponsive ==
    (\E k \in DOMAIN inbox : inbox[k].type = "response") ~>
        (\A k \in DOMAIN inbox : inbox[k].type # "response")

\* send_request's "a dropped connection becomes an internal error": once the
\* connection is gone no call keeps waiting.
DroppedConnectionEndsCall ==
    \A c \in Calls : loop = "closed" /\ call[c] = "waiting" ~> call[c] \in Finished
=============================================================================
