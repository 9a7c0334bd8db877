------------------------------ MODULE TestClient ------------------------------
(***************************************************************************)
(* The in-memory client of src/src/testing.rs, which an application's      *)
(* tests drive: reads happen only inside a call that waits for something,  *)
(* what arrives meanwhile is stashed, and a read that takes too long is    *)
(* given up.  The server is its environment: it answers what was asked and *)
(* sends messages of its own, in an order of its own.                      *)
(*                                                                         *)
(* A message is its place in `sent`; it is looked for by its kind and its  *)
(* key, the id of a response or the method of another.                     *)
(***************************************************************************)
EXTENDS Transport, FiniteSets

CONSTANTS
    Methods,         \* methods of the server's notifications and requests
    MaxRequests,     \* bound: requests the client makes
    MaxSent          \* bound: messages the server sends

ASSUME TestClientAssumption == MaxRequests \in Nat /\ MaxSent \in Nat

VARIABLES
    nextId,          \* requests made so far
    asked,           \* ids the server has not answered
    sent,            \* what the server sent
    unsent, pipe,    \* pieces not written yet, and written but not read
    closed,          \* the server's end is dropped
    call,            \* what the running call waits for, NoCall between calls
    read,            \* the future of read_message, dropped with the call
    stash,           \* TestClient.buffered
    returned,        \* messages handed to the test, in order
    torn             \* a read was given up in the middle of a frame

serverVars == <<asked, sent, unsent, closed>>
clientVars == <<nextId, call, read, stash, returned, torn>>
clientAndServer == <<serverVars, pipe, clientVars>>

NoCall == [kind |-> "none", key |-> 0]
Wants ==
    [kind : {"response"}, key : 1..MaxRequests]
    \cup [kind : {"notification", "request"}, key : Methods]

InitClient ==
    /\ nextId = 0 /\ asked = {} /\ sent = <<>> /\ unsent = <<>> /\ pipe = <<>>
    /\ closed = FALSE /\ call = NoCall /\ read = StartRead
    /\ stash = <<>> /\ returned = <<>> /\ torn = FALSE

-----------------------------------------------------------------------------
(* The server *)

SendMessage(message) ==
    /\ ~closed /\ Len(sent) < MaxSent
    /\ sent' = Append(sent, message)
    /\ unsent' = unsent \o Frame(Len(sent'))

Answer(id) ==
    /\ id \in asked
    /\ SendMessage([kind |-> "response", key |-> id])
    /\ asked' = asked \ {id}
    /\ UNCHANGED <<pipe, closed, clientVars>>

SendOwn(kind, method) ==
    /\ SendMessage([kind |-> kind, key |-> method])
    /\ UNCHANGED <<asked, pipe, closed, clientVars>>

\* Bytes arrive in the order written, in chunks of any size.
Transmit ==
    /\ unsent # <<>>
    /\ pipe' = Append(pipe, Head(unsent)) /\ unsent' = Tail(unsent)
    /\ UNCHANGED <<asked, sent, closed, clientVars>>

\* What was not written by then never is.
CloseServer ==
    /\ ~closed
    /\ closed' = TRUE /\ unsent' = <<>>
    /\ UNCHANGED <<asked, sent, pipe, clientVars>>

-----------------------------------------------------------------------------
(* The client *)

StartRequest ==
    /\ call = NoCall /\ nextId < MaxRequests
    /\ nextId' = nextId + 1
    /\ asked' = asked \cup {nextId'}
    /\ UNCHANGED <<sent, unsent, closed, pipe, call, read, stash, returned, torn>>

MatchesWant(n, want) == sent[n] = want

\* Mutant: the last one that matches.
StashedMatch_Last(want) == Max({i \in DOMAIN stash : MatchesWant(stash[i], want)})

\* The place of the first message in the stash that matches.
StashedMatch(want) == Min({i \in DOMAIN stash : MatchesWant(stash[i], want)})

HasStashed(want) == \E i \in DOMAIN stash : MatchesWant(stash[i], want)

\* response, recv_notification and recv_request: from the stash if it is there,
TakeStashed(want) ==
    /\ call = NoCall /\ HasStashed(want)
    /\ LET i == StashedMatch(want)
       IN /\ returned' = Append(returned, stash[i])
          /\ stash' = RemoveAt(stash, i)
    /\ UNCHANGED <<serverVars, pipe, nextId, call, read, torn>>

\* and off the wire otherwise.
BeginReading(want) ==
    /\ call = NoCall /\ ~HasStashed(want)
    /\ call' = want
    /\ UNCHANGED <<serverVars, pipe, nextId, read, stash, returned, torn>>

\* Mutant: a message nobody waits for is dropped.
Unmatched_Dropped(n) == stash

Unmatched(n) == Append(stash, n)

\* The future of the read takes what is there; the call returns the message it
\* waits for, stashes another, and fails with the read.
ReadNext ==
    /\ call # NoCall /\ pipe # <<>>
    /\ pipe' = Tail(pipe)
    /\ LET after == ReadPiece(read, Head(pipe))
           n == Head(pipe).of
           found == after.result = "message" /\ MatchesWant(n, call)
       IN /\ read' = IF after.result = "none" THEN after ELSE StartRead
          /\ returned' = IF found THEN Append(returned, n) ELSE returned
          /\ stash' = IF after.result = "message" /\ ~found THEN Unmatched(n) ELSE stash
          /\ call' = IF found \/ after.result = "error" THEN NoCall ELSE call
    /\ UNCHANGED <<serverVars, nextId, torn>>

\* The call fails, and what its read took off the wire is gone.
GiveUp ==
    /\ call' = NoCall /\ read' = StartRead
    /\ torn' = (torn \/ read.begun)
    /\ UNCHANGED <<serverVars, pipe, nextId, stash, returned>>

\* The time is up: the future is polled first, and is left with nothing to read.
ReadTimesOut == call # NoCall /\ pipe = <<>> /\ ~closed /\ GiveUp

\* "closed the connection", or closed in the middle of a frame.
ReadAtEof == call # NoCall /\ pipe = <<>> /\ closed /\ GiveUp

ClientNext ==
    \/ \E id \in asked : Answer(id)
    \/ \E kind \in {"notification", "request"}, method \in Methods : SendOwn(kind, method)
    \/ Transmit \/ CloseServer
    \/ StartRequest
    \/ \E want \in Wants : TakeStashed(want) \/ BeginReading(want)
    \/ ReadNext \/ ReadTimesOut \/ ReadAtEof

ClientSpec == InitClient /\ [][ClientNext]_clientAndServer

-----------------------------------------------------------------------------
(* Properties *)

\* "messages that arrive while waiting for something specific are buffered, not
\* lost" (testing.rs:38), as far as it goes: until a timeout or the end of the
\* stream tears a frame, what the client has read is what the server sent first,
\* each message handed out or kept once, and the rest is on the wire from there
\* on.  A torn frame costs messages, but none is ever handed out twice, and what
\* is kept stays in the order sent.
NothingLost ==
    LET n == Len(returned) + Len(stash)
        known == ToSet(returned) \cup ToSet(stash)
        onWire == pipe \o unsent
        taken == IF read.begun THEN 1..(Len(Parts) - 1) ELSE {0}
        left(k) == Len(Parts) * (Len(sent) - n) - k
        place(m, p) == Len(Parts) * (m - n - 1) + p
        continues(k) ==
            /\ Len(onWire) <= left(k) /\ (~closed => Len(onWire) = left(k))
            /\ \A m \in (n + 1)..Len(sent), p \in DOMAIN Parts :
                  place(m, p) - k \in DOMAIN onWire => onWire[place(m, p) - k] = Frame(m)[p]
    IN /\ Cardinality(known) = n
       /\ \A i, j \in DOMAIN stash : i < j => stash[i] < stash[j]
       /\ ~torn => known = 1..n /\ \E k \in taken : continues(k)

\* Messages of the same kind and key reach the test in the order the server
\* sent them, whether they came from the stash or off the wire, and none is
\* passed over unless a frame was torn.
OldestFirst ==
    \A i \in DOMAIN returned :
        LET alike == {n \in DOMAIN sent : sent[n] = sent[returned[i]]}
            before == {returned[j] : j \in 1..(i - 1)} \cap alike
        IN /\ \A n \in before : n < returned[i]
           /\ ~torn => before = {n \in alike : n < returned[i]}
=============================================================================
