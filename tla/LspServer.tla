------------------------------ MODULE LspServer ------------------------------
(***************************************************************************)
(* The runtime of one LSP connection, src/src/server.rs: the message loop, *)
(* the tasks it spawns for requests, the serialized notification worker,   *)
(* the permits that cap concurrent handlers, $/cancelRequest, the          *)
(* lifecycle messages, teardown, and the writer task.                      *)
(*                                                                         *)
(* A step is what one thread does between two points where another thread  *)
(* can matter: an await, a lock operation, a channel send.  Aborting a     *)
(* tokio task takes effect only when the task is at rest (waiting, not on  *)
(* a thread), so the phases of a task tell the two apart.                  *)
(*                                                                         *)
(* Payloads, methods and ids' values are abstracted to model values.  A    *)
(* handler that returns Ok, returns Err or panics goes through the same    *)
(* claim and send (CatchUnwind), so its outcome is not recorded.           *)
(***************************************************************************)
EXTENDS Naturals, Sequences, FiniteSets, SequencesExt

CONSTANTS
    Reqs,            \* request messages the client may send, one instance each
    Ids,             \* JSON-RPC ids it gives to feature requests
    NoReq, NoId,     \* "none" values
    MaxPermits,      \* Server::with_max_concurrent_requests
    OutLimit,        \* Server::with_outbound_queue_limit
    MaxNotes,        \* bound: notifications accepted in one connection
    PromptReuse      \* the client reuses an id as soon as it has its response

ASSUME NoReqAssumption == NoReq \notin Reqs
ASSUME NoIdAssumption == NoId \notin Ids
ASSUME BoundAssumption ==
    /\ MaxPermits \in Nat \ {0}
    /\ OutLimit \in Nat
    /\ MaxNotes \in Nat
    /\ PromptReuse \in BOOLEAN

VARIABLES
    \* the message loop (locals of run_loop)
    loop, cur, initialized, shutdownRequested, result,
    \* the requests: the shared map and the tasks
    inFlight, phase, idOf, watermark, token, aborted, dropped,
    \* the semaphore
    free, waiters,
    \* the notification worker
    notesEnqueued, notesTaken, notesDone, notesClosed, worker, workerAbort,
    \* the outbound channel and the writer
    outQ, batch, writer, delivered, replies,
    kept             \* the backend, or a task it spawned, keeps a Client

loopVars == <<loop, cur, initialized, shutdownRequested, result>>
taskVars == <<inFlight, phase, idOf, watermark, token, aborted, dropped>>
permitVars == <<free, waiters>>
noteVars == <<notesEnqueued, notesTaken, notesDone, notesClosed, worker, workerAbort>>
outVars == <<outQ, batch, writer, delivered, replies, kept>>
vars == <<loopVars, taskVars, permitVars, noteVars, outVars>>

-----------------------------------------------------------------------------
(* Phases *)

LoopPhase == {
    "select",                                \* the select! on the next message
    "inserting",                             \* spawned, entry not yet inserted
    "cancelling",                            \* entry removed, abort + reply to come
    "initializing",                          \* inside backend.initialize
    "awaitNotes", "shuttingDown",            \* inside the shutdown arm
    "draining", "grace", "joining", "done",  \* teardown and serve's epilogue
    "panicked"}                              \* an inline handler unwound serve

\* The loop still reads, or will read again.
Serving == loop \in {"select", "inserting", "cancelling", "initializing",
                     "awaitNotes", "shuttingDown"}

\* The loop thread is inside a critical section of the in_flight mutex.
LoopHoldsLock == loop \in {"inserting", "cancelling", "draining"}

\* A task's future is at rest in an await: an abort takes effect here only.
AtRest == {"ready", "permit", "suspended"}
\* ... or being polled by a thread.
OnThread == {"checking", "running", "outcome", "claimed"}
\* ... or gone (finished, or dropped by an abort).
Gone == {"finished", "aborted"}
TaskPhase == AtRest \cup OnThread \cup Gone
\* A request without a task: not sent yet, handled inside the loop, or
\* answered by the loop.
Phase == TaskPhase \cup {"unsent", "inline", "settled"}

\* The handler's code runs, or its result is still to be sent.
InHandler == {"running", "suspended", "outcome", "claimed"}
\* A permit is held: by a handler, or granted to a task not yet resumed.
Holders == {r \in Reqs : \/ phase[r] \in InHandler
                         \/ phase[r] = "permit" /\ ~\E k \in DOMAIN waiters : waiters[k] = r}

\* The arms of the match on a request's method.
RequestKind == {"initialize", "shutdown", "feature"}

WorkerGone == worker \in {"ended", "aborted"}

-----------------------------------------------------------------------------
\* The loop at its select!, nothing queued or running: the loop itself answered
\* the requests in used, and the worker has run so many notes.
Quiet(used, notes) ==
    /\ loop = "select" /\ cur = NoReq
    /\ shutdownRequested = FALSE /\ result = "none"
    /\ inFlight = [i \in Ids |-> NoReq]
    /\ phase = [r \in Reqs |-> IF r \in used THEN "settled" ELSE "unsent"]
    /\ idOf = [r \in Reqs |-> NoId]
    /\ watermark = [r \in Reqs |-> 0]
    /\ token = [r \in Reqs |-> FALSE]
    /\ aborted = [r \in Reqs |-> FALSE]
    /\ dropped = {}
    /\ free = MaxPermits /\ waiters = <<>>
    /\ notesEnqueued = notes /\ notesTaken = notes /\ notesDone = notes
    /\ notesClosed = FALSE /\ worker = "idle" /\ workerAbort = FALSE
    /\ outQ = <<>> /\ batch = <<>> /\ writer = "recv"
    /\ replies = [r \in Reqs |-> IF r \in used THEN 1 ELSE 0]
    /\ delivered = replies
    /\ kept = TRUE

Init == Quiet({}, 0) /\ initialized = FALSE

-----------------------------------------------------------------------------
(* Helpers *)

\* Outbound::send: a message enqueued after the writer failed is lost.
Enqueue(m) == outQ' = IF writer = "failed" THEN outQ ELSE Append(outQ, m)

\* Enqueue the response to r.
Reply(r) ==
    /\ Enqueue(r)
    /\ replies' = [replies EXCEPT ![r] = @ + 1]
    /\ UNCHANGED <<batch, writer, delivered, kept>>

\* The permit of a dropped OwnedSemaphorePermit goes to the longest waiter.
ReleasePermit ==
    IF waiters = <<>> THEN free' = free + 1 /\ UNCHANGED waiters
                      ELSE waiters' = Tail(waiters) /\ UNCHANGED free

\* Dropping a task's future gives back the permit or the place in the queue.
DropFuture(r) ==
    \/ /\ r \in Holders
       /\ ReleasePermit
    \/ \E k \in DOMAIN waiters :
          /\ waiters[k] = r
          /\ waiters' = RemoveAt(waiters, k) /\ UNCHANGED free
    \/ /\ phase[r] \notin InHandler \cup {"permit"}
       /\ UNCHANGED permitVars

\* The ids the client may put on its next request.  It may repeat an id that
\* is in flight (the server rejects it).  Otherwise, with PromptReuse it only
\* waits, as JSON-RPC demands, for the response to the id's previous use;
\* without, it also lets the previous use's task disappear first.
ClientMayUse(i) ==
    \A q \in Reqs : (idOf[q] = i /\ phase[q] \in TaskPhase) =>
        \/ inFlight[i] = q
        \/ phase[q] \in Gone
        \/ PromptReuse /\ delivered[q] > 0

-----------------------------------------------------------------------------
(* The message loop: one action per kind of message it reads *)

\* A body that is not valid JSON-RPC: reply with a parse error and no id.
\* (Bound: the model lets it happen only while the queue is short.)
ReadMalformed ==
    /\ loop = "select" /\ Len(outQ) < OutLimit
    /\ Enqueue(NoReq)
    /\ UNCHANGED <<batch, writer, delivered, replies, kept>>
    /\ UNCHANGED <<loopVars, taskVars, permitVars, noteVars>>

\* A request refused by the lifecycle: anything but `initialize` before
\* initialization, a second `initialize`, a feature request after `shutdown`.
RejectRequest(r, kind) ==
    /\ loop = "select" /\ phase[r] = "unsent"
    /\ \/ kind = "initialize" /\ initialized
       \/ kind # "initialize" /\ ~initialized
       \/ kind = "feature" /\ shutdownRequested
    /\ phase' = [phase EXCEPT ![r] = "settled"]
    /\ Reply(r)
    /\ UNCHANGED <<inFlight, idOf, watermark, token, aborted, dropped>>
    /\ UNCHANGED <<loopVars, permitVars, noteVars>>

\* spawn_request finds the id in flight.
RejectDuplicate(r, i) ==
    /\ loop = "select" /\ phase[r] = "unsent"
    /\ initialized /\ ~shutdownRequested
    /\ inFlight[i] # NoReq
    /\ ClientMayUse(i)
    /\ phase' = [phase EXCEPT ![r] = "settled"]
    /\ Reply(r)
    /\ UNCHANGED <<inFlight, idOf, watermark, token, aborted, dropped>>
    /\ UNCHANGED <<loopVars, permitVars, noteVars>>

\* spawn_request up to tokio::spawn: the lock is taken, the task exists and
\* may already run on another thread.
SpawnRequest(r, i) ==
    /\ loop = "select" /\ phase[r] = "unsent"
    /\ initialized /\ ~shutdownRequested
    /\ inFlight[i] = NoReq
    /\ ClientMayUse(i)
    /\ loop' = "inserting" /\ cur' = r
    /\ phase' = [phase EXCEPT ![r] = "ready"]
    /\ idOf' = [idOf EXCEPT ![r] = i]
    /\ watermark' = [watermark EXCEPT ![r] = notesEnqueued]
    /\ UNCHANGED <<initialized, shutdownRequested, result>>
    /\ UNCHANGED <<inFlight, token, aborted, dropped>>
    /\ UNCHANGED <<permitVars, noteVars, outVars>>

\* spawn_request: guard.insert, and the lock is released.
InsertEntry ==
    /\ loop = "inserting"
    /\ inFlight' = [inFlight EXCEPT ![idOf[cur]] = cur]
    /\ loop' = "select" /\ cur' = NoReq
    /\ UNCHANGED <<initialized, shutdownRequested, result>>
    /\ UNCHANGED <<phase, idOf, watermark, token, aborted, dropped>>
    /\ UNCHANGED <<permitVars, noteVars, outVars>>

\* Mutant: the entry stays in the map while its task is being aborted.
CancelRequest_KeepsEntry(i) ==
    /\ loop = "select"
    /\ inFlight[i] # NoReq
    /\ token' = [token EXCEPT ![inFlight[i]] = TRUE]
    /\ loop' = "cancelling" /\ cur' = inFlight[i]
    /\ UNCHANGED <<initialized, shutdownRequested, result>>
    /\ UNCHANGED <<inFlight, phase, idOf, watermark, aborted, dropped>>
    /\ UNCHANGED <<permitVars, noteVars, outVars>>

\* Mutant: the token is left alone.
CancelRequest_NoToken(i) ==
    /\ loop = "select"
    /\ inFlight[i] # NoReq
    /\ inFlight' = [inFlight EXCEPT ![i] = NoReq]
    /\ loop' = "cancelling" /\ cur' = inFlight[i]
    /\ UNCHANGED <<initialized, shutdownRequested, result>>
    /\ UNCHANGED <<phase, idOf, watermark, token, aborted, dropped>>
    /\ UNCHANGED <<permitVars, noteVars, outVars>>

\* $/cancelRequest for an id in flight: remove the entry, trip the token.
\* (For any other id the handler changes nothing.)
CancelRequest(i) ==
    /\ loop = "select"
    /\ inFlight[i] # NoReq
    /\ inFlight' = [inFlight EXCEPT ![i] = NoReq]
    /\ token' = [token EXCEPT ![inFlight[i]] = TRUE]
    /\ loop' = "cancelling" /\ cur' = inFlight[i]
    /\ UNCHANGED <<initialized, shutdownRequested, result>>
    /\ UNCHANGED <<phase, idOf, watermark, aborted, dropped>>
    /\ UNCHANGED <<permitVars, noteVars, outVars>>

\* ... then abort the task and send the cancellation error, lock still held.
AbortCancelled ==
    /\ loop = "cancelling"
    /\ aborted' = [aborted EXCEPT ![cur] = TRUE]
    /\ Reply(cur)
    /\ loop' = "select" /\ cur' = NoReq
    /\ UNCHANGED <<initialized, shutdownRequested, result>>
    /\ UNCHANGED <<inFlight, phase, idOf, watermark, token, dropped>>
    /\ UNCHANGED <<permitVars, noteVars>>

\* Any notification other than exit and $/cancelRequest.
EnqueueNotification ==
    /\ loop = "select" /\ initialized
    /\ notesEnqueued < MaxNotes
    /\ notesEnqueued' = notesEnqueued + 1
    /\ UNCHANGED <<notesTaken, notesDone, notesClosed, worker, workerAbort>>
    /\ UNCHANGED <<loopVars, taskVars, permitVars, outVars>>

\* The first `initialize`: the handler runs inside the loop.
StartInitialize(r) ==
    /\ loop = "select" /\ phase[r] = "unsent" /\ ~initialized
    /\ phase' = [phase EXCEPT ![r] = "inline"]
    /\ loop' = "initializing" /\ cur' = r
    /\ UNCHANGED <<initialized, shutdownRequested, result>>
    /\ UNCHANGED <<inFlight, idOf, watermark, token, aborted, dropped>>
    /\ UNCHANGED <<permitVars, noteVars, outVars>>

\* backend.initialize returns Ok (ok) or Err (bad params count as Err).
FinishInitialize(ok) ==
    /\ loop = "initializing"
    /\ initialized' = ok
    /\ phase' = [phase EXCEPT ![cur] = "settled"]
    /\ Reply(cur)
    /\ loop' = "select" /\ cur' = NoReq
    /\ UNCHANGED <<shutdownRequested, result>>
    /\ UNCHANGED <<inFlight, idOf, watermark, token, aborted, dropped>>
    /\ UNCHANGED <<permitVars, noteVars>>

\* `shutdown` after `initialize` (a repeated one is served again): the loop
\* itself waits for the notifications received so far.
StartShutdown(r) ==
    /\ loop = "select" /\ phase[r] = "unsent" /\ initialized
    /\ phase' = [phase EXCEPT ![r] = "inline"]
    /\ loop' = "awaitNotes" /\ cur' = r
    /\ UNCHANGED <<initialized, shutdownRequested, result>>
    /\ UNCHANGED <<inFlight, idOf, watermark, token, aborted, dropped>>
    /\ UNCHANGED <<permitVars, noteVars, outVars>>

\* Mutant: shutdown waits only until the last notification has been taken.
CallShutdown_OnTaken ==
    /\ loop = "awaitNotes"
    /\ notesTaken >= notesEnqueued \/ WorkerGone
    /\ loop' = "shuttingDown" /\ shutdownRequested' = TRUE
    /\ UNCHANGED <<cur, initialized, result>>
    /\ UNCHANGED <<taskVars, permitVars, noteVars, outVars>>

CallShutdown ==
    /\ loop = "awaitNotes"
    /\ notesDone >= notesEnqueued \/ WorkerGone
    /\ loop' = "shuttingDown" /\ shutdownRequested' = TRUE
    /\ UNCHANGED <<cur, initialized, result>>
    /\ UNCHANGED <<taskVars, permitVars, noteVars, outVars>>

\* backend.shutdown returned, Ok or Err: either is answered alike.
FinishShutdown ==
    /\ loop = "shuttingDown"
    /\ phase' = [phase EXCEPT ![cur] = "settled"]
    /\ Reply(cur)
    /\ loop' = "select" /\ cur' = NoReq
    /\ UNCHANGED <<initialized, shutdownRequested, result>>
    /\ UNCHANGED <<inFlight, idOf, watermark, token, aborted, dropped>>
    /\ UNCHANGED <<permitVars, noteVars>>

\* A panic in backend.initialize or backend.shutdown is not caught: run_loop
\* and serve unwind, note_tx drops, and no handler is aborted.
InlinePanic ==
    /\ loop \in {"initializing", "shuttingDown"}
    /\ loop' = "panicked" /\ cur' = NoReq
    /\ notesClosed' = TRUE
    /\ UNCHANGED <<initialized, shutdownRequested, result>>
    /\ UNCHANGED <<notesEnqueued, notesTaken, notesDone, worker, workerAbort>>
    /\ UNCHANGED <<taskVars, permitVars, outVars>>

-----------------------------------------------------------------------------
(* Leaving the loop, and teardown *)

\* The ways to leave the select!: `exit`, a clean end of the stream or the
\* external signal, a framing error, and the writer's death.
LeaveLoop(res) ==
    /\ loop = "select"
    /\ loop' = "draining" /\ result' = res
    /\ notesClosed' = TRUE
    /\ UNCHANGED <<cur, initialized, shutdownRequested>>
    /\ UNCHANGED <<notesEnqueued, notesTaken, notesDone, worker, workerAbort>>
    /\ UNCHANGED <<taskVars, permitVars, outVars>>

ReadExit == LeaveLoop(IF shutdownRequested THEN "ok" ELSE "error")
ReadEof == LeaveLoop("ok")
ShutdownSignal == LeaveLoop("ok")
FramingError == LeaveLoop("error")
\* Mutant: the write side's failure is noticed only when `exit` is near.
WriterDead_Ignored == writer = "failed" /\ shutdownRequested /\ LeaveLoop("error")

WriterDead == writer = "failed" /\ LeaveLoop("error")

\* Mutant: teardown trips the tokens but aborts no task.
DrainEntry_NoAbort(i) ==
    /\ loop = "draining"
    /\ inFlight[i] # NoReq
    /\ token' = [token EXCEPT ![inFlight[i]] = TRUE]
    /\ dropped' = dropped \cup {inFlight[i]}
    /\ inFlight' = [inFlight EXCEPT ![i] = NoReq]
    /\ UNCHANGED <<phase, idOf, watermark, aborted>>
    /\ UNCHANGED <<loopVars, permitVars, noteVars, outVars>>

\* One turn of `for (_, entry) in lock(&in_flight).drain()`.
DrainEntry(i) ==
    /\ loop = "draining"
    /\ inFlight[i] # NoReq
    /\ token' = [token EXCEPT ![inFlight[i]] = TRUE]
    /\ aborted' = [aborted EXCEPT ![inFlight[i]] = TRUE]
    /\ dropped' = dropped \cup {inFlight[i]}
    /\ inFlight' = [inFlight EXCEPT ![i] = NoReq]
    /\ UNCHANGED <<phase, idOf, watermark>>
    /\ UNCHANGED <<loopVars, permitVars, noteVars, outVars>>

\* The map is empty and its lock released; wait for the worker.
EndDrain ==
    /\ loop = "draining"
    /\ \A i \in Ids : inFlight[i] = NoReq
    /\ loop' = "grace"
    /\ UNCHANGED <<cur, initialized, shutdownRequested, result>>
    /\ UNCHANGED <<taskVars, permitVars, noteVars, outVars>>

\* teardown_grace elapses first.
GraceExpires ==
    /\ loop = "grace" /\ ~WorkerGone /\ ~workerAbort
    /\ workerAbort' = TRUE
    /\ UNCHANGED <<notesEnqueued, notesTaken, notesDone, notesClosed, worker>>
    /\ UNCHANGED <<loopVars, taskVars, permitVars, outVars>>

\* The worker is gone, run_loop returns and drops its senders.
ReturnFromLoop ==
    /\ loop = "grace" /\ WorkerGone
    /\ loop' = "joining"
    /\ UNCHANGED <<cur, initialized, shutdownRequested, result>>
    /\ UNCHANGED <<taskVars, permitVars, noteVars, outVars>>

\* serve: writer_task.await, whose error takes precedence.
JoinWriter ==
    /\ loop = "joining" /\ writer \in {"ended", "failed"}
    /\ loop' = "done"
    /\ result' = IF writer = "failed" THEN "error" ELSE result
    /\ UNCHANGED <<cur, initialized, shutdownRequested>>
    /\ UNCHANGED <<taskVars, permitVars, noteVars, outVars>>

-----------------------------------------------------------------------------
(* The task of request r *)

\* A worker thread polls the task, unless it has been aborted meanwhile.
PollTask(r) ==
    /\ phase[r] = "ready" /\ ~aborted[r]
    /\ phase' = [phase EXCEPT ![r] = "checking"]
    /\ UNCHANGED <<inFlight, idOf, watermark, token, aborted, dropped>>
    /\ UNCHANGED <<loopVars, permitVars, noteVars, outVars>>

\* wait_for_notifications: pending below the watermark (and gives up when the
\* worker is gone); past it, the same poll tries for a permit.
WaitForNotifications(r) ==
    /\ phase[r] = "checking"
    /\ notesDone < watermark[r] /\ ~WorkerGone
    /\ phase' = [phase EXCEPT ![r] = "ready"]
    /\ UNCHANGED <<inFlight, idOf, watermark, token, aborted, dropped>>
    /\ UNCHANGED <<loopVars, permitVars, noteVars, outVars>>

\* Mutant: the watermark compares with the notification last taken.
AcquirePermit_OnTaken(r) ==
    /\ phase[r] = "checking"
    /\ notesTaken >= watermark[r] \/ WorkerGone
    /\ \/ /\ free > 0
          /\ free' = free - 1 /\ UNCHANGED waiters
          /\ phase' = [phase EXCEPT ![r] = "running"]
       \/ /\ free = 0
          /\ waiters' = Append(waiters, r) /\ UNCHANGED free
          /\ phase' = [phase EXCEPT ![r] = "permit"]
    /\ UNCHANGED <<inFlight, idOf, watermark, token, aborted, dropped>>
    /\ UNCHANGED <<loopVars, noteVars, outVars>>

\* Mutant: `let _ =` in place of `let _permit =` drops the permit at once.
AcquirePermit_NotHeld(r) ==
    /\ phase[r] = "checking"
    /\ notesDone >= watermark[r] \/ WorkerGone
    /\ free > 0
    /\ phase' = [phase EXCEPT ![r] = "running"]
    /\ UNCHANGED <<inFlight, idOf, watermark, token, aborted, dropped>>
    /\ UNCHANGED <<loopVars, permitVars, noteVars, outVars>>

\* Mutant: a permit is taken without looking whether one is free.
AcquirePermit_Unchecked(r) ==
    /\ phase[r] = "checking"
    /\ notesDone >= watermark[r] \/ WorkerGone
    /\ free' = free - 1
    /\ phase' = [phase EXCEPT ![r] = "running"]
    /\ UNCHANGED <<inFlight, idOf, watermark, token, aborted, dropped, waiters>>
    /\ UNCHANGED <<loopVars, noteVars, outVars>>

AcquirePermit(r) ==
    /\ phase[r] = "checking"
    /\ notesDone >= watermark[r] \/ WorkerGone
    /\ \/ /\ free > 0
          /\ free' = free - 1 /\ UNCHANGED waiters
          /\ phase' = [phase EXCEPT ![r] = "running"]
       \/ /\ free = 0
          /\ waiters' = Append(waiters, r) /\ UNCHANGED free
          /\ phase' = [phase EXCEPT ![r] = "permit"]
    /\ UNCHANGED <<inFlight, idOf, watermark, token, aborted, dropped>>
    /\ UNCHANGED <<loopVars, noteVars, outVars>>

\* A task that was granted a permit while queued is polled again.
ResumeWithPermit(r) ==
    /\ phase[r] = "permit" /\ r \in Holders /\ ~aborted[r]
    /\ phase' = [phase EXCEPT ![r] = "running"]
    /\ UNCHANGED <<inFlight, idOf, watermark, token, aborted, dropped>>
    /\ UNCHANGED <<loopVars, permitVars, noteVars, outVars>>

\* The handler reaches an await, and is later polled again.
HandlerSuspends(r) ==
    /\ phase[r] = "running"
    /\ phase' = [phase EXCEPT ![r] = "suspended"]
    /\ UNCHANGED <<inFlight, idOf, watermark, token, aborted, dropped>>
    /\ UNCHANGED <<loopVars, permitVars, noteVars, outVars>>

HandlerResumes(r) ==
    /\ phase[r] = "suspended" /\ ~aborted[r]
    /\ phase' = [phase EXCEPT ![r] = "running"]
    /\ UNCHANGED <<inFlight, idOf, watermark, token, aborted, dropped>>
    /\ UNCHANGED <<loopVars, permitVars, noteVars, outVars>>

\* dispatch_request returns, or its panic is caught by CatchUnwind.
HandlerReturns(r) ==
    /\ phase[r] = "running"
    /\ phase' = [phase EXCEPT ![r] = "outcome"]
    /\ UNCHANGED <<inFlight, idOf, watermark, token, aborted, dropped>>
    /\ UNCHANGED <<loopVars, permitVars, noteVars, outVars>>

\* The claim: take the entry under r's id out of the map, whoever owns it.
ClaimEntry(r) ==
    /\ phase[r] = "outcome" /\ ~LoopHoldsLock
    /\ inFlight[idOf[r]] # NoReq
    /\ inFlight' = [inFlight EXCEPT ![idOf[r]] = NoReq]
    /\ phase' = [phase EXCEPT ![r] = "claimed"]
    /\ UNCHANGED <<idOf, watermark, token, aborted, dropped>>
    /\ UNCHANGED <<loopVars, permitVars, noteVars, outVars>>

\* Mutant: the claim does not contend for the lock held around the insert.
ClaimFails_NoLock(r) ==
    /\ phase[r] = "outcome"
    /\ inFlight[idOf[r]] = NoReq
    /\ phase' = [phase EXCEPT ![r] = "finished"]
    /\ DropFuture(r)
    /\ UNCHANGED <<inFlight, idOf, watermark, token, aborted, dropped>>
    /\ UNCHANGED <<loopVars, noteVars, outVars>>

\* The entry is gone: end silently.
ClaimFails(r) ==
    /\ phase[r] = "outcome" /\ ~LoopHoldsLock
    /\ inFlight[idOf[r]] = NoReq
    /\ phase' = [phase EXCEPT ![r] = "finished"]
    /\ DropFuture(r)
    /\ UNCHANGED <<inFlight, idOf, watermark, token, aborted, dropped>>
    /\ UNCHANGED <<loopVars, noteVars, outVars>>

SendResponse(r) ==
    /\ phase[r] = "claimed"
    /\ phase' = [phase EXCEPT ![r] = "finished"]
    /\ Reply(r)
    /\ DropFuture(r)
    /\ UNCHANGED <<inFlight, idOf, watermark, token, aborted, dropped>>
    /\ UNCHANGED <<loopVars, noteVars>>

\* The executor drops the future of an aborted task that is at rest.
ReapTask(r) ==
    /\ aborted[r] /\ phase[r] \in AtRest
    /\ phase' = [phase EXCEPT ![r] = "aborted"]
    /\ DropFuture(r)
    /\ UNCHANGED <<inFlight, idOf, watermark, token, aborted, dropped>>
    /\ UNCHANGED <<loopVars, noteVars, outVars>>

-----------------------------------------------------------------------------
(* The notification worker *)

TakeNote ==
    /\ worker = "idle" /\ notesTaken < notesEnqueued
    /\ worker' = "running" /\ notesTaken' = notesTaken + 1
    /\ UNCHANGED <<notesEnqueued, notesDone, notesClosed, workerAbort>>
    /\ UNCHANGED <<loopVars, taskVars, permitVars, outVars>>

NoteSuspends ==
    /\ worker = "running"
    /\ worker' = "suspended"
    /\ UNCHANGED <<notesEnqueued, notesTaken, notesDone, notesClosed, workerAbort>>
    /\ UNCHANGED <<loopVars, taskVars, permitVars, outVars>>

NoteResumes ==
    /\ worker = "suspended" /\ ~workerAbort
    /\ worker' = "running"
    /\ UNCHANGED <<notesEnqueued, notesTaken, notesDone, notesClosed, workerAbort>>
    /\ UNCHANGED <<loopVars, taskVars, permitVars, outVars>>

\* notes_done_tx.send(note.seq), after a return or a caught panic.
NoteDone ==
    /\ worker = "running"
    /\ worker' = "idle" /\ notesDone' = notesTaken
    /\ UNCHANGED <<notesEnqueued, notesTaken, notesClosed, workerAbort>>
    /\ UNCHANGED <<loopVars, taskVars, permitVars>>

NoteReturns == NoteDone /\ UNCHANGED outVars

\* Mutant: the watermark is not advanced past a notification that panicked.
NotePanics_NoWatermark ==
    /\ worker = "running"
    /\ worker' = "idle"
    /\ UNCHANGED <<notesEnqueued, notesTaken, notesDone, notesClosed, workerAbort>>
    /\ UNCHANGED <<loopVars, taskVars, permitVars>>
    /\ IF Len(outQ) < OutLimit THEN Enqueue(NoReq) ELSE UNCHANGED outQ
    /\ UNCHANGED <<batch, writer, delivered, replies, kept>>

\* A panic is first reported by a window/logMessage, dropped at the limit.
NotePanics ==
    /\ NoteDone
    /\ IF Len(outQ) < OutLimit THEN Enqueue(NoReq) ELSE UNCHANGED outQ
    /\ UNCHANGED <<batch, writer, delivered, replies, kept>>

\* recv() returns None: note_tx is gone and the queue is empty.
WorkerEnds ==
    /\ worker = "idle" /\ notesClosed /\ notesTaken = notesEnqueued
    /\ worker' = "ended"
    /\ UNCHANGED <<notesEnqueued, notesTaken, notesDone, notesClosed, workerAbort>>
    /\ UNCHANGED <<loopVars, taskVars, permitVars, outVars>>

WorkerAborted ==
    /\ workerAbort /\ worker \in {"idle", "suspended"}
    /\ worker' = "aborted"
    /\ UNCHANGED <<notesEnqueued, notesTaken, notesDone, notesClosed, workerAbort>>
    /\ UNCHANGED <<loopVars, taskVars, permitVars, outVars>>

-----------------------------------------------------------------------------
(* The backend's own Clients, each with a clone of the outbound sender *)

\* The loop, the worker and the task futures are gone, with their senders and
\* their references to the backend.
HandlersGone ==
    /\ loop \in {"joining", "done", "panicked"}
    /\ WorkerGone
    /\ \A r \in Reqs : phase[r] \notin AtRest \cup OnThread

\* The last Client is dropped: with the backend if nothing else has one, and
\* else when the last task the backend spawned with one ends.
LastClientDropped ==
    /\ HandlersGone /\ kept
    /\ kept' = FALSE
    /\ UNCHANGED <<outQ, batch, writer, delivered, replies>>
    /\ UNCHANGED <<loopVars, taskVars, permitVars, noteVars>>

-----------------------------------------------------------------------------
(* The writer task *)

\* Mutant: the tasks' clones of the sender are forgotten.
SendersGone_LoopOnly == loop \in {"joining", "done", "panicked"} /\ WorkerGone

\* Every clone of the outbound sender is gone.
SendersGone == HandlersGone /\ ~kept

\* Mutant: the drain keeps only the message that woke the writer.
WriterTakes_FirstOnly ==
    /\ writer = "recv" /\ outQ # <<>>
    /\ batch' = <<Head(outQ)>> /\ outQ' = <<>> /\ writer' = "writing"
    /\ UNCHANGED <<delivered, replies, kept>>
    /\ UNCHANGED <<loopVars, taskVars, permitVars, noteVars>>

\* recv() and the try_recv drain: everything queued becomes one batch.
WriterTakes ==
    /\ writer = "recv" /\ outQ # <<>>
    /\ batch' = outQ /\ outQ' = <<>> /\ writer' = "writing"
    /\ UNCHANGED <<delivered, replies, kept>>
    /\ UNCHANGED <<loopVars, taskVars, permitVars, noteVars>>

Occurrences(s, r) == Cardinality({k \in DOMAIN s : s[k] = r})

\* write_all and flush succeed.
WriterFlushes ==
    /\ writer = "writing"
    /\ delivered' = [r \in Reqs |-> delivered[r] + Occurrences(batch, r)]
    /\ batch' = <<>> /\ writer' = "recv"
    /\ UNCHANGED <<outQ, replies, kept>>
    /\ UNCHANGED <<loopVars, taskVars, permitVars, noteVars>>

\* An i/o error, after some prefix got through: out_rx drops with the task.
WriterFails ==
    /\ writer = "writing"
    /\ \E n \in 0..Len(batch) :
          delivered' = [r \in Reqs |->
                            delivered[r] + Occurrences(SubSeq(batch, 1, n), r)]
    /\ batch' = <<>> /\ outQ' = <<>> /\ writer' = "failed"
    /\ UNCHANGED <<replies, kept>>
    /\ UNCHANGED <<loopVars, taskVars, permitVars, noteVars>>

WriterEnds ==
    /\ writer = "recv" /\ outQ = <<>> /\ SendersGone
    /\ writer' = "ended"
    /\ UNCHANGED <<outQ, batch, delivered, replies, kept>>
    /\ UNCHANGED <<loopVars, taskVars, permitVars, noteVars>>

\* The connection is over: serve has returned or unwound, and every task of
\* the framework has ended.
Terminated ==
    /\ loop \in {"done", "panicked"} /\ writer \in {"ended", "failed"} /\ WorkerGone
    /\ \A r \in Reqs : phase[r] \notin AtRest \cup OnThread
    /\ UNCHANGED vars

-----------------------------------------------------------------------------
\* What the editor decides: which message arrives, when the stream ends.
ReadNext ==
    \/ ReadMalformed \/ EnqueueNotification
    \/ \E r \in Reqs, kind \in RequestKind : RejectRequest(r, kind)
    \/ \E r \in Reqs : StartInitialize(r) \/ StartShutdown(r)
    \/ \E r \in Reqs, i \in Ids : RejectDuplicate(r, i) \/ SpawnRequest(r, i)
    \/ \E i \in Ids : CancelRequest(i)
    \/ ReadExit \/ ReadEof \/ FramingError \/ ShutdownSignal

\* What the loop does on its own.
LoopNext ==
    \/ InsertEntry \/ AbortCancelled
    \/ \E ok \in BOOLEAN : FinishInitialize(ok)
    \/ CallShutdown \/ FinishShutdown
    \/ WriterDead
    \/ \E i \in Ids : DrainEntry(i)
    \/ EndDrain \/ ReturnFromLoop \/ JoinWriter

TaskNext(r) ==
    \/ PollTask(r) \/ WaitForNotifications(r) \/ AcquirePermit(r) \/ ResumeWithPermit(r)
    \/ HandlerSuspends(r) \/ HandlerResumes(r) \/ HandlerReturns(r)
    \/ ClaimEntry(r) \/ ClaimFails(r) \/ SendResponse(r) \/ ReapTask(r)

WorkerNext ==
    \/ TakeNote \/ NoteSuspends \/ NoteResumes \/ NoteReturns \/ NotePanics
    \/ WorkerEnds \/ WorkerAborted

WriterNext == WriterTakes \/ WriterFlushes \/ WriterFails \/ WriterEnds

Next ==
    \/ ReadNext \/ LoopNext \/ InlinePanic \/ GraceExpires
    \/ \E r \in Reqs : TaskNext(r)
    \/ WorkerNext \/ LastClientDropped \/ WriterNext \/ Terminated

Spec == Init /\ [][Next]_vars

\* What the tokio scheduler gives: a task that can run is run, a handler that
\* is on a thread eventually returns or awaits, the grace timer fires, and the
\* editor's end of the pipe eventually accepts or refuses a write.
SchedulerFairness ==
    /\ WF_vars(LoopNext) /\ WF_vars(GraceExpires)
    /\ \A r \in Reqs : WF_vars(TaskNext(r))
    /\ WF_vars(WorkerNext) /\ WF_vars(WriterNext)

\* The backend's handlers do not await forever: the premise of the liveness
\* properties that speak of answers.
HandlersReturn ==
    /\ \A r \in Reqs : SF_vars(HandlerReturns(r))
    /\ SF_vars(NoteReturns \/ NotePanics)

\* The tasks that the backend spawned with a Client of their own end: the
\* premise of the liveness property that speaks of teardown.
BackgroundTasksEnd == WF_vars(LastClientDropped)

\* The same from two points after `initialize`: with the notes still to come
\* and one request used up by it, and with the notes run and every request
\* left to compete for the permits.
InitAfterInitialize ==
    /\ initialized = TRUE
    /\ (\E r \in Reqs : Quiet({r}, 0)) \/ Quiet({}, MaxNotes)
FairAfterInitialize == InitAfterInitialize /\ [][Next]_vars /\ SchedulerFairness

-----------------------------------------------------------------------------
(* Safety *)

LoopTypeOK ==
    /\ loop \in LoopPhase /\ cur \in Reqs \cup {NoReq}
    /\ initialized \in BOOLEAN /\ shutdownRequested \in BOOLEAN
    /\ result \in {"none", "ok", "error"}

TaskTypeOK ==
    /\ inFlight \in [Ids -> Reqs \cup {NoReq}]
    /\ phase \in [Reqs -> Phase]
    /\ idOf \in [Reqs -> Ids \cup {NoId}]
    /\ watermark \in [Reqs -> Nat]
    /\ token \in [Reqs -> BOOLEAN] /\ aborted \in [Reqs -> BOOLEAN]
    /\ dropped \in SUBSET Reqs

PermitTypeOK == free \in Nat /\ waiters \in Seq(Reqs)

NoteTypeOK ==
    /\ notesEnqueued \in Nat /\ notesTaken \in Nat /\ notesDone \in Nat
    /\ notesClosed \in BOOLEAN /\ workerAbort \in BOOLEAN
    /\ worker \in {"idle", "running", "suspended", "ended", "aborted"}

OutTypeOK ==
    /\ outQ \in Seq(Reqs \cup {NoReq}) /\ batch \in Seq(Reqs \cup {NoReq})
    /\ writer \in {"recv", "writing", "failed", "ended"}
    /\ delivered \in [Reqs -> Nat] /\ replies \in [Reqs -> Nat]
    /\ kept \in BOOLEAN

\* Every variable stays in its type.
TypeOK == LoopTypeOK /\ TaskTypeOK /\ PermitTypeOK /\ NoteTypeOK /\ OutTypeOK

\* Who owes or has given the answer of an accepted request r: its map entry
\* (with the task alive to claim it),
\* the loop about to insert it, the cancellation in progress, the task that
\* claimed it, the answer itself, or the teardown that dropped it.
Places == {"entry", "inserting", "cancelling", "claimed", "answered", "dropped"}
At(p, r) ==
    CASE p = "entry" -> inFlight[idOf[r]] = r /\ phase[r] \notin Gone
      [] p = "inserting" -> loop = "inserting" /\ cur = r
      [] p = "cancelling" -> loop = "cancelling" /\ cur = r
      [] p = "claimed" -> phase[r] = "claimed"
      [] p = "answered" -> replies[r] > 0
      [] p = "dropped" -> r \in dropped

\* The doc of spawn_request: "guaranteeing a request is answered exactly once".
\* No request ever gets a second answer, whichever of its task, a
\* cancellation and a rejection races.
AtMostOneAnswer == \A r \in Reqs : replies[r] <= 1

\* The duty to answer an accepted request is never lost and never duplicated:
\* it is in exactly one place at any time.
DutyInOnePlace ==
    /\ AtMostOneAnswer
    /\ \A r \in Reqs : phase[r] \in TaskPhase =>
           \E p \in Places : At(p, r) /\ \A q \in Places : At(q, r) => q = p

\* The strengthening that makes DutyInOnePlace inductive.  A request whose
\* answer is still owed by its entry or by the loop has a live, unclaimed task:
Owes(r) ==
    /\ phase[r] \in (AtRest \cup OnThread) \ {"claimed"}
    /\ replies[r] = 0 /\ r \notin dropped /\ ~aborted[r]

\* every entry is filed under its request's id;
EntriesOwe ==
    \A i \in Ids : inFlight[i] # NoReq => idOf[inFlight[i]] = i /\ Owes(inFlight[i])

\* the loop, while it holds the lock for one request, holds the only claim;
LoopOwes ==
    /\ loop \in {"inserting", "cancelling"} =>
           /\ cur \in Reqs /\ idOf[cur] \in Ids
           /\ Owes(cur) /\ inFlight[idOf[cur]] = NoReq
    /\ loop \in {"initializing", "awaitNotes", "shuttingDown"} =>
           cur \in Reqs /\ phase[cur] = "inline"

\* two live tasks never share an id, so a task claims no entry but its own;
IdsNotShared ==
    \A r, q \in Reqs :
        /\ phase[r] \in AtRest \cup OnThread
        /\ phase[q] \in AtRest \cup OnThread
        /\ idOf[r] = idOf[q]
        => r = q

\* and what each phase says of the answers given so far.
PhaseAnswers ==
    \A r \in Reqs :
        /\ phase[r] \in TaskPhase => idOf[r] \in Ids
        /\ phase[r] \in {"unsent", "inline", "claimed"} =>
               replies[r] = 0 /\ r \notin dropped /\ ~aborted[r]
        /\ replies[r] > 0 => replies[r] = 1 /\ r \notin dropped
        /\ phase[r] \in TaskPhase =>
               \/ inFlight[idOf[r]] = r
               \/ loop \in {"inserting", "cancelling"} /\ cur = r
               \/ phase[r] = "claimed" \/ replies[r] > 0 \/ r \in dropped

\* The inductive invariant behind "answered exactly once": an answer is owed
\* by at most one party, and only a task's own entry can be claimed by it.
AnswerInv == EntriesOwe /\ LoopOwes /\ IdsNotShared /\ PhaseAnswers

\* A request handler observes every notification received before it; one that
\* could start without (the worker died in teardown) can no longer answer.
ObservesEarlierNotes ==
    \A r \in Reqs : phase[r] \in InHandler /\ notesDone < watermark[r] =>
        /\ aborted[r] /\ phase[r] # "claimed"
        /\ inFlight[idOf[r]] # r /\ ~(loop = "cancelling" /\ cur = r)

\* No permit is lost or forged by an abort, whether it hits a queued task, a
\* task granted but not resumed, or a handler; none idles while a task waits
\* for it, and no task queues twice.
PermitsConserved ==
    /\ free + Cardinality(Holders) = MaxPermits
    /\ free > 0 => waiters = <<>>
    /\ \A k \in DOMAIN waiters : phase[waiters[k]] = "permit"
    /\ \A j, k \in DOMAIN waiters : waiters[j] = waiters[k] => j = k

\* The shutdown handler runs after every notification received before it.
ShutdownSeesNotes == loop = "shuttingDown" => notesDone = notesEnqueued

\* serve returns Ok only after every answer any task produced is on the wire,
\* and no task can produce another.
FlushedOnSuccess ==
    loop = "done" /\ result = "ok" =>
        /\ \A r \in Reqs : delivered[r] = replies[r]
        /\ \A r \in Reqs : phase[r] \notin AtRest \cup OnThread

\* "Trip the cooperative token first": a task is aborted only with its token
\* tripped, and only once its entry can no longer be claimed by it.
AbortedAfterToken ==
    \A r \in Reqs : aborted[r] => token[r] /\ inFlight[idOf[r]] # r

-----------------------------------------------------------------------------
(* Refinement: the promise of RequestReply *)

StatusBar == [r \in Reqs |->
    CASE phase[r] = "unsent" -> "new"
      [] phase[r] # "unsent" /\ replies[r] > 0 -> "answered"
      [] phase[r] # "unsent" /\ replies[r] = 0 /\ r \in dropped -> "abandoned"
      [] OTHER -> "open"]

Promise == INSTANCE RequestReply WITH
    status <- StatusBar, answers <- replies, closing <- ~Serving

\* Each request is opened and answered at most once, and abandoned only by a
\* closing connection.
ImplementsRequestReply == Promise!RRSpec

-----------------------------------------------------------------------------
(* Liveness *)

\* Teardown completes although handlers may never return, as the grace period
\* promises ("must not keep the process alive indefinitely"), if the tasks that
\* the backend spawned end: serve waits for the last Client they keep, and
\* neither an abort nor the grace period reaches them.
TeardownCompletes == BackgroundTasksEnd => (loop = "draining" ~> loop = "done")

\* If handlers return, an accepted request is answered, or dropped by teardown,
\* through the watermark, the permit queue and every abort around it.
AcceptedIsSettled ==
    HandlersReturn =>
        \A r \in Reqs : phase[r] \in TaskPhase ~> replies[r] > 0 \/ r \in dropped

\* If handlers return, an answer that was produced reaches the wire unless the
\* writer fails: the loop or a task cannot keep the writer from it.
AnswerIsDelivered ==
    HandlersReturn =>
        \A r \in Reqs : replies[r] > 0 ~> delivered[r] > 0 \/ writer = "failed"

\* If handlers return, a dead writer ends the connection ("serving on would be
\* a zombie phase"), whatever the loop was doing when it died.
WriterFailureEndsServe ==
    HandlersReturn => (writer = "failed" ~> loop \in {"done", "panicked"})
=============================================================================
