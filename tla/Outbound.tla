------------------------------ MODULE Outbound ------------------------------
(***************************************************************************)
(* The outbound queue shared by every handler, src/src/client.rs Outbound  *)
(* and ProgressGuard, with the writer task of src/src/server.rs: an        *)
(* unbounded channel beside an atomic depth counter that is updated in     *)
(* steps of its own, a limit checked against that counter, and a writer    *)
(* that batches whatever is queued.                                        *)
(***************************************************************************)
EXTENDS Naturals, Sequences, FiniteSets, SequencesExt

CONSTANTS
    Procs,           \* threads that send: handlers, the loop, background tasks
    OutLimit,        \* Server::with_outbound_queue_limit
    MaxSends         \* bound: sends each thread starts

ASSUME OutLimitAssumption == OutLimit \in Nat
ASSUME ProcsAssumption == IsFiniteSet(Procs)

VARIABLES
    depth,           \* Outbound.depth
    queue,           \* the mpsc channel
    pc, op,          \* each thread's place in Outbound::send_limited, and its message
    sends,           \* sends started by each thread
    progress,        \* each thread's work-done-progress sequence
    writer, batch,   \* the writer task and its buffer
    accepted, wire   \* history: messages the channel took; messages written

sendVars == <<pc, op, sends, progress>>
writerVars == <<writer, batch, wire>>
vars == <<depth, queue, sendVars, writerVars, accepted>>

\* Messages by how they are sent: responses owed to the peer, and Client
\* traffic, among it the two ends of a progress sequence.
Limited == {"notify", "begin", "end"}
Kinds == Limited \cup {"response"}
Message == [from : Procs, kind : Kinds]

Init ==
    /\ depth = 0 /\ queue = <<>>
    /\ pc = [p \in Procs |-> "idle"] /\ op = [p \in Procs |-> "notify"]
    /\ sends = [p \in Procs |-> 0]
    /\ progress = [p \in Procs |-> "none"]
    /\ writer = "recv" /\ batch = <<>>
    /\ accepted = <<>> /\ wire = <<>>

-----------------------------------------------------------------------------
(* Sending *)

\* begin_progress comes first; finish, or else the guard's Drop, comes once.
MayStart(p, k) ==
    /\ k = "begin" => progress[p] = "none"
    /\ k = "end" => progress[p] = "open"

\* Mutant: responses observe the cap as well.
StartSend_AllLimited(p, k) ==
    /\ pc[p] = "idle" /\ MayStart(p, k)
    /\ sends[p] < MaxSends \/ k = "end"
    /\ sends' = [sends EXCEPT ![p] = @ + 1]
    /\ op' = [op EXCEPT ![p] = k]
    /\ pc' = [pc EXCEPT ![p] = "checking"]
    /\ UNCHANGED <<depth, queue, progress, writerVars, accepted>>

\* A response goes straight to Outbound::send, the rest to send_limited.
StartSend(p, k) ==
    /\ pc[p] = "idle" /\ MayStart(p, k)
    /\ sends[p] < MaxSends \/ k = "end"
    /\ sends' = [sends EXCEPT ![p] = @ + 1]
    /\ op' = [op EXCEPT ![p] = k]
    /\ pc' = [pc EXCEPT ![p] = IF k \in Limited THEN "checking" ELSE "adding"]
    /\ UNCHANGED <<depth, queue, progress, writerVars, accepted>>

\* A send that fails: begin_progress hands out no guard, but an end is gone
\* with its guard (finish sets `finished` first, Drop ignores the error).
SendFails(p) ==
    /\ progress' = [progress EXCEPT ![p] = IF op[p] = "end" THEN "lost" ELSE @]
    /\ pc' = [pc EXCEPT ![p] = "idle"]
    /\ UNCHANGED <<op, sends>>

\* Mutant: off by one, the limit itself still passes.
PassLimit_OffByOne(p) ==
    /\ pc[p] = "checking" /\ depth <= OutLimit
    /\ pc' = [pc EXCEPT ![p] = "adding"]
    /\ UNCHANGED <<depth, queue, op, sends, progress, writerVars, accepted>>

\* send_limited: the load of the depth counter.
PassLimit(p) ==
    /\ pc[p] = "checking" /\ depth < OutLimit
    /\ pc' = [pc EXCEPT ![p] = "adding"]
    /\ UNCHANGED <<depth, queue, op, sends, progress, writerVars, accepted>>

RefuseAtLimit(p) ==
    /\ pc[p] = "checking" /\ depth >= OutLimit
    /\ SendFails(p)
    /\ UNCHANGED <<depth, queue, writerVars, accepted>>

\* send: depth.fetch_add, then tx.send.
AddDepth(p) ==
    /\ pc[p] = "adding"
    /\ depth' = depth + 1
    /\ pc' = [pc EXCEPT ![p] = "pushing"]
    /\ UNCHANGED <<queue, op, sends, progress, writerVars, accepted>>

Push(p) ==
    /\ pc[p] = "pushing" /\ writer # "failed"
    /\ queue' = Append(queue, [from |-> p, kind |-> op[p]])
    /\ accepted' = Append(accepted, [from |-> p, kind |-> op[p]])
    /\ progress' = [progress EXCEPT ![p] =
           CASE op[p] = "begin" -> "open" [] op[p] = "end" -> "ended" [] OTHER -> @]
    /\ pc' = [pc EXCEPT ![p] = "idle"]
    /\ UNCHANGED <<depth, op, sends, writerVars>>

\* The receiver died with the writer: the send fails, the depth stays counted.
PushClosed(p) ==
    /\ pc[p] = "pushing" /\ writer = "failed"
    /\ SendFails(p)
    /\ UNCHANGED <<depth, queue, writerVars, accepted>>

\* The thread drops its sender; an open guard is dropped (ended) before.
DropSender(p) ==
    /\ pc[p] = "idle" /\ progress[p] # "open"
    /\ pc' = [pc EXCEPT ![p] = "dropped"]
    /\ UNCHANGED <<depth, queue, op, sends, progress, writerVars, accepted>>

-----------------------------------------------------------------------------
(* The writer task *)

\* recv().await, then try_recv() until the channel is empty: one message...
Receive ==
    /\ writer \in {"recv", "draining"} /\ queue # <<>>
    /\ batch' = Append(batch, Head(queue)) /\ queue' = Tail(queue)
    /\ writer' = "counting"
    /\ UNCHANGED <<depth, sendVars, wire, accepted>>

\* Mutant: only the message that woke the writer is subtracted.
SubDepth_FirstOnly ==
    /\ writer = "counting"
    /\ depth' = IF Len(batch) = 1 THEN depth - 1 ELSE depth
    /\ writer' = "draining"
    /\ UNCHANGED <<queue, sendVars, batch, wire, accepted>>

\* ... and its depth.fetch_sub.
SubDepth ==
    /\ writer = "counting"
    /\ depth' = depth - 1
    /\ writer' = "draining"
    /\ UNCHANGED <<queue, sendVars, batch, wire, accepted>>

DrainedAll ==
    /\ writer = "draining" /\ queue = <<>>
    /\ writer' = "writing"
    /\ UNCHANGED <<depth, queue, sendVars, batch, wire, accepted>>

\* Mutant: the batch is not cleared for the next round.
Flush_NoClear ==
    /\ writer = "writing"
    /\ wire' = wire \o batch
    /\ writer' = "recv"
    /\ UNCHANGED <<depth, queue, batch, sendVars, accepted>>

\* write_all and flush.
Flush ==
    /\ writer = "writing"
    /\ wire' = wire \o batch /\ batch' = <<>>
    /\ writer' = "recv"
    /\ UNCHANGED <<depth, queue, sendVars, accepted>>

\* An encode, write or flush error ends the task and closes the channel.
WriteFails ==
    /\ writer = "writing"
    /\ \E n \in 0..Len(batch) : wire' = wire \o SubSeq(batch, 1, n)
    /\ batch' = <<>> /\ queue' = <<>>
    /\ writer' = "failed"
    /\ UNCHANGED <<depth, sendVars, accepted>>

\* recv() returns None.
WriterEnds ==
    /\ writer = "recv" /\ queue = <<>>
    /\ \A p \in Procs : pc[p] = "dropped"
    /\ writer' = "ended"
    /\ UNCHANGED <<depth, queue, sendVars, batch, wire, accepted>>

Terminated ==
    /\ writer \in {"ended", "failed"} /\ \A p \in Procs : pc[p] = "dropped"
    /\ UNCHANGED vars

SendStep(p) == PassLimit(p) \/ RefuseAtLimit(p) \/ AddDepth(p) \/ Push(p) \/ PushClosed(p)
WriterStep == Receive \/ SubDepth \/ DrainedAll \/ Flush \/ WriteFails \/ WriterEnds

Next ==
    \/ \E p \in Procs, k \in Kinds : StartSend(p, k)
    \/ \E p \in Procs : SendStep(p) \/ DropSender(p)
    \/ WriterStep \/ Terminated

Spec == Init /\ [][Next]_vars

\* A thread inside send runs on; the writer is scheduled and its pipe moves.
FairSpec == Spec /\ WF_vars(WriterStep) /\ \A p \in Procs : WF_vars(SendStep(p))

-----------------------------------------------------------------------------
(* Properties *)

Pushing == {p \in Procs : pc[p] = "pushing"}

TypeOK ==
    /\ depth \in Nat /\ queue \in Seq(Message) /\ batch \in Seq(Message)
    /\ pc \in [Procs -> {"idle", "checking", "adding", "pushing", "dropped"}]
    /\ op \in [Procs -> Kinds] /\ sends \in [Procs -> Nat]
    /\ progress \in [Procs -> {"none", "open", "ended", "lost"}]
    /\ writer \in {"recv", "counting", "draining", "writing", "failed", "ended"}
    /\ accepted \in Seq(Message) /\ wire \in Seq(Message)

\* The counter that guards the limit equals the channel's length plus the
\* operations under way, so it never underflows and never drifts, although
\* counter and channel change in separate steps of separate threads.
DepthExact ==
    writer # "failed" =>
        depth = Len(queue) + Cardinality(Pushing) + (IF writer = "counting" THEN 1 ELSE 0)

\* Client traffic in the channel.
QueuedTraffic == Cardinality({k \in DOMAIN queue : queue[k].kind \in Limited})
LimitedAt(place) == {p \in Procs : pc[p] = place /\ op[p] \in Limited}

\* with_outbound_queue_limit: "Cap how many outbound messages may sit unwritten".
\* The check and the add are not one step, so the cap may be overshot, but by
\* no more than the threads that can sit between them.
CapSlack ==
    OutLimit > 0 =>
        QueuedTraffic + Cardinality(LimitedAt("pushing")) + Cardinality(LimitedAt("adding"))
            <= OutLimit + Cardinality(Procs) - 1

\* Batching neither drops, duplicates nor reorders: what the channel took is
\* what was written, is being written or is queued, and a failed writer leaves
\* a prefix of it.
NothingLostOrReordered ==
    IF writer = "failed" THEN IsPrefix(wire, accepted)
                         ELSE wire \o batch \o queue = accepted

\* begin_progress: the guard "guarantees the matching end notification".
\* While the connection works no begun sequence loses its end.
EndGuaranteed == writer # "failed" => \A p \in Procs : progress[p] # "lost"

\* A response is never refused: once started it is written, full queue or not,
\* unless the writer fails.
ResponseWritten ==
    \A p \in Procs :
        pc[p] \in {"checking", "adding"} /\ op[p] = "response" ~>
            \/ writer = "failed"
            \/ \E k \in DOMAIN wire : wire[k] = [from |-> p, kind |-> "response"]

\* When every sender is gone the writer drains the channel and ends.
WriterTerminates ==
    (\A p \in Procs : pc[p] = "dropped") ~>
        writer \in {"ended", "failed"} /\ queue = <<>> /\ batch = <<>>
=============================================================================
