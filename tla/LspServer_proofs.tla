--------------------------- MODULE LspServer_proofs ---------------------------
(***************************************************************************)
(* Proofs about LspServer for every number of requests, ids, permits and   *)
(* notifications: type correctness, that no request is answered twice, and *)
(* that no permit is lost or forged, for queues of any length and aborts   *)
(* at any place in them.                                                   *)
(*                                                                         *)
(* Then about the order it keeps: handlers after the notifications before  *)
(* them, tokens before aborts, and every answer written before serve       *)
(* returns Ok.  And that LspServer implements RequestReply: each of its    *)
(* steps opens, answers or abandons one request, begins to close the       *)
(* connection, or changes nothing that the editor is promised.             *)
(***************************************************************************)
EXTENDS LspServer, SequenceTheorems, FiniteSetTheorems, TLAPS

-----------------------------------------------------------------------------
(* Type correctness *)

\* Taking a task out of the semaphore's queue leaves a sequence of tasks.
LEMMA RemoveAtType ==
    ASSUME NEW S, NEW s \in Seq(S), NEW k \in DOMAIN s
    PROVE  RemoveAt(s, k) \in Seq(S)
<1>1. SubSeq(s, 1, k - 1) \in Seq(S) /\ SubSeq(s, k + 1, Len(s)) \in Seq(S)
  OBVIOUS
<1> QED
  BY <1>1 DEF RemoveAt

\* Dropping a task's future keeps the semaphore's state in its type.
LEMMA DropFutureType ==
    ASSUME PermitTypeOK, NEW r \in Reqs, DropFuture(r)
    PROVE  PermitTypeOK'
<1>1. CASE ReleasePermit
  BY <1>1 DEF PermitTypeOK, ReleasePermit
<1>2. ASSUME NEW k \in DOMAIN waiters, waiters' = RemoveAt(waiters, k), UNCHANGED free
      PROVE  PermitTypeOK'
  BY <1>2, RemoveAtType DEF PermitTypeOK
<1>3. CASE UNCHANGED permitVars
  BY <1>3 DEF PermitTypeOK, permitVars
<1> QED
  BY <1>1, <1>2, <1>3 DEF DropFuture

\* What Outbound::send leaves in the channel is a sequence of messages.
LEMMA EnqueueType ==
    ASSUME OutTypeOK, NEW m \in Reqs \cup {NoReq}, Enqueue(m)
    PROVE  outQ' \in Seq(Reqs \cup {NoReq})
  BY DEF OutTypeOK, Enqueue

\* Sending a reply keeps the outbound state in its type.
LEMMA ReplyType ==
    ASSUME OutTypeOK, NEW r \in Reqs \cup {NoReq}, Reply(r)
    PROVE  OutTypeOK'
<1>1. outQ' \in Seq(Reqs \cup {NoReq})
  BY EnqueueType DEF Reply
<1>2. replies' \in [Reqs -> Nat]
  <2>1. replies' = [q \in Reqs |-> IF q = r THEN replies[q] + 1 ELSE replies[q]]
    BY DEF Reply, OutTypeOK
  <2> QED
    BY <2>1 DEF OutTypeOK
<1> QED
  BY <1>1, <1>2 DEF Reply, OutTypeOK

\* A message occurs a natural number of times in a batch.
LEMMA OccurrencesType ==
    ASSUME NEW S, NEW s \in Seq(S), NEW r
    PROVE  Occurrences(s, r) \in Nat
<1>1. IsFiniteSet(1..Len(s))
  BY FS_Interval
<1>2. {k \in DOMAIN s : s[k] = r} \subseteq 1..Len(s)
  OBVIOUS
<1>3. IsFiniteSet({k \in DOMAIN s : s[k] = r})
  BY <1>1, <1>2, FS_Subset
<1> QED
  BY <1>3, FS_CardinalityType DEF Occurrences

\* A group of variables that a step leaves alone stays in its type.
LEMMA UnchangedTypes ==
    ASSUME TypeOK
    PROVE  /\ UNCHANGED loopVars => LoopTypeOK'
           /\ UNCHANGED taskVars => TaskTypeOK'
           /\ UNCHANGED permitVars => PermitTypeOK'
           /\ UNCHANGED noteVars => NoteTypeOK'
           /\ UNCHANGED outVars => OutTypeOK'
  BY SMTT(30) DEF TypeOK, LoopTypeOK, TaskTypeOK, PermitTypeOK, NoteTypeOK, OutTypeOK,
         loopVars, taskVars, permitVars, noteVars, outVars

\* Every step of the server keeps its variables in their types.
LEMMA TypeStep == TypeOK /\ [Next]_vars => TypeOK'
<1> SUFFICES ASSUME TypeOK, [Next]_vars PROVE TypeOK'
  OBVIOUS
<1> USE UnchangedTypes DEF TypeOK
<1>1. CASE UNCHANGED vars
  BY <1>1 DEF vars
<1>2. CASE ReadMalformed
  <2>1. OutTypeOK'
    BY <1>2, EnqueueType DEF ReadMalformed, OutTypeOK
  <2> QED
    BY <1>2, <2>1 DEF ReadMalformed
<1>3. CASE EnqueueNotification
  BY <1>3 DEF EnqueueNotification, NoteTypeOK
<1>4. ASSUME NEW r \in Reqs, NEW kind \in RequestKind, RejectRequest(r, kind) PROVE TypeOK'
  <2>1. TaskTypeOK'
    BY <1>4 DEF RejectRequest, TaskTypeOK, Phase, TaskPhase, AtRest, OnThread, Gone
  <2>2. OutTypeOK'
    BY <1>4, ReplyType DEF RejectRequest
  <2> QED
    BY <1>4, <2>1, <2>2 DEF RejectRequest
<1>5. ASSUME NEW r \in Reqs, StartInitialize(r) PROVE TypeOK'
  <2>1. LoopTypeOK'
    BY <1>5 DEF StartInitialize, LoopTypeOK, LoopPhase
  <2>2. TaskTypeOK'
    BY <1>5 DEF StartInitialize, TaskTypeOK, Phase, TaskPhase, AtRest, OnThread, Gone
  <2> QED
    BY <1>5, <2>1, <2>2 DEF StartInitialize
<1>6. ASSUME NEW r \in Reqs, StartShutdown(r) PROVE TypeOK'
  <2>1. LoopTypeOK'
    BY <1>6 DEF StartShutdown, LoopTypeOK, LoopPhase
  <2>2. TaskTypeOK'
    BY <1>6 DEF StartShutdown, TaskTypeOK, Phase, TaskPhase, AtRest, OnThread, Gone
  <2> QED
    BY <1>6, <2>1, <2>2 DEF StartShutdown
<1>7. ASSUME NEW r \in Reqs, NEW i \in Ids, RejectDuplicate(r, i) PROVE TypeOK'
  <2>1. TaskTypeOK'
    BY <1>7 DEF RejectDuplicate, TaskTypeOK, Phase, TaskPhase, AtRest, OnThread, Gone
  <2>2. OutTypeOK'
    BY <1>7, ReplyType DEF RejectDuplicate
  <2> QED
    BY <1>7, <2>1, <2>2 DEF RejectDuplicate
<1>8. ASSUME NEW r \in Reqs, NEW i \in Ids, SpawnRequest(r, i) PROVE TypeOK'
  <2>1. LoopTypeOK'
    BY <1>8 DEF SpawnRequest, LoopTypeOK, LoopPhase
  <2>2. TaskTypeOK'
    BY <1>8 DEF SpawnRequest, NoteTypeOK, TaskTypeOK, Phase, TaskPhase, AtRest, OnThread, Gone
  <2> QED
    BY <1>8, <2>1, <2>2 DEF SpawnRequest
<1>9. ASSUME NEW i \in Ids, CancelRequest(i) PROVE TypeOK'
  <2>1. LoopTypeOK'
    BY <1>9 DEF CancelRequest, TaskTypeOK, LoopTypeOK, LoopPhase
  <2>2. TaskTypeOK'
    BY <1>9 DEF CancelRequest, TaskTypeOK, Phase, TaskPhase, AtRest, OnThread, Gone
  <2> QED
    BY <1>9, <2>1, <2>2 DEF CancelRequest
<1>10. CASE ReadExit
  <2>1. LoopTypeOK'
    BY <1>10 DEF ReadExit, LeaveLoop, LoopTypeOK, LoopPhase
  <2>2. NoteTypeOK'
    BY <1>10 DEF ReadExit, LeaveLoop, NoteTypeOK
  <2> QED
    BY <1>10, <2>1, <2>2 DEF ReadExit, LeaveLoop
<1>11. CASE ReadEof
  <2>1. LoopTypeOK'
    BY <1>11 DEF ReadEof, LeaveLoop, LoopTypeOK, LoopPhase
  <2>2. NoteTypeOK'
    BY <1>11 DEF ReadEof, LeaveLoop, NoteTypeOK
  <2> QED
    BY <1>11, <2>1, <2>2 DEF ReadEof, LeaveLoop
<1>12. CASE FramingError
  <2>1. LoopTypeOK'
    BY <1>12 DEF FramingError, LeaveLoop, LoopTypeOK, LoopPhase
  <2>2. NoteTypeOK'
    BY <1>12 DEF FramingError, LeaveLoop, NoteTypeOK
  <2> QED
    BY <1>12, <2>1, <2>2 DEF FramingError, LeaveLoop
<1>13. CASE ShutdownSignal
  <2>1. LoopTypeOK'
    BY <1>13 DEF ShutdownSignal, LeaveLoop, LoopTypeOK, LoopPhase
  <2>2. NoteTypeOK'
    BY <1>13 DEF ShutdownSignal, LeaveLoop, NoteTypeOK
  <2> QED
    BY <1>13, <2>1, <2>2 DEF ShutdownSignal, LeaveLoop
<1>14. CASE InsertEntry
  <2>1. LoopTypeOK'
    BY <1>14 DEF InsertEntry, LoopTypeOK, LoopPhase
  <2>2. TaskTypeOK'
    BY <1>14 DEF InsertEntry, LoopTypeOK, TaskTypeOK, Phase, TaskPhase, AtRest, OnThread, Gone
  <2> QED
    BY <1>14, <2>1, <2>2 DEF InsertEntry
<1>15. CASE AbortCancelled
  <2>1. LoopTypeOK'
    BY <1>15 DEF AbortCancelled, LoopTypeOK, LoopPhase
  <2>2. TaskTypeOK'
    BY <1>15 DEF AbortCancelled, TaskTypeOK, Phase, TaskPhase, AtRest, OnThread, Gone
  <2>3. OutTypeOK'
    BY <1>15, ReplyType DEF LoopTypeOK, AbortCancelled
  <2> QED
    BY <1>15, <2>1, <2>2, <2>3 DEF AbortCancelled
<1>16. ASSUME NEW ok \in BOOLEAN, FinishInitialize(ok) PROVE TypeOK'
  <2>1. LoopTypeOK'
    BY <1>16 DEF FinishInitialize, LoopTypeOK, LoopPhase
  <2>2. TaskTypeOK'
    BY <1>16 DEF FinishInitialize, TaskTypeOK, Phase, TaskPhase, AtRest, OnThread, Gone
  <2>3. OutTypeOK'
    BY <1>16, ReplyType DEF LoopTypeOK, FinishInitialize
  <2> QED
    BY <1>16, <2>1, <2>2, <2>3 DEF FinishInitialize
<1>17. CASE CallShutdown
  BY <1>17 DEF CallShutdown, LoopTypeOK, LoopPhase
<1>18. CASE FinishShutdown
  <2>1. LoopTypeOK'
    BY <1>18 DEF FinishShutdown, LoopTypeOK, LoopPhase
  <2>2. TaskTypeOK'
    BY <1>18 DEF FinishShutdown, TaskTypeOK, Phase, TaskPhase, AtRest, OnThread, Gone
  <2>3. OutTypeOK'
    BY <1>18, ReplyType DEF LoopTypeOK, FinishShutdown
  <2> QED
    BY <1>18, <2>1, <2>2, <2>3 DEF FinishShutdown
<1>19. CASE WriterDead
  <2>1. LoopTypeOK'
    BY <1>19 DEF WriterDead, LeaveLoop, LoopTypeOK, LoopPhase
  <2>2. NoteTypeOK'
    BY <1>19 DEF WriterDead, LeaveLoop, NoteTypeOK
  <2> QED
    BY <1>19, <2>1, <2>2 DEF WriterDead, LeaveLoop
<1>20. ASSUME NEW i \in Ids, DrainEntry(i) PROVE TypeOK'
  BY <1>20 DEF DrainEntry, TaskTypeOK, Phase, TaskPhase, AtRest, OnThread, Gone
<1>21. CASE EndDrain
  BY <1>21 DEF EndDrain, LoopTypeOK, LoopPhase
<1>22. CASE ReturnFromLoop
  BY <1>22 DEF ReturnFromLoop, LoopTypeOK, LoopPhase
<1>23. CASE JoinWriter
  BY <1>23 DEF JoinWriter, LoopTypeOK, LoopPhase
<1>24. CASE InlinePanic
  <2>1. LoopTypeOK'
    BY <1>24 DEF InlinePanic, LoopTypeOK, LoopPhase
  <2>2. NoteTypeOK'
    BY <1>24 DEF InlinePanic, NoteTypeOK
  <2> QED
    BY <1>24, <2>1, <2>2 DEF InlinePanic
<1>25. CASE GraceExpires
  BY <1>25 DEF GraceExpires, NoteTypeOK
<1>26. ASSUME NEW r \in Reqs, PollTask(r) PROVE TypeOK'
  BY <1>26 DEF PollTask, TaskTypeOK, Phase, TaskPhase, AtRest, OnThread, Gone
<1>27. ASSUME NEW r \in Reqs, WaitForNotifications(r) PROVE TypeOK'
  BY <1>27 DEF WaitForNotifications, TaskTypeOK, Phase, TaskPhase, AtRest, OnThread, Gone
<1>28. ASSUME NEW r \in Reqs, AcquirePermit(r) PROVE TypeOK'
  <2>1. TaskTypeOK'
    BY <1>28 DEF AcquirePermit, TaskTypeOK, Phase, TaskPhase, AtRest, OnThread, Gone
  <2>2. PermitTypeOK'
    BY <1>28 DEF AcquirePermit, PermitTypeOK
  <2> QED
    BY <1>28, <2>1, <2>2 DEF AcquirePermit
<1>29. ASSUME NEW r \in Reqs, ResumeWithPermit(r) PROVE TypeOK'
  BY <1>29 DEF ResumeWithPermit, TaskTypeOK, Phase, TaskPhase, AtRest, OnThread, Gone
<1>30. ASSUME NEW r \in Reqs, HandlerSuspends(r) PROVE TypeOK'
  BY <1>30 DEF HandlerSuspends, TaskTypeOK, Phase, TaskPhase, AtRest, OnThread, Gone
<1>31. ASSUME NEW r \in Reqs, HandlerResumes(r) PROVE TypeOK'
  BY <1>31 DEF HandlerResumes, TaskTypeOK, Phase, TaskPhase, AtRest, OnThread, Gone
<1>32. ASSUME NEW r \in Reqs, HandlerReturns(r) PROVE TypeOK'
  BY <1>32 DEF HandlerReturns, TaskTypeOK, Phase, TaskPhase, AtRest, OnThread, Gone
<1>33. ASSUME NEW r \in Reqs, ClaimEntry(r) PROVE TypeOK'
  BY <1>33 DEF ClaimEntry, TaskTypeOK, Phase, TaskPhase, AtRest, OnThread, Gone
<1>34. ASSUME NEW r \in Reqs, ClaimFails(r) PROVE TypeOK'
  <2>1. TaskTypeOK'
    BY <1>34 DEF ClaimFails, TaskTypeOK, Phase, TaskPhase, AtRest, OnThread, Gone
  <2>2. PermitTypeOK'
    BY <1>34, DropFutureType DEF ClaimFails
  <2> QED
    BY <1>34, <2>1, <2>2 DEF ClaimFails
<1>35. ASSUME NEW r \in Reqs, SendResponse(r) PROVE TypeOK'
  <2>1. TaskTypeOK'
    BY <1>35 DEF SendResponse, TaskTypeOK, Phase, TaskPhase, AtRest, OnThread, Gone
  <2>2. PermitTypeOK'
    BY <1>35, DropFutureType DEF SendResponse
  <2>3. OutTypeOK'
    BY <1>35, ReplyType DEF SendResponse
  <2> QED
    BY <1>35, <2>1, <2>2, <2>3 DEF SendResponse
<1>36. ASSUME NEW r \in Reqs, ReapTask(r) PROVE TypeOK'
  <2>1. TaskTypeOK'
    BY <1>36 DEF ReapTask, TaskTypeOK, Phase, TaskPhase, AtRest, OnThread, Gone
  <2>2. PermitTypeOK'
    BY <1>36, DropFutureType DEF ReapTask
  <2> QED
    BY <1>36, <2>1, <2>2 DEF ReapTask
<1>37. CASE TakeNote
  BY <1>37 DEF TakeNote, NoteTypeOK
<1>38. CASE NoteSuspends
  BY <1>38 DEF NoteSuspends, NoteTypeOK
<1>39. CASE NoteResumes
  BY <1>39 DEF NoteResumes, NoteTypeOK
<1>40. CASE NoteReturns
  BY <1>40 DEF NoteReturns, NoteDone, NoteTypeOK
<1>41. CASE NotePanics
  <2>1. NoteTypeOK'
    BY <1>41 DEF NotePanics, NoteDone, NoteTypeOK
  <2>2. OutTypeOK'
    BY <1>41, EnqueueType DEF NotePanics, NoteDone, OutTypeOK
  <2> QED
    BY <1>41, <2>1, <2>2 DEF NotePanics, NoteDone
<1>42. CASE WorkerEnds
  BY <1>42 DEF WorkerEnds, NoteTypeOK
<1>43. CASE WorkerAborted
  BY <1>43 DEF WorkerAborted, NoteTypeOK
<1>44. CASE WriterTakes
  BY <1>44 DEF WriterTakes, OutTypeOK
<1>45. CASE WriterFlushes
  <2>1. \A r \in Reqs : Occurrences(batch, r) \in Nat
    BY OccurrencesType DEF OutTypeOK
  <2> QED
    BY <1>45, <2>1 DEF WriterFlushes, OutTypeOK
<1>46. CASE WriterFails
  <2>1. PICK n \in 0..Len(batch) :
          delivered' = [r \in Reqs |-> delivered[r] + Occurrences(SubSeq(batch, 1, n), r)]
    BY <1>46 DEF WriterFails
  <2>2. SubSeq(batch, 1, n) \in Seq(Reqs \cup {NoReq})
    BY DEF OutTypeOK
  <2>3. \A r \in Reqs : Occurrences(SubSeq(batch, 1, n), r) \in Nat
    BY <2>2, OccurrencesType
  <2> QED
    BY <1>46, <2>1, <2>3 DEF WriterFails, OutTypeOK
<1>47. CASE WriterEnds
  BY <1>47 DEF WriterEnds, OutTypeOK
<1>48. CASE Terminated
  BY <1>48 DEF Terminated, vars
<1>49. CASE LastClientDropped
  BY <1>49 DEF LastClientDropped, OutTypeOK
<1> QED
  BY <1>1, <1>2, <1>3, <1>4, <1>5, <1>6, <1>7, <1>8, <1>9, <1>10, <1>11,
     <1>12, <1>13, <1>14, <1>15, <1>16, <1>17, <1>18, <1>19, <1>20, <1>21,
     <1>22, <1>23, <1>24, <1>25, <1>26, <1>27, <1>28, <1>29, <1>30, <1>31,
     <1>32, <1>33, <1>34, <1>35, <1>36, <1>37, <1>38, <1>39, <1>40, <1>41,
     <1>42, <1>43, <1>44, <1>45, <1>46, <1>47, <1>48, <1>49
     DEF Next, ReadNext, LoopNext, TaskNext, WorkerNext, WriterNext

\* Every variable of the server stays in its type, in every behaviour.
THEOREM TypeCorrect == Spec => []TypeOK
<1>1. Init => TypeOK
  <2> SUFFICES ASSUME Init PROVE TypeOK
    OBVIOUS
  <2> USE DEF Init, Quiet
  <2>1. LoopTypeOK
    BY DEF LoopTypeOK, LoopPhase
  <2>2. TaskTypeOK
    BY DEF TaskTypeOK, Phase
  <2>3. PermitTypeOK /\ NoteTypeOK
    BY BoundAssumption, <<>> \in Seq(Reqs) DEF PermitTypeOK, NoteTypeOK
  <2>4. OutTypeOK
    BY DEF OutTypeOK
  <2> QED
    BY <2>1, <2>2, <2>3, <2>4 DEF TypeOK
<1> QED
  BY <1>1, TypeStep, PTL DEF Spec

-----------------------------------------------------------------------------
(* A request is answered exactly once *)

LiveTask == AtRest \cup OnThread

\* A task that moves between live, unclaimed phases disturbs nobody's duty.
LEMMA PhaseMove ==
    ASSUME TypeOK, AnswerInv, NEW r \in Reqs,
           phase[r] \in LiveTask \ {"claimed"},
           NEW p \in LiveTask \ {"claimed"},
           phase' = [phase EXCEPT ![r] = p],
           UNCHANGED <<loop, cur, inFlight, idOf, aborted, dropped, replies>>
    PROVE  AnswerInv'
<1> USE DEF LiveTask, AtRest, OnThread
<1>1. \A q \in Reqs : phase'[q] = IF q = r THEN p ELSE phase[q]
  BY DEF TypeOK, TaskTypeOK
<1>2. \A q \in Reqs : Owes(q) => Owes(q)'
  BY <1>1 DEF Owes
<1>3. EntriesOwe'
  BY <1>2 DEF AnswerInv, EntriesOwe, TypeOK, TaskTypeOK
<1>4. LoopOwes'
  BY <1>1, <1>2 DEF AnswerInv, LoopOwes
<1>5. IdsNotShared'
  BY <1>1 DEF AnswerInv, IdsNotShared
<1>6. PhaseAnswers'
  BY <1>1 DEF AnswerInv, PhaseAnswers, TaskPhase
<1> QED
  BY <1>3, <1>4, <1>5, <1>6 DEF AnswerInv

\* So does a step that touches none of the state the duty is kept in.
LEMMA DutyFrame ==
    ASSUME AnswerInv,
           UNCHANGED <<loop, cur, inFlight, phase, idOf, aborted, dropped, replies>>
    PROVE  AnswerInv'
  BY DEF AnswerInv, EntriesOwe, LoopOwes, IdsNotShared, PhaseAnswers, Owes

\* ... or one that only moves the loop to a phase in which it owes nothing.
LEMMA LoopMove ==
    ASSUME AnswerInv,
           loop \notin {"inserting", "cancelling"},
           loop' \notin {"inserting", "cancelling", "initializing", "awaitNotes", "shuttingDown"},
           UNCHANGED <<inFlight, phase, idOf, aborted, dropped, replies>>
    PROVE  AnswerInv'
  BY DEF AnswerInv, EntriesOwe, LoopOwes, IdsNotShared, PhaseAnswers, Owes

\* With ids not reused early, every step keeps the duty to answer in one place.
LEMMA AnswerStep ==
    ASSUME PromptReuse = FALSE, TypeOK, AnswerInv, [Next]_vars
    PROVE  AnswerInv'
<1>1. CASE UNCHANGED vars
  BY <1>1, DutyFrame DEF vars, loopVars, taskVars, outVars
<1>2. CASE ReadMalformed
  BY <1>2, DutyFrame DEF ReadMalformed, Enqueue, loopVars, taskVars, outVars
<1>3. CASE EnqueueNotification
  BY <1>3, DutyFrame DEF EnqueueNotification, loopVars, taskVars, outVars
<1>4. ASSUME NEW r \in Reqs, NEW kind \in RequestKind, RejectRequest(r, kind) PROVE AnswerInv'
  <2> USE <1>4 DEF RejectRequest, Enqueue, Reply, loopVars, taskVars, outVars, TypeOK, LoopTypeOK, TaskTypeOK, OutTypeOK, AnswerInv,
           AtRest, OnThread, Gone
  <2>1. EntriesOwe'
    BY DEF EntriesOwe, Owes
  <2>2. LoopOwes'
    BY DEF EntriesOwe, LoopOwes, Owes
  <2>3. IdsNotShared'
    BY DEF IdsNotShared
  <2>4. PhaseAnswers'
    BY DEF EntriesOwe, LoopOwes, Owes, PhaseAnswers, TaskPhase
  <2> QED
    BY <2>1, <2>2, <2>3, <2>4
<1>5. ASSUME NEW r \in Reqs, StartInitialize(r) PROVE AnswerInv'
  <2> USE <1>5 DEF StartInitialize, loopVars, taskVars, outVars, TypeOK, LoopTypeOK, TaskTypeOK, OutTypeOK, AnswerInv,
           AtRest, OnThread, Gone
  <2>1. EntriesOwe'
    BY DEF EntriesOwe, Owes
  <2>2. LoopOwes'
    BY DEF EntriesOwe, LoopOwes, Owes
  <2>3. IdsNotShared'
    BY DEF IdsNotShared
  <2>4. PhaseAnswers'
    BY DEF EntriesOwe, LoopOwes, Owes, PhaseAnswers, TaskPhase
  <2> QED
    BY <2>1, <2>2, <2>3, <2>4
<1>6. ASSUME NEW r \in Reqs, StartShutdown(r) PROVE AnswerInv'
  <2> USE <1>6 DEF StartShutdown, loopVars, taskVars, outVars, TypeOK, LoopTypeOK, TaskTypeOK, OutTypeOK, AnswerInv,
           AtRest, OnThread, Gone
  <2>1. EntriesOwe'
    BY DEF EntriesOwe, Owes
  <2>2. LoopOwes'
    BY DEF EntriesOwe, LoopOwes, Owes
  <2>3. IdsNotShared'
    BY DEF IdsNotShared
  <2>4. PhaseAnswers'
    BY DEF EntriesOwe, LoopOwes, Owes, PhaseAnswers, TaskPhase
  <2> QED
    BY <2>1, <2>2, <2>3, <2>4
<1>7. ASSUME NEW r \in Reqs, NEW i \in Ids, RejectDuplicate(r, i) PROVE AnswerInv'
  <2> USE <1>7 DEF RejectDuplicate, Enqueue, Reply, loopVars, taskVars, outVars, TypeOK, LoopTypeOK, TaskTypeOK, OutTypeOK, AnswerInv,
           AtRest, OnThread, Gone
  <2>1. EntriesOwe'
    BY SMTT(30) DEF EntriesOwe, Owes
  <2>2. LoopOwes'
    BY DEF EntriesOwe, LoopOwes, Owes
  <2>3. IdsNotShared'
    BY DEF IdsNotShared
  <2>4. PhaseAnswers'
    BY SMTT(30) DEF EntriesOwe, LoopOwes, Owes, PhaseAnswers, TaskPhase
  <2> QED
    BY <2>1, <2>2, <2>3, <2>4
<1>8. ASSUME NEW r \in Reqs, NEW i \in Ids, SpawnRequest(r, i) PROVE AnswerInv'
  <2> USE <1>8 DEF SpawnRequest, loopVars, taskVars, outVars, TypeOK, LoopTypeOK, TaskTypeOK, OutTypeOK, AnswerInv,
           AtRest, OnThread, Gone
  <2>1. EntriesOwe'
    <3>0. inFlight \in [Ids -> Reqs \cup {NoReq}] /\ phase[r] = "unsent"
      OBVIOUS
    <3>1. \A j \in Ids : inFlight[j] # NoReq => inFlight[j] \in Reqs /\ inFlight[j] # r
      <4>1. EntriesOwe
        OBVIOUS
      <4> QED
        BY ONLY <3>0, <4>1 DEF EntriesOwe, Owes, AtRest, OnThread
    <3>2. \A q \in Reqs : q # r => (Owes(q) => Owes(q)') /\ idOf'[q] = idOf[q]
      BY DEF Owes
    <3>3. UNCHANGED inFlight /\ EntriesOwe
      OBVIOUS
    <3> HIDE <1>8
    <3> QED
      BY ONLY <3>1, <3>2, <3>3 DEF EntriesOwe
  <2>2. LoopOwes'
    BY NoReqAssumption DEF EntriesOwe, LoopOwes, PhaseAnswers, Owes
  <2>3. IdsNotShared'
    <3>1. ASSUME NEW q \in Reqs, phase[q] \in AtRest \cup OnThread PROVE idOf[q] # i
      BY <3>1, NoReqAssumption, PromptReuse = FALSE DEF ClientMayUse, TaskPhase
    <3>2. /\ phase \in [Reqs -> Phase] /\ phase' = [phase EXCEPT ![r] = "ready"]
          /\ idOf \in [Reqs -> Ids \cup {NoId}] /\ idOf' = [idOf EXCEPT ![r] = i]
          /\ IdsNotShared
      OBVIOUS
    <3>3. \A q \in Reqs : /\ phase'[q] = IF q = r THEN "ready" ELSE phase[q]
                         /\ idOf'[q] = IF q = r THEN i ELSE idOf[q]
      BY ONLY <3>2
    <3> QED
      BY ONLY <3>1, <3>2, <3>3, <1>8 DEF IdsNotShared
  <2>4. PhaseAnswers'
    BY DEF EntriesOwe, LoopOwes, Owes, PhaseAnswers, TaskPhase
  <2> QED
    BY <2>1, <2>2, <2>3, <2>4
<1>9. ASSUME NEW i \in Ids, CancelRequest(i) PROVE AnswerInv'
  <2> USE <1>9 DEF CancelRequest, loopVars, taskVars, outVars, TypeOK, LoopTypeOK, TaskTypeOK, OutTypeOK, AnswerInv,
           AtRest, OnThread, Gone
  <2>1. EntriesOwe'
    BY DEF EntriesOwe, Owes
  <2>2. LoopOwes'
    BY DEF EntriesOwe, LoopOwes, Owes
  <2>3. IdsNotShared'
    BY DEF IdsNotShared
  <2>4. PhaseAnswers'
    BY DEF EntriesOwe, LoopOwes, Owes, PhaseAnswers, TaskPhase
  <2> QED
    BY <2>1, <2>2, <2>3, <2>4
<1>10. CASE ReadExit
  BY <1>10, LoopMove DEF ReadExit, LeaveLoop, loopVars, taskVars, outVars
<1>11. CASE ReadEof
  BY <1>11, LoopMove DEF ReadEof, LeaveLoop, loopVars, taskVars, outVars
<1>12. CASE FramingError
  BY <1>12, LoopMove DEF FramingError, LeaveLoop, loopVars, taskVars, outVars
<1>13. CASE ShutdownSignal
  BY <1>13, LoopMove DEF ShutdownSignal, LeaveLoop, loopVars, taskVars, outVars
<1>14. CASE InsertEntry
  <2> USE <1>14 DEF InsertEntry, loopVars, taskVars, outVars, TypeOK, LoopTypeOK, TaskTypeOK, OutTypeOK, AnswerInv,
           AtRest, OnThread, Gone
  <2>1. EntriesOwe'
    BY DEF EntriesOwe, LoopOwes, Owes
  <2>2. LoopOwes'
    BY DEF EntriesOwe, LoopOwes, Owes
  <2>3. IdsNotShared'
    BY DEF IdsNotShared
  <2>4. PhaseAnswers'
    <3> SUFFICES ASSUME NEW q \in Reqs PROVE PhaseAnswers!(q)'
      BY DEF PhaseAnswers
    <3>1. cur \in Reqs /\ Owes(cur) /\ idOf[cur] \in Ids /\ inFlight[idOf[cur]] = NoReq
      BY DEF LoopOwes
    <3>2. PhaseAnswers!(q)
      BY DEF PhaseAnswers
    <3>3. CASE q = cur
      BY <3>1, <3>2, <3>3 DEF Owes, TaskPhase
    <3>4. CASE q # cur
      BY <3>1, <3>2, <3>4, NoReqAssumption DEF TaskPhase
    <3> QED
      BY <3>3, <3>4
  <2> QED
    BY <2>1, <2>2, <2>3, <2>4
<1>15. CASE AbortCancelled
  <2> USE <1>15 DEF AbortCancelled, Enqueue, Reply, loopVars, taskVars, outVars, TypeOK, LoopTypeOK, TaskTypeOK, OutTypeOK, AnswerInv,
           AtRest, OnThread, Gone
  <2>1. EntriesOwe'
    BY DEF EntriesOwe, LoopOwes, Owes
  <2>2. LoopOwes'
    BY DEF EntriesOwe, LoopOwes, Owes
  <2>3. IdsNotShared'
    BY DEF IdsNotShared
  <2>4. PhaseAnswers'
    BY DEF EntriesOwe, LoopOwes, Owes, PhaseAnswers, TaskPhase
  <2> QED
    BY <2>1, <2>2, <2>3, <2>4
<1>16. ASSUME NEW ok \in BOOLEAN, FinishInitialize(ok) PROVE AnswerInv'
  <2> USE <1>16 DEF FinishInitialize, Enqueue, Reply, loopVars, taskVars, outVars, TypeOK, LoopTypeOK, TaskTypeOK, OutTypeOK, AnswerInv,
           AtRest, OnThread, Gone
  <2>1. EntriesOwe'
    BY DEF EntriesOwe, LoopOwes, Owes
  <2>2. LoopOwes'
    BY DEF EntriesOwe, LoopOwes, Owes
  <2>3. IdsNotShared'
    BY DEF IdsNotShared
  <2>4. PhaseAnswers'
    BY DEF EntriesOwe, LoopOwes, Owes, PhaseAnswers, TaskPhase
  <2> QED
    BY <2>1, <2>2, <2>3, <2>4
<1>17. CASE CallShutdown
  <2> USE <1>17 DEF CallShutdown, loopVars, taskVars, outVars, TypeOK, LoopTypeOK, TaskTypeOK, OutTypeOK, AnswerInv,
           AtRest, OnThread, Gone
  <2>1. EntriesOwe'
    BY DEF EntriesOwe, Owes
  <2>2. LoopOwes'
    BY DEF EntriesOwe, LoopOwes, Owes
  <2>3. IdsNotShared'
    BY DEF IdsNotShared
  <2>4. PhaseAnswers'
    BY DEF EntriesOwe, LoopOwes, Owes, PhaseAnswers, TaskPhase
  <2> QED
    BY <2>1, <2>2, <2>3, <2>4
<1>18. CASE FinishShutdown
  <2> USE <1>18 DEF FinishShutdown, Enqueue, Reply, loopVars, taskVars, outVars, TypeOK, LoopTypeOK, TaskTypeOK, OutTypeOK, AnswerInv,
           AtRest, OnThread, Gone
  <2>1. EntriesOwe'
    BY DEF EntriesOwe, LoopOwes, Owes
  <2>2. LoopOwes'
    BY DEF EntriesOwe, LoopOwes, Owes
  <2>3. IdsNotShared'
    BY DEF IdsNotShared
  <2>4. PhaseAnswers'
    BY DEF EntriesOwe, LoopOwes, Owes, PhaseAnswers, TaskPhase
  <2> QED
    BY <2>1, <2>2, <2>3, <2>4
<1>19. CASE WriterDead
  BY <1>19, LoopMove DEF WriterDead, LeaveLoop, loopVars, taskVars, outVars
<1>20. ASSUME NEW i \in Ids, DrainEntry(i) PROVE AnswerInv'
  <2> USE <1>20 DEF DrainEntry, loopVars, taskVars, outVars, TypeOK, LoopTypeOK, TaskTypeOK, OutTypeOK, AnswerInv,
           AtRest, OnThread, Gone
  <2>1. EntriesOwe'
    BY DEF EntriesOwe, Owes
  <2>2. LoopOwes'
    BY DEF EntriesOwe, LoopOwes, Owes
  <2>3. IdsNotShared'
    BY DEF IdsNotShared
  <2>4. PhaseAnswers'
    <3> DEFINE e == inFlight[i]
    <3>1. e \in Reqs /\ Owes(e) /\ idOf[e] = i
      BY DEF EntriesOwe
    <3> SUFFICES ASSUME NEW q \in Reqs PROVE PhaseAnswers!(q)'
      BY DEF PhaseAnswers
    <3>2. PhaseAnswers!(q)
      BY DEF PhaseAnswers
    <3>3. CASE q = e
      BY <3>1, <3>2, <3>3 DEF Owes, TaskPhase
    <3>4. CASE q # e
      BY <3>1, <3>2, <3>4, NoReqAssumption DEF TaskPhase
    <3> QED
      BY <3>3, <3>4
  <2> QED
    BY <2>1, <2>2, <2>3, <2>4
<1>21. CASE EndDrain
  BY <1>21, LoopMove DEF EndDrain, loopVars, taskVars, outVars
<1>22. CASE ReturnFromLoop
  BY <1>22, LoopMove DEF ReturnFromLoop, loopVars, taskVars, outVars
<1>23. CASE JoinWriter
  BY <1>23, LoopMove DEF JoinWriter, loopVars, taskVars, outVars
<1>24. CASE InlinePanic
  BY <1>24, LoopMove DEF InlinePanic, loopVars, taskVars, outVars
<1>25. CASE GraceExpires
  BY <1>25, DutyFrame DEF GraceExpires, loopVars, taskVars, outVars
<1>26. ASSUME NEW r \in Reqs, PollTask(r) PROVE AnswerInv'
  BY <1>26, PhaseMove DEF PollTask, loopVars, taskVars, outVars, LiveTask, AtRest, OnThread
<1>27. ASSUME NEW r \in Reqs, WaitForNotifications(r) PROVE AnswerInv'
  BY <1>27, PhaseMove DEF WaitForNotifications, loopVars, taskVars, outVars, LiveTask, AtRest, OnThread
<1>28. ASSUME NEW r \in Reqs, AcquirePermit(r) PROVE AnswerInv'
  BY <1>28, PhaseMove DEF AcquirePermit, loopVars, taskVars, outVars, LiveTask, AtRest, OnThread
<1>29. ASSUME NEW r \in Reqs, ResumeWithPermit(r) PROVE AnswerInv'
  BY <1>29, PhaseMove DEF ResumeWithPermit, loopVars, taskVars, outVars, LiveTask, AtRest, OnThread
<1>30. ASSUME NEW r \in Reqs, HandlerSuspends(r) PROVE AnswerInv'
  BY <1>30, PhaseMove DEF HandlerSuspends, loopVars, taskVars, outVars, LiveTask, AtRest, OnThread
<1>31. ASSUME NEW r \in Reqs, HandlerResumes(r) PROVE AnswerInv'
  BY <1>31, PhaseMove DEF HandlerResumes, loopVars, taskVars, outVars, LiveTask, AtRest, OnThread
<1>32. ASSUME NEW r \in Reqs, HandlerReturns(r) PROVE AnswerInv'
  BY <1>32, PhaseMove DEF HandlerReturns, loopVars, taskVars, outVars, LiveTask, AtRest, OnThread
<1>33. ASSUME NEW r \in Reqs, ClaimEntry(r) PROVE AnswerInv'
  <2> USE <1>33 DEF ClaimEntry, loopVars, taskVars, outVars, TypeOK, LoopTypeOK, TaskTypeOK, OutTypeOK, AnswerInv,
           AtRest, OnThread, Gone
  <2>1. EntriesOwe'
    BY DEF EntriesOwe, Owes
  <2>2. LoopOwes'
    BY DEF EntriesOwe, LoopOwes, Owes
  <2>3. IdsNotShared'
    BY DEF IdsNotShared
  <2>4. PhaseAnswers'
    BY DEF EntriesOwe, LoopOwes, Owes, IdsNotShared, PhaseAnswers, TaskPhase, LoopHoldsLock
  <2> QED
    BY <2>1, <2>2, <2>3, <2>4
<1>34. ASSUME NEW r \in Reqs, ClaimFails(r) PROVE AnswerInv'
  <2> USE <1>34 DEF ClaimFails, loopVars, taskVars, outVars, TypeOK, LoopTypeOK, TaskTypeOK, OutTypeOK, AnswerInv,
           AtRest, OnThread, Gone
  <2>1. EntriesOwe'
    BY DEF EntriesOwe, Owes
  <2>2. LoopOwes'
    BY DEF EntriesOwe, LoopOwes, Owes, LoopHoldsLock
  <2>3. IdsNotShared'
    BY DEF IdsNotShared
  <2>4. PhaseAnswers'
    BY DEF EntriesOwe, LoopOwes, Owes, PhaseAnswers, TaskPhase
  <2> QED
    BY <2>1, <2>2, <2>3, <2>4
<1>35. ASSUME NEW r \in Reqs, SendResponse(r) PROVE AnswerInv'
  <2> USE <1>35 DEF SendResponse, Enqueue, Reply, loopVars, taskVars, outVars, TypeOK, LoopTypeOK, TaskTypeOK, OutTypeOK, AnswerInv,
           AtRest, OnThread, Gone
  <2>1. EntriesOwe'
    BY DEF EntriesOwe, Owes
  <2>2. LoopOwes'
    BY DEF EntriesOwe, LoopOwes, Owes
  <2>3. IdsNotShared'
    BY DEF IdsNotShared
  <2>4. PhaseAnswers'
    BY DEF EntriesOwe, LoopOwes, Owes, PhaseAnswers, TaskPhase
  <2> QED
    BY <2>1, <2>2, <2>3, <2>4
<1>36. ASSUME NEW r \in Reqs, ReapTask(r) PROVE AnswerInv'
  <2> USE <1>36 DEF ReapTask, loopVars, taskVars, outVars, TypeOK, LoopTypeOK, TaskTypeOK, OutTypeOK, AnswerInv,
           AtRest, OnThread, Gone
  <2>1. EntriesOwe'
    BY DEF EntriesOwe, Owes
  <2>2. LoopOwes'
    BY DEF EntriesOwe, LoopOwes, Owes
  <2>3. IdsNotShared'
    BY DEF IdsNotShared
  <2>4. PhaseAnswers'
    BY DEF EntriesOwe, LoopOwes, Owes, PhaseAnswers, TaskPhase
  <2> QED
    BY <2>1, <2>2, <2>3, <2>4
<1>37. CASE TakeNote
  BY <1>37, DutyFrame DEF TakeNote, loopVars, taskVars, outVars
<1>38. CASE NoteSuspends
  BY <1>38, DutyFrame DEF NoteSuspends, loopVars, taskVars, outVars
<1>39. CASE NoteResumes
  BY <1>39, DutyFrame DEF NoteResumes, loopVars, taskVars, outVars
<1>40. CASE NoteReturns
  BY <1>40, DutyFrame DEF NoteReturns, NoteDone, loopVars, taskVars, outVars
<1>41. CASE NotePanics
  BY <1>41, DutyFrame DEF NotePanics, NoteDone, Enqueue, loopVars, taskVars, outVars
<1>42. CASE WorkerEnds
  BY <1>42, DutyFrame DEF WorkerEnds, loopVars, taskVars, outVars
<1>43. CASE WorkerAborted
  BY <1>43, DutyFrame DEF WorkerAborted, loopVars, taskVars, outVars
<1>44. CASE WriterTakes
  BY <1>44, DutyFrame DEF WriterTakes, loopVars, taskVars, outVars
<1>45. CASE WriterFlushes
  BY <1>45, DutyFrame DEF WriterFlushes, loopVars, taskVars, outVars
<1>46. CASE WriterFails
  BY <1>46, DutyFrame DEF WriterFails, loopVars, taskVars, outVars
<1>47. CASE WriterEnds
  BY <1>47, DutyFrame DEF WriterEnds, loopVars, taskVars, outVars
<1>48. CASE Terminated
  BY <1>48, DutyFrame DEF Terminated, loopVars, taskVars, outVars, vars
<1>49. CASE LastClientDropped
  BY <1>49, DutyFrame DEF LastClientDropped, loopVars, taskVars
<1> QED
  BY <1>1, <1>2, <1>3, <1>4, <1>5, <1>6, <1>7, <1>8, <1>9, <1>10, <1>11,
     <1>12, <1>13, <1>14, <1>15, <1>16, <1>17, <1>18, <1>19, <1>20, <1>21,
     <1>22, <1>23, <1>24, <1>25, <1>26, <1>27, <1>28, <1>29, <1>30, <1>31,
     <1>32, <1>33, <1>34, <1>35, <1>36, <1>37, <1>38, <1>39, <1>40, <1>41,
     <1>42, <1>43, <1>44, <1>45, <1>46, <1>47, <1>48, <1>49
     DEF Next, ReadNext, LoopNext, TaskNext, WorkerNext, WriterNext

\* A new connection owes no answer.
LEMMA AnswerInit == Init => AnswerInv
<1> SUFFICES ASSUME Init PROVE AnswerInv
  OBVIOUS
<1> USE DEF Init, Quiet
<1>1. EntriesOwe /\ LoopOwes
  BY DEF EntriesOwe, LoopOwes
<1>2. IdsNotShared /\ PhaseAnswers
  BY DEF IdsNotShared, PhaseAnswers, TaskPhase, AtRest, OnThread, Gone
<1> QED
  BY <1>1, <1>2 DEF AnswerInv

\* The inductive invariant says where each accepted request's answer is.
LEMMA DutyFollows == TypeOK /\ AnswerInv => DutyInOnePlace
<1> SUFFICES ASSUME TypeOK, AnswerInv PROVE DutyInOnePlace
  OBVIOUS
<1>1. AtMostOneAnswer
  BY SMTT(30) DEF AnswerInv, PhaseAnswers, AtMostOneAnswer, TypeOK, OutTypeOK
<1>2. ASSUME NEW r \in Reqs, phase[r] \in TaskPhase
      PROVE  \E p \in Places : At(p, r) /\ \A q \in Places : At(q, r) => q = p
  <2>1. PhaseAnswers!(r)
    BY DEF AnswerInv, PhaseAnswers
  <2> USE <1>2, <2>1 DEF Places, At, AtRest, OnThread, Gone
  <2>2. inFlight[idOf[r]] = r =>
            Owes(r) /\ ~(loop \in {"inserting", "cancelling"} /\ cur = r)
    BY NoReqAssumption DEF AnswerInv, EntriesOwe, LoopOwes
  <2>3. loop \in {"inserting", "cancelling"} /\ cur = r => Owes(r)
    BY DEF AnswerInv, LoopOwes
  <2>4. CASE inFlight[idOf[r]] = r
    <3>1. At("entry", r) /\ \A q \in Places : At(q, r) => q = "entry"
      BY <2>2, <2>4 DEF Owes
    <3> QED
      BY <3>1
  <2>5. CASE loop \in {"inserting", "cancelling"} /\ cur = r
    <3>1. CASE loop = "inserting"
      <4>1. At("inserting", r) /\ \A q \in Places : At(q, r) => q = "inserting"
        BY <2>2, <2>3, <2>5, <3>1 DEF Owes
      <4> QED
        BY <4>1
    <3>2. CASE loop = "cancelling"
      <4>1. At("cancelling", r) /\ \A q \in Places : At(q, r) => q = "cancelling"
        BY <2>2, <2>3, <2>5, <3>2 DEF Owes
      <4> QED
        BY <4>1
    <3> QED
      BY <2>5, <3>1, <3>2
  <2>6. CASE phase[r] = "claimed"
    <3>1. At("claimed", r) /\ \A q \in Places : At(q, r) => q = "claimed"
      BY <2>2, <2>3, <2>6 DEF Owes
    <3> QED
      BY <3>1
  <2>7. CASE replies[r] > 0
    <3>1. At("answered", r) /\ \A q \in Places : At(q, r) => q = "answered"
      BY <2>2, <2>3, <2>7 DEF Owes
    <3> QED
      BY <3>1
  <2>8. CASE r \in dropped
    <3>1. At("dropped", r) /\ \A q \in Places : At(q, r) => q = "dropped"
      BY <2>2, <2>3, <2>8 DEF Owes
    <3> QED
      BY <3>1
  <2> QED
    BY <2>4, <2>5, <2>6, <2>7, <2>8
<1> QED
  BY <1>1, <1>2 DEF DutyInOnePlace

\* With a client that reuses an id only after the task of its previous use is
\* gone, the duty to answer an accepted request is always in exactly one place
\* and no request is answered twice, for any number of requests, ids, permits
\* and notifications and any interleaving of cancellation and teardown.
THEOREM AnsweredExactlyOnce ==
    ASSUME PromptReuse = FALSE
    PROVE  Spec => []DutyInOnePlace
<1>1. TypeOK /\ AnswerInv /\ [Next]_vars => AnswerInv'
  BY AnswerStep
<1>2. Spec => []TypeOK
  BY TypeCorrect
<1> QED
  BY <1>1, <1>2, AnswerInit, DutyFollows, PTL DEF Spec

-----------------------------------------------------------------------------
(* The permits *)

InQueue(s, x) == \E k \in DOMAIN s : s[k] = x
NoRepeats(s) == \A j, k \in DOMAIN s : s[j] = s[k] => j = k

-----------------------------------------------------------------------------
(* The waiting queue as a set *)

\* Granting a permit to the longest waiter takes exactly it out of the queue.
LEMMA TailQueue ==
    ASSUME NEW S, NEW s \in Seq(S), s # <<>>, NoRepeats(s)
    PROVE  /\ NoRepeats(Tail(s)) /\ Head(s) \in S
           /\ \A x : InQueue(Tail(s), x) <=> InQueue(s, x) /\ x # Head(s)
<1>1. Len(s) \in Nat \ {0} /\ DOMAIN s = 1..Len(s) /\ Head(s) = s[1] /\ s[1] \in S
  OBVIOUS
<1>2. DOMAIN Tail(s) = 1..(Len(s) - 1)
  OBVIOUS
<1>3. \A k \in 1..(Len(s) - 1) : Tail(s)[k] = s[k + 1]
  OBVIOUS
<1>4. NoRepeats(Tail(s))
  BY <1>1, <1>2, <1>3 DEF NoRepeats
<1>5. ASSUME NEW x, InQueue(Tail(s), x) PROVE InQueue(s, x) /\ x # Head(s)
  BY <1>1, <1>2, <1>3, <1>5 DEF InQueue, NoRepeats
<1>6. ASSUME NEW x, InQueue(s, x), x # Head(s) PROVE InQueue(Tail(s), x)
  <2>1. PICK k \in 1..Len(s) : s[k] = x
    BY <1>1, <1>6 DEF InQueue
  <2>2. k - 1 \in 1..(Len(s) - 1) /\ (k - 1) + 1 = k
    BY <1>1, <1>6, <2>1
  <2> QED
    BY <1>2, <1>3, <2>1, <2>2 DEF InQueue
<1> QED
  BY <1>1, <1>4, <1>5, <1>6

\* Dropping a queued future takes exactly its task out of the queue.
LEMMA RemoveAtQueue ==
    ASSUME NEW S, NEW s \in Seq(S), NEW k \in DOMAIN s, NoRepeats(s)
    PROVE  /\ NoRepeats(RemoveAt(s, k))
           /\ \A x : InQueue(RemoveAt(s, k), x) <=> InQueue(s, x) /\ x # s[k]
<1> DEFINE t == RemoveAt(s, k)
<1>1. Len(s) \in Nat /\ DOMAIN s = 1..Len(s) /\ k \in 1..Len(s)
  OBVIOUS
<1>2. DOMAIN t = 1..(Len(s) - 1)
        /\ \A i \in 1..(Len(s) - 1) : t[i] = IF i < k THEN s[i] ELSE s[i + 1]
  <2> DEFINE a == SubSeq(s, 1, k - 1)
             b == SubSeq(s, k + 1, Len(s))
  <2>1. a \in Seq(S) /\ Len(a) = k - 1 /\ \A i \in 1..(k - 1) : a[i] = s[i]
    BY <1>1
  <2>2. b \in Seq(S) /\ Len(b) = Len(s) - k /\ \A i \in 1..(Len(s) - k) : b[i] = s[k + i]
    BY <1>1, SMTT(30)
  <2>3. t = a \o b
    BY DEF RemoveAt
  <2> HIDE DEF a, b, t
  <2>4. t \in Seq(S) /\ Len(t) = Len(s) - 1
    <3>1. t \in Seq(S) /\ Len(t) = Len(a) + Len(b)
      BY <2>1, <2>2, <2>3, ConcatProperties
    <3>2. (k - 1) + (Len(s) - k) = Len(s) - 1
      BY <1>1
    <3> QED
      BY <2>1, <2>2, <3>1, <3>2, SMTT(30)
  <2>5. \A i \in 1..(Len(s) - 1) : t[i] = IF i < k THEN a[i] ELSE b[i - (k - 1)]
    BY <1>1, <2>1, <2>2, <2>3, SMTT(30)
  <2>6. ASSUME NEW i \in 1..(Len(s) - 1) PROVE t[i] = IF i < k THEN s[i] ELSE s[i + 1]
    <3>1. CASE i < k
      BY <1>1, <2>1, <2>5, <3>1
    <3>2. CASE i >= k
      <4>1. i - (k - 1) \in 1..(Len(s) - k) /\ k + (i - (k - 1)) = i + 1
        BY <1>1, <3>2
      <4> QED
        BY <1>1, <2>2, <2>5, <3>2, <4>1
    <3> QED
      BY <1>1, <3>1, <3>2
  <2> QED
    BY <2>4, <2>6
<1> HIDE DEF t
<1>3. NoRepeats(t)
  <2> DEFINE old(i) == IF i < k THEN i ELSE i + 1
  <2>1. \A i \in DOMAIN t : old(i) \in DOMAIN s /\ t[i] = s[old(i)]
    BY <1>1, <1>2
  <2>2. \A i, j \in DOMAIN t : old(i) = old(j) => i = j
    BY <1>1, <1>2
  <2> HIDE DEF old
  <2> QED
    BY <2>1, <2>2 DEF NoRepeats
<1>4. ASSUME NEW x, InQueue(t, x) PROVE InQueue(s, x) /\ x # s[k]
  BY <1>1, <1>2, <1>4, SMTT(30) DEF InQueue, NoRepeats
<1>5. ASSUME NEW x, InQueue(s, x), x # s[k] PROVE InQueue(t, x)
  <2>1. PICK j \in 1..Len(s) : s[j] = x
    BY <1>1, <1>5 DEF InQueue
  <2>2. CASE j < k
    <3>1. j \in 1..(Len(s) - 1) /\ t[j] = x
      BY <1>1, <1>2, <2>1, <2>2
    <3> QED
      BY <3>1, <1>2 DEF InQueue
  <2>3. CASE j > k
    <3>1. j - 1 \in 1..(Len(s) - 1) /\ t[j - 1] = x
      BY <1>1, <1>2, <2>1, <2>3
    <3> QED
      BY <3>1, <1>2 DEF InQueue
  <2> QED
    BY <1>1, <1>5, <2>1, <2>2, <2>3
<1> QED
  BY <1>3, <1>4, <1>5 DEF t

\* Queueing for a permit adds exactly the new task.
LEMMA AppendQueue ==
    ASSUME NEW S, NEW s \in Seq(S), NEW e \in S, NoRepeats(s), ~InQueue(s, e)
    PROVE  /\ NoRepeats(Append(s, e))
           /\ \A x : InQueue(Append(s, e), x) <=> InQueue(s, x) \/ x = e
<1>1. /\ Len(s) \in Nat /\ DOMAIN s = 1..Len(s) /\ DOMAIN Append(s, e) = 1..(Len(s) + 1)
      /\ \A i \in 1..Len(s) : Append(s, e)[i] = s[i]
      /\ Append(s, e)[Len(s) + 1] = e
  OBVIOUS
<1>2. NoRepeats(Append(s, e))
  BY <1>1 DEF NoRepeats, InQueue
<1>3. \A x : InQueue(s, x) => InQueue(Append(s, e), x)
  BY <1>1 DEF InQueue
<1>4. InQueue(Append(s, e), e)
  BY <1>1 DEF InQueue
<1>5. \A x : InQueue(Append(s, e), x) => InQueue(s, x) \/ x = e
  BY <1>1 DEF InQueue
<1> QED
  BY <1>2, <1>3, <1>4, <1>5

-----------------------------------------------------------------------------
(* The invariant *)

\* The loop runs initialize and shutdown for a request that has no task.
InlineOnLoop ==
    loop \in {"initializing", "awaitNotes", "shuttingDown"} =>
        cur \in Reqs /\ phase[cur] = "inline"

PermitInv == PermitsConserved /\ IsFiniteSet(Holders) /\ InlineOnLoop

\* What PermitInv says, with the queue as a set.
Held(r) == \/ phase[r] \in InHandler
           \/ phase[r] = "permit" /\ ~InQueue(waiters, r)
Balanced ==
    /\ NoRepeats(waiters)
    /\ free > 0 => waiters = <<>>
    /\ \A r \in Reqs : InQueue(waiters, r) => phase[r] = "permit"
    /\ \E H : /\ IsFiniteSet(H) /\ \A r : r \in H <=> r \in Reqs /\ Held(r)
              /\ free + Cardinality(H) = MaxPermits

\* The two forms of the invariant say the same.
LEMMA BalancedMeans ==
    ASSUME PermitTypeOK
    PROVE  Balanced <=> PermitsConserved /\ IsFiniteSet(Holders)
<1>1. Holders = {r \in Reqs : Held(r)}
  <2>1. \A r \in Reqs : r \in Holders <=> Held(r)
    BY DEF Holders, Held, InQueue
  <2>2. Holders \subseteq Reqs
    BY DEF Holders
  <2> QED
    BY <2>1, <2>2
<1>2. (\A r \in Reqs : InQueue(waiters, r) => phase[r] = "permit")
        <=> \A k \in DOMAIN waiters : phase[waiters[k]] = "permit"
  BY DEF InQueue, PermitTypeOK
<1>3. ASSUME NEW H, \A r : r \in H <=> r \in Reqs /\ Held(r)
      PROVE  H = Holders
  BY <1>1, <1>3
<1>4. (\E H : /\ IsFiniteSet(H) /\ \A r : r \in H <=> r \in Reqs /\ Held(r)
              /\ free + Cardinality(H) = MaxPermits)
        <=> IsFiniteSet(Holders) /\ free + Cardinality(Holders) = MaxPermits
  <2>1. \A r : r \in Holders <=> r \in Reqs /\ Held(r)
    BY <1>1
  <2> QED
    BY <2>1, <1>3
<1> QED
  BY <1>2, <1>4 DEF Balanced, PermitsConserved, NoRepeats

-----------------------------------------------------------------------------
(* What a step may do to the permits *)

Others(r) == \A q \in Reqs \ {r} : phase'[q] = phase[q]

\* No task takes or gives back a permit, or enters or leaves the queue.
LEMMA SameHolders ==
    ASSUME Balanced, UNCHANGED permitVars,
           \A q \in Reqs : /\ phase'[q] \in InHandler <=> phase[q] \in InHandler
                           /\ phase'[q] = "permit" <=> phase[q] = "permit"
    PROVE  Balanced'
<1>1. \A q \in Reqs : Held(q)' <=> Held(q)
  BY DEF Held, permitVars
<1>2. PICK H : /\ IsFiniteSet(H) /\ \A q : q \in H <=> q \in Reqs /\ Held(q)
               /\ free + Cardinality(H) = MaxPermits
  BY DEF Balanced
<1>3. \E G : /\ IsFiniteSet(G) /\ \A q : q \in G <=> q \in Reqs /\ Held(q)'
             /\ free' + Cardinality(G) = MaxPermits
  BY <1>1, <1>2 DEF permitVars
<1> QED
  BY <1>3 DEF Balanced, permitVars

\* A task that was granted a permit goes on with it.
LEMMA HolderRuns ==
    ASSUME Balanced, UNCHANGED permitVars, NEW r \in Reqs, Others(r),
           phase[r] = "permit", ~InQueue(waiters, r), phase'[r] = "running"
    PROVE  Balanced'
<1>1. \A q \in Reqs : Held(q)' <=> Held(q)
  BY DEF Held, permitVars, InHandler, Others
<1>2. PICK H : /\ IsFiniteSet(H) /\ \A q : q \in H <=> q \in Reqs /\ Held(q)
               /\ free + Cardinality(H) = MaxPermits
  BY DEF Balanced
<1>3. \E G : /\ IsFiniteSet(G) /\ \A q : q \in G <=> q \in Reqs /\ Held(q)'
             /\ free' + Cardinality(G) = MaxPermits
  BY <1>1, <1>2 DEF permitVars
<1>4. \A q \in Reqs : InQueue(waiters, q)' => phase'[q] = "permit"
  BY DEF Balanced, permitVars, Others
<1> QED
  BY <1>3, <1>4 DEF Balanced, permitVars

\* A task takes a free permit.
LEMMA TakeFree ==
    ASSUME PermitTypeOK, Balanced, NEW r \in Reqs, Others(r),
           phase[r] \notin InHandler \cup {"permit"}, phase'[r] = "running",
           free > 0, free' = free - 1, UNCHANGED waiters
    PROVE  Balanced'
<1>1. PICK H : /\ IsFiniteSet(H) /\ \A q : q \in H <=> q \in Reqs /\ Held(q)
               /\ free + Cardinality(H) = MaxPermits
  BY DEF Balanced
<1>2. r \notin H
  BY <1>1 DEF Held
<1>3. IsFiniteSet(H \cup {r}) /\ free' + Cardinality(H \cup {r}) = MaxPermits
  <2>1. IsFiniteSet(H \cup {r}) /\ Cardinality(H \cup {r}) = Cardinality(H) + 1
    BY <1>1, <1>2, FS_AddElement
  <2>2. Cardinality(H) \in Nat /\ free \in Nat
    BY <1>1, FS_CardinalityType DEF PermitTypeOK
  <2> QED
    BY <1>1, <2>1, <2>2
<1>4. \A q : q \in H \cup {r} <=> q \in Reqs /\ Held(q)'
  BY <1>1 DEF Held, Others, InHandler
<1>5. waiters' = <<>> /\ ~InQueue(waiters, r)'
  BY DEF Balanced, InQueue
<1>6. \A q \in Reqs : InQueue(waiters, q)' => phase'[q] = "permit"
  BY <1>5 DEF InQueue
<1> QED
  BY <1>3, <1>4, <1>5, <1>6 DEF Balanced

\* A task joins the queue.
LEMMA JoinQueue ==
    ASSUME PermitTypeOK, Balanced, NEW r \in Reqs, Others(r),
           phase[r] \notin InHandler \cup {"permit"}, phase'[r] = "permit",
           free = 0, UNCHANGED free, waiters' = Append(waiters, r)
    PROVE  Balanced'
<1>1. waiters \in Seq(Reqs) /\ NoRepeats(waiters) /\ ~InQueue(waiters, r)
  BY DEF Balanced, PermitTypeOK
<1>2. /\ NoRepeats(waiters')
      /\ \A q : InQueue(waiters', q) <=> InQueue(waiters, q) \/ q = r
  BY <1>1, AppendQueue
<1>3. \A q \in Reqs : Held(q)' <=> Held(q)
  BY <1>2 DEF Held, Others, InHandler
<1>4. PICK H : /\ IsFiniteSet(H) /\ \A q : q \in H <=> q \in Reqs /\ Held(q)
               /\ free + Cardinality(H) = MaxPermits
  BY DEF Balanced
<1>5. \E G : /\ IsFiniteSet(G) /\ \A q : q \in G <=> q \in Reqs /\ Held(q)'
             /\ free' + Cardinality(G) = MaxPermits
  BY <1>3, <1>4
<1>6. \A q \in Reqs : InQueue(waiters', q) => phase'[q] = "permit"
  BY <1>2 DEF Balanced, Others
<1> QED
  BY <1>2, <1>5, <1>6 DEF Balanced

\* A task ends: it returns its permit, to the longest waiter if there is one,
\* or leaves the queue, or had neither.
LEMMA LeavePermits ==
    ASSUME PermitTypeOK, Balanced, NEW r \in Reqs, Others(r), DropFuture(r),
           phase'[r] \notin InHandler \cup {"permit"}
    PROVE  Balanced'
<1>1. PICK H : /\ IsFiniteSet(H) /\ \A q : q \in H <=> q \in Reqs /\ Held(q)
               /\ free + Cardinality(H) = MaxPermits
  BY DEF Balanced
<1>2. Cardinality(H) \in Nat /\ free \in Nat /\ waiters \in Seq(Reqs) /\ NoRepeats(waiters)
  BY <1>1, FS_CardinalityType DEF Balanced, PermitTypeOK
<1>3. ~Held(r)'
  BY DEF Held
<1>4. CASE r \in Holders /\ waiters = <<>> /\ free' = free + 1 /\ UNCHANGED waiters
  <2>1. r \in H
    BY <1>1, <1>4 DEF Holders, Held, InQueue
  <2>2. IsFiniteSet(H \ {r}) /\ free' + Cardinality(H \ {r}) = MaxPermits
    <3>1. IsFiniteSet(H \ {r}) /\ Cardinality(H \ {r}) = Cardinality(H) - 1
      BY <1>1, <2>1, FS_RemoveElement
    <3> QED
      BY <1>1, <1>2, <1>4, <3>1
  <2>3. \A q : q \in H \ {r} <=> q \in Reqs /\ Held(q)'
    BY <1>1, <1>3, <1>4 DEF Held, Others
  <2>4. \A q \in Reqs : ~InQueue(waiters, q)'
    BY <1>4 DEF InQueue
  <2> QED
    BY <1>2, <1>4, <2>2, <2>3, <2>4 DEF Balanced
<1>5. CASE r \in Holders /\ waiters # <<>> /\ waiters' = Tail(waiters) /\ UNCHANGED free
  <2> DEFINE w == Head(waiters)
  <2>1. r \in H /\ ~InQueue(waiters, r)
    BY <1>1, <1>5 DEF Holders, Held, InQueue, InHandler, Balanced
  <2>2. /\ NoRepeats(waiters') /\ w \in Reqs
        /\ \A q : InQueue(waiters', q) <=> InQueue(waiters, q) /\ q # w
    BY <1>2, <1>5, TailQueue
  <2>3. InQueue(waiters, w)
    BY <1>2, <1>5 DEF InQueue
  <2>4. phase[w] = "permit" /\ w # r /\ w \notin H
    BY <1>1, <2>1, <2>2, <2>3 DEF Balanced, Held, InHandler
  <2>5. /\ IsFiniteSet((H \ {r}) \cup {w})
        /\ Cardinality((H \ {r}) \cup {w}) = Cardinality(H)
    <3>1. IsFiniteSet(H \ {r}) /\ Cardinality(H \ {r}) = Cardinality(H) - 1
      BY <1>1, <2>1, FS_RemoveElement
    <3>2. w \notin H \ {r}
      BY <2>4
    <3> HIDE DEF w
    <3>3. /\ IsFiniteSet((H \ {r}) \cup {w})
          /\ Cardinality((H \ {r}) \cup {w}) = Cardinality(H \ {r}) + 1
      BY <3>1, <3>2, FS_AddElement
    <3> QED
      BY <1>2, <3>1, <3>3
  <2>6. \A q : q \in (H \ {r}) \cup {w} <=> q \in Reqs /\ Held(q)'
    BY <1>1, <1>3, <2>2, <2>4 DEF Held, Others
  <2>7. \A q \in Reqs : InQueue(waiters', q) => phase'[q] = "permit"
    BY <2>1, <2>2 DEF Balanced, Others
  <2>8. free' = 0
    BY <1>2, <1>5 DEF Balanced
  <2> HIDE DEF w
  <2>9. \E G : /\ IsFiniteSet(G) /\ \A q : q \in G <=> q \in Reqs /\ Held(q)'
               /\ free' + Cardinality(G) = MaxPermits
    BY <1>1, <1>5, <2>5, <2>6
  <2> QED
    BY <2>2, <2>7, <2>8, <2>9 DEF Balanced
<1>6. ASSUME NEW k \in DOMAIN waiters, waiters[k] = r,
             waiters' = RemoveAt(waiters, k), UNCHANGED free
      PROVE  Balanced'
  <2>1. InQueue(waiters, r) /\ phase[r] = "permit"
    BY <1>6 DEF InQueue, Balanced
  <2>2. /\ NoRepeats(waiters')
        /\ \A q : InQueue(waiters', q) <=> InQueue(waiters, q) /\ q # r
    BY <1>2, <1>6, RemoveAtQueue
  <2>3. \A q \in Reqs : Held(q)' <=> Held(q)
    BY <1>3, <2>1, <2>2 DEF Held, Others, InHandler
  <2>4. \A q \in Reqs : InQueue(waiters', q) => phase'[q] = "permit"
    BY <2>2 DEF Balanced, Others
  <2>5. free' = 0
    BY <1>2, <1>6 DEF Balanced
  <2>6. \E G : /\ IsFiniteSet(G) /\ \A q : q \in G <=> q \in Reqs /\ Held(q)'
               /\ free' + Cardinality(G) = MaxPermits
    BY <1>1, <1>6, <2>3
  <2> QED
    BY <2>2, <2>4, <2>5, <2>6 DEF Balanced
<1>7. CASE phase[r] \notin InHandler \cup {"permit"} /\ UNCHANGED permitVars
  BY <1>7, SameHolders DEF Others
<1> QED
  BY <1>4, <1>5, <1>6, <1>7 DEF DropFuture, ReleasePermit

-----------------------------------------------------------------------------
(* The steps of the server *)

\* Every step of the server keeps the permits balanced.
LEMMA BalancedStep ==
    ASSUME TypeOK, Balanced, InlineOnLoop, [Next]_vars
    PROVE  Balanced'
<1> USE DEF TypeOK, TaskTypeOK
<1> DEFINE Idle == UNCHANGED <<phase, permitVars>>
           Move == /\ UNCHANGED permitVars
                   /\ \E r \in Reqs, p \in Phase :
                         /\ phase' = [phase EXCEPT ![r] = p]
                         /\ p \in InHandler <=> phase[r] \in InHandler
                         /\ p # "permit" /\ phase[r] # "permit"
<1>idle. Idle => Balanced'
  BY SameHolders
<1>move. Move => Balanced'
  BY SameHolders
<1>1. CASE UNCHANGED vars
  BY <1>1, <1>idle DEF vars, taskVars
<1>2. CASE ReadMalformed
  BY <1>2, <1>idle DEF ReadMalformed, taskVars
<1>3. CASE EnqueueNotification
  BY <1>3, <1>idle DEF EnqueueNotification, taskVars
<1>4. ASSUME NEW i \in Ids, CancelRequest(i) PROVE Balanced'
  BY <1>4, <1>idle DEF CancelRequest, taskVars
<1>5. CASE ReadExit
  BY <1>5, <1>idle DEF ReadExit, LeaveLoop, taskVars
<1>6. CASE ReadEof
  BY <1>6, <1>idle DEF ReadEof, LeaveLoop, taskVars
<1>7. CASE FramingError
  BY <1>7, <1>idle DEF FramingError, LeaveLoop, taskVars
<1>8. CASE ShutdownSignal
  BY <1>8, <1>idle DEF ShutdownSignal, LeaveLoop, taskVars
<1>9. CASE InsertEntry
  BY <1>9, <1>idle DEF InsertEntry, taskVars
<1>10. CASE AbortCancelled
  BY <1>10, <1>idle DEF AbortCancelled, taskVars
<1>11. CASE CallShutdown
  BY <1>11, <1>idle DEF CallShutdown, taskVars
<1>12. CASE WriterDead
  BY <1>12, <1>idle DEF WriterDead, LeaveLoop, taskVars
<1>13. ASSUME NEW i \in Ids, DrainEntry(i) PROVE Balanced'
  BY <1>13, <1>idle DEF DrainEntry, taskVars
<1>14. CASE EndDrain
  BY <1>14, <1>idle DEF EndDrain, taskVars
<1>15. CASE ReturnFromLoop
  BY <1>15, <1>idle DEF ReturnFromLoop, taskVars
<1>16. CASE JoinWriter
  BY <1>16, <1>idle DEF JoinWriter, taskVars
<1>17. CASE InlinePanic
  BY <1>17, <1>idle DEF InlinePanic, taskVars
<1>18. CASE GraceExpires
  BY <1>18, <1>idle DEF GraceExpires, taskVars
<1>19. CASE WorkerNext
  BY <1>19, <1>idle DEF WorkerNext, TakeNote, NoteSuspends, NoteResumes, NoteDone, NoteReturns,
     NotePanics, WorkerEnds, WorkerAborted, taskVars
<1>20. CASE LastClientDropped \/ WriterNext
  BY <1>20, <1>idle DEF LastClientDropped, WriterNext, WriterTakes, WriterFlushes, WriterFails, WriterEnds, taskVars
<1>21. CASE Terminated
  BY <1>21, <1>idle DEF Terminated, vars, taskVars
<1>22. ASSUME NEW r \in Reqs, NEW kind \in RequestKind, RejectRequest(r, kind) PROVE Balanced'
  <2>1. Move
    BY <1>22 DEF RejectRequest, InHandler, Phase, TaskPhase, AtRest, OnThread, Gone
  <2> QED
    BY <2>1, <1>move
<1>23. ASSUME NEW r \in Reqs, NEW i \in Ids, RejectDuplicate(r, i) PROVE Balanced'
  <2>1. Move
    BY <1>23 DEF RejectDuplicate, InHandler, Phase, TaskPhase, AtRest, OnThread, Gone
  <2> QED
    BY <2>1, <1>move
<1>24. ASSUME NEW r \in Reqs, NEW i \in Ids, SpawnRequest(r, i) PROVE Balanced'
  <2>1. Move
    BY <1>24 DEF SpawnRequest, InHandler, Phase, TaskPhase, AtRest, OnThread, Gone
  <2> QED
    BY <2>1, <1>move
<1>25. ASSUME NEW r \in Reqs, StartInitialize(r) PROVE Balanced'
  <2>1. Move
    BY <1>25 DEF StartInitialize, InHandler, Phase, TaskPhase, AtRest, OnThread, Gone
  <2> QED
    BY <2>1, <1>move
<1>26. ASSUME NEW r \in Reqs, StartShutdown(r) PROVE Balanced'
  <2>1. Move
    BY <1>26 DEF StartShutdown, InHandler, Phase, TaskPhase, AtRest, OnThread, Gone
  <2> QED
    BY <2>1, <1>move
<1>27. ASSUME NEW ok \in BOOLEAN, FinishInitialize(ok) PROVE Balanced'
  <2>1. Move
    BY <1>27 DEF FinishInitialize, InlineOnLoop, InHandler, Phase, TaskPhase, AtRest, OnThread, Gone
  <2> QED
    BY <2>1, <1>move
<1>28. CASE FinishShutdown
  <2>1. Move
    BY <1>28 DEF FinishShutdown, InlineOnLoop, InHandler, Phase, TaskPhase, AtRest, OnThread, Gone
  <2> QED
    BY <2>1, <1>move
<1>29. ASSUME NEW r \in Reqs, PollTask(r) PROVE Balanced'
  <2>1. Move
    BY <1>29 DEF PollTask, InHandler, Phase, TaskPhase, AtRest, OnThread, Gone
  <2> QED
    BY <2>1, <1>move
<1>30. ASSUME NEW r \in Reqs, WaitForNotifications(r) PROVE Balanced'
  <2>1. Move
    BY <1>30 DEF WaitForNotifications, InHandler, Phase, TaskPhase, AtRest, OnThread, Gone
  <2> QED
    BY <2>1, <1>move
<1>31. ASSUME NEW r \in Reqs, HandlerSuspends(r) PROVE Balanced'
  <2>1. Move
    BY <1>31 DEF HandlerSuspends, InHandler, Phase, TaskPhase, AtRest, OnThread, Gone
  <2> QED
    BY <2>1, <1>move
<1>32. ASSUME NEW r \in Reqs, HandlerResumes(r) PROVE Balanced'
  <2>1. Move
    BY <1>32 DEF HandlerResumes, InHandler, Phase, TaskPhase, AtRest, OnThread, Gone
  <2> QED
    BY <2>1, <1>move
<1>33. ASSUME NEW r \in Reqs, HandlerReturns(r) PROVE Balanced'
  <2>1. Move
    BY <1>33 DEF HandlerReturns, InHandler, Phase, TaskPhase, AtRest, OnThread, Gone
  <2> QED
    BY <2>1, <1>move
<1>34. ASSUME NEW r \in Reqs, ClaimEntry(r) PROVE Balanced'
  <2>1. Move
    BY <1>34 DEF ClaimEntry, InHandler, Phase, TaskPhase, AtRest, OnThread, Gone
  <2> QED
    BY <2>1, <1>move
<1>35. ASSUME NEW r \in Reqs, AcquirePermit(r) PROVE Balanced'
  <2>1. Others(r) /\ phase[r] \notin InHandler \cup {"permit"}
    BY <1>35 DEF AcquirePermit, Others, InHandler
  <2>2. CASE free > 0 /\ free' = free - 1 /\ UNCHANGED waiters /\ phase' = [phase EXCEPT ![r] = "running"]
    BY <2>1, <2>2, TakeFree
  <2>3. CASE free = 0 /\ waiters' = Append(waiters, r) /\ UNCHANGED free /\ phase' = [phase EXCEPT ![r] = "permit"]
    BY <2>1, <2>3, JoinQueue
  <2> QED
    BY <1>35, <2>2, <2>3 DEF AcquirePermit
<1>36. ASSUME NEW r \in Reqs, ResumeWithPermit(r) PROVE Balanced'
  <2>1. phase[r] = "permit" /\ ~InQueue(waiters, r)
    BY <1>36 DEF ResumeWithPermit, Holders, InHandler, InQueue
  <2>2. Others(r) /\ phase'[r] = "running" /\ UNCHANGED permitVars
    BY <1>36 DEF ResumeWithPermit, Others
  <2> QED
    BY <2>1, <2>2, HolderRuns
<1>37. ASSUME NEW r \in Reqs, ClaimFails(r) PROVE Balanced'
  <2>1. Others(r) /\ phase'[r] \notin InHandler \cup {"permit"} /\ DropFuture(r)
    BY <1>37 DEF ClaimFails, Others, InHandler
  <2> QED
    BY <2>1, LeavePermits
<1>38. ASSUME NEW r \in Reqs, SendResponse(r) PROVE Balanced'
  <2>1. Others(r) /\ phase'[r] \notin InHandler \cup {"permit"} /\ DropFuture(r)
    BY <1>38 DEF SendResponse, Others, InHandler
  <2> QED
    BY <2>1, LeavePermits
<1>39. ASSUME NEW r \in Reqs, ReapTask(r) PROVE Balanced'
  <2>1. Others(r) /\ phase'[r] \notin InHandler \cup {"permit"} /\ DropFuture(r)
    BY <1>39 DEF ReapTask, Others, InHandler
  <2> QED
    BY <2>1, LeavePermits
<1> QED
  BY <1>1, <1>2, <1>3, <1>4, <1>5, <1>6, <1>7, <1>8, <1>9, <1>10, <1>11,
     <1>12, <1>13, <1>14, <1>15, <1>16, <1>17, <1>18, <1>19, <1>20, <1>21,
     <1>22, <1>23, <1>24, <1>25, <1>26, <1>27, <1>28, <1>29, <1>30, <1>31,
     <1>32, <1>33, <1>34, <1>35, <1>36, <1>37, <1>38, <1>39
     DEF Next, ReadNext, LoopNext, TaskNext

\* Only the loop itself moves the request whose handler it runs.
LEMMA InlineStep ==
    ASSUME TypeOK, InlineOnLoop, [Next]_vars
    PROVE  InlineOnLoop'
<1> USE DEF InlineOnLoop, TypeOK, LoopTypeOK, TaskTypeOK
<1>1. CASE ReadNext
  BY <1>1 DEF ReadNext, ReadMalformed, EnqueueNotification, RejectRequest, StartInitialize,
     StartShutdown, RejectDuplicate, SpawnRequest, CancelRequest, ReadExit, ReadEof,
     FramingError, ShutdownSignal, LeaveLoop, loopVars, taskVars
<1>2. CASE LoopNext
  BY <1>2 DEF LoopNext, InsertEntry, AbortCancelled, FinishInitialize, CallShutdown,
     FinishShutdown, WriterDead, LeaveLoop, DrainEntry, EndDrain, ReturnFromLoop, JoinWriter,
     loopVars, taskVars
<1>3. CASE InlinePanic \/ GraceExpires
  BY <1>3 DEF InlinePanic, GraceExpires, loopVars, taskVars
<1>4. ASSUME NEW r \in Reqs, TaskNext(r) PROVE InlineOnLoop'
  <2>1. UNCHANGED <<loop, cur>> /\ phase[r] # "inline"
    BY <1>4 DEF TaskNext, PollTask, WaitForNotifications, AcquirePermit, ResumeWithPermit,
       HandlerSuspends, HandlerResumes, HandlerReturns, ClaimEntry, ClaimFails, SendResponse,
       ReapTask, AtRest, loopVars
  <2>2. \A q \in Reqs \ {r} : phase'[q] = phase[q]
    BY <1>4 DEF TaskNext, PollTask, WaitForNotifications, AcquirePermit, ResumeWithPermit,
       HandlerSuspends, HandlerResumes, HandlerReturns, ClaimEntry, ClaimFails, SendResponse,
       ReapTask
  <2> QED
    BY <2>1, <2>2
<1>5. CASE WorkerNext
  BY <1>5 DEF WorkerNext, TakeNote, NoteSuspends, NoteResumes, NoteDone, NoteReturns,
     NotePanics, WorkerEnds, WorkerAborted, loopVars, taskVars
<1>6. CASE LastClientDropped \/ WriterNext
  BY <1>6 DEF LastClientDropped, WriterNext, WriterTakes, WriterFlushes, WriterFails, WriterEnds,
     loopVars, taskVars
<1>7. CASE Terminated \/ UNCHANGED vars
  BY <1>7 DEF Terminated, vars, loopVars, taskVars
<1> QED
  BY <1>1, <1>2, <1>3, <1>4, <1>5, <1>6, <1>7 DEF Next

\* No abort loses or forges a permit and none idles while a task waits: at any
\* time, the free permits and those held are MaxPermits in all, whether a task
\* ends, panics or is aborted, before, in or after the queue.
THEOREM PermitsAreConserved == Spec => []PermitsConserved
<1>1. Init => PermitInv
  <2> SUFFICES ASSUME Init PROVE PermitInv
    OBVIOUS
  <2> USE DEF Init, Quiet
  <2>1. Holders = {}
    BY DEF Holders, InHandler
  <2>2. IsFiniteSet({}) /\ Cardinality({}) = 0
    BY FS_EmptySet
  <2>3. DOMAIN waiters = {}
    OBVIOUS
  <2> QED
    BY <2>1, <2>2, <2>3, BoundAssumption DEF PermitInv, PermitsConserved, InlineOnLoop
<1>2. TypeOK /\ PermitInv /\ [Next]_vars => PermitInv'
  <2> SUFFICES ASSUME TypeOK, PermitInv, [Next]_vars PROVE PermitInv'
    OBVIOUS
  <2>1. Balanced /\ InlineOnLoop
    BY BalancedMeans DEF PermitInv, TypeOK
  <2>2. Balanced' /\ InlineOnLoop'
    BY <2>1, BalancedStep, InlineStep
  <2>3. PermitTypeOK'
    BY TypeStep DEF TypeOK
  <2>4. PermitTypeOK' => (Balanced' <=> PermitsConserved' /\ IsFiniteSet(Holders)')
    BY BalancedMeans, PTL
  <2> QED
    BY <2>2, <2>3, <2>4 DEF PermitInv
<1>3. PermitInv => PermitsConserved
  BY DEF PermitInv
<1> QED
  BY <1>1, <1>2, <1>3, TypeCorrect, PTL DEF Spec

-----------------------------------------------------------------------------
(* The notification worker and the loop *)

\* The counters only run after each other, a worker that ended has done it all,
\* and it ends or is aborted only when the loop has left its select! for good.
NotesInv ==
    /\ notesDone <= notesTaken /\ notesTaken <= notesEnqueued
    /\ worker = "idle" => notesDone = notesTaken
    /\ worker = "ended" => notesDone = notesEnqueued /\ notesClosed
    /\ worker = "aborted" => workerAbort
    /\ notesClosed => ~Serving
    /\ workerAbort => loop \in {"grace", "joining", "done"}
    /\ loop = "shuttingDown" => notesDone = notesEnqueued

\* A step that leaves the worker alone and does not return the loop to serving.
LEMMA NotesFrame ==
    ASSUME NotesInv, UNCHANGED noteVars,
           UNCHANGED loop \/ /\ loop' # "shuttingDown"
                             /\ ~Serving => ~Serving'
                             /\ loop \in {"grace", "joining", "done"}
                                    => loop' \in {"grace", "joining", "done"}
    PROVE  NotesInv'
  BY DEF NotesInv, noteVars, Serving

\* Every step keeps the counters and the worker's end in order.
LEMMA NotesStep == TypeOK /\ NotesInv /\ [Next]_vars => NotesInv'
<1> SUFFICES ASSUME TypeOK, NotesInv, [Next]_vars PROVE NotesInv'
  OBVIOUS
<1>1. CASE ReadNext
  <2>1. CASE ReadMalformed
    BY <2>1, NotesFrame DEF ReadMalformed, loopVars
  <2>2. CASE EnqueueNotification
    BY <2>2 DEF EnqueueNotification, NotesInv, Serving, loopVars, TypeOK, NoteTypeOK
  <2>3. ASSUME NEW r \in Reqs, NEW kind \in RequestKind, RejectRequest(r, kind) PROVE NotesInv'
    BY <2>3, NotesFrame DEF RejectRequest, loopVars
  <2>4. ASSUME NEW r \in Reqs, StartInitialize(r) \/ StartShutdown(r) PROVE NotesInv'
    BY <2>4, NotesFrame DEF StartInitialize, StartShutdown, Serving
  <2>5. ASSUME NEW r \in Reqs, NEW i \in Ids, RejectDuplicate(r, i) PROVE NotesInv'
    BY <2>5, NotesFrame DEF RejectDuplicate, loopVars
  <2>6. ASSUME NEW r \in Reqs, NEW i \in Ids, SpawnRequest(r, i) PROVE NotesInv'
    BY <2>6, NotesFrame DEF SpawnRequest, Serving
  <2>7. ASSUME NEW i \in Ids, CancelRequest(i) PROVE NotesInv'
    BY <2>7, NotesFrame DEF CancelRequest, Serving
  <2>8. CASE ReadExit \/ ReadEof \/ FramingError \/ ShutdownSignal
    BY <2>8 DEF ReadExit, ReadEof, FramingError, ShutdownSignal, LeaveLoop, NotesInv, Serving
  <2> QED
    BY <1>1, <2>1, <2>2, <2>3, <2>4, <2>5, <2>6, <2>7, <2>8 DEF ReadNext
<1>2. CASE LoopNext
  <2>1. CASE InsertEntry \/ AbortCancelled \/ FinishShutdown
    BY <2>1, NotesFrame DEF InsertEntry, AbortCancelled, FinishShutdown, Serving
  <2>2. ASSUME NEW ok \in BOOLEAN, FinishInitialize(ok) PROVE NotesInv'
    BY <2>2, NotesFrame DEF FinishInitialize, Serving
  <2>3. CASE CallShutdown
    BY <2>3 DEF CallShutdown, NotesInv, Serving, WorkerGone, noteVars, TypeOK, NoteTypeOK
  <2>4. CASE WriterDead
    BY <2>4 DEF WriterDead, LeaveLoop, NotesInv, Serving
  <2>5. ASSUME NEW i \in Ids, DrainEntry(i) PROVE NotesInv'
    BY <2>5, NotesFrame DEF DrainEntry, loopVars
  <2>6. CASE EndDrain \/ ReturnFromLoop \/ JoinWriter
    BY <2>6, NotesFrame DEF EndDrain, ReturnFromLoop, JoinWriter, Serving
  <2> QED
    BY <1>2, <2>1, <2>2, <2>3, <2>4, <2>5, <2>6 DEF LoopNext
<1>3. CASE InlinePanic
  BY <1>3 DEF InlinePanic, NotesInv, Serving
<1>4. CASE GraceExpires
  BY <1>4 DEF GraceExpires, NotesInv, Serving, loopVars
<1>5. ASSUME NEW r \in Reqs, TaskNext(r) PROVE NotesInv'
  BY <1>5, NotesFrame DEF TaskNext, PollTask, WaitForNotifications, AcquirePermit,
     ResumeWithPermit, HandlerSuspends, HandlerResumes, HandlerReturns, ClaimEntry, ClaimFails,
     SendResponse, ReapTask, loopVars
<1>6. CASE WorkerNext
  BY <1>6 DEF WorkerNext, TakeNote, NoteSuspends, NoteResumes, NoteDone, NoteReturns,
     NotePanics, WorkerEnds, WorkerAborted, NotesInv, Serving, loopVars, TypeOK, NoteTypeOK
<1>7. CASE LastClientDropped \/ WriterNext
  BY <1>7, NotesFrame DEF LastClientDropped, WriterNext, WriterTakes, WriterFlushes, WriterFails,
     WriterEnds, loopVars
<1>8. CASE Terminated \/ UNCHANGED vars
  BY <1>8, NotesFrame DEF Terminated, vars, loopVars
<1> QED
  BY <1>1, <1>2, <1>3, <1>4, <1>5, <1>6, <1>7, <1>8 DEF Next

\* A new connection has no notifications.
LEMMA NotesInit == Init => NotesInv
  BY DEF Init, Quiet, NotesInv, Serving

\* The shutdown handler runs after every notification received before it, for
\* any handlers, panics and notifications.
THEOREM ShutdownComesLast == Spec => []ShutdownSeesNotes
<1>1. NotesInv => ShutdownSeesNotes
  BY DEF NotesInv, ShutdownSeesNotes
<1>2. TypeOK /\ NotesInv /\ [Next]_vars => NotesInv'
  BY NotesStep
<1> QED
  BY <1>1, <1>2, NotesInit, TypeCorrect, PTL DEF Spec

-----------------------------------------------------------------------------
(* Aborts *)

\* A task is aborted only after its token, a live task that will never answer
\* has been aborted, and the loop past its drain has left no entry.
AbortInv ==
    /\ \A r \in Reqs : aborted[r] => token[r] /\ phase[r] \in TaskPhase
    /\ \A r \in Reqs :
           phase[r] \in LiveTask /\ (replies[r] > 0 \/ r \in dropped) => aborted[r]
    /\ loop = "cancelling" => token[cur]
    /\ loop \in {"grace", "joining", "done"} => \A i \in Ids : inFlight[i] = NoReq

\* A task that moves between the phases of a task, and one that ends.
LEMMA AbortTaskMove ==
    ASSUME TypeOK, AbortInv, NEW r \in Reqs, NEW p \in TaskPhase,
           phase[r] \in LiveTask, phase' = [phase EXCEPT ![r] = p],
           UNCHANGED <<loop, cur, inFlight, token, aborted, dropped, replies>>
    PROVE  AbortInv'
  BY DEF AbortInv, TypeOK, TaskTypeOK, LiveTask, TaskPhase

\* A step that touches none of the state aborts are about.
LEMMA AbortFrame ==
    ASSUME AbortInv,
           UNCHANGED <<cur, inFlight, phase, token, aborted, dropped, replies>>,
           \/ UNCHANGED loop
           \/ /\ loop' # "cancelling"
              /\ loop' \in {"grace", "joining", "done"} => loop \in {"grace", "joining", "done"}
    PROVE  AbortInv'
  BY DEF AbortInv

\* A request that the loop answers itself is not aborted, and stays without task.
LEMMA AbortSettled ==
    ASSUME TypeOK, AbortInv, NEW r \in Reqs, phase[r] \in {"unsent", "inline"},
           NEW p \in {"inline", "settled"}, phase' = [phase EXCEPT ![r] = p],
           UNCHANGED <<inFlight, token, aborted, dropped>>,
           \A q \in Reqs : q # r => replies'[q] = replies[q],
           UNCHANGED <<loop, cur>> \/ loop' \in {"select", "initializing", "awaitNotes"}
    PROVE  AbortInv'
  BY DEF AbortInv, TypeOK, TaskTypeOK, LiveTask, TaskPhase, AtRest, OnThread, Gone

\* Only the reply to r is counted.
LEMMA ReplyCounts ==
    ASSUME TypeOK, NEW r \in Reqs, Reply(r)
    PROVE  \A q \in Reqs : replies'[q] = IF q = r THEN replies[q] + 1 ELSE replies[q]
  BY DEF Reply, TypeOK, OutTypeOK

\* Every step of the loop and of teardown keeps tokens before aborts.
LEMMA AbortLoop ==
    ASSUME TypeOK, AnswerInv, AbortInv, LoopNext
    PROVE  AbortInv'
<1>1. CASE InsertEntry
  BY <1>1 DEF InsertEntry, AbortInv, outVars
<1>2. CASE AbortCancelled
  <2>1. cur \in Reqs /\ Reply(cur) /\ aborted' = [aborted EXCEPT ![cur] = TRUE]
        /\ phase[cur] \in TaskPhase /\ token[cur] /\ loop' = "select"
        /\ UNCHANGED <<inFlight, phase, token, dropped>>
    BY <1>2 DEF AbortCancelled, AnswerInv, LoopOwes, Owes, TaskPhase, AbortInv
  <2>2. \A q \in Reqs : replies'[q] = IF q = cur THEN replies[q] + 1 ELSE replies[q]
    BY <2>1, ReplyCounts
  <2> QED
    BY <2>1, <2>2 DEF AbortInv, TypeOK, TaskTypeOK
<1>3. ASSUME NEW ok \in BOOLEAN, FinishInitialize(ok) PROVE AbortInv'
  BY <1>3, ReplyCounts, AbortSettled DEF FinishInitialize, AnswerInv, LoopOwes
<1>4. CASE FinishShutdown
  BY <1>4, ReplyCounts, AbortSettled DEF FinishShutdown, AnswerInv, LoopOwes
<1>5. CASE CallShutdown \/ ReturnFromLoop \/ JoinWriter
  BY <1>5, AbortFrame DEF CallShutdown, ReturnFromLoop, JoinWriter, taskVars, outVars
<1>6. CASE WriterDead
  BY <1>6, AbortFrame DEF WriterDead, LeaveLoop, taskVars, outVars
<1>7. ASSUME NEW i \in Ids, DrainEntry(i) PROVE AbortInv'
  <2>1. inFlight[i] \in Reqs /\ phase[inFlight[i]] \in TaskPhase
    BY <1>7 DEF DrainEntry, AnswerInv, EntriesOwe, Owes, TaskPhase, TypeOK, TaskTypeOK
  <2> QED
    BY <1>7, <2>1 DEF DrainEntry, AbortInv, TypeOK, TaskTypeOK, loopVars, outVars
<1>8. CASE EndDrain
  BY <1>8 DEF EndDrain, AbortInv, taskVars, outVars
<1> QED
  BY <1>1, <1>2, <1>3, <1>4, <1>5, <1>6, <1>7, <1>8 DEF LoopNext

\* Every step keeps tokens before aborts.
LEMMA AbortStep == TypeOK /\ AnswerInv /\ AbortInv /\ [Next]_vars => AbortInv'
<1> SUFFICES ASSUME TypeOK, AnswerInv, AbortInv, [Next]_vars PROVE AbortInv'
  OBVIOUS
<1>1. CASE ReadNext
  <2>1. CASE ReadMalformed \/ EnqueueNotification
    BY <2>1, AbortFrame DEF ReadMalformed, EnqueueNotification, loopVars, taskVars, outVars
  <2>2. ASSUME NEW r \in Reqs, NEW kind \in RequestKind, RejectRequest(r, kind) PROVE AbortInv'
    BY <2>2, ReplyCounts, AbortSettled DEF RejectRequest, loopVars
  <2>3. ASSUME NEW r \in Reqs, StartInitialize(r) \/ StartShutdown(r) PROVE AbortInv'
    BY <2>3, AbortSettled DEF StartInitialize, StartShutdown, outVars
  <2>4. ASSUME NEW r \in Reqs, NEW i \in Ids, RejectDuplicate(r, i) PROVE AbortInv'
    BY <2>4, ReplyCounts, AbortSettled DEF RejectDuplicate, loopVars
  <2>5. ASSUME NEW r \in Reqs, NEW i \in Ids, SpawnRequest(r, i) PROVE AbortInv'
    <3>1. ~aborted[r] /\ replies[r] = 0 /\ r \notin dropped
      BY <2>5 DEF SpawnRequest, AnswerInv, PhaseAnswers
    <3> QED
      BY <2>5, <3>1 DEF SpawnRequest, AbortInv, TypeOK, TaskTypeOK, TaskPhase, AtRest, outVars
  <2>6. ASSUME NEW i \in Ids, CancelRequest(i) PROVE AbortInv'
    <3>1. inFlight[i] \in Reqs
      BY <2>6 DEF CancelRequest, TypeOK, TaskTypeOK
    <3> QED
      BY <2>6, <3>1 DEF CancelRequest, AbortInv, TypeOK, TaskTypeOK, outVars
  <2>7. CASE ReadExit \/ ReadEof \/ FramingError \/ ShutdownSignal
    BY <2>7, AbortFrame DEF ReadExit, ReadEof, FramingError, ShutdownSignal, LeaveLoop,
       taskVars, outVars
  <2> QED
    BY <1>1, <2>1, <2>2, <2>3, <2>4, <2>5, <2>6, <2>7 DEF ReadNext
<1>2. CASE LoopNext
  BY <1>2, AbortLoop
<1>3. CASE InlinePanic
  BY <1>3 DEF InlinePanic, AbortInv, taskVars, outVars
<1>4. CASE GraceExpires
  BY <1>4, AbortFrame DEF GraceExpires, loopVars, taskVars, outVars
<1>5. ASSUME NEW r \in Reqs, TaskNext(r) PROVE AbortInv'
  <2>1. CASE ClaimEntry(r)
    BY <2>1 DEF ClaimEntry, AbortInv, TypeOK, TaskTypeOK, LiveTask, TaskPhase, AtRest, OnThread,
       loopVars, outVars
  <2>2. CASE SendResponse(r)
    <3>1. \A q \in Reqs : q # r => replies'[q] = replies[q]
      BY <2>2, ReplyCounts DEF SendResponse
    <3> QED
      BY <2>2, <3>1 DEF SendResponse, AbortInv, TypeOK, TaskTypeOK, LiveTask, TaskPhase,
         AtRest, OnThread, Gone, loopVars
  <2>3. CASE \/ PollTask(r) \/ WaitForNotifications(r) \/ AcquirePermit(r)
             \/ ResumeWithPermit(r) \/ HandlerSuspends(r) \/ HandlerResumes(r)
             \/ HandlerReturns(r) \/ ClaimFails(r) \/ ReapTask(r)
    <3>1. \E p \in TaskPhase : phase' = [phase EXCEPT ![r] = p]
      BY <2>3 DEF PollTask, WaitForNotifications, AcquirePermit, ResumeWithPermit,
         HandlerSuspends, HandlerResumes, HandlerReturns, ClaimFails, ReapTask,
         TaskPhase, AtRest, OnThread, Gone
    <3>2. phase[r] \in LiveTask
          /\ UNCHANGED <<loop, cur, inFlight, token, aborted, dropped, replies>>
      BY <2>3 DEF PollTask, WaitForNotifications, AcquirePermit, ResumeWithPermit,
         HandlerSuspends, HandlerResumes, HandlerReturns, ClaimFails, ReapTask,
         LiveTask, AtRest, OnThread, loopVars, outVars
    <3> QED
      BY <3>1, <3>2, AbortTaskMove
  <2> QED
    BY <1>5, <2>1, <2>2, <2>3 DEF TaskNext
<1>6. CASE WorkerNext
  BY <1>6, AbortFrame DEF WorkerNext, TakeNote, NoteSuspends, NoteResumes, NoteDone, NoteReturns,
     NotePanics, WorkerEnds, WorkerAborted, loopVars, taskVars, outVars
<1>7. CASE LastClientDropped \/ WriterNext
  BY <1>7, AbortFrame DEF LastClientDropped, WriterNext, WriterTakes, WriterFlushes, WriterFails,
     WriterEnds, loopVars, taskVars
<1>8. CASE Terminated \/ UNCHANGED vars
  BY <1>8, AbortFrame DEF Terminated, vars, loopVars, taskVars, outVars
<1> QED
  BY <1>1, <1>2, <1>3, <1>4, <1>5, <1>6, <1>7, <1>8 DEF Next

\* A new connection has aborted nothing.
LEMMA AbortInit == Init => AbortInv
  BY DEF Init, Quiet, AbortInv, LiveTask, AtRest, OnThread

\* An entry found under a request's id can only be claimed by it while it is
\* not aborted.
LEMMA AbortedHasNoEntry == AnswerInv /\ AbortInv => AbortedAfterToken
<1> SUFFICES ASSUME AnswerInv, AbortInv, NEW r \in Reqs, aborted[r]
             PROVE  token[r] /\ inFlight[idOf[r]] # r
  BY DEF AbortedAfterToken
<1>1. token[r] /\ phase[r] \in TaskPhase
  BY DEF AbortInv
<1>2. idOf[r] \in Ids
  BY <1>1 DEF AnswerInv, PhaseAnswers
<1>3. ASSUME inFlight[idOf[r]] = r PROVE ~aborted[r]
  BY <1>2, <1>3, NoReqAssumption DEF AnswerInv, EntriesOwe, Owes
<1> QED
  BY <1>1, <1>3

\* With ids not reused early, a task is aborted only with its token tripped and
\* its entry out of its reach, by a cancellation as by teardown.
THEOREM TokenBeforeAbort ==
    ASSUME PromptReuse = FALSE
    PROVE  Spec => []AbortedAfterToken
<1>1. TypeOK /\ AnswerInv /\ [Next]_vars => AnswerInv'
  BY AnswerStep
<1> QED
  BY <1>1, AbortStep, AbortInit, AnswerInit, AbortedHasNoEntry, TypeCorrect, PTL DEF Spec

-----------------------------------------------------------------------------
(* Handlers after notifications *)

\* A task past its wait has its notifications handled, unless the worker was
\* aborted in teardown, and then it can no longer claim its entry.
Caught(r) == notesDone >= watermark[r] \/ (worker = "aborted" /\ phase[r] # "claimed")
WatermarkInv ==
    \A r \in Reqs :
        /\ watermark[r] <= notesEnqueued
        /\ phase[r] \in InHandler \cup {"permit"} => Caught(r)

\* A step that neither moves a task past its wait nor forgets a notification.
LEMMA WatermarkFrame ==
    ASSUME TypeOK, NotesInv, WatermarkInv, UNCHANGED watermark,
           notesEnqueued' \in Nat, notesDone' \in Nat,
           notesEnqueued' >= notesEnqueued, notesDone' >= notesDone,
           worker = "aborted" => worker' = "aborted",
           \A r \in Reqs : \/ phase'[r] = phase[r]
                           \/ phase'[r] \notin InHandler \cup {"permit"}
                           \/ /\ phase[r] \in InHandler \cup {"permit"}
                              /\ phase'[r] # "claimed"
    PROVE  WatermarkInv'
<1> SUFFICES ASSUME NEW r \in Reqs
             PROVE  /\ watermark[r] <= notesEnqueued'
                    /\ phase'[r] \in InHandler \cup {"permit"} =>
                           notesDone' >= watermark[r] \/ (worker' = "aborted" /\ phase'[r] # "claimed")
  BY DEF WatermarkInv, Caught
<1>1. /\ watermark[r] \in Nat /\ notesEnqueued \in Nat /\ notesDone \in Nat
      /\ watermark[r] <= notesEnqueued
      /\ phase[r] \in InHandler \cup {"permit"} =>
             notesDone >= watermark[r] \/ (worker = "aborted" /\ phase[r] # "claimed")
  BY DEF WatermarkInv, Caught, TypeOK, TaskTypeOK, NoteTypeOK
<1> QED
  BY <1>1

\* A task past its wait: the worker is gone only if it ran every notification,
\* or in teardown, when there is nothing left to claim.
LEMMA WatermarkTask ==
    ASSUME TypeOK, NotesInv, AnswerInv, AbortInv, WatermarkInv, NEW r \in Reqs, TaskNext(r)
    PROVE  WatermarkInv'
<1>t. /\ notesEnqueued \in Nat /\ notesDone \in Nat /\ watermark[r] \in Nat
      /\ \A q \in Reqs : phase'[q] = IF q = r THEN phase'[r] ELSE phase[q]
      /\ UNCHANGED <<watermark, notesEnqueued, notesDone, worker>>
  BY DEF TypeOK, TaskTypeOK, NoteTypeOK, TaskNext, PollTask, WaitForNotifications, AcquirePermit,
     ResumeWithPermit, HandlerSuspends, HandlerResumes, HandlerReturns, ClaimEntry, ClaimFails,
     SendResponse, ReapTask, noteVars
<1>1. CASE \/ PollTask(r) \/ WaitForNotifications(r) \/ ClaimFails(r) \/ SendResponse(r)
           \/ ReapTask(r)
  <2>1. phase'[r] \in {"checking", "ready", "finished", "aborted"}
    BY <1>1 DEF PollTask, WaitForNotifications, ClaimFails, SendResponse, ReapTask, TypeOK, TaskTypeOK
  <2> QED
    BY <2>1, <1>t, WatermarkFrame DEF InHandler
<1>2. CASE \/ ResumeWithPermit(r) \/ HandlerSuspends(r) \/ HandlerResumes(r) \/ HandlerReturns(r)
  <2>1. phase[r] \in InHandler \cup {"permit"} /\ phase'[r] \in {"running", "suspended", "outcome"}
    BY <1>2 DEF ResumeWithPermit, HandlerSuspends, HandlerResumes, HandlerReturns, InHandler,
       TypeOK, TaskTypeOK
  <2> QED
    BY <2>1, <1>t, WatermarkFrame
<1>3. CASE AcquirePermit(r)
  <2>1. phase'[r] \in {"running", "permit"}
    BY <1>3 DEF AcquirePermit, TypeOK, TaskTypeOK
  <2>2. notesDone >= watermark[r] \/ worker = "aborted"
    BY <1>3, <1>t DEF AcquirePermit, WorkerGone, NotesInv, WatermarkInv
  <2> QED
    BY <2>1, <2>2, <1>t DEF WatermarkInv, Caught
<1>4. CASE ClaimEntry(r)
  <2>1. phase[r] = "outcome" /\ inFlight[idOf[r]] # NoReq
    BY <1>4 DEF ClaimEntry
  <2>2. idOf[r] \in Ids
    BY <2>1 DEF AnswerInv, PhaseAnswers, TaskPhase, OnThread
  <2>3. worker # "aborted"
    BY <2>1, <2>2 DEF NotesInv, AbortInv
  <2>4. notesDone >= watermark[r]
    BY <2>1, <2>3 DEF WatermarkInv, Caught, InHandler
  <2> QED
    BY <2>4, <1>t DEF WatermarkInv, Caught
<1> QED
  BY <1>1, <1>2, <1>3, <1>4 DEF TaskNext

\* Every step keeps handlers behind the notifications before them.
LEMMA WatermarkStep ==
    TypeOK /\ NotesInv /\ AnswerInv /\ AbortInv /\ WatermarkInv /\ [Next]_vars => WatermarkInv'
<1> SUFFICES ASSUME TypeOK, NotesInv, AnswerInv, AbortInv, WatermarkInv, [Next]_vars
             PROVE  WatermarkInv'
  OBVIOUS
<1>t. notesEnqueued \in Nat /\ notesDone \in Nat /\ notesTaken \in Nat
  BY DEF TypeOK, NoteTypeOK
<1> USE DEF InHandler
<1>1. CASE ReadNext
  <2>1. CASE ReadMalformed \/ EnqueueNotification
    BY <2>1, <1>t, WatermarkFrame DEF ReadMalformed, EnqueueNotification, taskVars, noteVars
  <2>2. ASSUME NEW r \in Reqs, NEW kind \in RequestKind, RejectRequest(r, kind)
        PROVE  WatermarkInv'
    BY <2>2, <1>t, WatermarkFrame DEF RejectRequest, noteVars, TypeOK, TaskTypeOK
  <2>3. ASSUME NEW r \in Reqs, StartInitialize(r) \/ StartShutdown(r) PROVE WatermarkInv'
    BY <2>3, <1>t, WatermarkFrame DEF StartInitialize, StartShutdown, noteVars, TypeOK, TaskTypeOK
  <2>4. ASSUME NEW r \in Reqs, NEW i \in Ids, RejectDuplicate(r, i) PROVE WatermarkInv'
    BY <2>4, <1>t, WatermarkFrame DEF RejectDuplicate, noteVars, TypeOK, TaskTypeOK
  <2>5. ASSUME NEW r \in Reqs, NEW i \in Ids, SpawnRequest(r, i) PROVE WatermarkInv'
    BY <2>5, <1>t DEF SpawnRequest, WatermarkInv, Caught, noteVars, TypeOK, TaskTypeOK
  <2>6. ASSUME NEW i \in Ids, CancelRequest(i) PROVE WatermarkInv'
    BY <2>6, <1>t, WatermarkFrame DEF CancelRequest, noteVars
  <2>7. CASE ReadExit \/ ReadEof \/ FramingError \/ ShutdownSignal
    BY <2>7, <1>t, WatermarkFrame DEF ReadExit, ReadEof, FramingError, ShutdownSignal, LeaveLoop,
       taskVars
  <2> QED
    BY <1>1, <2>1, <2>2, <2>3, <2>4, <2>5, <2>6, <2>7 DEF ReadNext
<1>2. CASE LoopNext
  <2>1. CASE \/ InsertEntry \/ AbortCancelled \/ CallShutdown \/ WriterDead
             \/ EndDrain \/ ReturnFromLoop \/ JoinWriter
    BY <2>1, <1>t, WatermarkFrame DEF InsertEntry, AbortCancelled, CallShutdown, WriterDead,
       LeaveLoop, EndDrain, ReturnFromLoop, JoinWriter, taskVars, noteVars
  <2>2. ASSUME NEW ok \in BOOLEAN, FinishInitialize(ok) PROVE WatermarkInv'
    BY <2>2, <1>t, WatermarkFrame DEF FinishInitialize, noteVars, TypeOK, TaskTypeOK
  <2>3. CASE FinishShutdown
    BY <2>3, <1>t, WatermarkFrame DEF FinishShutdown, noteVars, TypeOK, TaskTypeOK
  <2>4. ASSUME NEW i \in Ids, DrainEntry(i) PROVE WatermarkInv'
    BY <2>4, <1>t, WatermarkFrame DEF DrainEntry, noteVars
  <2> QED
    BY <1>2, <2>1, <2>2, <2>3, <2>4 DEF LoopNext
<1>3. CASE InlinePanic \/ GraceExpires
  BY <1>3, <1>t, WatermarkFrame DEF InlinePanic, GraceExpires, taskVars
<1>4. ASSUME NEW r \in Reqs, TaskNext(r) PROVE WatermarkInv'
  BY <1>4, WatermarkTask
<1>5. CASE WorkerNext
  BY <1>5, <1>t, WatermarkFrame DEF WorkerNext, TakeNote, NoteSuspends, NoteResumes, NoteDone,
     NoteReturns, NotePanics, WorkerEnds, WorkerAborted, taskVars, NotesInv
<1>6. CASE LastClientDropped \/ WriterNext
  BY <1>6, <1>t, WatermarkFrame DEF LastClientDropped, WriterNext, WriterTakes, WriterFlushes,
     WriterFails, WriterEnds, taskVars, noteVars
<1>7. CASE Terminated \/ UNCHANGED vars
  BY <1>7, <1>t, WatermarkFrame DEF Terminated, vars, taskVars, noteVars
<1> QED
  BY <1>1, <1>2, <1>3, <1>4, <1>5, <1>6, <1>7 DEF Next

\* A new connection has no tasks.
LEMMA WatermarkInit == Init => WatermarkInv
  BY DEF Init, Quiet, WatermarkInv, InHandler

\* A handler that runs too early runs in vain.
LEMMA EarlyRunsInVain ==
    TypeOK /\ NotesInv /\ AnswerInv /\ AbortInv /\ WatermarkInv => ObservesEarlierNotes
<1> SUFFICES ASSUME TypeOK, NotesInv, AnswerInv, AbortInv, WatermarkInv,
                    NEW r \in Reqs, phase[r] \in InHandler, notesDone < watermark[r]
             PROVE  /\ aborted[r] /\ phase[r] # "claimed"
                    /\ inFlight[idOf[r]] # r /\ ~(loop = "cancelling" /\ cur = r)
  BY DEF ObservesEarlierNotes
<1>1. phase[r] \in LiveTask /\ phase[r] \in TaskPhase
  BY DEF InHandler, LiveTask, TaskPhase, AtRest, OnThread
<1>2. worker = "aborted" /\ phase[r] # "claimed"
  <2>1. notesDone \in Nat /\ watermark[r] \in Nat
    BY DEF TypeOK, NoteTypeOK, TaskTypeOK
  <2> QED
    BY <2>1 DEF WatermarkInv, Caught
<1>3. loop \in {"grace", "joining", "done"}
  BY <1>2 DEF NotesInv
<1>4. idOf[r] \in Ids
  BY <1>1 DEF AnswerInv, PhaseAnswers
<1>5. inFlight[idOf[r]] = NoReq /\ inFlight[idOf[r]] # r
  BY <1>3, <1>4, NoReqAssumption DEF AbortInv
<1>6. replies[r] > 0 \/ r \in dropped
  BY <1>1, <1>2, <1>3, <1>5 DEF AnswerInv, PhaseAnswers
<1>7. aborted[r]
  BY <1>1, <1>6 DEF AbortInv
<1> QED
  BY <1>2, <1>3, <1>5, <1>7

\* With ids not reused early, a request handler runs after every notification
\* received before it, and where teardown lets one run without, it has been
\* aborted and can no longer answer.
THEOREM NotesComeFirst ==
    ASSUME PromptReuse = FALSE
    PROVE  Spec => []ObservesEarlierNotes
<1>1. TypeOK /\ AnswerInv /\ [Next]_vars => AnswerInv'
  BY AnswerStep
<1> QED
  BY <1>1, NotesStep, AbortStep, WatermarkStep, NotesInit, AnswerInit, AbortInit, WatermarkInit,
     EarlyRunsInVain, TypeCorrect, PTL DEF Spec

-----------------------------------------------------------------------------
(* Answers on the wire *)

\* A message queued last occurs once more than before.
LEMMA OccurrencesAppend ==
    ASSUME NEW S, NEW s \in Seq(S), NEW m \in S, NEW r
    PROVE  Occurrences(Append(s, m), r) = IF m = r THEN Occurrences(s, r) + 1
                                                   ELSE Occurrences(s, r)
<1> DEFINE at == {k \in DOMAIN s : s[k] = r}
           after == {k \in DOMAIN Append(s, m) : Append(s, m)[k] = r}
<1>1. IsFiniteSet(at) /\ Len(s) + 1 \notin at
  <2>1. IsFiniteSet(1..Len(s))
    BY FS_Interval
  <2>2. at \subseteq 1..Len(s) /\ Len(s) + 1 \notin 1..Len(s)
    OBVIOUS
  <2> QED
    BY <2>1, <2>2, FS_Subset
<1>2. after = IF m = r THEN at \cup {Len(s) + 1} ELSE at
  <2>1. /\ DOMAIN Append(s, m) = 1..(Len(s) + 1) /\ DOMAIN s = 1..Len(s) /\ Len(s) \in Nat
        /\ \A k \in 1..Len(s) : Append(s, m)[k] = s[k]
        /\ Append(s, m)[Len(s) + 1] = m
    OBVIOUS
  <2>2. \A k \in 1..(Len(s) + 1) : k \in 1..Len(s) \/ k = Len(s) + 1
    BY <2>1
  <2>3. 1..Len(s) \subseteq 1..(Len(s) + 1) /\ Len(s) + 1 \in 1..(Len(s) + 1)
    BY <2>1
  <2>4. Len(s) + 1 \notin 1..Len(s)
    BY <2>1
  <2> QED
    BY <2>1, <2>2, <2>3, <2>4
<1>3. Cardinality(at \cup {Len(s) + 1}) = Cardinality(at) + 1
  BY <1>1, FS_AddElement
<1> HIDE DEF at, after
<1>4. Cardinality(after) = IF m = r THEN Cardinality(at) + 1 ELSE Cardinality(at)
  BY <1>2, <1>3
<1> QED
  BY <1>4 DEF Occurrences, at, after

\* Nothing occurs in the empty sequence.
LEMMA OccurrencesEmpty == ASSUME NEW r PROVE Occurrences(<<>>, r) = 0
<1>1. {k \in DOMAIN <<>> : <<>>[k] = r} = {}
  OBVIOUS
<1> QED
  BY <1>1, FS_EmptySet DEF Occurrences

\* Unless the writer failed, an answer is on the wire, in the batch or in the
\* channel; the writer ends when no one can send, with nothing left.
OnTheWay(r) == delivered[r] + Occurrences(batch, r) + Occurrences(outQ, r)
FlushInv ==
    /\ writer = "recv" => batch = <<>>
    /\ writer # "failed" => \A r \in Reqs : replies[r] = OnTheWay(r)
    /\ writer = "ended" => SendersGone /\ outQ = <<>> /\ batch = <<>>
    /\ loop = "done" /\ result = "ok" => writer = "ended"

\* The types of what is counted.
LEMMA CountTypes ==
    ASSUME TypeOK, NEW r \in Reqs
    PROVE  /\ outQ \in Seq(Reqs \cup {NoReq}) /\ batch \in Seq(Reqs \cup {NoReq})
           /\ delivered[r] \in Nat /\ replies[r] \in Nat
           /\ Occurrences(outQ, r) \in Nat /\ Occurrences(batch, r) \in Nat
  BY OccurrencesType DEF TypeOK, OutTypeOK

\* A step that neither sends nor writes, and takes no sender back.
LEMMA FlushFrame ==
    ASSUME FlushInv, UNCHANGED outVars,
           SendersGone => SendersGone',
           loop' = "done" /\ result' = "ok" => loop = "done" /\ result = "ok"
    PROVE  FlushInv'
  BY DEF FlushInv, OnTheWay, outVars

\* An answer sent is one more to write.
LEMMA FlushReply ==
    ASSUME TypeOK, FlushInv, NEW r \in Reqs, Reply(r), ~SendersGone,
           loop' = "done" /\ result' = "ok" => loop = "done" /\ result = "ok"
    PROVE  FlushInv'
<1>1. /\ UNCHANGED <<batch, writer, delivered>> /\ writer # "ended"
      /\ \A q \in Reqs : replies'[q] = IF q = r THEN replies[q] + 1 ELSE replies[q]
  BY ReplyCounts DEF Reply, FlushInv
<1>2. ASSUME writer # "failed", NEW q \in Reqs PROVE replies'[q] = OnTheWay(q)'
  <2>1. outQ' = Append(outQ, r) /\ r \in Reqs \cup {NoReq}
    BY <1>2 DEF Reply, Enqueue
  <2>2. Occurrences(outQ', q) = IF r = q THEN Occurrences(outQ, q) + 1 ELSE Occurrences(outQ, q)
    BY <2>1, CountTypes, OccurrencesAppend
  <2>3. replies[q] = delivered[q] + Occurrences(batch, q) + Occurrences(outQ, q)
    BY <1>2 DEF FlushInv, OnTheWay
  <2>4. OnTheWay(q)' = delivered[q] + Occurrences(batch, q) + Occurrences(outQ', q)
    BY <1>1 DEF OnTheWay
  <2>5. delivered[q] \in Nat /\ Occurrences(batch, q) \in Nat /\ Occurrences(outQ, q) \in Nat
    BY CountTypes
  <2>6. replies'[q] = IF q = r THEN replies[q] + 1 ELSE replies[q]
    BY <1>1
  <2> QED
    BY <2>2, <2>3, <2>4, <2>5, <2>6
<1> QED
  BY <1>1, <1>2 DEF FlushInv

\* So is a message that answers nobody, for no one.
LEMMA FlushMessage ==
    ASSUME TypeOK, FlushInv, Enqueue(NoReq) \/ UNCHANGED outQ,
           UNCHANGED <<batch, writer, delivered, replies>>, UNCHANGED loopVars,
           ~SendersGone
    PROVE  FlushInv'
<1>1. writer # "ended"
  BY DEF FlushInv
<1>2. ASSUME writer # "failed", NEW q \in Reqs PROVE Occurrences(outQ', q) = Occurrences(outQ, q)
  <2>1. outQ' = Append(outQ, NoReq) \/ outQ' = outQ
    BY <1>2 DEF Enqueue
  <2>2. NoReq \in Reqs \cup {NoReq} /\ NoReq # q
    BY NoReqAssumption
  <2>3. outQ \in Seq(Reqs \cup {NoReq})
    BY CountTypes
  <2>4. Occurrences(Append(outQ, NoReq), q) = Occurrences(outQ, q)
    BY <2>2, <2>3, OccurrencesAppend
  <2> QED
    BY <2>1, <2>4
<1>3. ASSUME writer # "failed", NEW q \in Reqs PROVE replies'[q] = OnTheWay(q)'
  BY <1>2, <1>3 DEF FlushInv, OnTheWay
<1> QED
  BY <1>1, <1>3 DEF FlushInv, loopVars

\* Once no one can send, no one ever can again.
LEMMA SendersStayGone ==
    ASSUME TypeOK, SendersGone, [Next]_vars
    PROVE  SendersGone'
<1> USE DEF SendersGone, HandlersGone, WorkerGone
<1>1. CASE ReadNext
  BY <1>1 DEF ReadNext, ReadMalformed, EnqueueNotification, RejectRequest, StartInitialize,
     StartShutdown, RejectDuplicate, SpawnRequest, CancelRequest, ReadExit, ReadEof,
     FramingError, ShutdownSignal, LeaveLoop
<1>2. CASE LoopNext
  <2>1. loop' \in {"joining", "done", "panicked"} /\ UNCHANGED <<phase, worker, kept>>
    BY <1>2 DEF LoopNext, InsertEntry, AbortCancelled, FinishInitialize, CallShutdown,
       FinishShutdown, WriterDead, LeaveLoop, DrainEntry, EndDrain, ReturnFromLoop, JoinWriter,
       taskVars, noteVars, outVars
  <2> QED
    BY <2>1
<1>3. CASE InlinePanic \/ GraceExpires
  BY <1>3 DEF InlinePanic, GraceExpires, outVars
<1>4. ASSUME NEW r \in Reqs, TaskNext(r) PROVE FALSE
  BY <1>4 DEF TaskNext, PollTask, WaitForNotifications, AcquirePermit, ResumeWithPermit,
     HandlerSuspends, HandlerResumes, HandlerReturns, ClaimEntry, ClaimFails, SendResponse,
     ReapTask, AtRest, OnThread
<1>5. CASE WorkerNext
  BY <1>5 DEF WorkerNext, TakeNote, NoteSuspends, NoteResumes, NoteDone, NoteReturns,
     NotePanics, WorkerEnds, WorkerAborted, outVars
<1>6. CASE LastClientDropped \/ WriterNext
  BY <1>6 DEF LastClientDropped, WriterNext, WriterTakes, WriterFlushes, WriterFails, WriterEnds,
     loopVars, taskVars, noteVars
<1>7. CASE Terminated \/ UNCHANGED vars
  BY <1>7 DEF Terminated, vars, loopVars, taskVars, noteVars, outVars
<1> QED
  BY <1>1, <1>2, <1>3, <1>4, <1>5, <1>6, <1>7 DEF Next

\* The writer takes, writes and ends without losing or repeating an answer.
LEMMA FlushWriter ==
    ASSUME TypeOK, FlushInv, WriterNext
    PROVE  FlushInv'
<1>1. UNCHANGED <<loop, result, replies>>
  BY DEF WriterNext, WriterTakes, WriterFlushes, WriterFails, WriterEnds, loopVars
<1>2. loop = "done" /\ result = "ok" => writer = "ended"
  BY DEF FlushInv
<1>3. CASE WriterTakes
  <2>1. ASSUME NEW r \in Reqs PROVE replies'[r] = OnTheWay(r)'
    <3>1. replies[r] = delivered[r] + Occurrences(<<>>, r) + Occurrences(outQ, r)
      BY <1>3 DEF WriterTakes, FlushInv, OnTheWay
    <3>2. OnTheWay(r)' = delivered[r] + Occurrences(outQ, r) + Occurrences(<<>>, r)
      BY <1>3 DEF WriterTakes, OnTheWay
    <3> QED
      BY <3>1, <3>2, <1>1, OccurrencesEmpty, CountTypes
  <2> QED
    BY <2>1, <1>1, <1>2, <1>3 DEF WriterTakes, FlushInv
<1>4. CASE WriterFlushes
  <2>1. ASSUME NEW r \in Reqs PROVE replies'[r] = OnTheWay(r)'
    <3>1. replies[r] = delivered[r] + Occurrences(batch, r) + Occurrences(outQ, r)
      BY <1>4 DEF WriterFlushes, FlushInv, OnTheWay
    <3>2. OnTheWay(r)' = (delivered[r] + Occurrences(batch, r)) + Occurrences(<<>>, r)
                              + Occurrences(outQ, r)
      BY <1>4 DEF WriterFlushes, OnTheWay
    <3> QED
      BY <3>1, <3>2, <1>1, OccurrencesEmpty, CountTypes
  <2> QED
    BY <2>1, <1>1, <1>2, <1>4 DEF WriterFlushes, FlushInv
<1>5. CASE WriterFails
  BY <1>1, <1>2, <1>5 DEF WriterFails, FlushInv
<1>6. CASE WriterEnds
  <2>1. UNCHANGED <<delivered, batch, outQ>> /\ SendersGone' /\ batch = <<>> /\ outQ = <<>>
        /\ writer # "failed" /\ writer' = "ended"
    BY <1>6 DEF WriterEnds, FlushInv, SendersGone, HandlersGone, WorkerGone, loopVars, taskVars,
       noteVars
  <2> QED
    BY <2>1, <1>1, <1>2 DEF FlushInv, OnTheWay
<1> QED
  BY <1>3, <1>4, <1>5, <1>6 DEF WriterNext

\* Every step keeps account of the answers.
LEMMA FlushStep == TypeOK /\ FlushInv /\ [Next]_vars => FlushInv'
<1> SUFFICES ASSUME TypeOK, FlushInv, [Next]_vars PROVE FlushInv'
  OBVIOUS
<1>s. SendersGone => SendersGone'
  BY SendersStayGone
<1>1. CASE ReadNext
  <2>1. loop = "select" /\ loop' # "done"
    BY <1>1 DEF ReadNext, ReadMalformed, EnqueueNotification, RejectRequest, StartInitialize,
       StartShutdown, RejectDuplicate, SpawnRequest, CancelRequest, ReadExit, ReadEof,
       FramingError, ShutdownSignal, LeaveLoop, loopVars
  <2>2. ~SendersGone
    BY <2>1 DEF SendersGone, HandlersGone
  <2>3. CASE ReadMalformed
    BY <2>2, <2>3, FlushMessage DEF ReadMalformed
  <2>4. ASSUME NEW r \in Reqs, NEW kind \in RequestKind, RejectRequest(r, kind) PROVE FlushInv'
    BY <2>1, <2>2, <2>4, FlushReply DEF RejectRequest
  <2>5. ASSUME NEW r \in Reqs, NEW i \in Ids, RejectDuplicate(r, i) PROVE FlushInv'
    BY <2>1, <2>2, <2>5, FlushReply DEF RejectDuplicate
  <2>6. CASE UNCHANGED outVars
    BY <2>1, <2>6, <1>s, FlushFrame
  <2> QED
    BY <1>1, <2>3, <2>4, <2>5, <2>6 DEF ReadNext, EnqueueNotification, StartInitialize,
       StartShutdown, SpawnRequest, CancelRequest, ReadExit, ReadEof, FramingError,
       ShutdownSignal, LeaveLoop
<1>2. CASE LoopNext
  <2>1. CASE AbortCancelled \/ FinishShutdown \/ \E ok \in BOOLEAN : FinishInitialize(ok)
    <3>1. Reply(cur) /\ loop' = "select" /\ ~SendersGone
      BY <2>1 DEF AbortCancelled, FinishShutdown, FinishInitialize, SendersGone, HandlersGone
    <3>2. CASE cur \in Reqs
      BY <3>1, <3>2, FlushReply
    <3>3. CASE cur = NoReq
      <4>1. replies' = replies
        BY <3>1, <3>3, NoReqAssumption DEF Reply, TypeOK, OutTypeOK
      <4>2. Enqueue(NoReq) /\ UNCHANGED <<batch, writer, delivered>>
        BY <3>1, <3>3 DEF Reply
      <4>3. ASSUME writer # "failed", NEW q \in Reqs
            PROVE  Occurrences(outQ', q) = Occurrences(outQ, q)
        <5>1. outQ' = Append(outQ, NoReq) /\ NoReq \in Reqs \cup {NoReq} /\ NoReq # q
          BY <4>2, <4>3, NoReqAssumption DEF Enqueue
        <5>2. outQ \in Seq(Reqs \cup {NoReq})
          BY CountTypes
        <5> QED
          BY <5>1, <5>2, OccurrencesAppend
      <4> QED
        BY <3>1, <4>1, <4>2, <4>3 DEF FlushInv, OnTheWay
    <3> QED
      BY <3>2, <3>3 DEF TypeOK, LoopTypeOK
  <2>2. CASE InsertEntry \/ CallShutdown \/ WriterDead \/ EndDrain \/ ReturnFromLoop
             \/ \E i \in Ids : DrainEntry(i)
    <3>1. UNCHANGED outVars /\ (loop' = "done" /\ result' = "ok" => loop = "done" /\ result = "ok")
      BY <2>2 DEF InsertEntry, CallShutdown, WriterDead, LeaveLoop, EndDrain, ReturnFromLoop,
         DrainEntry, loopVars
    <3> QED
      BY <3>1, <1>s, FlushFrame
  <2>3. CASE JoinWriter
    BY <2>3, <1>s DEF JoinWriter, FlushInv, OnTheWay, outVars
  <2> QED
    BY <1>2, <2>1, <2>2, <2>3 DEF LoopNext
<1>3. CASE InlinePanic \/ GraceExpires
  BY <1>3, <1>s, FlushFrame DEF InlinePanic, GraceExpires, loopVars
<1>4. ASSUME NEW r \in Reqs, TaskNext(r) PROVE FlushInv'
  <2>1. CASE SendResponse(r)
    <3>1. ~SendersGone /\ (loop' = loop /\ result' = result)
      BY <2>1 DEF SendResponse, SendersGone, HandlersGone, OnThread, loopVars
    <3> QED
      BY <2>1, <3>1, FlushReply DEF SendResponse
  <2>2. CASE UNCHANGED <<loopVars, outVars>>
    BY <2>2, <1>s, FlushFrame DEF loopVars
  <2> QED
    BY <1>4, <2>1, <2>2 DEF TaskNext, PollTask, WaitForNotifications, AcquirePermit,
       ResumeWithPermit, HandlerSuspends, HandlerResumes, HandlerReturns, ClaimEntry,
       ClaimFails, ReapTask
<1>5. CASE WorkerNext
  <2>1. CASE NotePanics
    <3>1. ~SendersGone
      BY <2>1 DEF NotePanics, NoteDone, SendersGone, HandlersGone, WorkerGone
    <3> QED
      BY <2>1, <3>1, FlushMessage DEF NotePanics, NoteDone
  <2>2. CASE UNCHANGED <<loopVars, outVars>>
    BY <2>2, <1>s, FlushFrame DEF loopVars
  <2> QED
    BY <1>5, <2>1, <2>2 DEF WorkerNext, TakeNote, NoteSuspends, NoteResumes, NoteDone,
       NoteReturns, WorkerEnds, WorkerAborted
<1>6. CASE WriterNext
  BY <1>6, FlushWriter
<1>7. CASE Terminated \/ UNCHANGED vars
  BY <1>7, <1>s, FlushFrame DEF Terminated, vars, loopVars
<1>8. CASE LastClientDropped
  BY <1>8, <1>s DEF LastClientDropped, FlushInv, OnTheWay, loopVars
<1> QED
  BY <1>1, <1>2, <1>3, <1>4, <1>5, <1>6, <1>7, <1>8 DEF Next

\* A new connection owes nothing.
LEMMA FlushInit == Init => FlushInv
<1> SUFFICES ASSUME Init PROVE FlushInv
  OBVIOUS
<1> USE DEF Init, Quiet
<1>1. ASSUME NEW r \in Reqs PROVE replies[r] = OnTheWay(r)
  <2>1. replies[r] = 0 /\ delivered[r] = 0 /\ batch = <<>> /\ outQ = <<>>
    OBVIOUS
  <2>2. OnTheWay(r) = 0 + Occurrences(<<>>, r) + Occurrences(<<>>, r)
    BY <2>1 DEF OnTheWay
  <2> QED
    BY <2>1, <2>2, OccurrencesEmpty
<1> QED
  BY <1>1 DEF FlushInv

\* serve returns Ok only with every answer on the wire and no task that could
\* give another, for any handlers, cancellations and order of the last steps.
THEOREM OkMeansWritten == Spec => []FlushedOnSuccess
<1>1. TypeOK /\ FlushInv => FlushedOnSuccess
  <2> SUFFICES ASSUME TypeOK, FlushInv, loop = "done", result = "ok"
               PROVE  /\ \A r \in Reqs : delivered[r] = replies[r]
                      /\ \A r \in Reqs : phase[r] \notin AtRest \cup OnThread
    BY DEF FlushedOnSuccess
  <2>1. writer = "ended" /\ SendersGone /\ outQ = <<>> /\ batch = <<>>
    BY DEF FlushInv
  <2>2. ASSUME NEW r \in Reqs PROVE delivered[r] = replies[r]
    <3>1. replies[r] = delivered[r] + Occurrences(<<>>, r) + Occurrences(<<>>, r)
      BY <2>1 DEF FlushInv, OnTheWay
    <3> QED
      BY <3>1, OccurrencesEmpty, CountTypes
  <2> QED
    BY <2>1, <2>2 DEF SendersGone, HandlersGone
<1> QED
  BY <1>1, FlushStep, FlushInit, TypeCorrect, PTL DEF Spec

-----------------------------------------------------------------------------
(* The promise to the editor *)

\* A function that differs from another at one point.
LEMMA PointUpdate ==
    ASSUME NEW S, NEW f, NEW g, NEW s \in S, NEW v,
           f = [x \in S |-> f[x]], g = [x \in S |-> g[x]],
           g[s] = v, \A x \in S : x # s => g[x] = f[x]
    PROVE  g = [f EXCEPT ![s] = v]
  OBVIOUS

\* The status of the requests, as a function of the requests.
LEMMA StatusIsFunction ==
    /\ StatusBar = [q \in Reqs |-> StatusBar[q]]
    /\ StatusBar' = [q \in Reqs |-> StatusBar'[q]]
  BY DEF StatusBar

\* The requests that have been sent stay the same.
SameSent(but) ==
    \A q \in Reqs : q # but => (phase'[q] = "unsent" <=> phase[q] = "unsent")

\* A task moves from one phase to another, neither of them "unsent".
LEMMA Moved ==
    ASSUME TypeOK, NEW r \in Reqs, phase[r] # "unsent", NEW p, p # "unsent",
           phase' = [phase EXCEPT ![r] = p]
    PROVE  SameSent(NoReq)
  BY DEF SameSent, TypeOK, TaskTypeOK

\* Nothing the promise speaks of changes.
LEMMA PromiseFrame ==
    ASSUME SameSent(NoReq), UNCHANGED <<replies, dropped>>, Serving' = Serving
    PROVE  UNCHANGED Promise!rrVars
<1>1. \A q \in Reqs : phase'[q] = "unsent" <=> phase[q] = "unsent"
  BY NoReqAssumption DEF SameSent
<1>2. StatusBar' = StatusBar
  BY <1>1 DEF StatusBar
<1> QED
  BY <1>2 DEF Promise!rrVars

\* The loop starts to work on a request: it is open.
LEMMA PromiseOpens ==
    ASSUME TypeOK, AnswerInv, NEW r \in Reqs, NEW p, p # "unsent",
           phase[r] = "unsent", phase' = [phase EXCEPT ![r] = p],
           UNCHANGED <<replies, dropped>>, Serving, Serving'
    PROVE  Promise!Open(r)
<1>1. replies[r] = 0 /\ r \notin dropped
  BY DEF AnswerInv, PhaseAnswers
<1>2. StatusBar[r] = "new"
  BY DEF StatusBar
<1>3. \A q \in Reqs : q # r => phase'[q] = phase[q]
  BY DEF TypeOK, TaskTypeOK
<1>4. phase'[r] = p
  BY DEF TypeOK, TaskTypeOK
<1>5. StatusBar' = [StatusBar EXCEPT ![r] = "open"]
  <2>1. StatusBar'[r] = "open"
    BY <1>1, <1>4 DEF StatusBar
  <2>2. \A q \in Reqs : q # r => StatusBar'[q] = StatusBar[q]
    BY <1>3 DEF StatusBar
  <2> QED
    BY <2>1, <2>2, StatusIsFunction, PointUpdate
<1> QED
  BY <1>2, <1>5 DEF Promise!Open

\* The answer of a request that has none yet, sent or still new.
LEMMA PromiseAnswers ==
    ASSUME TypeOK, NEW r \in Reqs, replies[r] = 0, r \notin dropped,
           phase[r] = "unsent" => Serving, phase'[r] # "unsent", SameSent(r),
           Reply(r), UNCHANGED dropped, Serving' = Serving
    PROVE  Promise!Answer(r)
<1>1. StatusBar[r] \in {"new", "open"}
  BY DEF StatusBar
<1>2. StatusBar[r] = "new" => Serving
  BY DEF StatusBar
<1>3. replies' = [replies EXCEPT ![r] = @ + 1]
  BY DEF Reply
<1>4. replies'[r] > 0 /\ \A q \in Reqs : q # r => replies'[q] = replies[q]
  BY <1>3 DEF TypeOK, OutTypeOK
<1>5. \A q \in Reqs : q # r => (phase'[q] = "unsent" <=> phase[q] = "unsent")
  BY DEF SameSent
<1>6. StatusBar' = [StatusBar EXCEPT ![r] = "answered"]
  <2>1. StatusBar'[r] = "answered"
    BY <1>4 DEF StatusBar
  <2>2. \A q \in Reqs : q # r => StatusBar'[q] = StatusBar[q]
    BY <1>4, <1>5 DEF StatusBar
  <2> QED
    BY <2>1, <2>2, StatusIsFunction, PointUpdate
<1> QED
  BY <1>1, <1>2, <1>3, <1>6 DEF Promise!Answer

\* Teardown drops a request that nobody has answered.
LEMMA PromiseAbandons ==
    ASSUME NEW r \in Reqs, phase[r] # "unsent", replies[r] = 0, r \notin dropped,
           UNCHANGED <<phase, replies>>, dropped' = dropped \cup {r},
           ~Serving, ~Serving'
    PROVE  Promise!Abandon(r)
<1>1. StatusBar[r] = "open"
  BY DEF StatusBar
<1>2. StatusBar' = [StatusBar EXCEPT ![r] = "abandoned"]
  <2>1. StatusBar'[r] = "abandoned"
    BY DEF StatusBar
  <2>2. \A q \in Reqs : q # r => StatusBar'[q] = StatusBar[q]
    BY DEF StatusBar
  <2> QED
    BY <2>1, <2>2, StatusIsFunction, PointUpdate
<1> QED
  BY <1>1, <1>2 DEF Promise!Abandon

\* The loop leaves its select!, or unwinds.
LEMMA PromiseCloses ==
    ASSUME UNCHANGED <<phase, replies, dropped>>, Serving, ~Serving'
    PROVE  Promise!Close
<1>1. StatusBar' = StatusBar
  BY DEF StatusBar
<1> QED
  BY <1>1 DEF Promise!Close

-----------------------------------------------------------------------------

\* What the loop reads opens, answers, or closes.
LEMMA ReadKeepsPromise ==
    ASSUME TypeOK, AnswerInv, ReadNext
    PROVE  [Promise!RRNext]_(Promise!rrVars)
<1>1. CASE ReadMalformed \/ EnqueueNotification
  <2>1. UNCHANGED <<loop, phase, replies, dropped>>
    BY <1>1 DEF ReadMalformed, EnqueueNotification, loopVars, taskVars, outVars
  <2> QED
    BY <2>1, PromiseFrame DEF SameSent, Serving
<1>2. ASSUME NEW r \in Reqs, loop = "select", phase[r] = "unsent", UNCHANGED <<loop, dropped>>,
             phase' = [phase EXCEPT ![r] = "settled"], Reply(r)
      PROVE  Promise!Answer(r)
  <2>1. replies[r] = 0 /\ r \notin dropped
    BY <1>2 DEF AnswerInv, PhaseAnswers
  <2>2. phase'[r] # "unsent" /\ SameSent(r)
    BY <1>2 DEF SameSent, TypeOK, TaskTypeOK
  <2> QED
    BY <1>2, <2>1, <2>2, PromiseAnswers DEF Serving
<1>3. ASSUME NEW r \in Reqs, NEW kind \in RequestKind, RejectRequest(r, kind)
      PROVE  Promise!Answer(r)
  BY <1>2, <1>3 DEF RejectRequest, loopVars
<1>4. ASSUME NEW r \in Reqs, NEW i \in Ids, RejectDuplicate(r, i) PROVE Promise!Answer(r)
  BY <1>2, <1>4 DEF RejectDuplicate, loopVars
<1>5. ASSUME NEW r \in Reqs, StartInitialize(r) \/ StartShutdown(r) PROVE Promise!Open(r)
  <2>1. /\ phase[r] = "unsent" /\ phase' = [phase EXCEPT ![r] = "inline"]
        /\ UNCHANGED <<replies, dropped>>
        /\ loop = "select" /\ loop' \in {"initializing", "awaitNotes"}
    BY <1>5 DEF StartInitialize, StartShutdown, outVars
  <2> QED
    BY <2>1, PromiseOpens DEF Serving
<1>6. ASSUME NEW r \in Reqs, NEW i \in Ids, SpawnRequest(r, i) PROVE Promise!Open(r)
  <2>1. /\ phase[r] = "unsent" /\ phase' = [phase EXCEPT ![r] = "ready"]
        /\ UNCHANGED <<replies, dropped>>
        /\ loop = "select" /\ loop' = "inserting"
    BY <1>6 DEF SpawnRequest, outVars
  <2> QED
    BY <2>1, PromiseOpens DEF Serving
<1>7. ASSUME NEW i \in Ids, CancelRequest(i) PROVE UNCHANGED Promise!rrVars
  <2>1. UNCHANGED <<phase, replies, dropped>> /\ loop = "select" /\ loop' = "cancelling"
    BY <1>7 DEF CancelRequest, outVars
  <2> QED
    BY <2>1, PromiseFrame DEF SameSent, Serving
<1>8. CASE ReadExit \/ ReadEof \/ FramingError \/ ShutdownSignal
  <2>1. UNCHANGED <<phase, replies, dropped>> /\ loop = "select" /\ loop' = "draining"
    BY <1>8 DEF ReadExit, ReadEof, FramingError, ShutdownSignal, LeaveLoop, taskVars, outVars
  <2>2. Promise!Close
    BY <2>1, PromiseCloses DEF Serving
  <2> QED
    BY <2>2 DEF Promise!RRNext
<1> QED
  BY <1>1, <1>3, <1>4, <1>5, <1>6, <1>7, <1>8 DEF ReadNext, Promise!RRNext

\* What the loop does on its own answers, abandons, closes, or changes nothing.
LEMMA LoopKeepsPromise ==
    ASSUME TypeOK, AnswerInv, LoopNext
    PROVE  [Promise!RRNext]_(Promise!rrVars)
<1>1. CASE InsertEntry \/ CallShutdown
  <2>1. UNCHANGED <<phase, replies, dropped>> /\ Serving' = Serving
    BY <1>1 DEF InsertEntry, CallShutdown, taskVars, outVars, Serving
  <2> QED
    BY <2>1, PromiseFrame DEF SameSent
<1>2. CASE AbortCancelled
  <2>1. cur \in Reqs /\ Owes(cur)
    BY <1>2 DEF AbortCancelled, AnswerInv, LoopOwes
  <2>2. replies[cur] = 0 /\ cur \notin dropped /\ phase[cur] # "unsent"
    BY <2>1 DEF Owes, AtRest, OnThread
  <2>3. UNCHANGED <<phase, dropped>> /\ Reply(cur) /\ Serving' = Serving
    BY <1>2 DEF AbortCancelled, Serving
  <2>4. Promise!Answer(cur)
    BY <2>1, <2>2, <2>3, PromiseAnswers DEF SameSent
  <2> QED
    BY <2>1, <2>4 DEF Promise!RRNext
<1>3. CASE FinishShutdown \/ \E ok \in BOOLEAN : FinishInitialize(ok)
  <2>1. /\ loop \in {"initializing", "shuttingDown"} /\ loop' = "select" /\ UNCHANGED dropped
        /\ phase' = [phase EXCEPT ![cur] = "settled"] /\ Reply(cur)
    BY <1>3 DEF FinishShutdown, FinishInitialize
  <2>2. cur \in Reqs /\ phase[cur] = "inline"
    BY <2>1 DEF AnswerInv, LoopOwes
  <2>3. replies[cur] = 0 /\ cur \notin dropped
    BY <2>2 DEF AnswerInv, PhaseAnswers
  <2>4. phase'[cur] # "unsent" /\ SameSent(cur)
    BY <2>1, <2>2 DEF SameSent, TypeOK, TaskTypeOK
  <2>5. Promise!Answer(cur)
    BY <2>1, <2>2, <2>3, <2>4, PromiseAnswers DEF Serving
  <2> QED
    BY <2>2, <2>5 DEF Promise!RRNext
<1>4. CASE WriterDead
  <2>1. UNCHANGED <<phase, replies, dropped>> /\ loop = "select" /\ loop' = "draining"
    BY <1>4 DEF WriterDead, LeaveLoop, taskVars, outVars
  <2>2. Promise!Close
    BY <2>1, PromiseCloses DEF Serving
  <2> QED
    BY <2>2 DEF Promise!RRNext
<1>5. ASSUME NEW i \in Ids, DrainEntry(i) PROVE [Promise!RRNext]_(Promise!rrVars)
  <2> DEFINE r == inFlight[i]
  <2>1. r \in Reqs /\ Owes(r)
    BY <1>5 DEF DrainEntry, AnswerInv, EntriesOwe, TypeOK, TaskTypeOK
  <2>2. replies[r] = 0 /\ r \notin dropped /\ phase[r] # "unsent"
    BY <2>1 DEF Owes, AtRest, OnThread
  <2>3. /\ UNCHANGED <<phase, replies>> /\ dropped' = dropped \cup {r}
        /\ ~Serving /\ ~Serving'
    BY <1>5 DEF DrainEntry, loopVars, outVars, Serving
  <2>4. Promise!Abandon(r)
    BY <2>1, <2>2, <2>3, PromiseAbandons
  <2> QED
    BY <2>1, <2>4 DEF Promise!RRNext
<1>6. CASE EndDrain \/ ReturnFromLoop \/ JoinWriter
  <2>1. UNCHANGED <<phase, replies, dropped>> /\ Serving' = Serving
    BY <1>6 DEF EndDrain, ReturnFromLoop, JoinWriter, taskVars, outVars, Serving
  <2> QED
    BY <2>1, PromiseFrame DEF SameSent
<1> QED
  BY <1>1, <1>2, <1>3, <1>4, <1>5, <1>6 DEF LoopNext

\* A task answers its own request when it sends, and else changes nothing.
LEMMA TaskKeepsPromise ==
    ASSUME TypeOK, AnswerInv, NEW r \in Reqs, TaskNext(r)
    PROVE  [Promise!RRNext]_(Promise!rrVars)
<1>1. CASE SendResponse(r)
  <2>1. replies[r] = 0 /\ r \notin dropped
    BY <1>1 DEF SendResponse, AnswerInv, PhaseAnswers
  <2>2. phase'[r] # "unsent" /\ SameSent(r) /\ phase[r] # "unsent"
    BY <1>1 DEF SendResponse, SameSent, TypeOK, TaskTypeOK
  <2>3. Reply(r) /\ UNCHANGED dropped /\ Serving' = Serving
    BY <1>1 DEF SendResponse, loopVars, Serving
  <2>4. Promise!Answer(r)
    BY <2>1, <2>2, <2>3, PromiseAnswers
  <2> QED
    BY <2>4 DEF Promise!RRNext
<1>2. CASE ~SendResponse(r)
  <2>1. UNCHANGED <<replies, dropped, loop>>
    BY <1>2 DEF TaskNext, PollTask, WaitForNotifications, AcquirePermit, ResumeWithPermit,
       HandlerSuspends, HandlerResumes, HandlerReturns, ClaimEntry, ClaimFails, ReapTask,
       loopVars, outVars
  <2>2. /\ phase[r] # "unsent"
        /\ \E p \in TaskPhase : phase' = [phase EXCEPT ![r] = p]
    BY <1>2 DEF TaskNext, PollTask, WaitForNotifications, AcquirePermit, ResumeWithPermit,
       HandlerSuspends, HandlerResumes, HandlerReturns, ClaimEntry, ClaimFails, ReapTask,
       TaskPhase, AtRest, OnThread, Gone
  <2>3. SameSent(NoReq)
    BY <2>2, Moved DEF TaskPhase, AtRest, OnThread, Gone
  <2> QED
    BY <2>1, <2>3, PromiseFrame DEF Serving
<1> QED
  BY <1>1, <1>2

\* Every step of the server is a step of the promise or a stutter.
LEMMA PromiseStep ==
    ASSUME TypeOK, AnswerInv, [Next]_vars
    PROVE  [Promise!RRNext]_(Promise!rrVars)
<1>1. CASE InlinePanic
  <2>1. UNCHANGED <<phase, replies, dropped>> /\ Serving /\ ~Serving'
    BY <1>1 DEF InlinePanic, taskVars, outVars, Serving
  <2> QED
    BY <2>1, PromiseCloses DEF Promise!RRNext
<1>2. CASE \/ GraceExpires \/ WorkerNext \/ LastClientDropped \/ WriterNext \/ Terminated
           \/ UNCHANGED vars
  <2>1. UNCHANGED <<loop, phase, replies, dropped>>
    BY <1>2 DEF GraceExpires, WorkerNext, TakeNote, NoteSuspends, NoteResumes, NoteDone,
       NoteReturns, NotePanics, WorkerEnds, WorkerAborted, WriterNext, WriterTakes,
       WriterFlushes, WriterFails, WriterEnds, LastClientDropped, Terminated, vars, loopVars,
       taskVars, outVars
  <2> QED
    BY <2>1, PromiseFrame DEF SameSent, Serving
<1> QED
  BY <1>1, <1>2, ReadKeepsPromise, LoopKeepsPromise, TaskKeepsPromise DEF Next

\* With ids not reused early, the server keeps what RequestReply promises the
\* editor: each request is opened and answered at most once, and given up only
\* by a connection that is closing.
THEOREM PromiseKept ==
    ASSUME PromptReuse = FALSE
    PROVE  Spec => ImplementsRequestReply
<1>1. Init => Promise!RRInit
  BY DEF Init, Quiet, Promise!RRInit, StatusBar, Serving
<1>2. TypeOK /\ AnswerInv /\ [Next]_vars => [Promise!RRNext]_(Promise!rrVars)
  BY PromiseStep
<1>3. TypeOK /\ AnswerInv /\ [Next]_vars => AnswerInv'
  BY AnswerStep
<1> QED
  BY <1>1, <1>2, <1>3, AnswerInit, TypeCorrect, PTL
     DEF Spec, ImplementsRequestReply, Promise!RRSpec
=============================================================================
