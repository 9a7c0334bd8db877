--------------------------- MODULE Outbound_proofs ---------------------------
(***************************************************************************)
(* Proofs about Outbound for any threads and any limit: the depth counter  *)
(* is exact, hence never underflows, and the limit is overshot by no more  *)
(* than the number of sending threads.                                     *)
(***************************************************************************)
EXTENDS Outbound, SequenceTheorems, FiniteSetTheorems, TLAPS

-----------------------------------------------------------------------------
(* The inductive invariant *)

\* After the writer died the channel is empty, and the counter still covers
\* the sends under way.
FailedDepth == writer = "failed" => queue = <<>> /\ depth >= Cardinality(Pushing)

DepthInv == TypeOK /\ DepthExact /\ FailedDepth /\ CapSlack

\* The sets of threads inside Outbound::send are finite.
LEMMA ThreadSets ==
    /\ IsFiniteSet(Pushing) /\ Cardinality(Pushing) \in Nat
    /\ \A place : /\ IsFiniteSet(LimitedAt(place)) /\ Cardinality(LimitedAt(place)) \in Nat
                  /\ Cardinality(LimitedAt(place)) <= Cardinality(Procs)
    /\ Cardinality(LimitedAt("pushing")) <= Cardinality(Pushing)
    /\ Cardinality(Procs) \in Nat
<1>1. IsFiniteSet(Procs) /\ Cardinality(Procs) \in Nat
  BY ProcsAssumption, FS_CardinalityType
<1>2. Pushing \in SUBSET Procs /\ \A place : LimitedAt(place) \in SUBSET Procs
  BY DEF Pushing, LimitedAt
<1>3. LimitedAt("pushing") \in SUBSET Pushing
  BY DEF Pushing, LimitedAt
<1>4. IsFiniteSet(Pushing)
  BY <1>1, <1>2, FS_Subset
<1>5. \A place : /\ IsFiniteSet(LimitedAt(place))
                 /\ Cardinality(LimitedAt(place)) <= Cardinality(Procs)
  BY <1>1, <1>2, FS_Subset
<1>6. Cardinality(LimitedAt("pushing")) <= Cardinality(Pushing)
  BY <1>3, <1>4, FS_Subset
<1> QED
  BY <1>1, <1>4, <1>5, <1>6, FS_CardinalityType

\* Client traffic in a sequence of messages.
Traffic(s) == {k \in DOMAIN s : s[k].kind \in Limited}

\* The first n places are n.
LEMMA Places == ASSUME NEW n \in Nat PROVE IsFiniteSet(1..n) /\ Cardinality(1..n) = n
  BY FS_Interval, SMTT(30)

\* There is no more Client traffic in a queue than there are messages.
LEMMA TrafficSize ==
    ASSUME NEW s \in Seq(Message)
    PROVE  /\ IsFiniteSet(Traffic(s)) /\ Cardinality(Traffic(s)) \in Nat
           /\ Cardinality(Traffic(s)) <= Len(s)
<1>1. IsFiniteSet(1..Len(s)) /\ Cardinality(1..Len(s)) = Len(s)
  <2>1. Len(s) \in Nat
    OBVIOUS
  <2> QED
    BY <2>1, Places, Zenon
<1>2. Traffic(s) \in SUBSET (1..Len(s))
  BY DEF Traffic
<1>3. IsFiniteSet(Traffic(s)) /\ Cardinality(Traffic(s)) <= Cardinality(1..Len(s))
  BY <1>1, <1>2, FS_Subset
<1> QED
  BY <1>1, <1>3, FS_CardinalityType

\* Queueing a message adds to the Client traffic if it is of that kind.
LEMMA TrafficAppend ==
    ASSUME NEW s \in Seq(Message), NEW m \in Message
    PROVE  Cardinality(Traffic(Append(s, m))) =
               Cardinality(Traffic(s)) + (IF m.kind \in Limited THEN 1 ELSE 0)
<1>1. Traffic(Append(s, m)) = IF m.kind \in Limited THEN Traffic(s) \cup {Len(s) + 1}
                                                    ELSE Traffic(s)
  BY DEF Traffic
<1>2. Len(s) + 1 \notin Traffic(s)
  BY DEF Traffic
<1>3. IsFiniteSet(Traffic(s)) /\ Cardinality(Traffic(s)) \in Nat
  BY TrafficSize
<1>4. Cardinality(Traffic(s) \cup {Len(s) + 1}) = Cardinality(Traffic(s)) + 1
  BY <1>2, <1>3, FS_AddElement
<1> QED
  BY <1>1, <1>3, <1>4

\* Taking a message from the channel adds no Client traffic.
LEMMA TrafficTail ==
    ASSUME NEW s \in Seq(Message), s # <<>>
    PROVE  Cardinality(Traffic(Tail(s))) <= Cardinality(Traffic(s))
<1> DEFINE f == [k \in Traffic(Tail(s)) |-> k + 1]
<1>1. \A k \in Traffic(Tail(s)) : k \in Nat /\ k + 1 \in Traffic(s)
  BY DEF Traffic
<1>2. f \in Injection(Traffic(Tail(s)), Traffic(s))
  BY <1>1 DEF Injection, IsInjective
<1> QED
  BY <1>2, TrafficSize, FS_Injection

\* Every step of a thread or the writer keeps the variables in their types.
LEMMA TypeStep == DepthInv /\ [Next]_vars => TypeOK'
<1> SUFFICES ASSUME DepthInv, TypeOK, [Next]_vars PROVE TypeOK'
  BY DEF DepthInv
<1> USE DEF TypeOK, sendVars, writerVars
<1>1. CASE UNCHANGED vars
  BY <1>1 DEF vars
<1>2. ASSUME NEW p \in Procs, NEW k \in Kinds, StartSend(p, k) PROVE TypeOK'
  BY <1>2 DEF StartSend
<1>3. ASSUME NEW p \in Procs, PassLimit(p) PROVE TypeOK'
  BY <1>3 DEF PassLimit
<1>4. ASSUME NEW p \in Procs, RefuseAtLimit(p) PROVE TypeOK'
  BY <1>4 DEF RefuseAtLimit, SendFails
<1>5. ASSUME NEW p \in Procs, AddDepth(p) PROVE TypeOK'
  BY <1>5 DEF AddDepth
<1>6. ASSUME NEW p \in Procs, Push(p) PROVE TypeOK'
  <2>1. [from |-> p, kind |-> op[p]] \in Message
    BY DEF Message
  <2> QED
    BY <1>6, <2>1 DEF Push
<1>7. ASSUME NEW p \in Procs, PushClosed(p) PROVE TypeOK'
  BY <1>7 DEF PushClosed, SendFails
<1>8. ASSUME NEW p \in Procs, DropSender(p) PROVE TypeOK'
  BY <1>8 DEF DropSender
<1>9. CASE Receive
  BY <1>9 DEF Receive
<1>10. CASE DrainedAll
  BY <1>10 DEF DrainedAll
<1>11. CASE Flush
  BY <1>11 DEF Flush
<1>12. CASE WriteFails
  <2>1. \A n \in 0..Len(batch) : SubSeq(batch, 1, n) \in Seq(Message)
    OBVIOUS
  <2> QED
    BY <1>12, <2>1 DEF WriteFails
<1>13. CASE WriterEnds
  BY <1>13 DEF WriterEnds
<1>14. CASE Terminated
  BY <1>14 DEF Terminated, vars
<1>15. CASE SubDepth
  <2>1. depth - 1 \in Nat
    BY <1>15, ThreadSets DEF SubDepth, DepthInv, DepthExact
  <2> QED
    BY <1>15, <2>1 DEF SubDepth
<1> QED
  BY <1>1, <1>2, <1>3, <1>4, <1>5, <1>6, <1>7, <1>8, <1>9, <1>10, <1>11, <1>12,
     <1>13, <1>14, <1>15 DEF Next, SendStep, WriterStep

\* How a step of thread p moves it between the sets CapSlack counts.
LEMMA SetsOfThread ==
    ASSUME NEW p \in Procs, TypeOK, UNCHANGED op,
           NEW a, pc' = [pc EXCEPT ![p] = a]
    PROVE  /\ Pushing' = IF a = "pushing" THEN Pushing \cup {p} ELSE Pushing \ {p}
           /\ \A place \in {"adding", "pushing"} :
                  LimitedAt(place)' = IF a = place /\ op[p] \in Limited
                                      THEN LimitedAt(place) \cup {p}
                                      ELSE LimitedAt(place) \ {p}
  BY DEF Pushing, LimitedAt, TypeOK

\* A thread that moves on changes the number of pushing threads by at most one.
LEMMA CountOfThread ==
    ASSUME NEW p \in Procs, TypeOK, UNCHANGED op,
           NEW a, pc' = [pc EXCEPT ![p] = a]
    PROVE  /\ Cardinality(Pushing') =
                  Cardinality(Pushing) + (IF a = "pushing" /\ p \notin Pushing THEN 1 ELSE 0)
                                       - (IF a # "pushing" /\ p \in Pushing THEN 1 ELSE 0)
           /\ \A place \in {"adding", "pushing"} :
                  Cardinality(LimitedAt(place)') =
                      Cardinality(LimitedAt(place))
                          + (IF a = place /\ op[p] \in Limited /\ p \notin LimitedAt(place)
                             THEN 1 ELSE 0)
                          - (IF ~(a = place /\ op[p] \in Limited) /\ p \in LimitedAt(place)
                             THEN 1 ELSE 0)
<1>1. Cardinality(Pushing') =
          Cardinality(Pushing) + (IF a = "pushing" /\ p \notin Pushing THEN 1 ELSE 0)
                               - (IF a # "pushing" /\ p \in Pushing THEN 1 ELSE 0)
  <2> DEFINE P == Pushing
  <2>1. IsFiniteSet(P) /\ Cardinality(P) \in Nat
    BY ThreadSets
  <2>2. P' = IF a = "pushing" THEN P \cup {p} ELSE P \ {p}
    BY SetsOfThread
  <2> HIDE DEF P
  <2>3. Cardinality(P \cup {p}) = IF p \in P THEN Cardinality(P) ELSE Cardinality(P) + 1
    BY <2>1, FS_AddElement
  <2>4. Cardinality(P \ {p}) = IF p \in P THEN Cardinality(P) - 1 ELSE Cardinality(P)
    BY <2>1, FS_RemoveElement
  <2>5. Cardinality(P') = Cardinality(P) + (IF a = "pushing" /\ p \notin P THEN 1 ELSE 0)
                                         - (IF a # "pushing" /\ p \in P THEN 1 ELSE 0)
    BY <2>1, <2>2, <2>3, <2>4
  <2> QED
    BY <2>5 DEF P
<1>2. ASSUME NEW place \in {"adding", "pushing"}
      PROVE  Cardinality(LimitedAt(place)') =
                 Cardinality(LimitedAt(place))
                     + (IF a = place /\ op[p] \in Limited /\ p \notin LimitedAt(place)
                        THEN 1 ELSE 0)
                     - (IF ~(a = place /\ op[p] \in Limited) /\ p \in LimitedAt(place)
                        THEN 1 ELSE 0)
  <2> DEFINE L == LimitedAt(place)
  <2>1. IsFiniteSet(L) /\ Cardinality(L) \in Nat
    BY ThreadSets
  <2>2. L' = IF a = place /\ op[p] \in Limited THEN L \cup {p} ELSE L \ {p}
    BY SetsOfThread
  <2> HIDE DEF L
  <2>3. Cardinality(L \cup {p}) = IF p \in L THEN Cardinality(L) ELSE Cardinality(L) + 1
    BY <2>1, FS_AddElement
  <2>4. Cardinality(L \ {p}) = IF p \in L THEN Cardinality(L) - 1 ELSE Cardinality(L)
    BY <2>1, FS_RemoveElement
  <2>5. Cardinality(L') =
            Cardinality(L) + (IF a = place /\ op[p] \in Limited /\ p \notin L THEN 1 ELSE 0)
                           - (IF ~(a = place /\ op[p] \in Limited) /\ p \in L THEN 1 ELSE 0)
    BY <2>1, <2>2, <2>3, <2>4
  <2> QED
    BY <2>5 DEF L
<1> QED
  BY <1>1, <1>2

\* The counting facts every step rests on, in one place.
LEMMA DepthStep == DepthInv /\ [Next]_vars => (DepthExact /\ FailedDepth /\ CapSlack)'
<1> SUFFICES ASSUME DepthInv, [Next]_vars PROVE (DepthExact /\ FailedDepth /\ CapSlack)'
  OBVIOUS
<1> DEFINE P == Cardinality(Pushing)
           LP == Cardinality(LimitedAt("pushing"))
           LA == Cardinality(LimitedAt("adding"))
           Q == QueuedTraffic
           N == Cardinality(Procs)
<1>t. TypeOK
  BY DEF DepthInv
<1>n. P \in Nat /\ LP \in Nat /\ LA \in Nat /\ N \in Nat /\ LP <= P /\ LA <= N
  BY ThreadSets
<1>np. P' \in Nat /\ LP' \in Nat /\ LA' \in Nat /\ LP' <= P' /\ LA' <= N
  <2>1. /\ Pushing' \in SUBSET Procs /\ LimitedAt("adding")' \in SUBSET Procs
        /\ LimitedAt("pushing")' \in SUBSET Pushing'
    BY DEF Pushing, LimitedAt
  <2>2. IsFiniteSet(Procs)
    BY ProcsAssumption
  <2>3. IsFiniteSet(Pushing') /\ IsFiniteSet(LimitedAt("adding")') /\ LA' <= N
    BY <2>1, <2>2, FS_Subset
  <2>4. IsFiniteSet(LimitedAt("pushing")') /\ LP' <= P'
    BY <2>1, <2>3, FS_Subset
  <2> QED
    BY <2>3, <2>4, FS_CardinalityType
<1>q. Q \in Nat /\ Q <= Len(queue) /\ Q = Cardinality(Traffic(queue))
  BY <1>t, TrafficSize DEF QueuedTraffic, Traffic, TypeOK
<1>qp. Q' = Cardinality(Traffic(queue'))
  BY DEF QueuedTraffic, Traffic
<1>d. depth \in Nat /\ Len(queue) \in Nat /\ OutLimit \in Nat
  BY <1>t, OutLimitAssumption DEF TypeOK
<1>i. /\ writer # "failed" => depth = Len(queue) + P + (IF writer = "counting" THEN 1 ELSE 0)
      /\ writer = "failed" => queue = <<>> /\ depth >= P
      /\ OutLimit > 0 => Q + LP + LA <= OutLimit + N - 1
  BY DEF DepthInv, DepthExact, FailedDepth, CapSlack
<1>cap. OutLimit > 0 => Q + LP + LA <= OutLimit + N - 1
  BY <1>i
<1>qn. Q \in Nat
  BY <1>q
<1>g. SUFFICES
         /\ writer' # "failed" => depth' = Len(queue') + P' + (IF writer' = "counting" THEN 1 ELSE 0)
         /\ writer' = "failed" => queue' = <<>> /\ depth' >= P'
         /\ OutLimit > 0 => Q' + LP' + LA' <= OutLimit + N - 1
  BY DEF DepthExact, FailedDepth, CapSlack
<1> DEFINE Goal ==
         /\ writer' # "failed" => depth' = Len(queue') + P' + (IF writer' = "counting" THEN 1 ELSE 0)
         /\ writer' = "failed" => queue' = <<>> /\ depth' >= P'
         /\ OutLimit > 0 => Q' + LP' + LA' <= OutLimit + N - 1
\* Steps that move no thread and leave the channel as it is.
<1>same. ASSUME UNCHANGED <<pc, op>> PROVE P' = P /\ LP' = LP /\ LA' = LA
  BY <1>same DEF Pushing, LimitedAt
<1>sameq. ASSUME UNCHANGED queue PROVE Q' = Q
  BY <1>sameq DEF QueuedTraffic
<1> DEFINE Moves(p, a) == UNCHANGED op /\ pc' = [pc EXCEPT ![p] = a]
<1>c. \A p \in Procs, a \in {"idle", "adding", "pushing", "dropped"} : Moves(p, a) =>
          /\ P' = P + (IF a = "pushing" /\ pc[p] # "pushing" THEN 1 ELSE 0)
                    - (IF a # "pushing" /\ pc[p] = "pushing" THEN 1 ELSE 0)
          /\ LP' = LP + (IF a = "pushing" /\ op[p] \in Limited /\ pc[p] # "pushing" THEN 1 ELSE 0)
                      - (IF a # "pushing" /\ op[p] \in Limited /\ pc[p] = "pushing" THEN 1 ELSE 0)
          /\ LA' = LA + (IF a = "adding" /\ op[p] \in Limited /\ pc[p] # "adding" THEN 1 ELSE 0)
                      - (IF a # "adding" /\ op[p] \in Limited /\ pc[p] = "adding" THEN 1 ELSE 0)
  <2> SUFFICES ASSUME NEW p \in Procs, NEW a \in {"idle", "adding", "pushing", "dropped"},
                      Moves(p, a)
               PROVE  /\ P' = P + (IF a = "pushing" /\ pc[p] # "pushing" THEN 1 ELSE 0)
                                - (IF a # "pushing" /\ pc[p] = "pushing" THEN 1 ELSE 0)
                      /\ LP' = LP + (IF a = "pushing" /\ op[p] \in Limited /\ pc[p] # "pushing" THEN 1 ELSE 0)
                                  - (IF a # "pushing" /\ op[p] \in Limited /\ pc[p] = "pushing" THEN 1 ELSE 0)
                      /\ LA' = LA + (IF a = "adding" /\ op[p] \in Limited /\ pc[p] # "adding" THEN 1 ELSE 0)
                                  - (IF a # "adding" /\ op[p] \in Limited /\ pc[p] = "adding" THEN 1 ELSE 0)
    OBVIOUS
  <2>2. /\ p \in Pushing <=> pc[p] = "pushing"
        /\ \A place : p \in LimitedAt(place) <=> pc[p] = place /\ op[p] \in Limited
    BY DEF Pushing, LimitedAt
  <2>3. /\ P' = P + (IF a = "pushing" /\ p \notin Pushing THEN 1 ELSE 0)
                   - (IF a # "pushing" /\ p \in Pushing THEN 1 ELSE 0)
        /\ LP' = LP + (IF a = "pushing" /\ op[p] \in Limited /\ p \notin LimitedAt("pushing") THEN 1 ELSE 0)
                     - (IF ~(a = "pushing" /\ op[p] \in Limited) /\ p \in LimitedAt("pushing") THEN 1 ELSE 0)
        /\ LA' = LA + (IF a = "adding" /\ op[p] \in Limited /\ p \notin LimitedAt("adding") THEN 1 ELSE 0)
                     - (IF ~(a = "adding" /\ op[p] \in Limited) /\ p \in LimitedAt("adding") THEN 1 ELSE 0)
    BY <1>t, CountOfThread
  <2> HIDE DEF P, LP, LA
  <2> QED
    BY <2>2, <2>3, <1>n
<1>1. CASE UNCHANGED vars
  <2> HIDE DEF P, LP, LA, Q, N
  <2> QED
    BY <1>1, <1>i, <1>same, <1>sameq DEF vars, sendVars, writerVars
<1>2. ASSUME NEW p \in Procs, NEW k \in Kinds, StartSend(p, k) PROVE Goal
  <2>1. Pushing' = Pushing /\ LimitedAt("pushing")' = LimitedAt("pushing")
            /\ LimitedAt("adding")' = LimitedAt("adding")
    BY <1>2, <1>t DEF StartSend, Pushing, LimitedAt, TypeOK
  <2>2. P' = P /\ LP' = LP /\ LA' = LA
    BY <2>1
  <2> HIDE DEF P, LP, LA, Q, N
  <2> QED
    BY <1>2, <1>i, <2>2, <1>sameq DEF StartSend, writerVars
<1>3. ASSUME NEW p \in Procs, PassLimit(p) PROVE Goal
  <2>1. Moves(p, "adding") /\ pc[p] = "checking"
    BY <1>3 DEF PassLimit
  <2>2. Q' = Q /\ UNCHANGED <<depth, queue, writer>> /\ depth < OutLimit
    BY <1>3, <1>sameq DEF PassLimit, writerVars
  <2> HIDE DEF P, LP, LA, Q, N, Moves
  <2>3. P' = P /\ LP' = LP /\ LA' <= LA + 1
    BY <2>1, <1>c, <1>n, <1>np
  <2>q. Q + LP <= depth
    <3>1. writer = "failed" => Len(queue) = 0
      BY <1>i
    <3> QED
      BY <3>1, <1>n, <1>q, <1>d, <1>i, SMTT(30)
  <2>4. Q + LP + LA' <= OutLimit + N - 1
    BY <2>2, <2>q, <1>n, <1>np, <1>q, <1>d, SMTT(30)
  <2> QED
    BY <2>2, <2>3, <2>4, <1>n, <1>q, <1>d, <1>i
<1>4. ASSUME NEW p \in Procs, RefuseAtLimit(p) PROVE Goal
  <2>1. Moves(p, "idle") /\ UNCHANGED <<depth, queue, writer>> /\ pc[p] = "checking"
    BY <1>4 DEF RefuseAtLimit, SendFails, writerVars
  <2> HIDE DEF P, LP, LA, Q, N, Moves
  <2>2. P' = P /\ LP' = LP /\ LA' = LA
    BY <2>1, <1>c, <1>n
  <2> QED
    BY <2>1, <2>2, <1>i, <1>sameq
<1>5. ASSUME NEW p \in Procs, AddDepth(p) PROVE Goal
  <2>1. /\ Moves(p, "pushing") /\ UNCHANGED <<queue, writer>>
        /\ depth' = depth + 1 /\ pc[p] = "adding"
    BY <1>5 DEF AddDepth, writerVars
  <2> HIDE DEF P, LP, LA, Q, N, Moves
  <2>2. P' = P + 1
    BY <2>1, <1>c, <1>n
  <2>m. \/ LP' = LP + 1 /\ LA' = LA - 1
        \/ LP' = LP /\ LA' = LA
    BY <2>1, <1>c, <1>n
  <2>3. Q' = Q
    BY <2>1, <1>sameq
  <2>4. OutLimit > 0 => Q' + LP' + LA' <= OutLimit + N - 1
    <3> DEFINE q == Q'  lp == LP'  la == LA'
    <3>0. lp \in Nat /\ la \in Nat
      BY <1>np
    <3>1. q = Q
      BY <2>3
    <3>m. \/ lp = LP + 1 /\ la = LA - 1
          \/ lp = LP /\ la = LA
      BY <2>m, Zenon
    <3> HIDE DEF q, lp, la
    <3>2. OutLimit > 0 => q + lp + la <= OutLimit + N - 1
      BY <3>0, <3>1, <3>m, <1>cap, <1>n, <1>qn, <1>d
    <3> QED
      BY <3>2 DEF q, lp, la
  <2> QED
    BY <2>1, <2>2, <2>4, <1>i, <1>d, <1>n
<1>6. ASSUME NEW p \in Procs, Push(p) PROVE Goal
  <2>1. /\ Moves(p, "idle") /\ UNCHANGED <<depth, writer>>
        /\ queue' = Append(queue, [from |-> p, kind |-> op[p]])
        /\ writer # "failed" /\ pc[p] = "pushing"
    BY <1>6 DEF Push, writerVars
  <2> HIDE DEF P, LP, LA, Q, N, Moves
  <2>2. /\ P' = P - 1 /\ LA' = LA
        /\ LP' = LP - (IF op[p] \in Limited THEN 1 ELSE 0)
    BY <2>1, <1>c, <1>n
  <2>3. [from |-> p, kind |-> op[p]] \in Message
    BY <1>t DEF Message, TypeOK
  <2>4. Q' = Q + (IF op[p] \in Limited THEN 1 ELSE 0) /\ Len(queue') = Len(queue) + 1
    BY <2>1, <2>3, <1>q, <1>qp, <1>t, TrafficAppend DEF TypeOK
  <2> QED
    BY <2>1, <2>2, <2>4, <1>i, <1>d, <1>n, <1>np, <1>q, SMTT(30)
<1>7. ASSUME NEW p \in Procs, PushClosed(p) PROVE Goal
  <2>1. /\ Moves(p, "idle") /\ UNCHANGED <<depth, queue, writer>>
        /\ writer = "failed" /\ pc[p] = "pushing"
    BY <1>7 DEF PushClosed, SendFails, writerVars
  <2> HIDE DEF P, LP, LA, Q, N, Moves
  <2>2. P' = P - 1 /\ LA' = LA /\ LP' <= LP
    BY <2>1, <1>c, <1>n
  <2> QED
    BY <2>1, <2>2, <1>i, <1>sameq, <1>d, <1>n, <1>np, <1>q, SMTT(30)
<1>8. ASSUME NEW p \in Procs, DropSender(p) PROVE Goal
  <2>1. Moves(p, "dropped") /\ UNCHANGED <<depth, queue, writer>> /\ pc[p] = "idle"
    BY <1>8 DEF DropSender, writerVars
  <2> HIDE DEF P, LP, LA, Q, N, Moves
  <2>2. P' = P /\ LP' = LP /\ LA' = LA
    BY <2>1, <1>c, <1>n
  <2> QED
    BY <2>1, <2>2, <1>i, <1>sameq
<1>9. CASE Receive
  <2>1. /\ UNCHANGED <<pc, op, depth>> /\ queue # <<>> /\ queue' = Tail(queue)
        /\ writer \in {"recv", "draining"} /\ writer' = "counting"
    BY <1>9 DEF Receive, sendVars
  <2>q. queue \in Seq(Message) /\ Tail(queue) \in Seq(Message) /\ Len(Tail(queue)) = Len(queue) - 1
    BY <2>1, <1>t DEF TypeOK
  <2>c. Cardinality(Traffic(Tail(queue))) <= Cardinality(Traffic(queue))
    BY <2>1, <2>q, TrafficTail
  <2>n. Cardinality(Traffic(Tail(queue))) \in Nat
    BY <2>q, TrafficSize
  <2>2. Q' <= Q /\ Len(queue') = Len(queue) - 1 /\ Q' \in Nat
    <3> HIDE DEF Q
    <3> QED
      BY <2>1, <2>q, <2>c, <2>n, <1>q, <1>qp
  <2>3. P' = P /\ LP' = LP /\ LA' = LA
    BY <2>1, <1>same
  <2> HIDE DEF P, LP, LA, Q, N
  <2>4. OutLimit > 0 => Q' + LP' + LA' <= OutLimit + N - 1
    <3> DEFINE q == Q'  lp == LP'  la == LA'
    <3>1. q \in Nat /\ lp \in Nat /\ la \in Nat /\ q <= Q /\ lp = LP /\ la = LA
      BY <2>2, <2>3, <1>n, <1>np, <1>qn
    <3> HIDE DEF q, lp, la
    <3>2. OutLimit > 0 => q + lp + la <= OutLimit + N - 1
      BY <3>1, <1>cap, <1>n, <1>qn, <1>d
    <3> QED
      BY <3>2 DEF q, lp, la
  <2>5. depth' = Len(queue') + P' + 1
    BY <2>1, <2>2, <2>3, <1>i, <1>n, <1>d
  <2> QED
    BY <2>1, <2>4, <2>5
<1>10. CASE SubDepth \/ DrainedAll \/ Flush \/ WriterEnds
  <2>1. /\ UNCHANGED <<pc, op, queue>> /\ writer # "failed" /\ writer' # "failed" /\ writer' # "counting"
        /\ depth' = IF writer = "counting" THEN depth - 1 ELSE depth
    BY <1>10 DEF SubDepth, DrainedAll, Flush, WriterEnds, sendVars
  <2>2. P' = P /\ LP' = LP /\ LA' = LA /\ Q' = Q
    BY <2>1, <1>same, <1>sameq
  <2> HIDE DEF P, LP, LA, Q, N
  <2> QED
    BY <2>1, <2>2, <1>i, <1>d, <1>n
<1>11. CASE WriteFails
  <2>1. /\ UNCHANGED <<pc, op, depth>> /\ queue' = <<>>
        /\ writer = "writing" /\ writer' = "failed"
    BY <1>11 DEF WriteFails, sendVars
  <2>2. P' = P /\ LP' = LP /\ LA' = LA
    BY <2>1, <1>same
  <2>3. Q' = 0
    <3>1. Traffic(queue') = {}
      BY <2>1 DEF Traffic
    <3> QED
      BY <3>1, <1>qp, FS_EmptySet
  <2> HIDE DEF P, LP, LA, Q, N
  <2> QED
    BY <2>1, <2>2, <2>3, <1>i, <1>d, <1>n, <1>q
<1>12. CASE Terminated
  BY <1>1, <1>12 DEF Terminated
<1> QED
  BY <1>1, <1>2, <1>3, <1>4, <1>5, <1>6, <1>7, <1>8, <1>9, <1>10, <1>11, <1>12
     DEF Next, SendStep, WriterStep

\* A new connection's counter is exact.
LEMMA DepthInit == Init => DepthInv
<1> SUFFICES ASSUME Init PROVE DepthInv
  OBVIOUS
<1>1. TypeOK
  BY DEF Init, TypeOK, Kinds, Limited
<1>2. Pushing = {} /\ LimitedAt("pushing") = {} /\ LimitedAt("adding") = {} /\ Traffic(queue) = {}
  BY DEF Init, Pushing, LimitedAt, Traffic
<1>3. DepthExact /\ FailedDepth
  BY <1>2, FS_EmptySet DEF DepthExact, FailedDepth, Init
<1>4. CapSlack
  <2>1. QueuedTraffic = 0
    BY <1>2, FS_EmptySet DEF QueuedTraffic, Traffic
  <2> QED
    BY <1>2, <2>1, ThreadSets, OutLimitAssumption, FS_EmptySet DEF CapSlack
<1> QED
  BY <1>1, <1>3, <1>4 DEF DepthInv

\* The depth counter equals the channel's length plus the operations under
\* way, for any number of threads and any order of their steps; being a type
\* invariant too, it never underflows.
THEOREM DepthIsExact == Spec => [](TypeOK /\ DepthExact)
<1>1. DepthInv /\ [Next]_vars => DepthInv'
  BY TypeStep, DepthStep DEF DepthInv
<1>2. DepthInv => TypeOK /\ DepthExact
  BY DEF DepthInv
<1> QED
  BY <1>1, <1>2, DepthInit, PTL DEF Spec

\* Client traffic overshoots the limit by less than one message per thread.
THEOREM OvershootBounded == Spec => []CapSlack
<1>1. DepthInv /\ [Next]_vars => DepthInv'
  BY TypeStep, DepthStep DEF DepthInv
<1>2. DepthInv => CapSlack
  BY DEF DepthInv
<1> QED
  BY <1>1, <1>2, DepthInit, PTL DEF Spec

-----------------------------------------------------------------------------
(* The order of messages *)

\* A message taken from the head of one sequence to the end of another stays at
\* its place in the two together.
LEMMA TakenInOrder ==
    ASSUME NEW s \in Seq(Message), NEW t \in Seq(Message), t # <<>>
    PROVE  Append(s, Head(t)) \o Tail(t) = s \o t
<1> DEFINE a == Append(s, Head(t))
<1>1. /\ Head(t) \in Message /\ Tail(t) \in Seq(Message) /\ Len(Tail(t)) = Len(t) - 1
      /\ \A i \in 1..Len(Tail(t)) : Tail(t)[i] = t[i + 1]
      /\ Head(t) = t[1] /\ Len(t) \in Nat \ {0}
  OBVIOUS
<1>2. /\ a \in Seq(Message) /\ Len(a) = Len(s) + 1 /\ Len(s) \in Nat
      /\ \A i \in 1..Len(a) : a[i] = IF i <= Len(s) THEN s[i] ELSE Head(t)
  BY <1>1
<1> HIDE DEF a
<1> DEFINE r == Tail(t)
<1>r. r \in Seq(Message)
  BY <1>1
<1> HIDE DEF r
<1>m. /\ a \o r \in Seq(Message) /\ Len(a \o r) = Len(a) + Len(r)
      /\ \A i \in 1..(Len(a) + Len(r)) : (a \o r)[i] = IF i <= Len(a) THEN a[i] ELSE r[i - Len(a)]
  BY <1>r, <1>2, ConcatProperties
<1>e. Len(a) + Len(r) = Len(s) + Len(t)
  BY <1>1, <1>2 DEF r
<1>3. /\ a \o Tail(t) \in Seq(Message) /\ Len(a \o Tail(t)) = Len(s) + Len(t)
      /\ \A i \in 1..(Len(s) + Len(t)) :
            (a \o Tail(t))[i] = IF i <= Len(a) THEN a[i] ELSE Tail(t)[i - Len(a)]
  BY <1>m, <1>e DEF r
<1>4. /\ s \o t \in Seq(Message) /\ Len(s \o t) = Len(s) + Len(t)
      /\ \A i \in 1..(Len(s) + Len(t)) : (s \o t)[i] = IF i <= Len(s) THEN s[i] ELSE t[i - Len(s)]
  BY ConcatProperties
<1>5. \A i \in 1..(Len(s) + Len(t)) : (a \o Tail(t))[i] = (s \o t)[i]
  BY <1>1, <1>2, <1>3, <1>4
<1>6. a \o Tail(t) = s \o t
  BY <1>3, <1>4, <1>5, SeqEqual
<1> QED
  BY <1>6 DEF a

\* A message queued last is last of all.
LEMMA QueuedLast ==
    ASSUME NEW s \in Seq(Message), NEW t \in Seq(Message), NEW m \in Message
    PROVE  s \o Append(t, m) = Append(s \o t, m)
<1>1. /\ s \o t \in Seq(Message) /\ Len(s \o t) = Len(s) + Len(t)
      /\ \A i \in 1..(Len(s) + Len(t)) : (s \o t)[i] = IF i <= Len(s) THEN s[i] ELSE t[i - Len(s)]
  BY ConcatProperties
<1>2. /\ Append(t, m) \in Seq(Message) /\ Len(Append(t, m)) = Len(t) + 1
      /\ Len(s) \in Nat /\ Len(t) \in Nat
      /\ \A i \in 1..(Len(t) + 1) : Append(t, m)[i] = IF i <= Len(t) THEN t[i] ELSE m
  OBVIOUS
<1>3. /\ s \o Append(t, m) \in Seq(Message) /\ Len(s \o Append(t, m)) = Len(s) + Len(t) + 1
      /\ \A i \in 1..(Len(s) + (Len(t) + 1)) :
            (s \o Append(t, m))[i] = IF i <= Len(s) THEN s[i] ELSE Append(t, m)[i - Len(s)]
  <2> DEFINE u == Append(t, m)
  <2>1. u \in Seq(Message) /\ Len(u) = Len(t) + 1
    BY <1>2
  <2> HIDE DEF u
  <2>2. /\ s \o u \in Seq(Message) /\ Len(s \o u) = Len(s) + Len(u)
        /\ \A i \in 1..(Len(s) + Len(u)) : (s \o u)[i] = IF i <= Len(s) THEN s[i] ELSE u[i - Len(s)]
    BY <2>1, ConcatProperties
  <2>3. /\ s \o u \in Seq(Message) /\ Len(s \o u) = Len(s) + Len(t) + 1
        /\ \A i \in 1..(Len(s) + (Len(t) + 1)) :
              (s \o u)[i] = IF i <= Len(s) THEN s[i] ELSE u[i - Len(s)]
    BY <2>1, <2>2, <1>2
  <2> QED
    BY <2>3 DEF u
<1> DEFINE st == s \o t
<1>4. /\ Append(st, m) \in Seq(Message) /\ Len(Append(st, m)) = Len(st) + 1
      /\ \A i \in 1..(Len(st) + 1) : Append(st, m)[i] = IF i <= Len(st) THEN st[i] ELSE m
  <2> HIDE DEF st
  <2>1. st \in Seq(Message)
    BY <1>1 DEF st
  <2> QED
    BY <2>1
<1>5. \A i \in 1..(Len(s) + Len(t) + 1) : (s \o Append(t, m))[i] = Append(st, m)[i]
  <2> HIDE DEF st
  <2>1. /\ Len(st) = Len(s) + Len(t)
        /\ \A i \in 1..(Len(s) + Len(t)) : st[i] = IF i <= Len(s) THEN s[i] ELSE t[i - Len(s)]
    BY <1>1 DEF st
  <2> QED
    BY <2>1, <1>2, <1>3, <1>4
<1>6. Len(s \o Append(t, m)) = Len(Append(st, m))
  BY <1>1, <1>3, <1>4
<1>7. s \o Append(t, m) = Append(st, m)
  <2> HIDE DEF st
  <2> QED
    BY <1>3, <1>4, <1>5, <1>6, SeqEqual
<1> QED
  BY <1>7

\* The first part of a sequence is a prefix of it.
LEMMA PrefixOfConcat ==
    ASSUME NEW s \in Seq(Message), NEW t \in Seq(Message)
    PROVE  IsPrefix(s, s \o t)
<1>1. /\ s \o t \in Seq(Message) /\ Len(s \o t) = Len(s) + Len(t)
      /\ \A i \in 1..(Len(s) + Len(t)) : (s \o t)[i] = IF i <= Len(s) THEN s[i] ELSE t[i - Len(s)]
      /\ Len(s) \in Nat /\ Len(t) \in Nat
  BY ConcatProperties
<1> DEFINE u == s \o t
<1> HIDE DEF u
<1>2. \A i \in 1..Len(s) : u[i] = s[i] /\ u[i] \in Message
  BY <1>1 DEF u
<1>3. SubSeq(s, 1, Len(s)) = SubSeq(u, 1, Len(s))
  BY <1>1, <1>2
<1> QED
  BY <1>1, <1>3 DEF IsPrefix, u

\* Three sequences, joined from either end.
LEMMA Regroup ==
    ASSUME NEW a \in Seq(Message), NEW b \in Seq(Message), NEW c \in Seq(Message)
    PROVE  a \o b \o c = a \o (b \o c)
  BY ConcatAssociative

\* What is before a cut and what is after it make the sequence again.
LEMMA CutAndJoined ==
    ASSUME NEW s \in Seq(Message), NEW n \in 0..Len(s)
    PROVE  /\ SubSeq(s, 1, n) \in Seq(Message)
           /\ SubSeq(s, n + 1, Len(s)) \in Seq(Message)
           /\ SubSeq(s, 1, n) \o SubSeq(s, n + 1, Len(s)) = s
<1> DEFINE b == SubSeq(s, 1, n)
           c == SubSeq(s, n + 1, Len(s))
<1>0. Len(s) \in Nat /\ n \in Nat /\ n <= Len(s)
  OBVIOUS
<1>1. b \in Seq(Message) /\ Len(b) = n /\ \A i \in 1..n : b[i] = s[i]
  BY <1>0
<1>2. c \in Seq(Message) /\ Len(c) = Len(s) - n /\ \A i \in 1..(Len(s) - n) : c[i] = s[n + i]
  BY <1>0
<1> HIDE DEF b, c
<1>3. /\ b \o c \in Seq(Message) /\ Len(b \o c) = Len(b) + Len(c)
      /\ \A i \in 1..(Len(b) + Len(c)) : (b \o c)[i] = IF i <= Len(b) THEN b[i] ELSE c[i - Len(b)]
  BY <1>1, <1>2, ConcatProperties
<1>4. Len(b \o c) = Len(s)
  BY <1>0, <1>1, <1>2, <1>3
<1>5. ASSUME NEW i \in 1..Len(s) PROVE (b \o c)[i] = s[i]
  <2>1. CASE i <= n
    BY <2>1, <1>0, <1>1, <1>2, <1>3
  <2>2. CASE ~(i <= n)
    <3>1. i - n \in 1..(Len(s) - n) /\ n + (i - n) = i
      BY <2>2, <1>0
    <3> QED
      BY <2>2, <3>1, <1>0, <1>1, <1>2, <1>3
  <2> QED
    BY <2>1, <2>2
<1>6. b \o c = s
  BY <1>3, <1>4, <1>5, SeqEqual
<1> QED
  BY <1>1, <1>2, <1>6 DEF b, c

\* The messages the channel took stay in order through channel, batch and wire,
\* and a failing writer cuts them off at some place.
LEMMA OrderStep == TypeOK /\ NothingLostOrReordered /\ [Next]_vars => NothingLostOrReordered'
<1> SUFFICES ASSUME TypeOK, NothingLostOrReordered, [Next]_vars
             PROVE  NothingLostOrReordered'
  OBVIOUS
<1>t. /\ wire \in Seq(Message) /\ batch \in Seq(Message) /\ queue \in Seq(Message)
      /\ accepted \in Seq(Message) /\ wire \o batch \in Seq(Message)
  BY ConcatProperties DEF TypeOK
<1>i. /\ writer # "failed" => wire \o batch \o queue = accepted
      /\ writer = "failed" => IsPrefix(wire, accepted)
  BY DEF NothingLostOrReordered
<1>1. CASE UNCHANGED <<queue, writer, batch, wire, accepted>>
  BY <1>1, <1>i DEF NothingLostOrReordered
<1>2. ASSUME NEW p \in Procs, Push(p) PROVE NothingLostOrReordered'
  <2> DEFINE m == [from |-> p, kind |-> op[p]]
  <2>1. m \in Message
    BY DEF Message, TypeOK
  <2>2. /\ queue' = Append(queue, m) /\ accepted' = Append(accepted, m)
        /\ UNCHANGED <<writer, batch, wire>> /\ writer # "failed"
    BY <1>2 DEF Push, writerVars
  <2> HIDE DEF m
  <2>3. wire \o batch \o Append(queue, m) = Append(wire \o batch \o queue, m)
    BY <1>t, <2>1, QueuedLast
  <2> QED
    BY <2>2, <2>3, <1>i DEF NothingLostOrReordered
<1>3. CASE Receive
  <2>1. /\ queue # <<>> /\ batch' = Append(batch, Head(queue)) /\ queue' = Tail(queue)
        /\ UNCHANGED <<wire, accepted>> /\ writer # "failed" /\ writer' # "failed"
    BY <1>3 DEF Receive
  <2>2. /\ batch' \in Seq(Message) /\ Tail(queue) \in Seq(Message)
        /\ batch' \o Tail(queue) = batch \o queue
    BY <1>t, <2>1, TakenInOrder
  <2>3. wire \o batch' \o Tail(queue) = wire \o (batch' \o Tail(queue))
    <3> DEFINE taken == batch'
               rest == Tail(queue)
    <3>1. wire \in Seq(Message) /\ taken \in Seq(Message) /\ rest \in Seq(Message)
      BY <1>t, <2>2
    <3> HIDE DEF taken, rest
    <3>2. wire \o taken \o rest = wire \o (taken \o rest)
      BY <3>1, Regroup
    <3> QED
      BY <3>2 DEF taken, rest
  <2>4. wire \o (batch \o queue) = wire \o batch \o queue
    <3>1. wire \in Seq(Message) /\ batch \in Seq(Message) /\ queue \in Seq(Message)
      BY <1>t
    <3> QED
      BY <3>1, Regroup
  <2> QED
    BY <2>1, <2>2, <2>3, <2>4, <1>i DEF NothingLostOrReordered
<1>4. CASE SubDepth \/ DrainedAll \/ WriterEnds
  <2>1. /\ UNCHANGED <<queue, batch, wire, accepted>>
        /\ writer # "failed" /\ writer' # "failed"
    BY <1>4 DEF SubDepth, DrainedAll, WriterEnds
  <2> QED
    BY <2>1, <1>i DEF NothingLostOrReordered
<1>5. CASE Flush
  <2>1. /\ wire' = wire \o batch /\ batch' = <<>> /\ UNCHANGED <<queue, accepted>>
        /\ writer # "failed" /\ writer' # "failed"
    BY <1>5 DEF Flush
  <2>2. wire \o batch \o <<>> = wire \o batch
    BY <1>t, ConcatEmptySeq
  <2> QED
    BY <2>1, <2>2, <1>i DEF NothingLostOrReordered
<1>6. CASE WriteFails
  <2>1. PICK n \in 0..Len(batch) : wire' = wire \o SubSeq(batch, 1, n)
    BY <1>6 DEF WriteFails
  <2>2. UNCHANGED accepted /\ writer # "failed" /\ writer' = "failed"
    BY <1>6 DEF WriteFails
  <2> DEFINE written == SubSeq(batch, 1, n)
             rest == SubSeq(batch, n + 1, Len(batch))
  <2>3. written \in Seq(Message) /\ rest \in Seq(Message) /\ written \o rest = batch
    BY <1>t, CutAndJoined
  <2> DEFINE before == wire \o written
             after == rest \o queue
  <2> HIDE DEF written, rest
  <2>4. before \in Seq(Message) /\ after \in Seq(Message)
    BY <1>t, <2>3, ConcatProperties
  <2>5. wire \o batch = before \o rest
    <3>1. wire \in Seq(Message) /\ written \in Seq(Message) /\ rest \in Seq(Message)
      BY <1>t, <2>3
    <3>2. wire \o written \o rest = wire \o (written \o rest)
      BY <3>1, Regroup
    <3> QED
      BY <2>3, <3>2
  <2> HIDE DEF before
  <2>6. before \o rest \o queue = before \o after
    <3>1. before \in Seq(Message) /\ rest \in Seq(Message) /\ queue \in Seq(Message)
      BY <1>t, <2>3, <2>4
    <3> QED
      BY <3>1, Regroup
  <2> HIDE DEF after
  <2>8. accepted = before \o after
    BY <2>2, <2>5, <2>6, <1>i
  <2>9. IsPrefix(before, accepted)
    BY <2>4, <2>8, PrefixOfConcat
  <2> QED
    BY <2>1, <2>2, <2>9 DEF NothingLostOrReordered, before, written
<1>7. ASSUME NEW p \in Procs, NEW k \in Kinds,
             \/ StartSend(p, k) \/ PassLimit(p) \/ RefuseAtLimit(p) \/ AddDepth(p)
             \/ PushClosed(p) \/ DropSender(p)
      PROVE  UNCHANGED <<queue, writer, batch, wire, accepted>>
  BY <1>7 DEF StartSend, PassLimit, RefuseAtLimit, AddDepth, PushClosed, DropSender, writerVars
<1>8. CASE Terminated \/ UNCHANGED vars
  BY <1>1, <1>8 DEF Terminated, vars, writerVars
<1> QED
  BY <1>1, <1>2, <1>3, <1>4, <1>5, <1>6, <1>7, <1>8 DEF Next, SendStep, WriterStep, Kinds

\* What the channel took is written in that order, each message once; a writer
\* that fails leaves a prefix of it.  For any threads, limit and batches.
THEOREM OrderIsKept == Spec => []NothingLostOrReordered
<1>1. Init => NothingLostOrReordered
  BY DEF Init, NothingLostOrReordered
<1>2. TypeOK /\ NothingLostOrReordered /\ [Next]_vars => NothingLostOrReordered'
  BY OrderStep
<1> QED
  BY <1>1, <1>2, DepthIsExact, PTL DEF Spec
=============================================================================
