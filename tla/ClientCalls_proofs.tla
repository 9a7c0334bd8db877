------------------------- MODULE ClientCalls_proofs -------------------------
(***************************************************************************)
(* Proofs about ClientCalls for any calls, callers and timeouts: answers   *)
(* reach the call that asked, and no call that returned leaves an entry.   *)
(***************************************************************************)
EXTENDS ClientCalls, TLAPS

-----------------------------------------------------------------------------
(* The inductive invariant *)

\* fetch_add hands every call an id of its own, below next_id.
IdsDistinct ==
    /\ \A c \in Calls : call[c] = "idle" <=> id[c] = 0
    /\ \A c \in Calls : id[c] < nextId
    /\ \A c, d \in Calls : id[c] = id[d] /\ id[c] # 0 => c = d

\* What the client was asked, and whose answer may come back.
AskedIds ==
    /\ \A i \in asked : i # 0 /\ i < nextId
    /\ \A c \in Calls : call[c] \in {"numbered", "registered", "unsent"} => id[c] \notin asked
    /\ \A k \in DOMAIN inbox : inbox[k].id \in asked \cup {0}

\* A call has no answer before it waits.
RepliesWait ==
    \A c \in Calls : call[c] \in {"idle", "numbered", "registered", "unsent", "expired",
                                  "forgotten", "timedout"} => reply[c] = NoReply

\* resolve takes the entry out before it delivers.
AnsweredIsRemoved == \A e \in pending : reply[e.call] = NoReply

CallInv ==
    /\ TypeOK /\ IdsDistinct /\ AskedIds /\ RepliesWait /\ AnsweredIsRemoved
    /\ RightAnswer /\ WaitingIsReachable /\ NoEntryAfterReturn /\ CancelAfterForget

\* A new Client has no calls under way.
LEMMA CallInit == Init => CallInv
<1> SUFFICES ASSUME Init PROVE CallInv
  OBVIOUS
<1> USE DEF Init
<1>1. TypeOK
  <2>1. nextId \in Nat \ {0} /\ pending \subseteq [id : Nat, call : Calls]
    OBVIOUS
  <2>2. call \in [Calls -> {"idle"} \cup InFlight \cup Finished]
    OBVIOUS
  <2>3. id \in [Calls -> Nat] /\ reply \in [Calls -> Nat]
    BY DEF NoReply
  <2>4. inbox \in Seq([type : {"response", "note", "shutdown"}, id : Nat])
    OBVIOUS
  <2> QED
    BY <2>1, <2>2, <2>3, <2>4 DEF TypeOK
<1>2. IdsDistinct /\ AskedIds /\ RepliesWait /\ AnsweredIsRemoved
  BY DEF IdsDistinct, AskedIds, RepliesWait, AnsweredIsRemoved
<1>3. RightAnswer /\ WaitingIsReachable /\ NoEntryAfterReturn /\ CancelAfterForget
  BY DEF RightAnswer, WaitingIsReachable, NoEntryAfterReturn, CancelAfterForget, NoReply
<1> QED
  BY <1>1, <1>2, <1>3 DEF CallInv

\* Steps of the client, the loop and the handlers that leave the calls alone
\* and only read from the inbox, or append a note, a shutdown or an answer.
LEMMA LoopFrame ==
    ASSUME CallInv, UNCHANGED callVars, TypeOK',
           \A k \in DOMAIN inbox' : inbox'[k].id \in asked \cup {0}
    PROVE  CallInv'
<1> USE DEF callVars
<1>1. IdsDistinct' /\ RepliesWait' /\ AnsweredIsRemoved'
  BY DEF CallInv, IdsDistinct, RepliesWait, AnsweredIsRemoved
<1>2. AskedIds'
  BY DEF CallInv, AskedIds
<1>3. RightAnswer' /\ WaitingIsReachable'
  BY DEF CallInv, RightAnswer, WaitingIsReachable, Entry
<1>4. NoEntryAfterReturn' /\ CancelAfterForget'
  BY DEF CallInv, NoEntryAfterReturn, CancelAfterForget, Without
<1> QED
  BY <1>1, <1>2, <1>3, <1>4 DEF CallInv

-----------------------------------------------------------------------------
(* The steps of a call *)

\* The steps of a call keep every variable in its type.
LEMMA CallType ==
    ASSUME CallInv, TypeOK, NEW c \in Calls, AllocateId(c) \/ CallStep(c) \/ Abort(c)
    PROVE  TypeOK'
<1> USE DEF TypeOK, Goto, InFlight, Finished, peerVars, loopVars
<1>1. CASE AllocateId(c)
  BY <1>1 DEF AllocateId
<1>2. CASE ParamsFail(c)
  BY <1>2 DEF ParamsFail
<1>3. CASE Register(c)
  BY <1>3 DEF Register, Without, Entry
<1>4. CASE SendRequest(c)
  BY <1>4 DEF SendRequest, CallInv, IdsDistinct
<1>5. CASE SendRefused(c)
  BY <1>5 DEF SendRefused
<1>6. CASE RollBack(c)
  BY <1>6 DEF RollBack, Without
<1>7. CASE ReturnReply(c)
  BY <1>7 DEF ReturnReply
<1>8. CASE Expire(c)
  BY <1>8 DEF Expire
<1>9. CASE ForgetExpired(c)
  BY <1>9 DEF ForgetExpired, Without
<1>10. CASE SendCancel(c)
  BY <1>10 DEF SendCancel
<1>11. CASE Abort(c)
  BY <1>11 DEF Abort
<1> QED
  BY <1>1, <1>2, <1>3, <1>4, <1>5, <1>6, <1>7, <1>8, <1>9, <1>10, <1>11 DEF CallStep

\* Allocating an id, the steps of a call and its abort keep the invariant.
LEMMA CallInvStep ==
    ASSUME CallInv, NEW c \in Calls, AllocateId(c) \/ CallStep(c) \/ Abort(c)
    PROVE  CallInv'
<1>t. TypeOK /\ TypeOK'
  BY CallType DEF CallInv
<1> DEFINE Places == {"idle"} \cup InFlight \cup Finished
<1>p. call \in [Calls -> Places] /\ id \in [Calls -> Nat] /\ reply \in [Calls -> Nat] /\ nextId \in Nat
  BY <1>t DEF TypeOK
<1> USE DEF Goto, InFlight, Finished, peerVars, loopVars
<1>1. CASE AllocateId(c)
  <2>1. IdsDistinct'
    BY <1>1, <1>p DEF AllocateId, CallInv, IdsDistinct
  <2>2. AskedIds'
    BY <1>1, <1>p, <1>t DEF AllocateId, CallInv, AskedIds, IdsDistinct, TypeOK
  <2>3. RepliesWait'
    BY <1>1, <1>p DEF AllocateId, CallInv, RepliesWait, IdsDistinct, NoReply
  <2>4. RightAnswer'
    BY <1>1, <1>p DEF AllocateId, CallInv, RightAnswer, IdsDistinct, NoReply, RepliesWait
  <2>5. WaitingIsReachable'
    BY <1>1, <1>p DEF AllocateId, CallInv, WaitingIsReachable, IdsDistinct, NoReply, Entry, Without
  <2>6. NoEntryAfterReturn'
    BY <1>1, <1>p DEF AllocateId, CallInv, NoEntryAfterReturn, IdsDistinct, Entry, Without
  <2>7. CancelAfterForget'
    BY <1>1, <1>p DEF AllocateId, CallInv, CancelAfterForget, IdsDistinct, Entry, Without, NoEntryAfterReturn
  <2>8. AnsweredIsRemoved'
    BY <1>1, <1>p, <1>t DEF AllocateId, CallInv, AnsweredIsRemoved, RepliesWait, NoReply, Entry, Without, TypeOK
  <2> QED
    BY <1>t, <2>1, <2>2, <2>3, <2>4, <2>5, <2>6, <2>7, <2>8 DEF CallInv
<1>2. CASE ParamsFail(c)
  <2>1. IdsDistinct'
    BY <1>2, <1>p DEF ParamsFail, CallInv, IdsDistinct
  <2>2. AskedIds'
    BY <1>2, <1>p DEF ParamsFail, CallInv, AskedIds, IdsDistinct
  <2>3. RepliesWait'
    BY <1>2, <1>p DEF ParamsFail, CallInv, RepliesWait, IdsDistinct, NoReply
  <2>4. RightAnswer'
    BY <1>2, <1>p DEF ParamsFail, CallInv, RightAnswer, IdsDistinct, NoReply, RepliesWait
  <2>5. WaitingIsReachable'
    BY <1>2, <1>p DEF ParamsFail, CallInv, WaitingIsReachable, IdsDistinct, NoReply, Entry, Without
  <2>6. NoEntryAfterReturn'
    BY <1>2, <1>p DEF ParamsFail, CallInv, NoEntryAfterReturn, IdsDistinct, Entry, Without
  <2>7. CancelAfterForget'
    BY <1>2, <1>p DEF ParamsFail, CallInv, CancelAfterForget, IdsDistinct, Entry, Without, NoEntryAfterReturn
  <2>8. AnsweredIsRemoved'
    BY <1>2, <1>p, <1>t DEF ParamsFail, CallInv, AnsweredIsRemoved, RepliesWait, NoReply, Entry, Without, TypeOK
  <2> QED
    BY <1>t, <2>1, <2>2, <2>3, <2>4, <2>5, <2>6, <2>7, <2>8 DEF CallInv
<1>3. CASE Register(c)
  <2>1. IdsDistinct'
    BY <1>3, <1>p DEF Register, CallInv, IdsDistinct
  <2>2. AskedIds'
    BY <1>3, <1>p DEF Register, CallInv, AskedIds, IdsDistinct
  <2>3. RepliesWait'
    BY <1>3, <1>p DEF Register, CallInv, RepliesWait, IdsDistinct, NoReply
  <2>4. RightAnswer'
    BY <1>3, <1>p DEF Register, CallInv, RightAnswer, IdsDistinct, NoReply, RepliesWait
  <2>5. WaitingIsReachable'
    BY <1>3, <1>p DEF Register, CallInv, WaitingIsReachable, IdsDistinct, NoReply, Entry, Without
  <2>6. NoEntryAfterReturn'
    BY <1>3, <1>p DEF Register, CallInv, NoEntryAfterReturn, IdsDistinct, Entry, Without
  <2>7. CancelAfterForget'
    BY <1>3, <1>p DEF Register, CallInv, CancelAfterForget, IdsDistinct, Entry, Without, NoEntryAfterReturn
  <2>8. AnsweredIsRemoved'
    BY <1>3, <1>p, <1>t DEF Register, CallInv, AnsweredIsRemoved, RepliesWait, NoReply, Entry, Without, TypeOK
  <2> QED
    BY <1>t, <2>1, <2>2, <2>3, <2>4, <2>5, <2>6, <2>7, <2>8 DEF CallInv
<1>4. CASE SendRequest(c)
  <2>1. IdsDistinct'
    BY <1>4, <1>p DEF SendRequest, CallInv, IdsDistinct
  <2>2. AskedIds'
    BY <1>4, <1>p DEF SendRequest, CallInv, AskedIds, IdsDistinct
  <2>3. RepliesWait'
    BY <1>4, <1>p DEF SendRequest, CallInv, RepliesWait, IdsDistinct, NoReply
  <2>4. RightAnswer'
    BY <1>4, <1>p DEF SendRequest, CallInv, RightAnswer, IdsDistinct, NoReply, RepliesWait
  <2>5. WaitingIsReachable'
    BY <1>4, <1>p DEF SendRequest, CallInv, WaitingIsReachable, IdsDistinct, NoReply, Entry, Without
  <2>6. NoEntryAfterReturn'
    BY <1>4, <1>p DEF SendRequest, CallInv, NoEntryAfterReturn, IdsDistinct, Entry, Without
  <2>7. CancelAfterForget'
    BY <1>4, <1>p DEF SendRequest, CallInv, CancelAfterForget, IdsDistinct, Entry, Without, NoEntryAfterReturn
  <2>8. AnsweredIsRemoved'
    BY <1>4, <1>p, <1>t DEF SendRequest, CallInv, AnsweredIsRemoved, RepliesWait, NoReply, Entry, Without, TypeOK
  <2> QED
    BY <1>t, <2>1, <2>2, <2>3, <2>4, <2>5, <2>6, <2>7, <2>8 DEF CallInv
<1>5. CASE SendRefused(c)
  <2>1. IdsDistinct'
    BY <1>5, <1>p DEF SendRefused, CallInv, IdsDistinct
  <2>2. AskedIds'
    BY <1>5, <1>p DEF SendRefused, CallInv, AskedIds, IdsDistinct
  <2>3. RepliesWait'
    BY <1>5, <1>p DEF SendRefused, CallInv, RepliesWait, IdsDistinct, NoReply
  <2>4. RightAnswer'
    BY <1>5, <1>p DEF SendRefused, CallInv, RightAnswer, IdsDistinct, NoReply, RepliesWait
  <2>5. WaitingIsReachable'
    BY <1>5, <1>p DEF SendRefused, CallInv, WaitingIsReachable, IdsDistinct, NoReply, Entry, Without
  <2>6. NoEntryAfterReturn'
    BY <1>5, <1>p DEF SendRefused, CallInv, NoEntryAfterReturn, IdsDistinct, Entry, Without
  <2>7. CancelAfterForget'
    BY <1>5, <1>p DEF SendRefused, CallInv, CancelAfterForget, IdsDistinct, Entry, Without, NoEntryAfterReturn
  <2>8. AnsweredIsRemoved'
    BY <1>5, <1>p, <1>t DEF SendRefused, CallInv, AnsweredIsRemoved, RepliesWait, NoReply, Entry, Without, TypeOK
  <2> QED
    BY <1>t, <2>1, <2>2, <2>3, <2>4, <2>5, <2>6, <2>7, <2>8 DEF CallInv
<1>6. CASE RollBack(c)
  <2>1. IdsDistinct'
    BY <1>6, <1>p DEF RollBack, CallInv, IdsDistinct
  <2>2. AskedIds'
    BY <1>6, <1>p DEF RollBack, CallInv, AskedIds, IdsDistinct
  <2>3. RepliesWait'
    BY <1>6, <1>p DEF RollBack, CallInv, RepliesWait, IdsDistinct, NoReply
  <2>4. RightAnswer'
    BY <1>6, <1>p DEF RollBack, CallInv, RightAnswer, IdsDistinct, NoReply, RepliesWait
  <2>5. WaitingIsReachable'
    BY <1>6, <1>p DEF RollBack, CallInv, WaitingIsReachable, IdsDistinct, NoReply, Entry, Without
  <2>6. NoEntryAfterReturn'
    BY <1>6, <1>p DEF RollBack, CallInv, NoEntryAfterReturn, IdsDistinct, Entry, Without
  <2>7. CancelAfterForget'
    BY <1>6, <1>p DEF RollBack, CallInv, CancelAfterForget, IdsDistinct, Entry, Without, NoEntryAfterReturn
  <2>8. AnsweredIsRemoved'
    BY <1>6, <1>p, <1>t DEF RollBack, CallInv, AnsweredIsRemoved, RepliesWait, NoReply, Entry, Without, TypeOK
  <2> QED
    BY <1>t, <2>1, <2>2, <2>3, <2>4, <2>5, <2>6, <2>7, <2>8 DEF CallInv
<1>7. CASE ReturnReply(c)
  <2>1. IdsDistinct'
    BY <1>7, <1>p DEF ReturnReply, CallInv, IdsDistinct
  <2>2. AskedIds'
    BY <1>7, <1>p DEF ReturnReply, CallInv, AskedIds, IdsDistinct
  <2>3. RepliesWait'
    BY <1>7, <1>p DEF ReturnReply, CallInv, RepliesWait, IdsDistinct, NoReply
  <2>4. RightAnswer'
    BY <1>7, <1>p DEF ReturnReply, CallInv, RightAnswer, IdsDistinct, NoReply, RepliesWait
  <2>5. WaitingIsReachable'
    BY <1>7, <1>p DEF ReturnReply, CallInv, WaitingIsReachable, IdsDistinct, NoReply, Entry, Without
  <2>6. NoEntryAfterReturn'
    BY <1>7, <1>p DEF ReturnReply, CallInv, NoEntryAfterReturn, AnsweredIsRemoved, IdsDistinct, Entry, Without
  <2>7. CancelAfterForget'
    BY <1>7, <1>p DEF ReturnReply, CallInv, CancelAfterForget, IdsDistinct, Entry, Without, NoEntryAfterReturn
  <2>8. AnsweredIsRemoved'
    BY <1>7, <1>p, <1>t DEF ReturnReply, CallInv, AnsweredIsRemoved, RepliesWait, NoReply, Entry, Without, TypeOK
  <2> QED
    BY <1>t, <2>1, <2>2, <2>3, <2>4, <2>5, <2>6, <2>7, <2>8 DEF CallInv
<1>8. CASE Expire(c)
  <2>1. IdsDistinct'
    BY <1>8, <1>p DEF Expire, CallInv, IdsDistinct
  <2>2. AskedIds'
    BY <1>8, <1>p DEF Expire, CallInv, AskedIds, IdsDistinct
  <2>3. RepliesWait'
    BY <1>8, <1>p DEF Expire, CallInv, RepliesWait, IdsDistinct, NoReply
  <2>4. RightAnswer'
    BY <1>8, <1>p DEF Expire, CallInv, RightAnswer, IdsDistinct, NoReply, RepliesWait
  <2>5. WaitingIsReachable'
    BY <1>8, <1>p DEF Expire, CallInv, WaitingIsReachable, IdsDistinct, NoReply, Entry, Without
  <2>6. NoEntryAfterReturn'
    BY <1>8, <1>p DEF Expire, CallInv, NoEntryAfterReturn, IdsDistinct, Entry, Without
  <2>7. CancelAfterForget'
    BY <1>8, <1>p DEF Expire, CallInv, CancelAfterForget, IdsDistinct, Entry, Without, NoEntryAfterReturn
  <2>8. AnsweredIsRemoved'
    BY <1>8, <1>p, <1>t DEF Expire, CallInv, AnsweredIsRemoved, RepliesWait, NoReply, Entry, Without, TypeOK
  <2> QED
    BY <1>t, <2>1, <2>2, <2>3, <2>4, <2>5, <2>6, <2>7, <2>8 DEF CallInv
<1>9. CASE ForgetExpired(c)
  <2>1. IdsDistinct'
    BY <1>9, <1>p DEF ForgetExpired, CallInv, IdsDistinct
  <2>2. AskedIds'
    BY <1>9, <1>p DEF ForgetExpired, CallInv, AskedIds, IdsDistinct
  <2>3. RepliesWait'
    BY <1>9, <1>p DEF ForgetExpired, CallInv, RepliesWait, IdsDistinct, NoReply
  <2>4. RightAnswer'
    BY <1>9, <1>p DEF ForgetExpired, CallInv, RightAnswer, IdsDistinct, NoReply, RepliesWait
  <2>5. WaitingIsReachable'
    BY <1>9, <1>p DEF ForgetExpired, CallInv, WaitingIsReachable, IdsDistinct, NoReply, Entry, Without
  <2>6. NoEntryAfterReturn'
    BY <1>9, <1>p DEF ForgetExpired, CallInv, NoEntryAfterReturn, IdsDistinct, Entry, Without
  <2>7. CancelAfterForget'
    BY <1>9, <1>p DEF ForgetExpired, CallInv, CancelAfterForget, IdsDistinct, Entry, Without, NoEntryAfterReturn
  <2>8. AnsweredIsRemoved'
    BY <1>9, <1>p, <1>t DEF ForgetExpired, CallInv, AnsweredIsRemoved, RepliesWait, NoReply, Entry, Without, TypeOK
  <2> QED
    BY <1>t, <2>1, <2>2, <2>3, <2>4, <2>5, <2>6, <2>7, <2>8 DEF CallInv
<1>10. CASE SendCancel(c)
  <2>1. IdsDistinct'
    BY <1>10, <1>p DEF SendCancel, CallInv, IdsDistinct
  <2>2. AskedIds'
    BY <1>10, <1>p DEF SendCancel, CallInv, AskedIds, IdsDistinct
  <2>3. RepliesWait'
    BY <1>10, <1>p DEF SendCancel, CallInv, RepliesWait, IdsDistinct, NoReply
  <2>4. RightAnswer'
    BY <1>10, <1>p DEF SendCancel, CallInv, RightAnswer, IdsDistinct, NoReply, RepliesWait
  <2>5. WaitingIsReachable'
    BY <1>10, <1>p DEF SendCancel, CallInv, WaitingIsReachable, IdsDistinct, NoReply, Entry, Without
  <2>6. NoEntryAfterReturn'
    BY <1>10, <1>p DEF SendCancel, CallInv, NoEntryAfterReturn, IdsDistinct, Entry, Without
  <2>7. CancelAfterForget'
    <3>1. ASSUME NEW e \in pending, e.id = id[c] PROVE FALSE
      <4>1. e.call \in Calls /\ call[c] = "forgotten"
        BY <1>10, <1>t DEF SendCancel, TypeOK
      <4>2. id[e.call] = id[c] /\ call[e.call] # "forgotten"
        BY <3>1 DEF CallInv, NoEntryAfterReturn
      <4>3. id[c] # 0
        BY <4>1 DEF CallInv, IdsDistinct
      <4> QED
        BY <4>1, <4>2, <4>3 DEF CallInv, IdsDistinct
    <3>2. Without(id[c]) = pending
      BY <3>1 DEF Without
    <3>3. cancels' \subseteq cancels \cup {id[c]} /\ call' = [call EXCEPT ![c] = "timedout"]
              /\ UNCHANGED <<id, pending>> /\ call[c] = "forgotten"
      BY <1>10 DEF SendCancel
    <3> QED
      BY <3>2, <3>3, <1>p DEF CallInv, CancelAfterForget, Without
  <2>8. AnsweredIsRemoved'
    BY <1>10, <1>p, <1>t DEF SendCancel, CallInv, AnsweredIsRemoved, RepliesWait, NoReply, Entry, Without, TypeOK
  <2> QED
    BY <1>t, <2>1, <2>2, <2>3, <2>4, <2>5, <2>6, <2>7, <2>8 DEF CallInv
<1>11. CASE Abort(c)
  <2>1. IdsDistinct'
    BY <1>11, <1>p DEF Abort, CallInv, IdsDistinct
  <2>2. AskedIds'
    BY <1>11, <1>p DEF Abort, CallInv, AskedIds, IdsDistinct
  <2>3. RepliesWait'
    BY <1>11, <1>p DEF Abort, CallInv, RepliesWait, IdsDistinct, NoReply
  <2>4. RightAnswer'
    BY <1>11, <1>p DEF Abort, CallInv, RightAnswer, IdsDistinct, NoReply, RepliesWait
  <2>5. WaitingIsReachable'
    BY <1>11, <1>p DEF Abort, CallInv, WaitingIsReachable, IdsDistinct, NoReply, Entry, Without
  <2>6. NoEntryAfterReturn'
    BY <1>11, <1>p DEF Abort, CallInv, NoEntryAfterReturn, IdsDistinct, Entry, Without
  <2>7. CancelAfterForget'
    BY <1>11, <1>p DEF Abort, CallInv, CancelAfterForget, IdsDistinct, Entry, Without, NoEntryAfterReturn
  <2>8. AnsweredIsRemoved'
    BY <1>11, <1>p, <1>t DEF Abort, CallInv, AnsweredIsRemoved, RepliesWait, NoReply, Entry, Without, TypeOK
  <2> QED
    BY <1>t, <2>1, <2>2, <2>3, <2>4, <2>5, <2>6, <2>7, <2>8 DEF CallInv
<1> QED
  BY <1>1, <1>2, <1>3, <1>4, <1>5, <1>6, <1>7, <1>8, <1>9, <1>10, <1>11 DEF CallStep

-----------------------------------------------------------------------------
(* The steps of the client, the loop and the notification worker *)

\* A message that reaches the loop answers a request that was made, or none.
LEMMA Arriving ==
    ASSUME CallInv, UNCHANGED callVars, UNCHANGED <<loop, writerDead>>,
           NEW m \in [type : {"response", "note", "shutdown"}, id : Nat],
           m.id \in asked \cup {0}, inbox' = Append(inbox, m),
           answered' \in Nat, note' \in {note, "sent"}
    PROVE  CallInv'
<1>1. inbox \in Seq([type : {"response", "note", "shutdown"}, id : Nat])
  BY DEF CallInv, TypeOK
<1>2. TypeOK'
  BY <1>1 DEF CallInv, TypeOK, callVars
<1>3. \A k \in DOMAIN inbox' : inbox'[k].id \in asked \cup {0}
  BY <1>1 DEF CallInv, AskedIds
<1> QED
  BY <1>2, <1>3, LoopFrame

\* The loop's and the worker's progress through the inbox disturbs no call.
LEMMA ReadingStep ==
    ASSUME CallInv, UNCHANGED callVars, UNCHANGED answered,
           UNCHANGED inbox \/ (inbox # <<>> /\ inbox' = Tail(inbox)) \/ inbox' = <<>>,
           loop' \in {"reading", "draining", "shutting", "closed"},
           note' \in {"none", "sent", "queued", "running", "done"}, writerDead' \in BOOLEAN
    PROVE  CallInv'
<1>1. inbox \in Seq([type : {"response", "note", "shutdown"}, id : Nat])
  BY DEF CallInv, TypeOK
<1>2. inbox' \in Seq([type : {"response", "note", "shutdown"}, id : Nat])
  <2> DEFINE M == [type : {"response", "note", "shutdown"}, id : Nat]
  <2>1. inbox \in Seq(M)
    BY <1>1
  <2> HIDE DEF M
  <2>2. inbox # <<>> => Tail(inbox) \in Seq(M)
    BY <2>1
  <2>3. <<>> \in Seq(M)
    OBVIOUS
  <2>4. inbox' \in Seq(M)
    BY <2>1, <2>2, <2>3, Zenon
  <2> QED
    BY <2>4 DEF M
<1>3. TypeOK'
  BY <1>2 DEF CallInv, TypeOK, callVars
<1>4. \A k \in DOMAIN inbox : inbox[k].id \in asked \cup {0}
  BY DEF CallInv, AskedIds
<1>5. ASSUME NEW k \in DOMAIN inbox' PROVE inbox'[k].id \in asked \cup {0}
  <2>1. CASE UNCHANGED inbox
    BY <2>1, <1>4
  <2>2. CASE inbox # <<>> /\ inbox' = Tail(inbox)
    <3>1. k + 1 \in DOMAIN inbox /\ inbox'[k] = inbox[k + 1]
      BY <2>2, <1>1
    <3> QED
      BY <3>1, <1>4
  <2>3. CASE inbox' = <<>>
    BY <2>3
  <2> QED
    BY <2>1, <2>2, <2>3
<1> QED
  BY <1>3, <1>5, LoopFrame

\* Delivering a response: the one step of the loop that touches the calls.
LEMMA Delivering == ASSUME CallInv, ReadResponse PROVE CallInv'
<1> USE DEF loopVars
<1>1. inbox \in Seq([type : {"response", "note", "shutdown"}, id : Nat]) /\ inbox # <<>>
  BY DEF CallInv, TypeOK, ReadResponse, Reads
<1> DEFINE i == Head(inbox).id
<1>2. i \in Nat /\ i \in asked \cup {0} /\ inbox' = Tail(inbox)
  <2> DEFINE M == [type : {"response", "note", "shutdown"}, id : Nat]
  <2>0. inbox \in Seq(M) /\ \A m \in M : m.id \in Nat
    BY <1>1
  <2> HIDE DEF M
  <2>1. 1 \in DOMAIN inbox /\ Head(inbox) = inbox[1] /\ inbox[1].id \in Nat
    BY <1>1, <2>0
  <2>2. inbox[1].id \in asked \cup {0}
    BY <2>1 DEF CallInv, AskedIds
  <2> QED
    BY <2>1, <2>2 DEF ReadResponse, Reads
<1>3. /\ pending' = Without(i) /\ UNCHANGED <<nextId, call, id, asked, cancels, answered, loop, note, writerDead>>
      /\ reply' = [c \in Calls |->
             IF [id |-> i, call |-> c] \in pending /\ call[c] = "waiting" THEN i ELSE reply[c]]
  BY DEF ReadResponse
<1> HIDE DEF i
<1>4. \A c \in Calls : [id |-> i, call |-> c] \in pending => id[c] = i /\ i # 0
  BY DEF CallInv, NoEntryAfterReturn, IdsDistinct
<1>5. TypeOK'
  BY <1>1, <1>2, <1>3 DEF CallInv, TypeOK, Without
<1>6. IdsDistinct'
  BY <1>3 DEF CallInv, IdsDistinct
<1>7. AskedIds'
  BY <1>1, <1>2, <1>3 DEF CallInv, AskedIds
<1>8. RepliesWait'
  BY <1>3 DEF CallInv, RepliesWait
<1>9. RightAnswer'
  BY <1>2, <1>3, <1>4 DEF CallInv, RightAnswer, NoReply
<1>10. AnsweredIsRemoved'
  BY <1>3, <1>4 DEF CallInv, AnsweredIsRemoved, Without, NoEntryAfterReturn, TypeOK
<1>11. WaitingIsReachable'
  <2> SUFFICES ASSUME NEW c \in Calls, call[c] \in {"registered", "waiting"}, reply'[c] = NoReply
               PROVE  Entry(c)' \in Without(i)
    BY <1>3 DEF WaitingIsReachable
  <2>1. Entry(c)' = Entry(c)
    BY <1>3 DEF Entry
  <2>2. Entry(c) \in pending
    BY <1>3, <1>4 DEF CallInv, WaitingIsReachable, NoReply, Entry
  <2>3. id[c] # i
    BY <1>2, <1>3, <1>4, <2>2 DEF CallInv, AskedIds, NoReply, Entry
  <2> QED
    BY <2>1, <2>2, <2>3 DEF Without, Entry
<1>12. NoEntryAfterReturn' /\ CancelAfterForget'
  BY <1>3 DEF CallInv, NoEntryAfterReturn, CancelAfterForget, Without
<1> QED
  BY <1>5, <1>6, <1>7, <1>8, <1>9, <1>10, <1>11, <1>12 DEF CallInv

\* Every step keeps the invariant of the calls.
LEMMA CallStepInv == CallInv /\ [Next]_vars => CallInv'
<1> SUFFICES ASSUME CallInv, [Next]_vars PROVE CallInv'
  OBVIOUS
<1>t. TypeOK
  BY DEF CallInv
<1> USE DEF peerVars, loopVars
<1>1. ASSUME NEW c \in Calls, AllocateId(c) \/ CallStep(c) \/ Abort(c) PROVE CallInv'
  BY <1>1, CallInvStep
<1>2. CASE ClientAnswers
  <2>1. PICK i \in asked : inbox' = Append(inbox, Response(i))
    BY <1>2 DEF ClientAnswers, Arrives
  <2>2. Response(i) \in [type : {"response", "note", "shutdown"}, id : Nat] /\ Response(i).id = i
    BY <2>1, <1>t DEF Response, TypeOK
  <2> QED
    BY <1>2, <2>1, <2>2, <1>t, Arriving DEF ClientAnswers, TypeOK
<1>3. CASE ClientSendsNullId
  <2>1. inbox' = Append(inbox, Response(0)) /\ Response(0).id = 0
            /\ Response(0) \in [type : {"response", "note", "shutdown"}, id : Nat]
    BY <1>3 DEF ClientSendsNullId, Arrives, Response
  <2> QED
    BY <1>3, <2>1, <1>t, Arriving DEF ClientSendsNullId, TypeOK
<1>4. CASE ClientNotifies
  <2>1. inbox' = Append(inbox, Plain("note")) /\ Plain("note").id = 0
            /\ Plain("note") \in [type : {"response", "note", "shutdown"}, id : Nat]
    BY <1>4 DEF ClientNotifies, Arrives, Plain
  <2> QED
    BY <1>4, <2>1, <1>t, Arriving DEF ClientNotifies, TypeOK
<1>5. CASE ClientShutsDown
  <2>1. inbox' = Append(inbox, Plain("shutdown")) /\ Plain("shutdown").id = 0
            /\ Plain("shutdown") \in [type : {"response", "note", "shutdown"}, id : Nat]
    BY <1>5 DEF ClientShutsDown, Arrives, Plain
  <2> QED
    BY <1>5, <2>1, <1>t, Arriving DEF ClientShutsDown, TypeOK
<1>6. CASE ReadResponse
  BY <1>6, Delivering
<1>7. CASE ReadNote
  BY <1>7, <1>t, ReadingStep DEF ReadNote, Reads, TypeOK
<1>8. CASE ReadShutdown
  BY <1>8, <1>t, ReadingStep DEF ReadShutdown, Reads, TypeOK
<1>9. CASE CallShutdown
  BY <1>9, <1>t, ReadingStep DEF CallShutdown, TypeOK
<1>10. CASE ShutdownReturns
  BY <1>10, <1>t, ReadingStep DEF ShutdownReturns, TypeOK
<1>11. CASE CloseConnection
  BY <1>11, <1>t, ReadingStep DEF CloseConnection, TypeOK
<1>12. CASE WriterFails
  BY <1>12, <1>t, ReadingStep DEF WriterFails, TypeOK
<1>13. CASE NoteStep
  BY <1>13, <1>t, ReadingStep DEF NoteStep, RunNote, NoteReturns, TypeOK
<1>14. CASE UNCHANGED vars
  BY <1>14, <1>t, ReadingStep DEF vars, TypeOK
<1> QED
  BY <1>1, <1>2, <1>3, <1>4, <1>5, <1>6, <1>7, <1>8, <1>9, <1>10, <1>11, <1>12, <1>13, <1>14
     DEF Next, LoopStep, Terminated

\* Every variable of the calls, the loop and the writer stays in its type, in
\* every behaviour, for any calls.
THEOREM CallsWellTyped == Spec => []TypeOK
<1>1. CallInv => TypeOK
  BY DEF CallInv
<1> QED
  BY <1>1, CallInit, CallStepInv, PTL DEF Spec

\* For any calls sharing a Client, in every interleaving with the loop: what a
\* call returns is the answer that was given to its own request.
THEOREM AnswersReachTheirCall == Spec => []RightAnswer
<1>1. CallInv => RightAnswer
  BY DEF CallInv
<1> QED
  BY <1>1, CallInit, CallStepInv, PTL DEF Spec

\* A call that waits has its entry in the pending map, or its answer on the
\* way to it: no answer, however early it comes, finds no one to take it.
THEOREM CallsAnsweredByEntry == Spec => []WaitingIsReachable
<1>1. CallInv => WaitingIsReachable
  BY DEF CallInv
<1> QED
  BY <1>1, CallInit, CallStepInv, PTL DEF Spec

\* Whatever way a call returned, by an answer, a refused send or a timeout,
\* nothing of it is left in the pending map.
THEOREM NoEntryIsLeft == Spec => []NoEntryAfterReturn
<1>1. CallInv => NoEntryAfterReturn
  BY DEF CallInv
<1> QED
  BY <1>1, CallInit, CallStepInv, PTL DEF Spec

\* $/cancelRequest is sent only for a call that timed out and is forgotten.
THEOREM CancelsAreForgotten == Spec => []CancelAfterForget
<1>1. CallInv => CancelAfterForget
  BY DEF CallInv
<1> QED
  BY <1>1, CallInit, CallStepInv, PTL DEF Spec
=============================================================================
