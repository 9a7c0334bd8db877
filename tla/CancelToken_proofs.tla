------------------------- MODULE CancelToken_proofs -------------------------
(***************************************************************************)
(* Proofs about CancelToken for any number of waits and cancels: no wake-up *)
(* is lost, and the token implements the safety part of CancelSignal.      *)
(***************************************************************************)
EXTENDS CancelToken, TLAPS

\* The two properties are inductive together.
WakeInv == TypeOK /\ NoLostWakeup

\* A new token has no waits.
LEMMA WakeInit == Init => WakeInv
<1>1. Init => TypeOK
  <2> SUFFICES ASSUME Init PROVE TypeOK
    OBVIOUS
  <2>1. cancelled \in BOOLEAN /\ calls \in Nat
    BY DEF Init
  <2>2. canceller \in [Cancellers -> {"store", "notify", "done"}]
    BY DEF Init
  <2>3. waiter \in [Waiters -> {"check", "create", "recheck", "parked", "returned", "dropped"}]
    BY DEF Init
  <2>4. seen \in [Waiters -> Nat] /\ \A w \in Waiters : seen[w] <= calls
    BY DEF Init
  <2> QED
    BY <2>1, <2>2, <2>3, <2>4 DEF TypeOK
<1>2. Init => NoLostWakeup
  BY DEF Init, NoLostWakeup
<1> QED
  BY <1>1, <1>2 DEF WakeInv

\* Every step of cancel and cancelled keeps the variables in their types.
LEMMA WakeType == WakeInv /\ [Next]_vars => TypeOK'
<1> SUFFICES ASSUME TypeOK, [Next]_vars PROVE TypeOK'
  BY DEF WakeInv
<1> USE DEF TypeOK, cancelVars
<1>1. ASSUME NEW k \in Cancellers, Store(k) PROVE TypeOK'
  BY <1>1 DEF Store
<1>2. ASSUME NEW k \in Cancellers, NotifyWaiters(k) PROVE TypeOK'
  BY <1>2 DEF NotifyWaiters
<1>3. ASSUME NEW w \in Waiters, Check(w) PROVE TypeOK'
  BY <1>3 DEF Check, Goto
<1>4. ASSUME NEW w \in Waiters, Register(w) PROVE TypeOK'
  BY <1>4 DEF Register, Goto
<1>5. ASSUME NEW w \in Waiters, Recheck(w) PROVE TypeOK'
  BY <1>5 DEF Recheck, Goto
<1>6. ASSUME NEW w \in Waiters, Wake(w) PROVE TypeOK'
  BY <1>6 DEF Wake, Goto
<1>7. ASSUME NEW w \in Waiters, GiveUp(w) PROVE TypeOK'
  BY <1>7 DEF GiveUp, Goto
<1>8. CASE UNCHANGED vars
  BY <1>8 DEF vars
<1> QED
  BY <1>1, <1>2, <1>3, <1>4, <1>5, <1>6, <1>7, <1>8
     DEF Next, CancelStep, WaitStep, Quiescent

\* A wait falls asleep only when its second check saw no cancel; a later
\* cancel passes through "notify", and leaves it with `calls` past `seen`.
LEMMA WakeStep == WakeInv /\ [Next]_vars => NoLostWakeup'
<1> SUFFICES ASSUME WakeInv, TypeOK, [Next]_vars
             PROVE  NoLostWakeup'
  BY DEF WakeInv
<1> USE DEF WakeInv, TypeOK, NoLostWakeup, cancelVars
<1>1. ASSUME NEW k \in Cancellers, Store(k) PROVE NoLostWakeup'
  BY <1>1 DEF Store
<1>2. ASSUME NEW k \in Cancellers, NotifyWaiters(k)
      PROVE  NoLostWakeup'
  <2>1. \A w \in Waiters : seen'[w] # calls'
    BY <1>2 DEF NotifyWaiters
  <2> QED
    BY <1>2, <2>1 DEF NotifyWaiters
<1>3. ASSUME NEW w \in Waiters, Check(w) PROVE NoLostWakeup'
  BY <1>3 DEF Check, Goto
<1>4. ASSUME NEW w \in Waiters, Register(w) PROVE NoLostWakeup'
  BY <1>4 DEF Register, Goto
<1>5. ASSUME NEW w \in Waiters, Recheck(w) PROVE NoLostWakeup'
  BY <1>5 DEF Recheck, Goto
<1>6. ASSUME NEW w \in Waiters, Wake(w) PROVE NoLostWakeup'
  BY <1>6 DEF Wake, Goto
<1>7. ASSUME NEW w \in Waiters, GiveUp(w) PROVE NoLostWakeup'
  BY <1>7 DEF GiveUp, Goto
<1>8. CASE UNCHANGED vars
  BY <1>8 DEF vars
<1> QED
  BY <1>1, <1>2, <1>3, <1>4, <1>5, <1>6, <1>7, <1>8
     DEF Next, CancelStep, WaitStep, Quiescent

\* The invariant behind the wake-ups holds throughout.
LEMMA WakeInvariant == Spec => []WakeInv
<1>1. WakeInv /\ [Next]_vars => WakeInv'
  BY WakeType, WakeStep DEF WakeInv
<1> QED
  BY <1>1, WakeInit, PTL DEF Spec

\* No wake-up is lost, for any number of waits and cancels.
THEOREM WakeupsNotLost == Spec => [](TypeOK /\ NoLostWakeup)
<1>1. WakeInv => TypeOK /\ NoLostWakeup
  BY DEF WakeInv
<1> QED
  BY <1>1, WakeInvariant, PTL

-----------------------------------------------------------------------------
(* Refinement *)

\* Every step of the token is a step of the signal, or invisible to it.
LEMMA SignalStep == TypeOK /\ [Next]_vars => [Promise!Next]_<<cancelled, Outcome>>
<1> SUFFICES ASSUME TypeOK, [Next]_vars PROVE [Promise!Next]_<<cancelled, Outcome>>
  OBVIOUS
<1> USE DEF cancelVars
\* A step between the places of a wait that has not ended is a stutter.
<1>s. ASSUME NEW w \in Waiters, NEW place \in {"check", "create", "recheck", "parked"},
             waiter[w] \in {"check", "create", "recheck", "parked"},
             UNCHANGED cancelled, Goto(w, place)
      PROVE  UNCHANGED <<cancelled, Outcome>>
  BY <1>s DEF Goto, Outcome, TypeOK
\* A wait that ends is the abstract Return or GiveUp.
<1>e. ASSUME NEW w \in Waiters, NEW place \in {"returned", "dropped"},
             waiter[w] \in {"check", "recheck", "parked"}, Goto(w, place)
      PROVE  Outcome[w] = "waiting" /\ Outcome' = [Outcome EXCEPT ![w] = place]
  BY <1>e DEF Goto, Outcome, TypeOK
<1>r. ASSUME NEW w \in Waiters, cancelled, UNCHANGED cancelled,
             waiter[w] \in {"check", "recheck"}, Goto(w, "returned")
      PROVE  Promise!Next
  BY <1>r, <1>e DEF Promise!Next, Promise!Return
<1>1. ASSUME NEW k \in Cancellers, Store(k) PROVE Promise!Next
  BY <1>1 DEF Store, Outcome, Promise!Next, Promise!Trip
<1>2. ASSUME NEW k \in Cancellers, NotifyWaiters(k) PROVE UNCHANGED <<cancelled, Outcome>>
  BY <1>2 DEF NotifyWaiters, Outcome
<1>3. ASSUME NEW w \in Waiters, Check(w) PROVE [Promise!Next]_<<cancelled, Outcome>>
  <2>1. CASE cancelled
    BY <1>3, <2>1, <1>r DEF Check
  <2>2. CASE ~cancelled
    BY <1>3, <2>2, <1>s DEF Check
  <2> QED
    BY <2>1, <2>2
<1>4. ASSUME NEW w \in Waiters, Register(w) PROVE UNCHANGED <<cancelled, Outcome>>
  BY <1>4, <1>s DEF Register
<1>5. ASSUME NEW w \in Waiters, Recheck(w) PROVE [Promise!Next]_<<cancelled, Outcome>>
  <2>1. CASE cancelled
    BY <1>5, <2>1, <1>r DEF Recheck
  <2>2. CASE ~cancelled
    BY <1>5, <2>2, <1>s DEF Recheck
  <2> QED
    BY <2>1, <2>2
<1>6. ASSUME NEW w \in Waiters, Wake(w) PROVE UNCHANGED <<cancelled, Outcome>>
  BY <1>6, <1>s DEF Wake
<1>7. ASSUME NEW w \in Waiters, GiveUp(w) PROVE Promise!Next
  BY <1>7, <1>e DEF GiveUp, Promise!Next, Promise!GiveUp
<1>8. CASE UNCHANGED vars
  BY <1>8 DEF vars, Outcome
<1> QED
  BY <1>1, <1>2, <1>3, <1>4, <1>5, <1>6, <1>7, <1>8
     DEF Next, CancelStep, WaitStep, Quiescent

\* The token implements the safety part of the signal it promises: a wait
\* returns only after the cancel, and the cancel is never taken back.
THEOREM TokenIsSignal == Spec => Promise!Signal
<1>1. Init => Promise!Init
  BY DEF Init, Promise!Init, Outcome
<1>2. TypeOK /\ [Next]_vars => [Promise!Next]_<<cancelled, Outcome>>
  BY SignalStep
<1>3. Spec => []TypeOK
  <2>1. WakeInv => TypeOK
    BY DEF WakeInv
  <2> QED
    BY <2>1, WakeInvariant, PTL
<1> QED
  BY <1>1, <1>2, <1>3, PTL DEF Spec, Promise!Signal
=============================================================================
