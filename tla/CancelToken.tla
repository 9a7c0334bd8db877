---------------------------- MODULE CancelToken ----------------------------
(***************************************************************************)
(* The cooperative cancellation signal of src/src/cancel.rs: a flag and a  *)
(* tokio Notify, read and written in separate steps by the message loop    *)
(* that cancels and by the tasks that wait.                                *)
(***************************************************************************)
EXTENDS Naturals, FiniteSets

CONSTANTS
    Waiters,         \* calls of CancelToken::cancelled
    Cancellers       \* calls of CancelToken::cancel

VARIABLES
    cancelled,       \* Inner.cancelled
    calls,           \* Notify: how often notify_waiters was called
    canceller,       \* each cancel's place
    waiter, seen     \* each wait's place, and `calls` when it made its Notified

cancelVars == <<cancelled, calls, canceller>>
vars == <<cancelVars, waiter, seen>>

Init ==
    /\ cancelled = FALSE /\ calls = 0
    /\ canceller = [k \in Cancellers |-> "store"]
    /\ waiter = [w \in Waiters |-> "check"] /\ seen = [w \in Waiters |-> 0]

-----------------------------------------------------------------------------
(* cancel *)

Store(k) ==
    /\ canceller[k] = "store"
    /\ cancelled' = TRUE
    /\ canceller' = [canceller EXCEPT ![k] = "notify"]
    /\ UNCHANGED <<calls, waiter, seen>>

NotifyWaiters(k) ==
    /\ canceller[k] = "notify"
    /\ calls' = calls + 1
    /\ canceller' = [canceller EXCEPT ![k] = "done"]
    /\ UNCHANGED <<cancelled, waiter, seen>>

-----------------------------------------------------------------------------
(* cancelled *)

Goto(w, place) == waiter' = [waiter EXCEPT ![w] = place]

\* The first check of the loop.
Check(w) ==
    /\ waiter[w] = "check"
    /\ Goto(w, IF cancelled THEN "returned" ELSE "create")
    /\ UNCHANGED <<cancelVars, seen>>

\* notified() and enable(): from here on a notify_waiters is not missed.
Register(w) ==
    /\ waiter[w] = "create"
    /\ seen' = [seen EXCEPT ![w] = calls]
    /\ Goto(w, "recheck")
    /\ UNCHANGED cancelVars

\* Mutant: no second check, the wait begins at once.
Recheck_Skipped(w) ==
    /\ waiter[w] = "recheck"
    /\ Goto(w, "parked")
    /\ UNCHANGED <<cancelVars, seen>>

\* Mutant: the second check is inverted.
Recheck_Inverted(w) ==
    /\ waiter[w] = "recheck"
    /\ Goto(w, IF cancelled THEN "parked" ELSE "returned")
    /\ UNCHANGED <<cancelVars, seen>>

Recheck(w) ==
    /\ waiter[w] = "recheck"
    /\ Goto(w, IF cancelled THEN "returned" ELSE "parked")
    /\ UNCHANGED <<cancelVars, seen>>

\* notified.await is ready; the loop starts over.
Wake(w) ==
    /\ waiter[w] = "parked" /\ calls # seen[w]
    /\ Goto(w, "check")
    /\ UNCHANGED <<cancelVars, seen>>

\* The waiting future is dropped: its select! took another branch.
GiveUp(w) ==
    /\ waiter[w] = "parked"
    /\ Goto(w, "dropped")
    /\ UNCHANGED <<cancelVars, seen>>

CancelStep(k) == Store(k) \/ NotifyWaiters(k)
WaitStep(w) == Check(w) \/ Register(w) \/ Recheck(w) \/ Wake(w)

\* A token that is never tripped: its waits stay parked.
Quiescent ==
    /\ \A k \in Cancellers : canceller[k] # "notify"
    /\ \A w \in Waiters : waiter[w] \in {"parked", "returned", "dropped"}
    /\ UNCHANGED vars

Next ==
    \/ \E k \in Cancellers : CancelStep(k)
    \/ \E w \in Waiters : WaitStep(w) \/ GiveUp(w)
    \/ Quiescent

Spec == Init /\ [][Next]_vars

\* A task that can run is run; cancel, once begun, does not suspend.
FairSpec ==
    /\ Spec
    /\ \A w \in Waiters : WF_vars(WaitStep(w))
    /\ \A k \in Cancellers : WF_vars(NotifyWaiters(k))

-----------------------------------------------------------------------------
(* Properties *)

TypeOK ==
    /\ cancelled \in BOOLEAN /\ calls \in Nat
    /\ canceller \in [Cancellers -> {"store", "notify", "done"}]
    /\ waiter \in [Waiters -> {"check", "create", "recheck", "parked", "returned", "dropped"}]
    /\ seen \in [Waiters -> Nat] /\ \A w \in Waiters : seen[w] <= calls

\* No wake-up is lost: a wait that sleeps, and that no notify_waiters has
\* reached yet, sleeps before the cancel or while one is about to notify.
NoLostWakeup ==
    \A w \in Waiters : waiter[w] = "parked" /\ seen[w] = calls =>
        ~cancelled \/ \E k \in Cancellers : canceller[k] = "notify"

Outcome == [w \in Waiters |->
               IF waiter[w] \in {"returned", "dropped"} THEN waiter[w] ELSE "waiting"]

Promise == INSTANCE CancelSignal WITH tripped <- cancelled, waiter <- Outcome

\* The token implements the signal it promises: no wait returns before the
\* cancel, and each returns after it.
ImplementsSignal == Promise!FairSignal
=============================================================================
