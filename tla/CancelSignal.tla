---------------------------- MODULE CancelSignal ----------------------------
(***************************************************************************)
(* What src/src/cancel.rs promises of a CancelToken, without saying how: a *)
(* signal is tripped once and for all, a wait returns only then, and then  *)
(* it does return unless its task gives up.                                *)
(***************************************************************************)
CONSTANT Waiters

VARIABLES tripped, waiter

Init == tripped = FALSE /\ waiter = [w \in Waiters |-> "waiting"]

Trip == tripped' = TRUE /\ UNCHANGED waiter

Return(w) ==
    /\ waiter[w] = "waiting" /\ tripped
    /\ waiter' = [waiter EXCEPT ![w] = "returned"]
    /\ UNCHANGED tripped

GiveUp(w) ==
    /\ waiter[w] = "waiting"
    /\ waiter' = [waiter EXCEPT ![w] = "dropped"]
    /\ UNCHANGED tripped

Next == Trip \/ \E w \in Waiters : Return(w) \/ GiveUp(w)

Signal == Init /\ [][Next]_<<tripped, waiter>>

FairSignal == Signal /\ \A w \in Waiters : WF_<<tripped, waiter>>(Return(w))
=============================================================================
