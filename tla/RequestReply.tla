---------------------------- MODULE RequestReply ----------------------------
(***************************************************************************)
(* What the server runtime promises the editor about requests, whatever    *)
(* runs concurrently: a request is opened once, an open request is         *)
(* answered once, and the only way an accepted request stays unanswered is *)
(* that the connection is being torn down.                                 *)
(***************************************************************************)
EXTENDS Naturals

CONSTANT Reqs        \* request instances the client may ever send

VARIABLES
    status,          \* status[r] of each request
    answers,         \* how many answers have been produced for r
    closing          \* the connection has begun to close

rrVars == <<status, answers, closing>>

Status == {"new", "open", "answered", "abandoned"}

RRInit ==
    /\ status = [r \in Reqs |-> "new"]
    /\ answers = [r \in Reqs |-> 0]
    /\ closing = FALSE

\* The request is accepted for processing.
Open(r) ==
    /\ ~closing
    /\ status[r] = "new"
    /\ status' = [status EXCEPT ![r] = "open"]
    /\ UNCHANGED <<answers, closing>>

\* The single answer, to an open request or (a rejection) to a new one.
Answer(r) ==
    /\ status[r] \in {"new", "open"}
    /\ status[r] = "new" => ~closing
    /\ status' = [status EXCEPT ![r] = "answered"]
    /\ answers' = [answers EXCEPT ![r] = @ + 1]
    /\ UNCHANGED closing

\* Teardown gives the request up without an answer.
Abandon(r) ==
    /\ closing
    /\ status[r] = "open"
    /\ status' = [status EXCEPT ![r] = "abandoned"]
    /\ UNCHANGED <<answers, closing>>

Close ==
    /\ ~closing
    /\ closing' = TRUE
    /\ UNCHANGED <<status, answers>>

RRNext ==
    \/ \E r \in Reqs : Open(r) \/ Answer(r) \/ Abandon(r)
    \/ Close

RRSpec == RRInit /\ [][RRNext]_rrVars
=============================================================================
