--------------------------- MODULE MCClientCalls ---------------------------
(* Small instances of ClientCalls for TLC. *)
EXTENDS ClientCalls, TLC

CONSTANTS c1, c2, c3

\* A request task, and the two handlers the message loop waits for.
HandlerCaller == c1 :> "task" @@ c2 :> "note" @@ c3 :> "shutdown"

\* A didChange handler that asks the client, beside a request task.
DidChangeCaller == c1 :> "note" @@ c2 :> "task"

\* A helper task that outlives the connection, beside a request task.
BackgroundCaller == c1 :> "background" @@ c2 :> "task"
=============================================================================
