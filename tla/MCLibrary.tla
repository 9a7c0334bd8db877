------------------------------- MODULE MCLibrary -------------------------------
(***************************************************************************)
(* The parts of the library that do not run by themselves, for TLC: the    *)
(* functions, on each of the inputs that the modules below list as an      *)
(* initial state of its own, and the client that tests are written with,   *)
(* which runs from the initial state without an input.                     *)
(***************************************************************************)
EXTENDS TextInputs, TokenInputs, UriInputs, CapabilityInputs, WireInputs, TestClient

vars == <<input, clientAndServer>>

Init ==
    /\ InitClient
    /\ \/ input = NoInput
       \/ InitText \/ InitTokens \/ InitUri \/ InitCapabilities
       \/ InitTypes \/ InitFrames \/ InitCalls

Next == input = NoInput /\ ClientNext /\ UNCHANGED input

Spec == Init /\ [][Next]_vars
=============================================================================
