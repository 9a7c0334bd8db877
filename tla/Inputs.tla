-------------------------------- MODULE Inputs --------------------------------
(***************************************************************************)
(* The input of one run of a function: an initial state for each of the    *)
(* inputs that the modules TextInputs, TokenInputs, UriInputs,             *)
(* CapabilityInputs and WireInputs list, told apart by its kind.           *)
(***************************************************************************)
VARIABLE input

NoInput == [kind |-> "none"]
=============================================================================
