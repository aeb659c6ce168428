------------------------------ MODULE Inputs -------------------------------
(***************************************************************************)
(* The functions of the service that only compute are checked over their   *)
(* inputs: a state is one input of one of them.                            *)
(***************************************************************************)
VARIABLE input

IsInput(of) == input.of = of
=============================================================================
