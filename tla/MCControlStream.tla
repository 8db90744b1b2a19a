-------------------------- MODULE MCControlStream --------------------------
(***************************************************************************)
(* ControlStream with two messages in each direction.                      *)
(***************************************************************************)
EXTENDS ControlStream

CONSTANTS s1
=============================================================================
