------------------------------ MODULE MCPairing ------------------------------
(* Instances of Pairing for model checking.                                  *)
EXTENDS Pairing

CONSTANTS ada, ben
=============================================================================
