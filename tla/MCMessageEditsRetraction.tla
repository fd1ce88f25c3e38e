---------------------- MODULE MCMessageEditsRetraction ----------------------
(* Instances that meet the assumptions of MessageEditsRetraction. *)
EXTENDS MCMessageEdits, MessageEditsRetraction
=============================================================================
