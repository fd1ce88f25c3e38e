-------------------------- MODULE MCGroupDeparture --------------------------
(* Instances of GroupDeparture for model checking.                           *)
EXTENDS GroupDeparture

CONSTANTS ada, ben, lea, guest

ABL == <<ada, ben, lea>>
=============================================================================
