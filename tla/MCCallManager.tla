--------------------------- MODULE MCCallManager ---------------------------
(* Instances of CallManager for model checking.                             *)
EXTENDS CallManager, TLC

CONSTANTS desk, phone, tablet, ann, bob, cid    \* devices and their users

ThreeOwners == desk :> ann @@ phone :> bob @@ tablet :> cid
PairOwners == desk :> ann @@ phone :> bob
Ranks == [p \in Pubkey |-> CASE p = bob -> 1 [] p = cid -> 2 [] p = ann -> 3]
OneGroup == {{ann, bob, cid}}
TheOthers == {{bob, cid}}
JustBob == {{bob}}
=============================================================================
