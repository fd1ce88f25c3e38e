---------------------------- MODULE MCUnreadStore ----------------------------
(* Instances of UnreadStore for TLC. *)
EXTENDS UnreadStore, TLC

CONSTANTS g, b, m1, m2, d1, d2

(* Of two messages of a group and two of a peer one each is stored before.    *)
GroupAndPeer == (m1 :> g) @@ (m2 :> g) @@ (d1 :> b) @@ (d2 :> b)
=============================================================================
