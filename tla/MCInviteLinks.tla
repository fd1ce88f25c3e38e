---------------------------- MODULE MCInviteLinks ----------------------------
(* Instances of InviteLinks for TLC. *)
EXTENDS InviteLinks

CONSTANTS p, q, g, b1, b2

OneGroup == [n \in {p, q} |-> g]

(* The record an earlier version of the program stored at time t. *)
Legacy(t, mute) == [born |-> t, expires |-> Unset, usage |-> 0, notified |-> FALSE,
                    acknowledged |-> FALSE, muted |-> mute]

(* p expired before the first page load, q is a link of the last session.       *)
OldStore  == [n \in {p, q} |-> IF n = p THEN Legacy(0, FALSE) ELSE NewLink(1)]
(* The backup holds p as a muted record. *)
OldBackup == [n \in {p, q} |-> IF n = p THEN Legacy(0, TRUE) ELSE NoLink]
=============================================================================
