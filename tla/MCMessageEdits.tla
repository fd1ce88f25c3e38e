--------------------------- MODULE MCMessageEdits ---------------------------
(* Instances of MessageEdits for TLC. *)
EXTENDS MessageEditsRegister

CONSTANTS o, q, x, g, h, ann, bob

Sig(k, r, i, a, ts) == [kind |-> k, rev |-> r, rid |-> i, author |-> a, targets |-> ts]

(* One conversation, one message o and the replacement id q of an edit.      *)
OneIds       == {o, q}
OneOriginals == {o}
OneThreads   == {g}
OneThreadOf  == [t \in {o, q} |-> g]
OneAuthorOf  == [t \in {o} |-> ann]

(* Two conversations with a message each, sharing the capped stores.         *)
TwoIds       == {o, q, x}
TwoOriginals == {o, x}
TwoThreads   == {g, h}
TwoThreadOf  == [t \in {o, q, x} |-> IF t = x THEN h ELSE g]
TwoAuthorOf  == [t \in {o, x} |-> ann]

(* An edit, a delete of the edited message that also names the replacement,  *)
(* an edit tied with that delete, a later edit, and a last delete.             *)
OrderSignals ==
    {Sig("edit", 1, 1, ann, <<o>>), Sig("delete", 2, 2, ann, <<o, q>>),
     Sig("edit", 2, 3, ann, <<o>>), Sig("edit", 3, 4, ann, <<o>>),
     Sig("delete", 4, 5, ann, <<o, q>>)}

(* Signals of both conversations, more targets than the stores hold, and one  *)
(* that bob signed for ann's message.                                         *)
CapSignals ==
    {Sig("delete", 2, 1, ann, <<o>>), Sig("edit", 1, 2, ann, <<o>>),
     Sig("delete", 1, 3, ann, <<x>>), Sig("edit", 3, 4, bob, <<o>>)}
=============================================================================
