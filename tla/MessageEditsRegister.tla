------------------------ MODULE MessageEditsRegister ------------------------
(***************************************************************************)
(* Refinement: what the stores of the edit/delete core together hold of a   *)
(* message is one register (SlotRegister) that only ever takes a stronger    *)
(* outcome, although it lies spread over a row, a buffered signal and a      *)
(* marker that are written and removed by separate commits.                  *)
(***************************************************************************)
EXTENDS MessageEdits

NoOutcome == [rev |-> 0, del |-> FALSE, rid |-> 0]

RowOutcome(t) ==
    IF t \in DOMAIN rows
    THEN [rev |-> rows[t].rev, del |-> rows[t].tomb,
          rid |-> IF rows[t].tomb THEN NoRid ELSE rows[t].content]
    ELSE NoOutcome

BufferOutcome(t) ==
    IF t \in DOMAIN pending /\ pending[t].sig.author = AuthorOf[t]
    THEN [rev |-> pending[t].sig.rev, del |-> pending[t].sig.kind = "delete",
          rid |-> IF pending[t].sig.kind = "delete" THEN NoRid ELSE pending[t].sig.rid]
    ELSE NoOutcome

MarkerOutcome(t) ==
    IF t \in DOMAIN markers /\ markers[t].author = AuthorOf[t]
    THEN [rev |-> markers[t].rev, del |-> TRUE, rid |-> NoRid]
    ELSE NoOutcome

(* Of two outcomes the first is no weaker. *)
AtLeast(a, b) ==
    \/ a = b \/ a.rev > b.rev
    \/ a.rev = b.rev /\ a.del
    \/ a.rev = b.rev /\ ~b.del /\ a.rid >= b.rid

Strongest(held) == CHOOSE a \in held : \A b \in held : AtLeast(a, b)

(* What the device holds of a message. *)
Best(t) == Strongest({RowOutcome(t), BufferOutcome(t), MarkerOutcome(t)})

Register == INSTANCE SlotRegister WITH
    Slots     <- Originals,
    SignalsOf <- [t \in Originals |-> {s \in Signals : ByItsAuthor(s) /\ Slot(s) = t}],
    best      <- [t \in Originals |-> Best(t)]

(* Every step of the core is a step of the register or leaves it unchanged:  *)
(* no commit, no crash and no re-delivery loses or weakens what the device   *)
(* holds of a message, and nothing is taken that no author sent.             *)
HoldsTheStrongest == Register!Spec
=============================================================================
