---------------------------- MODULE SlotRegister ----------------------------
(***************************************************************************)
(* What the edit/delete core promises of one message slot: a register that  *)
(* holds the strongest outcome it was ever given.  Higher revision first; a *)
(* delete beats an edit of its revision; of two edits the higher rumor id.  *)
(* The order is the one documented at the head of                           *)
(* src/app/src/lib/messageEdits/api.ts.                                     *)
(***************************************************************************)
EXTENDS Integers

CONSTANTS
    Slots,      \* the message slots
    SignalsOf   \* the signals each slot can be given

VARIABLE best   \* slot -> the outcome it holds

Nothing == [rev |-> 0, del |-> FALSE, rid |-> 0]

OutcomeOf(s) ==
    [rev |-> s.rev, del |-> s.kind = "delete",
     rid |-> IF s.kind = "delete" THEN 0 ELSE s.rid]

Above(a, b) ==
    \/ a.rev > b.rev
    \/ a.rev = b.rev /\ a.del /\ ~b.del
    \/ a.rev = b.rev /\ ~a.del /\ ~b.del /\ a.rid > b.rid

Init == best = [t \in Slots |-> Nothing]

Take(t, s) ==
    /\ Above(OutcomeOf(s), best[t])
    /\ best' = [best EXCEPT ![t] = OutcomeOf(s)]

Next == \E t \in Slots : \E s \in SignalsOf[t] : Take(t, s)

Spec == Init /\ [][Next]_best
=============================================================================
