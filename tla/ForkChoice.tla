----------------------------- MODULE ForkChoice -----------------------------
(***************************************************************************)
(* What fork resolution promises of one epoch: whatever order the competing *)
(* commits come in, the group holds the lowest of those offered while the    *)
(* choice was open.  The rule is the one of                                  *)
(* src/specs/epic-mls-fork-resolution/spec.md and commitIsLower.             *)
(***************************************************************************)
EXTENDS Naturals

CONSTANTS
    Rivals,      \* the commits made on the epoch's state
    Lower(_, _)  \* the order among them

VARIABLES
    offered,     \* the commits the group was offered
    chosen,      \* the commit it holds, as a set of at most one
    open         \* a lower commit may still replace it

Lowest(S) == {c \in S : \A d \in S \ {c} : Lower(c, d)}

Init == offered = {} /\ chosen = {} /\ open = TRUE

(* A commit is offered: while the choice is open the lowest is held. *)
Offer(c) ==
    /\ c \notin offered
    /\ offered' = offered \union {c}
    /\ chosen' = IF open THEN Lowest(offered') ELSE chosen
    /\ UNCHANGED open

(* The choice is final. *)
Close ==
    /\ open /\ chosen # {}
    /\ open' = FALSE
    /\ UNCHANGED <<offered, chosen>>

Next == (\E c \in Rivals : Offer(c)) \/ Close

Spec == Init /\ [][Next]_<<offered, chosen, open>>
=============================================================================
