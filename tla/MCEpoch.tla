------------------------------- MODULE MCEpoch -------------------------------
(* Instances of EpochResolver for TLC. *)
EXTENDS EpochFork

CONSTANTS a, b, m, u, v

NeedsNone == [e \in Messages |-> {}]

(* Two commits compete for the first epoch, b is created later than a; a      *)
(* message of the state before, one of a's state, one of b's.                 *)
ForkParent  == [e \in {a, b} |-> <<>>]
ForkAt      == (m :> <<>>) @@ (u :> <<a>>) @@ (v :> <<b>>)
ForkCreated == (a :> 1) @@ (b :> 2) @@ (m :> 1) @@ (u :> 2) @@ (v :> 3)
ForkRank    == (a :> 2) @@ (b :> 1) @@ (m :> 3) @@ (u :> 4) @@ (v :> 5)

(* Two commits in a row; a message of each state, and v that its sender sent  *)
(* after u.                                                                    *)
ChainParent  == (a :> <<>>) @@ (b :> <<a>>)
ChainAt      == (m :> <<>>) @@ (u :> <<a, b>>) @@ (v :> <<a, b>>)
ChainNeeds   == (m :> {}) @@ (u :> {}) @@ (v :> {u})
ChainCreated == (a :> 1) @@ (b :> 2) @@ (m :> 1) @@ (u :> 3) @@ (v :> 3)
ChainRank    == (a :> 1) @@ (b :> 2) @@ (m :> 3) @@ (u :> 4) @@ (v :> 5)
=============================================================================
