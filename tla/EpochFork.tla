------------------------------ MODULE EpochFork ------------------------------
(***************************************************************************)
(* EpochResolver implements ForkChoice for the commits made on the state the *)
(* group starts in.  A commit has been offered once it is in the branch or    *)
(* its handler ran; the choice closes when a grace window ends or a teardown  *)
(* drops the snapshot.                                                        *)
(***************************************************************************)
EXTENDS EpochResolver

Roots == {c \in Commits : Parent[c] = <<>>}

Offered == Roots \intersect (handled \union ToSet(group.branch))

(* The competing commits resolve as ForkChoice says, the rollback included.  *)
Fork == INSTANCE ForkChoice WITH
    Rivals  <- Roots,
    Lower   <- CommitIsLower,
    offered <- Offered,
    chosen  <- Roots \intersect ToSet(group.branch),
    open    <- ~final

ResolvesTheFork == Fork!Spec
=============================================================================
