---------------------------- MODULE MCReconcile ----------------------------
(***************************************************************************)
(* Instances of Reconcile for TLC.                                         *)
(***************************************************************************)
EXTENDS Reconcile, TLC

CONSTANTS work, home, vault, k1, k2, k3

\* Two profiles with a key of the same name, and one that keeps its key in
\* 1Password.
SameName == (work :> "github") @@ (home :> "github") @@ (vault :> "gitlab")
OwnPair == (work :> k1) @@ (home :> k2) @@ (vault :> k3)
=============================================================================
