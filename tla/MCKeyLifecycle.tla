--------------------------- MODULE MCKeyLifecycle ---------------------------
(***************************************************************************)
(* Instances of KeyLifecycle for TLC; see MCRotate.                        *)
(***************************************************************************)
EXTENDS KeyLifecycle, TLC

CONSTANTS server, host2

ServerAndPanel == (server :> "server") @@ (host2 :> "panel")

\* The bound of the run: after a mishap it goes on with rollbacks only.
\* Rotations after a mishap are in the run of MCRotate.
OnlyRollbacksAfterMishap == mishap => verb \in {"none", "rollback"}

Symmetry == Permutations(Key)
=============================================================================
