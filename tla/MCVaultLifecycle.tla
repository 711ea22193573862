-------------------------- MODULE MCVaultLifecycle --------------------------
(***************************************************************************)
(* Instances of VaultLifecycle for TLC; see MCRotate.                      *)
(***************************************************************************)
EXTENDS VaultLifecycle, TLC

CONSTANTS server, host2

ServerAndApi == (server :> "server") @@ (host2 :> "api")

Symmetry == Permutations(Key)
=============================================================================
