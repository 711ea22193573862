------------------------------ MODULE MCRotate ------------------------------
(***************************************************************************)
(* Instances of Rotate for TLC. Keys are interchangeable; targets are not, *)
(* each has a kind of its own.                                             *)
(***************************************************************************)
EXTENDS Rotate, TLC

CONSTANTS server, host2

\* A server and an API.
ServerAndApi == (server :> "server") @@ (host2 :> "api")

Symmetry == Permutations(Key)
=============================================================================
