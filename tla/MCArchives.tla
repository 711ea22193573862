---------------------------- MODULE MCArchives -----------------------------
(***************************************************************************)
(* An instance of Archives for TLC: two key pairs below a key root that    *)
(* moves between two directories, of which the second is the default.      *)
(***************************************************************************)
EXTENDS Archives

CONSTANTS k1, k2, k3
=============================================================================
