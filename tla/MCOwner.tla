------------------------------ MODULE MCOwner ------------------------------
(***************************************************************************)
(* Instances of Owner for TLC.                                             *)
(***************************************************************************)
EXTENDS Owner, TLC

CONSTANTS terminal, browser, here, there, k1, k2, k3, k4, c1, c2, pin1, pin2

EveryOp == {"change", "init", "forget", "reseal", "set", "reset", "remove"}
NotCrossed == ~crossed
Symmetry == Permutations(Key) \union Permutations(Content)
=============================================================================
