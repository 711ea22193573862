----------------------------- MODULE MCCommands -----------------------------
(***************************************************************************)
(* Commands for TLC: two actors give any two commands, changes or jobs.    *)
(***************************************************************************)
EXTENDS Commands

Symmetric == Permutations(Actor)

=============================================================================
