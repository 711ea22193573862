------------------------------- MODULE MCJobs -------------------------------
(***************************************************************************)
(* Instances of Jobs for TLC. Jobs and clicks are interchangeable, but the *)
(* run checks liveness, for which symmetry is not sound.                   *)
(***************************************************************************)
EXTENDS Jobs, TLC
=============================================================================
