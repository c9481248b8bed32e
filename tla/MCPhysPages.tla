---------------------------- MODULE MCPhysPages -----------------------------
(* Three colours, one of them with two pages.                              *)
EXTENDS PhysPages, TLC

MCPool == 2 .. 5
MCSymmetry == Permutations(Proc) \cup Permutations(Id)
=============================================================================
