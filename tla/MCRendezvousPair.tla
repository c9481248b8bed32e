-------------------------- MODULE MCRendezvousPair --------------------------
(* Model-checking instance: four processors, three uses of each point.    *)
EXTENDS RendezvousPair

MCCpu == 0 .. 3
MCMax == 4
MCMaxJoins == 6
=============================================================================
