----------------------------- MODULE MCExclusion -----------------------------
(* Model-checking instance: two processors.                                *)
EXTENDS Exclusion

MCCpu == 0 .. 1
MCMax == 2
=============================================================================
