------------------------------ MODULE MCRwLock ------------------------------
(* Model-checking instance of RwLock: three threads, an 8-valued counter.  *)
EXTENDS RwLock

CONSTANTS t1, t2, t3

MCProc == {t1, t2, t3}
MCCountMod == 8
=============================================================================
