---------------------------- MODULE MCKernMutex -----------------------------
(* Model-checking instance of KernMutex.  Both counters are wide enough    *)
(* that they wrap only where the code drives them below 0 or leaks.        *)
EXTENDS KernMutex, TLC

CONSTANTS t1, t2, t3

Two == {t1, t2}
Three == {t1, t2, t3}
Width == 4
Sym == Permutations(Thread)
=============================================================================
