------------------------------ MODULE MCCondVar -----------------------------
(* Two waiters and a thread that broadcasts.                               *)
EXTENDS CondVar

MCThread == 1 .. 3
MCIrq == 4
=============================================================================
