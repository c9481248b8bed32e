------------------------------ MODULE MCKernHeap ------------------------------
(* Eight smallest blocks, of which the largest block is half. *)
EXTENDS KernHeap

=============================================================================
