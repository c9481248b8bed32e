--------------------------- MODULE MCRedBlackTree ---------------------------
(* Trees of up to eight nodes, two of which are mapped without VMOBJ_READ. *)
EXTENDS RedBlackTree

MCNode == 1 .. 8
MCReadable == MCNode \ {3, 6}
=============================================================================
