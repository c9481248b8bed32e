--------------------------- MODULE MCAddressSpace ---------------------------
(* Three mappings of two objects of one page each.                         *)
EXTENDS AddressSpace

MCNode == 1 .. 3
MCAddress == 0 .. 3
MCObjSize == [o \in Obj |-> 1]
=============================================================================
