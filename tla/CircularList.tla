---------------------------- MODULE CircularList ----------------------------
(***************************************************************************)
(* The circular lists that CIRCULAR_LIST (include/data_structures.h)       *)
(* generates.  links is the record of the two pointer fields of the nodes, *)
(* [next |-> ..., last |-> ...]; a list is a pointer to one of its nodes.  *)
(***************************************************************************)

NoNode == 0             \* NULL

(* clist_insert: in goes before list.  The function returns in.            *)
ClistInsert(links, list, in) ==
    IF list = NoNode
      THEN [links EXCEPT !.next[in] = in, !.last[in] = in]
      ELSE LET before == links.last[list]
               linked == [links EXCEPT !.next[in] = list, !.last[in] = before]
           IN  [linked EXCEPT !.next[before] = in, !.last[list] = in]

(* clist_delete: the links, and the list that is returned.  The links of   *)
(* the node that goes away stay as they are.                               *)
ClistDelete(links, list) ==
    IF list = NoNode \/ links.next[list] = list
      THEN [links |-> links, list |-> NoNode]
      ELSE LET before == links.last[list]
               after == links.next[list]
               cut == [links EXCEPT !.next[before] = after]
           IN  [links |-> [cut EXCEPT !.last[after] = before], list |-> cut.next[list]]
=============================================================================
