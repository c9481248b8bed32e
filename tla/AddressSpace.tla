---------------------------- MODULE AddressSpace ----------------------------
(***************************************************************************)
(* The mappings of one address space (src/mem/virt_mem/virt_mem.c).  A     *)
(* mapping is a node of the red-black tree of its space and an element of  *)
(* the table of mappers of its object; vmobj_map and vmobj_unmap keep the  *)
(* two.  Both hold the mutexes of the space and of the object from their   *)
(* first line to their last, so there is one call at a time.               *)
(*                                                                         *)
(* A table of mappers is a hash table by the id of the space: for one      *)
(* space it is one chain, the newest mapping first.  collision_test reads  *)
(* through low and high although either may be NULL, or a mapping or an    *)
(* object that was freed: what it answers then is a choice.                *)
(***************************************************************************)
EXTENDS RedBlackTree, Sequences

CONSTANTS
    Obj,                \* vm objects
    ObjSize,            \* size of each
    Address             \* numbers: where objects may be mapped

VARIABLES
    live,               \* objects in vm_obj_tab
    allocated,          \* vmap_t that malloc has given out
    addr,               \* addr of each mapping
    obj,                \* obj of each mapping
    mappers,            \* mappers of each object
    num_mappers,
    op,                 \* the call under way: its name and arguments
    walk, low, high     \* the locals of collision_test

mappings == <<live, allocated, addr, obj, mappers, num_mappers>>
probe == <<walk, low, high>>
spaceVars == <<vars, mappings, op, probe>>

NoOp == [name |-> "none"]

SpaceInit ==
    /\ Init
    /\ live = {} /\ allocated = {}
    /\ addr = [n \in Node |-> 0]
    /\ obj = [n \in Node |-> CHOOSE o \in Obj : TRUE]
    /\ mappers = [o \in Obj |-> <<>>]
    /\ num_mappers = [o \in Obj |-> 0]
    /\ op = NoOp
    /\ walk = Null /\ low = Null /\ high = Null

-----------------------------------------------------------------------------
(* vmobj_create, for an object that is not a copy, and vmobj_destroy, which*)
(* for an object that is in the table goes ahead, mapped or not.  (What    *)
(* vm_obj_clist_delete writes through the NULL links of the object is not  *)
(* modelled; the trap it may be would end the kernel.)                     *)
vmobj_create(o) ==
    /\ o \notin live
    /\ live' = live \cup {o}
    /\ mappers' = [mappers EXCEPT ![o] = <<>>]
    /\ num_mappers' = [num_mappers EXCEPT ![o] = 0]
    /\ UNCHANGED <<vars, allocated, addr, obj, op, probe>>

vmobj_destroy(o) ==
    /\ o \in live /\ (op # NoOp => op.obj # o)
    /\ live' = live \ {o}
    /\ UNCHANGED <<vars, allocated, addr, obj, mappers, num_mappers, op, probe>>

-----------------------------------------------------------------------------
(* vmobj_map, up to collision_test.                                        *)
vmobj_map(o, a) ==
    /\ op = NoOp /\ o \in live
    /\ op' = [name |-> "probe", obj |-> o, addr |-> a]
    /\ walk' = tree /\ low' = Null /\ high' = Null
    /\ UNCHANGED <<vars, mappings>>

(* collision_test: "find the low and high bounds on the address range".    *)
Probe ==
    /\ op.name = "probe"
    /\ walk # Null /\ addr[walk] # op.addr
    /\ IF op.addr < addr[walk]
         THEN low' = walk /\ walk' = nodes.kid["left"][walk] /\ UNCHANGED high
         ELSE high' = walk /\ walk' = nodes.kid["right"][walk] /\ UNCHANGED low
    /\ UNCHANGED <<vars, mappings, op>>

Valid(n) == n \in allocated /\ obj[n] \in live

(* "make sure the address range falls within the bounds"                   *)
Collides ==
    IF Valid(low) /\ Valid(high)
      THEN {~(addr[low] + ObjSize[obj[low]] < op.addr /\ addr[high] > op.addr + ObjSize[op.obj])}
      ELSE BOOLEAN

(* "if we just so happen to nail one, return"; a collision, or no memory,  *)
(* at the end of the way down.                                             *)
MapRefused ==
    /\ op.name = "probe"
    /\ walk # Null => addr[walk] = op.addr
    /\ op' = NoOp /\ walk' = Null /\ low' = Null /\ high' = Null
    /\ UNCHANGED <<vars, mappings>>

(* The rest of vmobj_map, with the call of vmap_tree_insert.               *)
MapGranted(map) ==
    /\ op.name = "probe"
    /\ walk = Null /\ FALSE \in Collides
    /\ map \notin allocated
    /\ allocated' = allocated \cup {map}
    /\ addr' = [addr EXCEPT ![map] = op.addr]
    /\ obj' = [obj EXCEPT ![map] = op.obj]
    /\ num_mappers' = [num_mappers EXCEPT ![op.obj] = @ + 1]
    /\ mappers' = [mappers EXCEPT ![op.obj] = <<map>> \o @]
    /\ InsertFirst(map) \/ Insert(map)
    /\ op' = [name |-> "map", obj |-> op.obj]
    /\ low' = Null /\ high' = Null
    /\ UNCHANGED <<live, walk>>

(* vmobj_unmap, up to the call of vmap_tree_delete: vmap_hash_table_delete *)
(* takes the newest mapping of the object out of its table.                *)
vmobj_unmap(o) ==
    /\ op = NoOp /\ o \in live /\ mappers[o] # <<>>
    /\ Delete(Head(mappers[o]))
    /\ mappers' = [mappers EXCEPT ![o] = Tail(@)]
    /\ op' = [name |-> "unmap", obj |-> o, map |-> Head(mappers[o])]
    /\ UNCHANGED <<live, allocated, addr, obj, num_mappers, probe>>

(* What vmap_tree_delete returned is not looked at.  The garbage collection*)
(* compares the array with NULL and never happens.                         *)
Unmapped ==
    /\ op.name = "unmap" /\ pc = "idle"
    /\ num_mappers' = [num_mappers EXCEPT ![op.obj] = @ - 1]
    /\ allocated' = allocated \ {op.map}
    /\ op' = NoOp
    /\ UNCHANGED <<vars, live, addr, obj, mappers, probe>>

Mapped ==
    /\ op.name = "map" /\ pc = "idle"
    /\ op' = NoOp
    /\ UNCHANGED <<vars, mappings, probe>>

TreeStep == Step /\ UNCHANGED <<mappings, op, probe>>

SpaceNext ==
    \/ TreeStep \/ Probe \/ MapRefused \/ Mapped \/ Unmapped
    \/ \E map \in Node : MapGranted(map)
    \/ \E o \in Obj :
         \/ vmobj_create(o) \/ vmobj_destroy(o) \/ vmobj_unmap(o)
         \/ \E a \in Address : vmobj_map(o, a)

SpaceSpec == SpaceInit /\ [][SpaceNext]_spaceVars

-----------------------------------------------------------------------------
(* "Deletes the first node found to be equivalent to data from the tree":  *)
(* between calls of vmobj_map and vmobj_unmap every node of the tree is a  *)
(* mapping that has not been freed.                                        *)
TreeHoldsMappings == op = NoOp => members \subseteq allocated
=============================================================================
