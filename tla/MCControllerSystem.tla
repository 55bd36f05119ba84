-------------------------- MODULE MCControllerSystem ---------------------------
(***************************************************************************)
(* Small instances of ControllerSystem: one-bit bytes, two addresses that  *)
(* share an index and perhaps a third that does not.                       *)
(***************************************************************************)
EXTENDS ControllerSystem

const_addr(t, i) == [tag |-> t, index |-> i]
const_one_index == [tag : Tag, index : Index]

\* Both tags at the first index, one at the second.
CONSTANTS t0, t1, i0, i1
const_two_indexes == {const_addr(t0, i0), const_addr(t1, i0), const_addr(t0, i1)}
const_zero == const_addr(t0, i0)

const_reads == [addr : Addr, wstrb : {{}}, wdata : {ZeroWord}]
const_writes(masks) == [addr : Addr, wstrb : masks, wdata : Word]

\* The processor keeps to the first index.
const_first == {access \in const_reads : access.addr.index = i0}
                 \cup {access \in const_writes({Lane}) : access.addr.index = i0}

\* The other index is only written, and every write is of the word of ones.
const_apart == {access \in const_reads : access.addr.index = i0}
                 \cup {access \in const_writes({Lane}) : access.wdata # ZeroWord}

const_full == const_reads \cup const_writes({Lane})
const_partial == const_reads \cup const_writes((SUBSET Lane) \ {{}})

================================================================================
