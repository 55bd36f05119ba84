--------------------------- MODULE MCControllerBench ---------------------------
(***************************************************************************)
(* A small instance of ControllerBench: two tags at each of two indices.   *)
(* The words are the addresses and one word to be written.                 *)
(***************************************************************************)
EXTENDS ControllerBench

CONSTANTS t0, t1, i0, i1

const_addrs == [tag : Tag, index : Index]
const_zero == [tag |-> t0, index |-> i0]

const_word(b) == [l \in Lane |-> b]

const_addr_word ==
  [a \in Addr |-> const_word(IF a.tag = t0 THEN 0 ELSE 1)]

\* Reads, and writes of whole words, as the bench's tests make them.
const_workload ==
  [addr : Addr, wstrb : {{}}, wdata : {ZeroWord}]
    \cup [addr : Addr, wstrb : {Lane}, wdata : {const_word(2)}]

================================================================================
