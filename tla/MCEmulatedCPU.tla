----------------------------- MODULE MCEmulatedCPU -----------------------------
(***************************************************************************)
(* Small instances of EmulatedCPU: one-bit bytes, and the workloads the    *)
(* runs use.                                                               *)
(***************************************************************************)
EXTENDS EmulatedCPU

const_word(v) == [l \in Lane |-> v]

\* Reads, and writes with every strobe mask of a word of ones or of zeros.
const_reads == {[addr |-> a, wstrb |-> {}, wdata |-> const_word(0)] : a \in Addr}

const_writes(masks) ==
  [addr : Addr, wstrb : masks, wdata : {const_word(v) : v \in Byte}]

\* Writes of one byte of ones, over a memory of zeros.
const_bytes == const_reads \cup [addr : Addr, wstrb : {{l} : l \in Lane}, wdata : {const_word(1)}]

const_full == const_reads \cup const_writes({Lane})

================================================================================
