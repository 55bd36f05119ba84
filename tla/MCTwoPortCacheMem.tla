--------------------------- MODULE MCTwoPortCacheMem ---------------------------
(***************************************************************************)
(* Two lines.  The requests read both, write one of them whole or in two   *)
(* of its lanes, and write one lane of either.                             *)
(***************************************************************************)
EXTENDS TwoPortCacheMem

const_word(ones) == [l \in Lane |-> IF l \in ones THEN 1 ELSE 0]
const_request(i, mask, ones, t, s) ==
  [index |-> i, wstrb |-> mask, data |-> const_word(ones), tag |-> t, state |-> s]

const_requests ==
  {const_request(i, {}, {}, 0, "I") : i \in Line}
    \cup {const_request(0, mask, ones, 1, "M") : mask \in {Lane, {1, 3}}, ones \in {{0, 1}, {3}}}
    \cup {const_request(i, {2}, Lane, 0, "S") : i \in Line}

================================================================================
