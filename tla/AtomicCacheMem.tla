---------------------------- MODULE AtomicCacheMem -----------------------------
(***************************************************************************)
(* What the two machines of a cache controller may take the cache memory   *)
(* to be: one access at a time, which takes place at once when the memory  *)
(* accepts it, although its response comes later; and, when both ports     *)
(* ask, the turn of the port that was not granted last.                    *)
(*                                                                         *)
(* TwoPortCacheMem, the memory of the chip, implements this.               *)
(* CacheController, which has the memory respond in one step, is checked   *)
(* to use no more than this.                                               *)
(***************************************************************************)
EXTENDS Naturals

CONSTANTS Index,    \* the lines
          Lane,     \* the bytes of a line's word
          Request,  \* [index, wstrb, data, tag, state]; no strobe in a read
          None,     \* no request, no owner
          ZeroLine  \* a cleared line: [data, tag, state]

VARIABLES lines,      \* lines[i]
          request,    \* request[p]: what port p's master asks for, until the response
          owner,      \* the port whose access the memory has accepted
          last_grant  \* the port granted last

vars == <<lines, request, owner, last_grant>>

Port == {0, 1}

Init == /\ lines = [i \in Index |-> ZeroLine]
        /\ request = [p \in Port |-> None]
        /\ owner = None
        /\ last_grant = 0

\* The line at i after request r: selected lanes, and tag and state if any is.
Written(old, r) ==
  IF r.wstrb = {} THEN old
  ELSE [data |-> [l \in Lane |-> IF l \in r.wstrb THEN r.data[l] ELSE old.data[l]],
        tag |-> r.tag, state |-> r.state]

Grant(p) ==
  /\ owner = None
  /\ request[p] # None
  /\ request[1 - p] # None => last_grant # p
  /\ owner' = p
  /\ last_grant' = p
  /\ lines' = [lines EXCEPT ![request[p].index] = Written(@, request[p])]

Respond ==
  /\ owner # None
  /\ owner' = None
  /\ UNCHANGED <<lines, last_grant>>

\* A master's request stays as it is until the response, in which it may be
\* followed by another one.
MastersHold ==
  \A p \in Port : \/ request'[p] = request[p]
                  \/ /\ request[p] = None
                     /\ request'[p] \in Request
                  \/ /\ owner = p /\ owner' = None
                     /\ request'[p] \in Request \cup {None}

Next == /\ \/ \E p \in Port : Grant(p)
           \/ Respond
           \/ UNCHANGED <<lines, owner, last_grant>>
        /\ MastersHold

Spec == Init /\ [][Next]_vars

================================================================================
