------------------------------ MODULE MSIProtocol ------------------------------
(***************************************************************************)
(* What the coherence protocol promises, whatever carries it out: each     *)
(* cache has a permission on each address, a read permission is obtained   *)
(* by taking the write permission away from whoever holds it, a write      *)
(* permission by taking every permission away from the others, and a cache *)
(* may drop what it holds at any time.  The concrete systems are shown to  *)
(* implement this specification.                                           *)
(*                                                                         *)
(* The permissions are the states of cocotb/emulation/msi.py:16-32, whose  *)
(* docstring states the invariant.                                         *)
(***************************************************************************)
EXTENDS MSI

CONSTANTS Core,   \* the caches
          Addr    \* the addresses they share

VARIABLE perm     \* perm[c][a]: what cache c may do with address a

TypeOK == perm \in [Core -> [Addr -> MSIState]]

Init == perm = [c \in Core |-> [a \in Addr |-> "I"]]

\* The effect on the other caches of c obtaining a: a writer among them is
\* downgraded when c reads, all of them lose the line when c writes.
Obtain(c, a, state) ==
  perm' = [d \in Core |-> [perm[d] EXCEPT ![a] =
             CASE d = c -> state
               [] d # c /\ state = "M" -> "I"
               [] d # c /\ state = "S" -> IF @ = "M" THEN "S" ELSE @]]

GetShared(c, a) == Obtain(c, a, "S")

GetModified(c, a) == Obtain(c, a, "M")

Drop(c, a) == perm' = [perm EXCEPT ![c][a] = "I"]

Next == \E c \in Core, a \in Addr :
          \/ GetShared(c, a)
          \/ GetModified(c, a)
          \/ Drop(c, a)

Spec == Init /\ [][Next]_perm

(***************************************************************************)
(* msi.py:25-28: at most one cache is MODIFIED for an address, and if one  *)
(* is, all others are INVALID.                                             *)
(***************************************************************************)
SingleWriter == \A c, d \in Core, a \in Addr :
                  c # d /\ perm[c][a] = "M" => perm[d][a] = "I"

================================================================================
