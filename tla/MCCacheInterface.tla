--------------------------- MODULE MCCacheInterface ----------------------------
(***************************************************************************)
(* Packets of every length: of 1, 4 and 8 words out, of 1, 2 and 4 in.     *)
(***************************************************************************)
EXTENDS CacheInterface

CONSTANTS a, b

const_out == {[cmd |-> "BusRD", payload |-> a], [cmd |-> "EvictDirty", payload |-> a],
              [cmd |-> "SnoopBusUPGR", payload |-> a]}

const_in == {[cmd |-> "BusRD", payload |-> a], [cmd |-> "BusUPGR", payload |-> a],
             [cmd |-> "SnoopBusRDX", payload |-> b], [cmd |-> "WhoAmI", payload |-> a]}

const_requests == const_out \cup const_in

================================================================================
