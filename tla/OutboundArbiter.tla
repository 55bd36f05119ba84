---------------------------- MODULE OutboundArbiter ----------------------------
(***************************************************************************)
(* outbound_arbiter.sv: the CPU state machine (master 0) and the snoop     *)
(* state machine (master 1) of a cache controller share one outgoing port. *)
(* A granted request is copied into a register and held there until the    *)
(* link takes it; the master sees ready in that very cycle.                *)
(*                                                                         *)
(* masters is an input: what each master drives on its request wires.      *)
(* This module's own masters raise any request and hold it until ready;    *)
(* CacheController substitutes its state machines for them.                *)
(***************************************************************************)
EXTENDS Naturals

CONSTANTS Request,   \* address, data and command, as one payload
          NoRequest  \* valid is low

ASSUME NoRequestAssumption == NoRequest \notin Request

VARIABLES state,   \* state_q
          rr,      \* rr_q: the master to prefer when both ask
          cache,   \* cache_valid_q and the registered payload
          masters  \* masters[i]: m0_valid_i, m0_addr_i, ... and the m1 wires

vars == <<state, rr, cache, masters>>

Master == {0, 1}
GrantState == [i \in Master |-> IF i = 0 THEN "GRANT_0" ELSE "GRANT_1"]

TypeOK ==
  /\ state \in {"IDLE", "GRANT_0", "GRANT_1"}
  /\ rr \in Master
  /\ cache \in Request \cup {NoRequest}
  /\ masters \in [Master -> Request \cup {NoRequest}]

Init == /\ state = "IDLE"
        /\ rr = 0
        /\ cache = NoRequest
        /\ masters = [i \in Master |-> NoRequest]

Asks(i) == masters[i] # NoRequest

\* Mutant of Chosen: master 1 wins every contention.
Chosen_FixedPriority(i) == Asks(i) /\ (i = 0 => ~Asks(1))

\* The choice IDLE makes.
Chosen(i) == Asks(i) /\ (Asks(1 - i) => rr = i)

\* Mutant of Grant: the preference is not turned over.
Grant_KeepsPreference(i) ==
  /\ state = "IDLE"
  /\ Chosen(i)
  /\ state' = GrantState[i]
  /\ cache' = masters[i]
  /\ UNCHANGED <<rr, masters>>

Grant(i) ==
  /\ state = "IDLE"
  /\ Chosen(i)
  /\ state' = GrantState[i]
  /\ cache' = masters[i]
  /\ rr' = 1 - i
  /\ UNCHANGED masters

\* cache_ready_i is high: the transfer completes and master i sees ready.
Handshake(i) ==
  /\ state = GrantState[i]
  /\ cache # NoRequest
  /\ state' = "IDLE"
  /\ cache' = NoRequest
  /\ masters' = [masters EXCEPT ![i] = NoRequest]
  /\ UNCHANGED rr

\* A master raises its valid wire.
Raise(i) ==
  /\ ~Asks(i)
  /\ UNCHANGED <<state, rr, cache>>
  /\ \E request \in Request : masters' = [masters EXCEPT ![i] = request]

Next == \E i \in Master :
          \/ Grant(i)
          \/ Handshake(i)
          \/ Raise(i)

Spec == Init /\ [][Next]_vars

--------------------------------------------------------------------------------
(* Properties. *)

(***************************************************************************)
(* "Hold request stable until handshake completes" (line 201): what the    *)
(* link sees is the granted master's own request, from the grant until the *)
(* cycle in which that master, and no other, sees ready.                   *)
(***************************************************************************)
GrantedRequestIsOnThePort ==
  /\ \A i \in Master : state = GrantState[i] => Asks(i) /\ cache = masters[i]
  /\ state = "IDLE" => cache = NoRequest

\* Nobody waits for ever, even if the other master never stops asking.
EveryRequestIsSent == \A i \in Master : Asks(i) ~> ~Asks(i)

================================================================================
