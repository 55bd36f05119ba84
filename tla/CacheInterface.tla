---------------------------- MODULE CacheInterface -----------------------------
(***************************************************************************)
(* The message paths of a chip: outbound, from the two masters of          *)
(* outbound_arbiter.sv through build_packet and the serializer; inbound,   *)
(* through the deserializer and decode_packet to the bus and snoop pipe    *)
(* stages (lossy_pipe_stage.sv) and the register of the chip's number.     *)
(* The two directions share their code and no state, so a behaviour is of  *)
(* one of them, side:                                                      *)
(*   - "out": the arbiter and cache_interface.sv send, the directory's     *)
(*     deserializer receives (external);                                   *)
(*   - "in": the directory sends (external: anyone who holds its packet    *)
(*     until it is taken, which the arbiter does), cache_interface.sv      *)
(*     receives.                                                           *)
(***************************************************************************)
EXTENDS OutboundArbiter, Sequences

CONSTANTS OutCommand,  \* what the controller sends: commands and payloads
          InCommand    \* what the directory sends

VARIABLES side,                  \* fixed
          tx, rx,                \* the link
          bus_pipe, snoop_pipe,  \* four words, or NoMessage if valid_o_r is low
          cpu_id_r,              \* two words
          underway,              \* history: packets the serializer has taken and the
                                 \*   receiver has not yet shown to be valid
          overtaken              \* history: how often a waiting master has seen the
                                 \*   other one granted, counted up to 3

arbiterVars == <<state, rr, cache, masters>>
receiverVars == <<bus_pipe, snoop_pipe, cpu_id_r>>
historyVars == <<underway, overtaken>>
pathVars == <<arbiterVars, side, tx, rx, receiverVars, historyVars>>

\* The code of a message is its metadata field.  build_packet: only dirty
\* evictions and the answers to snoops of data carry data.
out_type(cmd) ==
  CASE cmd \in {"BusRD", "BusRDX", "BusUPGR", "EvictClean"} -> "MEDIUM"
    [] cmd = "EvictDirty" -> "LARGE"
    [] cmd \in {"SnoopBusRD", "SnoopBusRDX"} -> "MEDIUM"
    [] OTHER -> "CMDONLY"

\* What the directory sends, from cache_interface_tb.py and the decoding.
in_type(cmd) ==
  CASE cmd \in {"BusUPGR", "EvictDirty"} -> "CMDONLY"
    [] cmd = "WhoAmI" -> "SHORT"
    [] OTHER -> "MEDIUM"

build_packet(c) ==
  [cmd |-> c.cmd, payload |-> c.payload,
   type |-> IF side = "out" THEN out_type(c.cmd) ELSE in_type(c.cmd)]

Packet == [cmd : {c.cmd : c \in Request}, payload : {c.payload : c \in Request},
           type : {"CMDONLY", "SHORT", "MEDIUM", "LARGE"}]

ASSUME RequestAssumption == /\ Request = OutCommand \cup InCommand
                            /\ NoRequest \notin Packet

INSTANCE SerialLink WITH NoPacket <- NoRequest

\* MAX_MSG_LEN of the receivers: 36 bits on the chip, 68 at the directory.
rdepth == IF side = "in" THEN Depth["MEDIUM"] ELSE Depth["LARGE"]

\* The packet received has its metadata in the lowest word.
rpacket == rx.shift_arr
rmetadata == IF rpacket[0] = NoWord THEN "NULL" ELSE rpacket[0][1].cmd

NoMessage == <<>>

InterfaceTypeOK ==
  /\ TypeOK
  /\ side \in {"in", "out"}
  /\ LinkTypeOK(rdepth)
  /\ {bus_pipe, snoop_pipe} \subseteq [0 .. 3 -> Word] \cup {NoMessage}
  /\ cpu_id_r \in [0 .. 1 -> Word]
  /\ underway \in Seq(Packet)
  /\ overtaken \in [Master -> 0 .. 3]

InterfaceInit ==
  /\ Init
  /\ side \in {"in", "out"}
  /\ LinkInit(rdepth)
  /\ bus_pipe = NoMessage
  /\ snoop_pipe = NoMessage
  /\ cpu_id_r = [k \in 0 .. 1 |-> NoWord]
  /\ underway = <<>>
  /\ overtaken = [i \in Master |-> 0]

--------------------------------------------------------------------------------
(* decode_packet and what it feeds. *)

\* Mutant of bus_valid_d: the message may still be on its way.
bus_valid_d_Early == rmetadata \in {"BusRD", "BusRDX", "BusUPGR", "EvictDirty"}

bus_valid_d == rx.valid_o /\ rmetadata \in {"BusRD", "BusRDX", "BusUPGR", "EvictDirty"}
snoop_valid_d == rx.valid_o /\ rmetadata \in {"SnoopBusRD", "SnoopBusRDX", "SnoopBusUPGR"}

\* lossy_pipe_stage: a new message displaces one that has not been taken.
PipeStage(pipe, valid, ready) ==
  CASE valid -> rpacket
    [] ~valid /\ ready -> NoMessage
    [] OTHER -> pipe

HoldCpuId ==
  cpu_id_r' = IF rx.valid_o /\ rmetadata = "WhoAmI" THEN [k \in 0 .. 1 |-> rpacket[k]]
              ELSE cpu_id_r

\* The controller takes from its pipe stages when it likes.
Deliver ==
  IF side = "in"
  THEN \E bus_ready, snoop_ready \in BOOLEAN :
         /\ bus_pipe' = PipeStage(bus_pipe, bus_valid_d, bus_ready)
         /\ snoop_pipe' = PipeStage(snoop_pipe, snoop_valid_d, snoop_ready)
         /\ HoldCpuId
  ELSE UNCHANGED receiverVars

--------------------------------------------------------------------------------

\* The arbiter's clock edge: cache_ready_i is the serializer's ready_o.
Arbitrate ==
  IF state = "IDLE"
  THEN IF \E i \in Master : Asks(i) THEN \E i \in Master : Grant(i)
                                    ELSE UNCHANGED arbiterVars
  ELSE IF ready_o THEN \E i \in Master : Handshake(i)
                  ELSE UNCHANGED arbiterVars

packet == IF cache = NoRequest THEN NoRequest ELSE build_packet(cache)

RecordUnderway ==
  LET left == IF rx.valid_o THEN Tail(underway) ELSE underway
  IN underway' = IF ready_o /\ packet # NoRequest THEN Append(left, packet) ELSE left

RecordOvertaken ==
  overtaken' = [i \in Master |->
    CASE masters'[i] = NoRequest \/ state' = GrantState[i] -> 0
      [] Asks(i) /\ state = "IDLE" /\ state' = GrantState[1 - i] /\ overtaken[i] < 3 ->
           overtaken[i] + 1
      [] OTHER -> overtaken[i]]

Tick == /\ Arbitrate
        /\ LinkTick(packet)
        /\ Deliver
        /\ RecordUnderway
        /\ RecordOvertaken
        /\ UNCHANGED side

\* Between two edges, a master raises a request of its direction.
RaiseOnSide(i) ==
  /\ Raise(i)
  /\ masters'[i] \in IF side = "out" THEN OutCommand ELSE InCommand
  /\ side = "in" => i = 0
  /\ UNCHANGED <<side, tx, rx, receiverVars, historyVars>>

InterfaceNext == Tick \/ \E i \in Master : RaiseOnSide(i)

InterfaceSpec == InterfaceInit /\ [][InterfaceNext]_pathVars

(***************************************************************************)
(* The clock runs: so a request in IDLE is granted, and the serializer     *)
(* takes a packet again once it has sent the previous one.                 *)
(***************************************************************************)
InterfaceFairSpec == InterfaceSpec /\ WF_pathVars(Tick)

--------------------------------------------------------------------------------
(* Properties. *)

(***************************************************************************)
(* rr_q (lines 151 and 177): the master granted last yields to the other,  *)
(* so that nobody is overtaken twice while it waits.                       *)
(***************************************************************************)
OvertakenOnce == \A i \in Master : overtaken[i] <= 1

(***************************************************************************)
(* The link has no checksum and no handshake per word: when the receiver   *)
(* says valid, in the cycle in which the next packet's first word may be   *)
(* on the pins already, its words are those of the packet that was sent,   *)
(* each in its place above what earlier packets have left; and packets     *)
(* arrive once each and in order.                                          *)
(***************************************************************************)
DeliveredIntact ==
  rx.valid_o => underway # <<>> /\ Holds(rx.shift_arr, Head(underway))

(***************************************************************************)
(* A pipe stage holds one whole message of its own kind, with the bytes of *)
(* no other, however soon the next one comes; and the chip's number is     *)
(* that of a message that gave it.                                         *)
(***************************************************************************)
StagesHoldWholeMessages ==
  LET HoldsOne(words, cmds) ==
        \E p \in Packet : p.type = in_type(p.cmd) /\ p.cmd \in cmds /\ Holds(words, p)
  IN /\ bus_pipe # NoMessage =>
          HoldsOne(bus_pipe, {"BusRD", "BusRDX", "BusUPGR", "EvictDirty"})
     /\ snoop_pipe # NoMessage =>
          HoldsOne(snoop_pipe, {"SnoopBusRD", "SnoopBusRDX", "SnoopBusUPGR"})
     /\ cpu_id_r[0] # NoWord => HoldsOne(cpu_id_r, {"WhoAmI"})

\* Whatever the serializer takes arrives, even if packets never stop coming.
EveryPacketArrives == underway # <<>> ~> rx.valid_o

================================================================================
