---------------------------- MODULE CacheController ----------------------------
(***************************************************************************)
(* cache_controller.sv: the CPU state machine and the snoop state machine  *)
(* of one chip's cache, with the cache memory both go through              *)
(* (two_port_cache_mem.sv) and the outgoing port they share                *)
(* (OutboundArbiter).                                                      *)
(*                                                                         *)
(* One action is one transition of one machine.  In the chip every machine *)
(* that can move does so at each clock edge; here they take turns in any   *)
(* order, which includes the order of the chip.  A memory access, which    *)
(* locks the memory from accept to response (lines 114-143 of the          *)
(* two-port memory), is the grant of a port and, at the response, the read *)
(* or the write.                                                           *)
(*                                                                         *)
(* A register that every path writes before it reads is put back to its    *)
(* reset value when its machine is idle again.  cpu_next_state_q,          *)
(* cpu_issue_cmd_q and cpu_cmd_valid_q are functions of registers that do  *)
(* not change after CPU_TAG_MATCH (OnProcessor), snp_next_state_q of ones  *)
(* that do not change after SNP_ON_SNOOP_EVENT, and snp_tag_q is the tag   *)
(* of snp_addr_q.                                                          *)
(***************************************************************************)
EXTENDS MSI, Naturals

CONSTANTS Tag, Index,  \* the two fields of an address
          Addr,        \* the addresses in use
          ZeroAddr,    \* address 0
          Lane, Byte, ZeroByte,
          None         \* a valid wire that is low

ASSUME AddrAssumption == Addr \subseteq [tag : Tag, index : Index] /\ ZeroAddr \in Addr
ASSUME LaneAssumption == Lane # {}
ASSUME ZeroByteAssumption == ZeroByte \in Byte

Word == [Lane -> Byte]
ZeroWord == [l \in Lane |-> ZeroByte]
Line == [tag : Tag, state : MSIState, data : Word]

\* A request of the processor; no strobe is set in a read.
Access == [addr : Addr, wstrb : SUBSET Lane, wdata : Word]

\* What goes to the directory; snoop marks an acknowledgement, whose command
\* code is that of the snoop.
Message == [snoop : BOOLEAN, cmd : CoherenceCmd, addr : Addr, data : Word]

\* What comes from the directory: answers, which echo the command, and snoops.
Answer == [cmd : CoherenceCmd, data : Word]
Snoop == [addr : Addr, cmd : SnoopEvent]

\* What the machines ask of the cache memory; no strobe is set in a read.
MemRequest == [index : Index, wstrb : SUBSET Lane, data : Word, tag : Tag, state : MSIState]

ASSUME NoneAssumption ==
  /\ None \notin {0, 1} /\ None \notin Addr
  /\ None \notin Access /\ None \notin Message
  /\ None \notin Answer /\ None \notin Snoop /\ None \notin MemRequest

VARIABLES cpu,    \* the registers of the CPU state machine
          snp,    \* the registers of the snoop state machine
          line,   \* the cache memory
          port,   \* the two-port memory's busy, active_port and last_grant
          arb_state, arb_rr, arb_cache,  \* the variables of OutboundArbiter
          mem,    \* mem_valid_i and the access, held until mem_ready_o
          flush,  \* flush_valid_i and its address, held until flush_ready_o
          bus,    \* bus_valid_i and the answer
          snoop,  \* snoop_valid_i and the snoop
          sent    \* the message the serial link is sending

arbVars == <<arb_state, arb_rr, arb_cache>>
controllerVars == <<cpu, snp, line, port, arbVars, mem, flush, bus, snoop, sent>>

CpuState == {"CPU_IDLE", "CPU_FETCH_LINE_REQ", "CPU_FETCH_LINE_RESP", "CPU_TAG_MISS",
  "CPU_EVICT_DIRTY_ACK", "CPU_TAG_MATCH", "CPU_READ_MISS", "CPU_READ_MISS_ACK",
  "CPU_READ_MISS_UPDATE_LINE_REQ", "CPU_READ_MISS_UPDATE_LINE_RESP", "CPU_READ_REQ",
  "CPU_READ_RESP", "CPU_WRITE_MISS", "CPU_WRITE_MISS_ACK", "CPU_WRITE_REQ",
  "CPU_WRITE_RESP", "CPU_FLUSH_LOOKUP_REQ", "CPU_FLUSH_LOOKUP_RESP", "CPU_FLUSH_EVICT",
  "CPU_FLUSH_EVICT_ACK", "CPU_FLUSH_INVALIDATE_REQ", "CPU_FLUSH_INVALIDATE_RESP"}

SnpState == {"SNP_IDLE", "SNP_FETCH_LINE_REQ", "SNP_FETCH_LINE_RESP", "SNP_ON_SNOOP_EVENT",
  "SNP_UPDATE_LINE_REQ", "SNP_UPDATE_LINE_RESP", "SNP_DONE"}

ControllerTypeOK ==
  /\ cpu \in [state : CpuState, addr : Addr, wstrb : SUBSET Lane, wdata : Word,
              line : Line, tag_match : BOOLEAN]
  /\ snp \in [state : SnpState, addr : Addr, cmd : SnoopEvent, line_state : MSIState,
              flush : BOOLEAN, flush_data : Word]
  /\ line \in [Index -> Line]
  /\ port \in [owner : {0, 1, None}, last_grant : {0, 1}]
  /\ arb_state \in {"IDLE", "GRANT_0", "GRANT_1"}
  /\ arb_rr \in {0, 1}
  /\ arb_cache \in Message \cup {None}
  /\ mem \in Access \cup {None}
  /\ flush \in Addr \cup {None}
  /\ bus \in Answer \cup {None}
  /\ snoop \in Snoop \cup {None}
  /\ sent \in Message \cup {None}

ZeroLine == [tag |-> ZeroAddr.tag, state |-> "I", data |-> ZeroWord]

CpuReset == [state |-> "CPU_IDLE", addr |-> ZeroAddr, wstrb |-> {}, wdata |-> ZeroWord,
             line |-> ZeroLine, tag_match |-> TRUE]

SnpReset == [state |-> "SNP_IDLE", addr |-> ZeroAddr, cmd |-> "BUS_RD",
             line_state |-> "I", flush |-> FALSE, flush_data |-> ZeroWord]

ControllerInit ==
  /\ cpu = CpuReset
  /\ snp = SnpReset
  /\ line = [i \in Index |-> ZeroLine]
  /\ port = [owner |-> None, last_grant |-> 0]
  /\ arb_state = "IDLE"
  /\ arb_rr = 0
  /\ arb_cache = None
  /\ mem = None
  /\ flush = None
  /\ bus = None
  /\ snoop = None
  /\ sent = None

--------------------------------------------------------------------------------
(* Transition tables and requests to the outgoing port. *)

\* apply_wstrb.sv, and the lanes the cache memory writes.
ApplyWstrb(old, new, wstrb) == [l \in Lane |-> IF l \in wstrb THEN new[l] ELSE old[l]]

\* u_proc_sm: the latched line counts only if its tag matched.
OnProcessor ==
  OnProcessorEvent(IF cpu.tag_match THEN cpu.line.state ELSE "I",
                   IF cpu.wstrb = {} THEN "PR_RD" ELSE "PR_WR")

\* Mutant of OnSnoop: the line's state as it is now (line 449's old bug).
OnSnoop_Live == OnSnoopEvent(line[snp.addr.index].state, snp.cmd)

\* u_snoop_sm, on the state latched with the line.
OnSnoop == OnSnoopEvent(snp.line_state, snp.cmd)

EvictCmdOf(state) == CASE state = "S" -> "EVICT_CLEAN"
                       [] state = "M" -> "EVICT_DIRTY"
                       [] OTHER -> "NULL"

\* Mutant of EvictRequest: the line's state as it is now (line 630's old bug).
EvictRequest_Live ==
  [snoop |-> FALSE, cmd |-> EvictCmdOf(line[cpu.addr.index].state),
   addr |-> [tag |-> cpu.line.tag, index |-> cpu.addr.index], data |-> cpu.line.data]

\* Mutant of EvictRequest: the address is that of the access.
EvictRequest_NewTag ==
  [snoop |-> FALSE, cmd |-> EvictCmdOf(cpu.line.state),
   addr |-> cpu.addr, data |-> cpu.line.data]

\* CPU_TAG_MISS and CPU_FLUSH_EVICT: evict_addr has the line's own tag.
EvictRequest ==
  [snoop |-> FALSE, cmd |-> EvictCmdOf(cpu.line.state),
   addr |-> [tag |-> cpu.line.tag, index |-> cpu.addr.index], data |-> cpu.line.data]

\* CPU_READ_MISS and CPU_WRITE_MISS.
MissRequest ==
  [snoop |-> FALSE, cmd |-> OnProcessor.cmd, addr |-> cpu.addr, data |-> cpu.line.data]

CpuRequest == CASE cpu.state \in {"CPU_TAG_MISS", "CPU_FLUSH_EVICT"} -> EvictRequest
                [] cpu.state \in {"CPU_READ_MISS", "CPU_WRITE_MISS"} -> MissRequest
                [] OTHER -> None

\* SNP_DONE: the acknowledgement echoes the snoop and carries flushed data.
SnpRequest == IF snp.state = "SNP_DONE"
              THEN [snoop |-> TRUE, cmd |-> snp.cmd, addr |-> snp.addr,
                    data |-> IF snp.flush THEN snp.flush_data ELSE ZeroWord]
              ELSE None

Outbound == INSTANCE OutboundArbiter WITH
  Request <- Message, NoRequest <- None,
  state <- arb_state, rr <- arb_rr, cache <- arb_cache,
  masters <- [i \in {0, 1} |-> IF i = 0 THEN CpuRequest ELSE SnpRequest]

--------------------------------------------------------------------------------
(* The cache memory and the outgoing port. *)

\* What a machine drives on its port of the memory, waiting for it to accept
\* and waiting for its response.
MemRead(i) == [index |-> i, wstrb |-> {}, data |-> ZeroWord, tag |-> ZeroAddr.tag, state |-> "I"]

MemWrite(i, wstrb, data, tag, state) ==
  [index |-> i, wstrb |-> wstrb, data |-> data, tag |-> tag, state |-> state]

\* In CPU_WRITE_REQ the word merged from the latched line goes to the memory
\* under the processor's strobe.
CpuMemRequest ==
  LET i == cpu.addr.index
  IN CASE cpu.state \in {"CPU_FETCH_LINE_REQ", "CPU_FETCH_LINE_RESP", "CPU_READ_REQ",
                         "CPU_READ_RESP", "CPU_FLUSH_LOOKUP_REQ", "CPU_FLUSH_LOOKUP_RESP"} ->
            MemRead(i)
       [] cpu.state \in {"CPU_READ_MISS_UPDATE_LINE_REQ", "CPU_READ_MISS_UPDATE_LINE_RESP"} ->
            MemWrite(i, Lane, cpu.line.data, cpu.addr.tag, OnProcessor.next)
       [] cpu.state \in {"CPU_WRITE_REQ", "CPU_WRITE_RESP"} ->
            MemWrite(i, cpu.wstrb, ApplyWstrb(cpu.line.data, cpu.wdata, cpu.wstrb),
                     cpu.addr.tag, OnProcessor.next)
       [] cpu.state \in {"CPU_FLUSH_INVALIDATE_REQ", "CPU_FLUSH_INVALIDATE_RESP"} ->
            MemWrite(i, Lane, cpu.line.data, cpu.line.tag, "I")
       [] OTHER -> None

\* The update rewrites the whole line, its data as they were fetched.
SnpMemRequest ==
  CASE snp.state \in {"SNP_FETCH_LINE_REQ", "SNP_FETCH_LINE_RESP"} -> MemRead(snp.addr.index)
    [] snp.state \in {"SNP_UPDATE_LINE_REQ", "SNP_UPDATE_LINE_RESP"} ->
         MemWrite(snp.addr.index, Lane, snp.flush_data, snp.addr.tag, OnSnoop.next)
    [] OTHER -> None

\* The accesses of each machine: the state that waits for the memory to
\* accept, and the one that waits for its response.
CpuAccessState ==
  [q \in {"CPU_FETCH_LINE_REQ", "CPU_READ_MISS_UPDATE_LINE_REQ", "CPU_READ_REQ",
          "CPU_WRITE_REQ", "CPU_FLUSH_LOOKUP_REQ", "CPU_FLUSH_INVALIDATE_REQ"} |->
     CASE q = "CPU_FETCH_LINE_REQ" -> "CPU_FETCH_LINE_RESP"
       [] q = "CPU_READ_MISS_UPDATE_LINE_REQ" -> "CPU_READ_MISS_UPDATE_LINE_RESP"
       [] q = "CPU_READ_REQ" -> "CPU_READ_RESP"
       [] q = "CPU_WRITE_REQ" -> "CPU_WRITE_RESP"
       [] q = "CPU_FLUSH_LOOKUP_REQ" -> "CPU_FLUSH_LOOKUP_RESP"
       [] q = "CPU_FLUSH_INVALIDATE_REQ" -> "CPU_FLUSH_INVALIDATE_RESP"]

SnpAccessState ==
  [q \in {"SNP_FETCH_LINE_REQ", "SNP_UPDATE_LINE_REQ"} |->
     IF q = "SNP_FETCH_LINE_REQ" THEN "SNP_FETCH_LINE_RESP" ELSE "SNP_UPDATE_LINE_RESP"]

WantsPort(p) == IF p = 0 THEN cpu.state \in DOMAIN CpuAccessState
                         ELSE snp.state \in DOMAIN SnpAccessState

\* grant_p0, grant_p1: round robin, and only while no transaction runs.
PortGrantable(p) ==
  /\ port.owner = None
  /\ WantsPort(p)
  /\ WantsPort(1 - p) => port.last_grant # p

GrantPort(p) ==
  /\ PortGrantable(p)
  /\ port' = [owner |-> p, last_grant |-> p]
  /\ IF p = 0
       THEN /\ cpu' = [cpu EXCEPT !.state = CpuAccessState[@]]
            /\ UNCHANGED snp
       ELSE /\ snp' = [snp EXCEPT !.state = SnpAccessState[@]]
            /\ UNCHANGED cpu
  /\ UNCHANGED <<line, arbVars, mem, flush, bus, snoop, sent>>

\* The response of port p's transaction, which ends it.
Respond(p) == /\ port.owner = p
              /\ port' = [port EXCEPT !.owner = None]

\* A write access: the strobe selects the lanes, tag and state are written whole.
WriteLine(r) ==
  line' = [line EXCEPT ![r.index] =
             [tag |-> r.tag, state |-> r.state, data |-> ApplyWstrb(@.data, r.data, r.wstrb)]]

\* Mutant of Packet: the dirty line stays behind.
Packet_NoData(m) == [m EXCEPT !.data = ZeroWord]

\* cache_interface.sv's build_packet: only dirty evictions and the answers to
\* snoops that can flush carry data.  (Requests carry the address, answers do
\* not: the directory knows what it asked for.)
Packet(m) ==
  IF m.cmd = "EVICT_DIRTY" \/ (m.snoop /\ m.cmd # "BUS_UPGR")
  THEN m ELSE [m EXCEPT !.data = ZeroWord]

\* The link is free, takes the arbiter's output, and master i sees ready.
SendToDirectory(i) ==
  /\ sent = None
  /\ Outbound!Handshake(i)
  /\ sent' = Packet(arb_cache)

GrantOutbound(i) ==
  /\ UNCHANGED <<cpu, snp, line, port, mem, flush, bus, snoop, sent>>
  /\ Outbound!Grant(i)

--------------------------------------------------------------------------------
(* The CPU state machine. *)

CpuGoto(q) == cpu' = [cpu EXCEPT !.state = q]

\* Mutant of CpuDone: the tag match is not set again.
CpuDone_KeepsTagMatch == cpu' = [CpuReset EXCEPT !.tag_match = cpu.tag_match]

\* Back to CPU_IDLE.  An access sets tag_match_cpu_q; a flush leaves it, set.
CpuDone == cpu' = CpuReset

\* Everything but the CPU machine and what the action says it changes.
CpuElse == UNCHANGED <<snp, arbVars, sent, snoop>>

AcceptAccess ==
  /\ cpu.state = "CPU_IDLE"
  /\ mem # None
  /\ cpu' = [cpu EXCEPT !.state = "CPU_FETCH_LINE_REQ", !.addr = mem.addr,
                        !.wstrb = mem.wstrb, !.wdata = mem.wdata]
  /\ CpuElse /\ UNCHANGED <<line, port, mem, flush, bus>>

AcceptFlush ==
  /\ cpu.state = "CPU_IDLE"
  /\ mem = None
  /\ flush # None
  /\ cpu' = [cpu EXCEPT !.state = "CPU_FLUSH_LOOKUP_REQ", !.addr = flush]
  /\ CpuElse /\ UNCHANGED <<line, port, mem, flush, bus>>

\* The latched line is what both machines' decisions rest on from here on.
FetchLineResp ==
  /\ cpu.state = "CPU_FETCH_LINE_RESP"
  /\ Respond(0)
  /\ LET found == line[cpu.addr.index]
         miss == found.tag # cpu.addr.tag /\ found.state # "I"
     IN cpu' = [cpu EXCEPT !.line = found,
                  !.tag_match = @ /\ ~miss,
                  !.state = IF miss THEN "CPU_TAG_MISS" ELSE "CPU_TAG_MATCH"]
  /\ CpuElse /\ UNCHANGED <<line, mem, flush, bus>>

\* Mutant of AfterEvict: the refill does not wait for the writeback's answer.
AfterEvict_NoWait ==
  IF cpu.state = "CPU_TAG_MISS" THEN "CPU_TAG_MATCH" ELSE "CPU_FLUSH_INVALIDATE_REQ"

\* Mutant of AfterEvict: every eviction waits to be acknowledged.
AfterEvict_AlwaysWaits ==
  IF cpu.state = "CPU_TAG_MISS" THEN "CPU_EVICT_DIRTY_ACK" ELSE "CPU_FLUSH_EVICT_ACK"

\* Where an eviction goes on: a dirty one waits to be acknowledged.
AfterEvict ==
  IF cpu.state = "CPU_TAG_MISS"
  THEN IF cpu.line.state = "M" THEN "CPU_EVICT_DIRTY_ACK" ELSE "CPU_TAG_MATCH"
  ELSE IF cpu.line.state = "M" THEN "CPU_FLUSH_EVICT_ACK" ELSE "CPU_FLUSH_INVALIDATE_REQ"

\* CPU_TAG_MISS and CPU_FLUSH_EVICT: the eviction has gone out.
EvictSent ==
  /\ cpu.state \in {"CPU_TAG_MISS", "CPU_FLUSH_EVICT"}
  /\ CpuGoto(AfterEvict)
  /\ UNCHANGED <<snp, line, port, mem, flush, bus, snoop>>
  /\ SendToDirectory(0)

\* CPU_EVICT_DIRTY_ACK and CPU_FLUSH_EVICT_ACK: any other answer is left alone.
EvictAck ==
  /\ cpu.state \in {"CPU_EVICT_DIRTY_ACK", "CPU_FLUSH_EVICT_ACK"}
  /\ bus # None
  /\ bus.cmd = "EVICT_DIRTY"
  /\ bus' = None
  /\ CpuGoto(IF cpu.state = "CPU_EVICT_DIRTY_ACK" THEN "CPU_TAG_MATCH"
                                                  ELSE "CPU_FLUSH_INVALIDATE_REQ")
  /\ CpuElse /\ UNCHANGED <<line, port, mem, flush>>

TagMatch ==
  /\ cpu.state = "CPU_TAG_MATCH"
  /\ CpuGoto(CASE cpu.wstrb = {} /\ OnProcessor.cmd # "NULL" -> "CPU_READ_MISS"
               [] cpu.wstrb = {} /\ OnProcessor.cmd = "NULL" -> "CPU_READ_REQ"
               [] cpu.wstrb # {} /\ OnProcessor.cmd # "NULL" -> "CPU_WRITE_MISS"
               [] OTHER -> "CPU_WRITE_REQ")
  /\ CpuElse /\ UNCHANGED <<line, port, mem, flush, bus>>

\* CPU_READ_MISS and CPU_WRITE_MISS.
MissSent ==
  /\ cpu.state \in {"CPU_READ_MISS", "CPU_WRITE_MISS"}
  /\ CpuGoto(IF cpu.state = "CPU_READ_MISS" THEN "CPU_READ_MISS_ACK" ELSE "CPU_WRITE_MISS_ACK")
  /\ UNCHANGED <<snp, line, port, mem, flush, bus, snoop>>
  /\ SendToDirectory(0)

\* Mutant of MissAck: the data of a BUS_RD answer are dropped.
MissAck_DropsRdData ==
  /\ cpu.state \in {"CPU_READ_MISS_ACK", "CPU_WRITE_MISS_ACK"}
  /\ bus # None
  /\ bus' = None
  /\ cpu' = [cpu EXCEPT
       !.state = IF @ = "CPU_READ_MISS_ACK" THEN "CPU_READ_MISS_UPDATE_LINE_REQ"
                                            ELSE "CPU_WRITE_REQ",
       !.line.data = IF bus.cmd = "BUS_RDX" THEN bus.data ELSE @]
  /\ CpuElse /\ UNCHANGED <<line, port, mem, flush>>

\* CPU_READ_MISS_ACK and CPU_WRITE_MISS_ACK: any answer is taken; one to a
\* BUS_UPGR brings no data.
MissAck ==
  /\ cpu.state \in {"CPU_READ_MISS_ACK", "CPU_WRITE_MISS_ACK"}
  /\ bus # None
  /\ bus' = None
  /\ cpu' = [cpu EXCEPT
       !.state = IF @ = "CPU_READ_MISS_ACK" THEN "CPU_READ_MISS_UPDATE_LINE_REQ"
                                            ELSE "CPU_WRITE_REQ",
       !.line.data = IF bus.cmd \in {"BUS_RD", "BUS_RDX"} THEN bus.data ELSE @]
  /\ CpuElse /\ UNCHANGED <<line, port, mem, flush>>

ReadMissUpdateLineResp ==
  /\ cpu.state = "CPU_READ_MISS_UPDATE_LINE_RESP"
  /\ Respond(0)
  /\ WriteLine(CpuMemRequest)
  /\ CpuGoto("CPU_READ_REQ")
  /\ CpuElse /\ UNCHANGED <<mem, flush, bus>>

\* mem_rdata_o while CPU_READ_RESP sees valid: the memory as it is now.
ReadData == line[cpu.addr.index].data

ReadResp ==
  /\ cpu.state = "CPU_READ_RESP"
  /\ Respond(0)
  /\ CpuDone
  /\ mem' = None
  /\ CpuElse /\ UNCHANGED <<line, flush, bus>>

WriteResp ==
  /\ cpu.state = "CPU_WRITE_RESP"
  /\ Respond(0)
  /\ WriteLine(CpuMemRequest)
  /\ CpuDone
  /\ mem' = None
  /\ CpuElse /\ UNCHANGED <<flush, bus>>

FlushLookupResp ==
  /\ cpu.state = "CPU_FLUSH_LOOKUP_RESP"
  /\ Respond(0)
  /\ LET found == line[cpu.addr.index]
     IN IF found.tag = cpu.addr.tag /\ found.state # "I"
        THEN /\ cpu' = [cpu EXCEPT !.line = found, !.state = "CPU_FLUSH_EVICT"]
             /\ UNCHANGED flush
        ELSE CpuDone /\ flush' = None
  /\ CpuElse /\ UNCHANGED <<line, mem, bus>>

FlushInvalidateResp ==
  /\ cpu.state = "CPU_FLUSH_INVALIDATE_RESP"
  /\ Respond(0)
  /\ WriteLine(CpuMemRequest)
  /\ CpuDone
  /\ flush' = None
  /\ CpuElse /\ UNCHANGED <<mem, bus>>

CpuStep ==
  \/ AcceptAccess \/ AcceptFlush \/ FetchLineResp \/ EvictSent \/ EvictAck
  \/ TagMatch \/ MissSent \/ MissAck \/ ReadMissUpdateLineResp \/ ReadResp
  \/ WriteResp \/ FlushLookupResp \/ FlushInvalidateResp

--------------------------------------------------------------------------------
(* The snoop state machine. *)

SnpGoto(q) == snp' = [snp EXCEPT !.state = q]
SnpElse == UNCHANGED <<cpu, mem, flush, bus>>

AcceptSnoop ==
  /\ snp.state = "SNP_IDLE"
  /\ snoop # None
  /\ snp' = [snp EXCEPT !.state = "SNP_FETCH_LINE_REQ", !.addr = snoop.addr, !.cmd = snoop.cmd]
  /\ snoop' = None
  /\ SnpElse /\ UNCHANGED <<line, port, arbVars, sent>>

\* Mutant of GhostFlush: the flush flag of an earlier snoop is left set.
GhostFlush_Stale == snp.flush

\* What a ghost snoop leaves in snp_flush_q (line 457).
GhostFlush == FALSE

\* Mutant of SnpFetchLineResp: a ghost snoop is dropped.
SnpFetchLineResp_DropsGhost ==
  /\ snp.state = "SNP_FETCH_LINE_RESP"
  /\ Respond(1)
  /\ LET found == line[snp.addr.index]
     IN snp' = IF found.tag # snp.addr.tag
               THEN [snp EXCEPT !.state = "SNP_IDLE", !.flush = GhostFlush]
               ELSE [snp EXCEPT !.state = "SNP_ON_SNOOP_EVENT",
                       !.line_state = found.state, !.flush_data = found.data]
  /\ SnpElse /\ UNCHANGED <<line, arbVars, snoop, sent>>

\* Mutant of SnpFetchLineResp: the tag is not compared.
SnpFetchLineResp_AnyTag ==
  /\ snp.state = "SNP_FETCH_LINE_RESP"
  /\ Respond(1)
  /\ LET found == line[snp.addr.index]
     IN snp' = [snp EXCEPT !.state = "SNP_ON_SNOOP_EVENT",
                  !.line_state = found.state, !.flush_data = found.data]
  /\ SnpElse /\ UNCHANGED <<line, arbVars, snoop, sent>>

\* A line with another tag is none of the snoop's business: acknowledge it.
SnpFetchLineResp ==
  /\ snp.state = "SNP_FETCH_LINE_RESP"
  /\ Respond(1)
  /\ LET found == line[snp.addr.index]
     IN snp' = IF found.tag # snp.addr.tag
               THEN [snp EXCEPT !.state = "SNP_DONE", !.flush = GhostFlush]
               ELSE [snp EXCEPT !.state = "SNP_ON_SNOOP_EVENT",
                       !.line_state = found.state, !.flush_data = found.data]
  /\ SnpElse /\ UNCHANGED <<line, arbVars, snoop, sent>>

OnSnoopEventStep ==
  /\ snp.state = "SNP_ON_SNOOP_EVENT"
  /\ snp' = [snp EXCEPT !.state = "SNP_UPDATE_LINE_REQ", !.flush = OnSnoop.flush]
  /\ SnpElse /\ UNCHANGED <<line, port, arbVars, snoop, sent>>

SnpUpdateLineResp ==
  /\ snp.state = "SNP_UPDATE_LINE_RESP"
  /\ Respond(1)
  /\ WriteLine(SnpMemRequest)
  /\ SnpGoto("SNP_DONE")
  /\ SnpElse /\ UNCHANGED <<arbVars, snoop, sent>>

\* SNP_DONE: the acknowledgement has gone out.
SnoopAckSent ==
  /\ snp.state = "SNP_DONE"
  /\ snp' = [SnpReset EXCEPT !.flush = snp.flush, !.flush_data = snp.flush_data]
  /\ SnpElse /\ UNCHANGED <<line, port, snoop>>
  /\ SendToDirectory(1)

SnpStep == \/ AcceptSnoop \/ SnpFetchLineResp \/ OnSnoopEventStep
           \/ SnpUpdateLineResp \/ SnoopAckSent

PortStep == \E p \in {0, 1} : GrantPort(p)
ArbiterStep == \E i \in {0, 1} : GrantOutbound(i)

ControllerStep == CpuStep \/ SnpStep \/ PortStep \/ ArbiterStep

================================================================================
