------------------------- MODULE CacheControllerProofs -------------------------
(***************************************************************************)
(* What the two machines of the cache controller do, whoever is around     *)
(* them: the lemmas about CacheController that ControllerProofs and        *)
(* ControllerBenchProofs build their invariants on.                        *)
(***************************************************************************)
EXTENDS CacheController, TLAPS

--------------------------------------------------------------------------------
(* What the registers mean. *)

\* A valid line, in the memory or latched, is one of the addresses in use: an
\* eviction puts its address together from the tag found and the index asked for.
LinesHaveAddresses ==
  /\ \A i \in Index : line[i].state # "I" => [tag |-> line[i].tag, index |-> i] \in Addr
  /\ cpu.line.state # "I" => [tag |-> cpu.line.tag, index |-> cpu.addr.index] \in Addr
  /\ cpu.state = "CPU_IDLE" => cpu.line.state = "I"
  /\ cpu.state \in {"CPU_TAG_MISS", "CPU_FLUSH_EVICT"} => cpu.line.state # "I"

\* The outgoing port holds the granted machine's own request.
PortHolds ==
  /\ arb_state = "GRANT_0" => CpuRequest # None /\ arb_cache = CpuRequest
  /\ arb_state = "GRANT_1" => SnpRequest # None /\ arb_cache = SnpRequest
  /\ arb_state = "IDLE" => arb_cache = None

AccessState == {"CPU_FETCH_LINE_REQ", "CPU_FETCH_LINE_RESP", "CPU_TAG_MISS",
  "CPU_EVICT_DIRTY_ACK", "CPU_TAG_MATCH", "CPU_READ_MISS", "CPU_READ_MISS_ACK",
  "CPU_READ_MISS_UPDATE_LINE_REQ", "CPU_READ_MISS_UPDATE_LINE_RESP", "CPU_READ_REQ",
  "CPU_READ_RESP", "CPU_WRITE_MISS", "CPU_WRITE_MISS_ACK", "CPU_WRITE_REQ", "CPU_WRITE_RESP"}

FlushState == {"CPU_FLUSH_LOOKUP_REQ", "CPU_FLUSH_LOOKUP_RESP", "CPU_FLUSH_EVICT",
  "CPU_FLUSH_EVICT_ACK", "CPU_FLUSH_INVALIDATE_REQ", "CPU_FLUSH_INVALIDATE_RESP"}

\* The transfer that the CPU machine works on is still on the wires.
Serving ==
  /\ cpu.state \in AccessState => mem # None /\ mem.addr = cpu.addr
  /\ cpu.state \in FlushState => flush = cpu.addr
  /\ mem # None => mem.wstrb \in {{}, Lane}
  /\ cpu.wstrb \in {{}, Lane}

FetchedState == {"CPU_TAG_MISS", "CPU_EVICT_DIRTY_ACK", "CPU_TAG_MATCH", "CPU_READ_MISS",
  "CPU_READ_MISS_ACK", "CPU_READ_MISS_UPDATE_LINE_REQ", "CPU_READ_MISS_UPDATE_LINE_RESP",
  "CPU_WRITE_MISS", "CPU_WRITE_MISS_ACK", "CPU_WRITE_REQ", "CPU_WRITE_RESP"}

FoundState == {"CPU_FLUSH_EVICT", "CPU_FLUSH_EVICT_ACK", "CPU_FLUSH_INVALIDATE_REQ",
  "CPU_FLUSH_INVALIDATE_RESP"}

\* The line that the CPU machine decided on is the one in the memory; its data
\* are, too, until an answer brings others.
Latched ==
  /\ cpu.state \in FetchedState \cup FoundState
       => /\ cpu.line.tag = line[cpu.addr.index].tag
          /\ cpu.line.state = line[cpu.addr.index].state
  /\ cpu.state \in {"CPU_TAG_MISS", "CPU_EVICT_DIRTY_ACK", "CPU_TAG_MATCH", "CPU_FLUSH_EVICT",
                    "CPU_FLUSH_EVICT_ACK"}
       => cpu.line.data = line[cpu.addr.index].data
  /\ cpu.state \in {"CPU_READ_REQ", "CPU_READ_RESP"}
       => line[cpu.addr.index].tag = cpu.addr.tag /\ line[cpu.addr.index].state # "I"

\* What it decided.
Decided ==
  /\ cpu.state \in {"CPU_IDLE", "CPU_FETCH_LINE_REQ", "CPU_FETCH_LINE_RESP"} \cup FlushState
       => cpu.tag_match
  /\ ~cpu.tag_match => cpu.line.tag # cpu.addr.tag /\ cpu.line.state # "I"
  /\ cpu.state \in FetchedState \cup FoundState /\ cpu.tag_match /\ cpu.line.state # "I"
       => cpu.line.tag = cpu.addr.tag
  /\ cpu.state \in FoundState => cpu.line.state # "I"
  /\ cpu.state \in {"CPU_TAG_MISS", "CPU_EVICT_DIRTY_ACK"} => ~cpu.tag_match
  /\ cpu.state \in {"CPU_EVICT_DIRTY_ACK", "CPU_FLUSH_EVICT_ACK"} => cpu.line.state = "M"
  /\ cpu.state \in {"CPU_READ_MISS", "CPU_READ_MISS_ACK", "CPU_READ_MISS_UPDATE_LINE_REQ",
                    "CPU_READ_MISS_UPDATE_LINE_RESP"}
       => cpu.wstrb = {} /\ OnProcessor.cmd = "BUS_RD"
  /\ cpu.state \in {"CPU_READ_REQ", "CPU_READ_RESP"} => cpu.wstrb = {}
  /\ cpu.state \in {"CPU_WRITE_MISS", "CPU_WRITE_MISS_ACK"} => OnProcessor.cmd # "NULL"
  /\ cpu.state \in {"CPU_WRITE_MISS", "CPU_WRITE_MISS_ACK", "CPU_WRITE_REQ", "CPU_WRITE_RESP"}
       => cpu.wstrb = Lane

\* The machines do not meet at an index.
MachinesApart ==
  cpu.state # "CPU_IDLE" /\ snp.state # "SNP_IDLE" => cpu.addr.index # snp.addr.index

\* What the snoop machine decided rests on the line in the memory, too.
SnpLatched ==
  /\ snp.state \in {"SNP_ON_SNOOP_EVENT", "SNP_UPDATE_LINE_REQ", "SNP_UPDATE_LINE_RESP"}
       => line[snp.addr.index] = [tag |-> snp.addr.tag, state |-> snp.line_state,
                                  data |-> snp.flush_data]
  /\ snp.state \in {"SNP_UPDATE_LINE_REQ", "SNP_UPDATE_LINE_RESP"} => snp.flush = OnSnoop.flush

--------------------------------------------------------------------------------
(* The operators. *)

LEMMA ZeroWordIsWord == ZeroWord \in Word
BY ZeroByteAssumption DEF ZeroWord, Word

LEMMA MergedIsWord ==
  ASSUME NEW old \in Word, NEW new \in Word, NEW wstrb
  PROVE  ApplyWstrb(old, new, wstrb) \in Word
BY DEF ApplyWstrb, Word

LEMMA AddressFields ==
  ASSUME NEW a \in Addr
  PROVE  a.tag \in Tag /\ a.index \in Index /\ a = [tag |-> a.tag, index |-> a.index]
BY AddrAssumption

LEMMA ZeroLineIsLine == ZeroLine \in Line /\ ZeroLine.state = "I"
BY ZeroWordIsWord, AddressFields, AddrAssumption DEF ZeroLine, Line, MSIState

\* The transition tables.
LEMMA ProcessorEvents ==
  ASSUME NEW s \in MSIState, NEW e \in ProcessorEvent
  PROVE  /\ OnProcessorEvent(s, e).next \in {"S", "M"}
         /\ OnProcessorEvent(s, e).cmd \in BusCmd \cup {"NULL"}
BY DEF OnProcessorEvent, MSIState, ProcessorEvent, BusCmd

LEMMA SnoopEvents ==
  ASSUME NEW s \in MSIState, NEW e \in SnoopEvent
  PROVE  OnSnoopEvent(s, e).next \in MSIState /\ OnSnoopEvent(s, e).flush \in BOOLEAN
BY DEF OnSnoopEvent, MSIState, SnoopEvent

\* The registers.
LEMMA CpuFields ==
  ASSUME ControllerTypeOK
  PROVE  /\ cpu.state \in CpuState /\ cpu.addr \in Addr /\ cpu.wstrb \in SUBSET Lane
         /\ cpu.wdata \in Word /\ cpu.tag_match \in BOOLEAN
         /\ cpu.line.tag \in Tag /\ cpu.line.state \in MSIState /\ cpu.line.data \in Word
         /\ cpu.line \in Line
BY DEF ControllerTypeOK, Line

LEMMA SnpFields ==
  ASSUME ControllerTypeOK
  PROVE  /\ snp.state \in SnpState /\ snp.addr \in Addr /\ snp.cmd \in SnoopEvent
         /\ snp.line_state \in MSIState /\ snp.flush \in BOOLEAN /\ snp.flush_data \in Word
BY DEF ControllerTypeOK

LEMMA OnProcessorType ==
  ASSUME ControllerTypeOK
  PROVE  OnProcessor.next \in {"S", "M"} /\ OnProcessor.cmd \in BusCmd \cup {"NULL"}
<1>1. (IF cpu.tag_match THEN cpu.line.state ELSE "I") \in MSIState
  BY CpuFields DEF MSIState
<1>2. (IF cpu.wstrb = {} THEN "PR_RD" ELSE "PR_WR") \in ProcessorEvent
  BY DEF ProcessorEvent
<1> QED BY <1>1, <1>2, ProcessorEvents DEF OnProcessor

LEMMA OnSnoopType ==
  ASSUME ControllerTypeOK
  PROVE  OnSnoop.next \in MSIState /\ OnSnoop.flush \in BOOLEAN
BY SnpFields, SnoopEvents DEF OnSnoop

\* What the machines ask the outgoing port for is a message.
LEMMA RequestsAreMessages ==
  ASSUME ControllerTypeOK, LinesHaveAddresses
  PROVE  /\ CpuRequest \in Message \cup {None}
         /\ SnpRequest \in Message \cup {None}
         /\ CpuRequest # None => ~CpuRequest.snoop
         /\ SnpRequest # None => SnpRequest.snoop
         /\ CpuRequest # None <=> cpu.state \in {"CPU_TAG_MISS", "CPU_FLUSH_EVICT",
                                                 "CPU_READ_MISS", "CPU_WRITE_MISS"}
         /\ SnpRequest # None <=> snp.state = "SNP_DONE"
<1>1. cpu.state \in {"CPU_TAG_MISS", "CPU_FLUSH_EVICT"} => EvictRequest \in Message
  <2>1. EvictCmdOf(cpu.line.state) \in CoherenceCmd
    BY DEF EvictCmdOf, CoherenceCmd, EvictCmd
  <2> QED BY <2>1, CpuFields DEF EvictRequest, Message, LinesHaveAddresses
<1>2. MissRequest \in Message
  BY CpuFields, OnProcessorType DEF MissRequest, Message, CoherenceCmd
<1>3. [snoop |-> TRUE, cmd |-> snp.cmd, addr |-> snp.addr,
       data |-> IF snp.flush THEN snp.flush_data ELSE ZeroWord] \in Message
  BY SnpFields, ZeroWordIsWord DEF Message, CoherenceCmd, BusCmd, SnoopEvent
<1>4. None \notin Message
  BY NoneAssumption
<1> QED
  BY <1>1, <1>2, <1>3, <1>4 DEF CpuRequest, SnpRequest, EvictRequest, MissRequest

LEMMA PacketIsMessage ==
  ASSUME NEW m \in Message
  PROVE  /\ Packet(m) \in Message
         /\ Packet(m).snoop = m.snoop /\ Packet(m).cmd = m.cmd /\ Packet(m).addr = m.addr
BY ZeroWordIsWord DEF Packet, Message

\* What the machines ask the memory for.
LEMMA MemRequests ==
  ASSUME ControllerTypeOK
  PROVE  /\ cpu.state \in {"CPU_READ_MISS_UPDATE_LINE_RESP", "CPU_WRITE_RESP",
                           "CPU_FLUSH_INVALIDATE_RESP"} =>
              /\ CpuMemRequest \in MemRequest
              /\ CpuMemRequest.index = cpu.addr.index
              /\ CpuMemRequest.tag = cpu.addr.tag \/ CpuMemRequest.state = "I"
         /\ snp.state = "SNP_UPDATE_LINE_RESP" =>
              /\ SnpMemRequest \in MemRequest
              /\ SnpMemRequest.index = snp.addr.index
              /\ SnpMemRequest.tag = snp.addr.tag
<1>1. ApplyWstrb(cpu.line.data, cpu.wdata, cpu.wstrb) \in Word
  BY CpuFields, MergedIsWord
<1>2. /\ cpu.addr.index \in Index /\ cpu.addr.tag \in Tag
      /\ snp.addr.index \in Index /\ snp.addr.tag \in Tag
  BY CpuFields, SnpFields, AddressFields
<1> USE CpuFields, SnpFields DEF MemWrite, MemRequest
<1>3. ASSUME cpu.state = "CPU_READ_MISS_UPDATE_LINE_RESP"
      PROVE  /\ CpuMemRequest \in MemRequest
             /\ CpuMemRequest.index = cpu.addr.index
             /\ CpuMemRequest.tag = cpu.addr.tag
  <2>1. CpuMemRequest = MemWrite(cpu.addr.index, Lane, cpu.line.data, cpu.addr.tag, OnProcessor.next)
    BY <1>3 DEF CpuMemRequest
  <2> QED BY <2>1, <1>2, OnProcessorType DEF MSIState
<1>4. ASSUME cpu.state = "CPU_WRITE_RESP"
      PROVE  /\ CpuMemRequest \in MemRequest
             /\ CpuMemRequest.index = cpu.addr.index
             /\ CpuMemRequest.tag = cpu.addr.tag
  <2>1. CpuMemRequest =
          MemWrite(cpu.addr.index, cpu.wstrb, ApplyWstrb(cpu.line.data, cpu.wdata, cpu.wstrb),
                   cpu.addr.tag, OnProcessor.next)
    BY <1>4 DEF CpuMemRequest
  <2> QED BY <2>1, <1>1, <1>2, OnProcessorType DEF MSIState
<1>5. ASSUME cpu.state = "CPU_FLUSH_INVALIDATE_RESP"
      PROVE  /\ CpuMemRequest \in MemRequest
             /\ CpuMemRequest.index = cpu.addr.index
             /\ CpuMemRequest.state = "I"
  <2>1. CpuMemRequest = MemWrite(cpu.addr.index, Lane, cpu.line.data, cpu.line.tag, "I")
    BY <1>5 DEF CpuMemRequest
  <2> QED BY <2>1, <1>2 DEF MSIState
<1>6. ASSUME snp.state = "SNP_UPDATE_LINE_RESP"
      PROVE  /\ SnpMemRequest \in MemRequest
             /\ SnpMemRequest.index = snp.addr.index
             /\ SnpMemRequest.tag = snp.addr.tag
  <2>1. SnpMemRequest = MemWrite(snp.addr.index, Lane, snp.flush_data, snp.addr.tag, OnSnoop.next)
    BY <1>6 DEF SnpMemRequest
  <2> QED BY <2>1, <1>2, OnSnoopType
<1> QED BY <1>3, <1>4, <1>5, <1>6

\* A write access keeps the memory's type and the addresses of its lines.
LEMMA WriteKeepsLines ==
  ASSUME line \in [Index -> Line],
         \A i \in Index : line[i].state # "I" => [tag |-> line[i].tag, index |-> i] \in Addr,
         NEW a \in Addr, NEW r \in MemRequest, WriteLine(r),
         r.index = a.index, r.tag = a.tag \/ r.state = "I"
  PROVE  /\ line' \in [Index -> Line]
         /\ \A i \in Index : line'[i].state # "I" => [tag |-> line'[i].tag, index |-> i] \in Addr
<1> DEFINE written == [tag |-> r.tag, state |-> r.state,
                       data |-> ApplyWstrb(line[r.index].data, r.data, r.wstrb)]
<1>1. r.index \in Index
  BY AddressFields
<1>2. written \in Line
  <2>1. line[r.index].data \in Word /\ r.data \in Word
    BY <1>1 DEF Line, MemRequest
  <2>2. ApplyWstrb(line[r.index].data, r.data, r.wstrb) \in Word
    BY <2>1, MergedIsWord
  <2> QED BY <2>2 DEF Line, MemRequest
<1>3. line' = [line EXCEPT ![r.index] = written]
  BY DEF WriteLine
<1>4. written.state # "I" => [tag |-> written.tag, index |-> r.index] \in Addr
  BY AddressFields
<1> HIDE DEF written
<1> QED BY <1>1, <1>2, <1>3, <1>4

--------------------------------------------------------------------------------
(* Types. *)

\* The registers and the memory after a reset.
LEMMA ResetTypes ==
  /\ CpuReset \in [state : CpuState, addr : Addr, wstrb : SUBSET Lane, wdata : Word,
                   line : Line, tag_match : BOOLEAN]
  /\ SnpReset \in [state : SnpState, addr : Addr, cmd : SnoopEvent, line_state : MSIState,
                   flush : BOOLEAN, flush_data : Word]
<1> USE ZeroLineIsLine, ZeroWordIsWord, AddrAssumption
<1>1. CpuReset \in [state : CpuState, addr : Addr, wstrb : SUBSET Lane, wdata : Word,
                    line : Line, tag_match : BOOLEAN]
  BY DEF CpuReset, CpuState
<1>2. SnpReset \in [state : SnpState, addr : Addr, cmd : SnoopEvent, line_state : MSIState,
                    flush : BOOLEAN, flush_data : Word]
  BY DEF SnpReset, SnpState, SnoopEvent, MSIState
<1> QED BY <1>1, <1>2

LEMMA ControllerStarts ==
  ASSUME ControllerInit
  PROVE  ControllerTypeOK /\ LinesHaveAddresses /\ PortHolds
<1> USE ZeroLineIsLine, ZeroWordIsWord, AddrAssumption, NoneAssumption DEF ControllerInit
<1>1. ControllerTypeOK
  BY ResetTypes DEF ControllerTypeOK
<1>2. LinesHaveAddresses
  BY DEF LinesHaveAddresses, CpuReset
<1> QED BY <1>1, <1>2 DEF PortHolds

\* The controller's steps keep the types of its registers and wires.
LEMMA ControllerKeepsType ==
  ASSUME ControllerTypeOK, LinesHaveAddresses, PortHolds, ControllerStep
  PROVE  ControllerTypeOK'
<1> USE CpuFields, SnpFields, NoneAssumption
<1> DEFINE CpuType == [state : CpuState, addr : Addr, wstrb : SUBSET Lane, wdata : Word,
                       line : Line, tag_match : BOOLEAN]
           SnpType == [state : SnpState, addr : Addr, cmd : SnoopEvent, line_state : MSIState,
                       flush : BOOLEAN, flush_data : Word]
<1>t. cpu \in CpuType /\ snp \in SnpType
  BY DEF ControllerTypeOK
<1>w. ASSUME NEW r \in MemRequest, NEW a \in Addr, WriteLine(r), r.index = a.index,
             r.tag = a.tag \/ r.state = "I"
      PROVE  line' \in [Index -> Line]
  BY <1>w, WriteKeepsLines DEF ControllerTypeOK, LinesHaveAddresses
<1>l. line[cpu.addr.index] \in Line /\ line[snp.addr.index] \in Line
  BY AddressFields DEF ControllerTypeOK
<1>p. ASSUME NEW p \in {0, 1}, Respond(p) PROVE port' \in [owner : {0, 1, None}, last_grant : {0, 1}]
  BY <1>p DEF Respond, ControllerTypeOK
<1>r. CpuReset \in CpuType
  BY ZeroLineIsLine, ZeroWordIsWord, AddrAssumption DEF CpuReset, CpuState
<1>g. ASSUME NEW q \in CpuState, CpuGoto(q)
      PROVE  cpu' \in CpuType
  BY <1>g DEF CpuGoto, ControllerTypeOK
<1>s. ASSUME NEW i \in {0, 1}, SendToDirectory(i)
      PROVE  /\ arb_state' = "IDLE" /\ arb_rr' = arb_rr /\ arb_cache' = None
             /\ sent' \in Message
  <2>1. arb_cache # None /\ arb_state' = "IDLE" /\ arb_rr' = arb_rr /\ arb_cache' = None
    BY <1>s DEF SendToDirectory, Outbound!Handshake
  <2>2. arb_cache \in Message
    BY <2>1 DEF ControllerTypeOK
  <2> QED BY <1>s, <2>1, <2>2, PacketIsMessage DEF SendToDirectory
<1>1. CASE AcceptAccess
  <2>1. mem.addr \in Addr /\ mem.wstrb \in SUBSET Lane /\ mem.wdata \in Word
    BY <1>1 DEF AcceptAccess, ControllerTypeOK, Access
  <2>2. cpu' \in CpuType
    BY <1>1, <1>t, <2>1 DEF AcceptAccess, CpuState
  <2> QED BY <1>1, <2>2 DEF AcceptAccess, CpuElse, arbVars, ControllerTypeOK
<1>2. CASE AcceptFlush
  <2>1. flush \in Addr
    BY <1>2 DEF AcceptFlush, ControllerTypeOK
  <2>2. cpu' \in CpuType
    BY <1>2, <1>t, <2>1 DEF AcceptFlush, CpuState
  <2> QED BY <1>2, <2>2 DEF AcceptFlush, CpuElse, arbVars, ControllerTypeOK
<1>3. CASE FetchLineResp
  <2>1. cpu' \in CpuType
    BY <1>3, <1>t, <1>l DEF FetchLineResp, CpuState
  <2> QED BY <1>3, <1>p, <2>1 DEF FetchLineResp, CpuElse, arbVars, ControllerTypeOK
<1>4. CASE EvictSent
  <2>1. AfterEvict \in CpuState
    BY DEF AfterEvict, CpuState
  <2> QED BY <1>4, <2>1, <1>g, <1>s DEF EvictSent, ControllerTypeOK
<1>5. CASE EvictAck
  BY <1>5, <1>g DEF EvictAck, CpuElse, arbVars, ControllerTypeOK, CpuState
<1>6. CASE TagMatch
  BY <1>6, <1>g DEF TagMatch, CpuElse, arbVars, ControllerTypeOK, CpuState
<1>7. CASE MissSent
  BY <1>7, <1>g, <1>s DEF MissSent, ControllerTypeOK, CpuState
<1>8. CASE MissAck
  <2>1. bus.data \in Word
    BY <1>8 DEF MissAck, ControllerTypeOK, Answer
  <2>2. \A word \in Word : [cpu.line EXCEPT !.data = word] \in Line
    BY DEF Line
  <2>3. cpu' \in CpuType
    BY <1>8, <1>t, <2>1, <2>2 DEF MissAck, CpuState
  <2> QED BY <1>8, <2>3 DEF MissAck, CpuElse, arbVars, ControllerTypeOK
<1>9. CASE ReadMissUpdateLineResp
  <2>1. line' \in [Index -> Line]
    BY <1>9, <1>w, MemRequests DEF ReadMissUpdateLineResp
  <2> QED BY <1>9, <2>1, <1>g, <1>p
          DEF ReadMissUpdateLineResp, CpuElse, arbVars, ControllerTypeOK, CpuState
<1>10. CASE ReadResp
  BY <1>10, <1>r, <1>p DEF ReadResp, CpuDone, CpuElse, arbVars, ControllerTypeOK
<1>11. CASE WriteResp
  <2>1. line' \in [Index -> Line]
    BY <1>11, <1>w, MemRequests DEF WriteResp
  <2> QED BY <1>11, <2>1, <1>r, <1>p DEF WriteResp, CpuDone, CpuElse, arbVars, ControllerTypeOK
<1>12. CASE FlushLookupResp
  <2>1. cpu' \in CpuType
    BY <1>12, <1>l, <1>r DEF FlushLookupResp, CpuDone, ControllerTypeOK, CpuState
  <2>2. flush' \in Addr \cup {None}
    BY <1>12 DEF FlushLookupResp, ControllerTypeOK
  <2> QED BY <1>12, <2>1, <2>2, <1>p DEF FlushLookupResp, CpuElse, arbVars, ControllerTypeOK
<1>13. CASE FlushInvalidateResp
  <2>1. line' \in [Index -> Line]
    BY <1>13, <1>w, MemRequests DEF FlushInvalidateResp
  <2> QED BY <1>13, <2>1, <1>r, <1>p
          DEF FlushInvalidateResp, CpuDone, CpuElse, arbVars, ControllerTypeOK
<1>14. CASE AcceptSnoop
  <2>1. snoop.addr \in Addr /\ snoop.cmd \in SnoopEvent
    BY <1>14 DEF AcceptSnoop, ControllerTypeOK, Snoop
  <2>2. snp' \in SnpType
    BY <1>14, <1>t, <2>1 DEF AcceptSnoop, SnpState
  <2> QED BY <1>14, <2>2 DEF AcceptSnoop, SnpElse, arbVars, ControllerTypeOK
<1>15. CASE SnpFetchLineResp
  BY <1>15, <1>l, <1>p DEF SnpFetchLineResp, SnpElse, arbVars, ControllerTypeOK, SnpState, Line, GhostFlush
<1>16. CASE OnSnoopEventStep
  <2>1. snp' \in SnpType
    BY <1>16, <1>t, OnSnoopType DEF OnSnoopEventStep, SnpState
  <2> QED BY <1>16, <2>1 DEF OnSnoopEventStep, SnpElse, arbVars, ControllerTypeOK
<1>17. CASE SnpUpdateLineResp
  <2>1. line' \in [Index -> Line]
    BY <1>17, <1>w, MemRequests DEF SnpUpdateLineResp
  <2> QED BY <1>17, <2>1, <1>p
          DEF SnpUpdateLineResp, SnpGoto, SnpElse, arbVars, ControllerTypeOK, SnpState
<1>18. CASE SnoopAckSent
  <2>1. SnpReset.cmd \in SnoopEvent /\ SnpReset.line_state \in MSIState
    BY DEF SnpReset, SnoopEvent, MSIState
  <2>2. snp' \in SnpType
    BY <1>18, <2>1, AddrAssumption DEF SnoopAckSent, SnpReset, SnpState
  <2> QED BY <1>18, <2>2, <1>s DEF SnoopAckSent, SnpElse, ControllerTypeOK
<1>19. ASSUME NEW p \in {0, 1}, GrantPort(p) PROVE ControllerTypeOK'
  <2>1. WantsPort(p)
    BY <1>19 DEF GrantPort, PortGrantable
  <2>2. p = 0 => CpuAccessState[cpu.state] \in CpuState
    BY <2>1 DEF WantsPort, CpuAccessState, CpuState
  <2>3. p = 1 => SnpAccessState[snp.state] \in SnpState
    BY <2>1 DEF WantsPort, SnpAccessState, SnpState
  <2> QED BY <1>19, <2>2, <2>3 DEF GrantPort, arbVars, ControllerTypeOK
<1>20. ASSUME NEW i \in {0, 1}, GrantOutbound(i) PROVE ControllerTypeOK'
  <2>1. /\ arb_state' \in {"GRANT_0", "GRANT_1"} /\ arb_rr' = 1 - i
        /\ arb_cache' = IF i = 0 THEN CpuRequest ELSE SnpRequest
    BY <1>20 DEF GrantOutbound, Outbound!Grant, Outbound!GrantState, Outbound!Master
  <2> QED BY <1>20, <2>1, RequestsAreMessages DEF GrantOutbound, ControllerTypeOK
<1> QED
  BY <1>1, <1>2, <1>3, <1>4, <1>5, <1>6, <1>7, <1>8, <1>9, <1>10, <1>11, <1>12, <1>13, <1>14,
     <1>15, <1>16, <1>17, <1>18, <1>19, <1>20
  DEF ControllerStep, CpuStep, SnpStep, PortStep, ArbiterStep

--------------------------------------------------------------------------------
(* Lines and port. *)

\* Every valid line keeps an address.
LEMMA ControllerKeepsLines ==
  ASSUME ControllerTypeOK, LinesHaveAddresses, ControllerStep
  PROVE  LinesHaveAddresses'
<1> DEFINE Addressed == \A i \in Index : line[i].state # "I" => [tag |-> line[i].tag, index |-> i] \in Addr
           Fetched == /\ cpu.line.state # "I" => [tag |-> cpu.line.tag, index |-> cpu.addr.index] \in Addr
                      /\ cpu.state = "CPU_IDLE" => cpu.line.state = "I"
                      /\ cpu.state \in {"CPU_TAG_MISS", "CPU_FLUSH_EVICT"} => cpu.line.state # "I"
<1>0. Addressed /\ Fetched
  BY DEF LinesHaveAddresses
<1>t. /\ cpu \in [state : CpuState, addr : Addr, wstrb : SUBSET Lane, wdata : Word,
                  line : Line, tag_match : BOOLEAN]
      /\ cpu.addr.index \in Index
  BY CpuFields, AddressFields DEF ControllerTypeOK
<1>s. Addressed' /\ Fetched' => LinesHaveAddresses'
  BY DEF LinesHaveAddresses
<1>l. UNCHANGED line => Addressed'
  BY <1>0
<1>c. UNCHANGED cpu => Fetched'
  BY <1>0
<1>r. cpu' = CpuReset => Fetched'
  BY ZeroLineIsLine DEF CpuReset
<1>g. ASSUME NEW q \in CpuState \ {"CPU_IDLE", "CPU_TAG_MISS", "CPU_FLUSH_EVICT"}, CpuGoto(q)
      PROVE  Fetched'
  BY <1>g, <1>0, <1>t DEF CpuGoto
<1>w. ASSUME NEW r \in MemRequest, NEW a \in Addr, WriteLine(r), r.index = a.index,
             r.tag = a.tag \/ r.state = "I"
      PROVE  Addressed'
  BY <1>w, <1>0, WriteKeepsLines DEF ControllerTypeOK
<1> HIDE DEF Addressed, Fetched
<1> USE <1>0, <1>s
<1>1. CASE AcceptAccess
  <2>1. Fetched'
    BY <1>1, <1>t DEF AcceptAccess, Fetched
  <2> QED BY <1>1, <1>l, <2>1 DEF AcceptAccess
<1>2. CASE AcceptFlush
  <2>1. Fetched'
    BY <1>2, <1>t DEF AcceptFlush, Fetched
  <2> QED BY <1>2, <1>l, <2>1 DEF AcceptFlush
<1>3. CASE FetchLineResp
  <2>1. Fetched'
    BY <1>3, <1>t DEF FetchLineResp, Fetched, Addressed
  <2> QED BY <1>3, <1>l, <2>1 DEF FetchLineResp
<1>4. CASE EvictSent
  <2>1. AfterEvict \in CpuState \ {"CPU_IDLE", "CPU_TAG_MISS", "CPU_FLUSH_EVICT"}
    BY DEF AfterEvict, CpuState
  <2> QED BY <1>4, <1>l, <1>g, <2>1 DEF EvictSent
<1>5. CASE EvictAck
  BY <1>5, <1>l, <1>g DEF EvictAck, CpuState
<1>6. CASE TagMatch
  BY <1>6, <1>l, <1>g DEF TagMatch, CpuState
<1>7. CASE MissSent
  BY <1>7, <1>l, <1>g DEF MissSent, CpuState
<1>8. CASE MissAck
  <2>1. Fetched'
    BY <1>8, <1>t DEF MissAck, Fetched, Line
  <2> QED BY <1>8, <1>l, <2>1 DEF MissAck
<1>9. CASE ReadMissUpdateLineResp
  <2>1. Addressed'
    BY <1>9, <1>w, MemRequests, CpuFields DEF ReadMissUpdateLineResp
  <2> QED BY <1>9, <1>g, <2>1 DEF ReadMissUpdateLineResp, CpuState
<1>10. CASE ReadResp
  BY <1>10, <1>l, <1>r DEF ReadResp, CpuDone
<1>11. CASE WriteResp
  <2>1. Addressed'
    BY <1>11, <1>w, MemRequests, CpuFields DEF WriteResp
  <2> QED BY <1>11, <1>r, <2>1 DEF WriteResp, CpuDone
<1>12. CASE FlushLookupResp
  <2>1. Fetched'
    BY <1>12, <1>t, <1>r DEF FlushLookupResp, CpuDone, Fetched, Addressed
  <2> QED BY <1>12, <1>l, <2>1 DEF FlushLookupResp
<1>13. CASE FlushInvalidateResp
  <2>1. Addressed'
    BY <1>13, <1>w, MemRequests, CpuFields DEF FlushInvalidateResp
  <2> QED BY <1>13, <1>r, <2>1 DEF FlushInvalidateResp, CpuDone
<1>14. CASE AcceptSnoop \/ SnpFetchLineResp \/ OnSnoopEventStep \/ SnoopAckSent
  BY <1>14, <1>l, <1>c
  DEF AcceptSnoop, SnpFetchLineResp, OnSnoopEventStep, SnoopAckSent, SnpElse
<1>15. CASE SnpUpdateLineResp
  <2>1. Addressed'
    BY <1>15, <1>w, MemRequests, SnpFields DEF SnpUpdateLineResp
  <2> QED BY <1>15, <1>c, <2>1 DEF SnpUpdateLineResp, SnpElse
<1>16. ASSUME NEW p \in {0, 1}, GrantPort(p) PROVE LinesHaveAddresses'
  <2>1. cpu.state \in DOMAIN CpuAccessState =>
          CpuAccessState[cpu.state] \in CpuState \ {"CPU_IDLE", "CPU_TAG_MISS", "CPU_FLUSH_EVICT"}
    BY DEF CpuAccessState, CpuState
  <2>2. CASE p = 0
    BY <1>16, <1>l, <1>g, <2>1, <2>2 DEF GrantPort, PortGrantable, WantsPort, CpuGoto
  <2>3. CASE p = 1
    BY <1>16, <1>l, <1>c, <2>3 DEF GrantPort
  <2> QED BY <2>2, <2>3
<1>17. ASSUME NEW i \in {0, 1}, GrantOutbound(i) PROVE LinesHaveAddresses'
  BY <1>17, <1>l, <1>c DEF GrantOutbound
<1> QED
  BY <1>1, <1>2, <1>3, <1>4, <1>5, <1>6, <1>7, <1>8, <1>9, <1>10, <1>11, <1>12, <1>13, <1>14,
     <1>15, <1>16, <1>17
  DEF ControllerStep, CpuStep, SnpStep, PortStep, ArbiterStep

\* A step takes the outgoing port as its arbiter does, or leaves it alone while
\* one machine, which asked for nothing, may ask for something.
LEMMA PortUse ==
  ASSUME ControllerTypeOK, LinesHaveAddresses, ControllerStep
  PROVE  \/ \E i \in {0, 1} : Outbound!Handshake(i) \/ Outbound!Grant(i)
         \/ UNCHANGED <<arbVars, snp>> /\ (UNCHANGED cpu \/ CpuRequest = None)
         \/ UNCHANGED <<arbVars, cpu>> /\ (UNCHANGED snp \/ SnpRequest = None)
<1>1. CASE EvictSent \/ MissSent \/ SnoopAckSent \/ ArbiterStep
  <2>1. \E i \in {0, 1} : Outbound!Handshake(i) \/ Outbound!Grant(i)
    BY <1>1 DEF EvictSent, MissSent, SnoopAckSent, SendToDirectory, ArbiterStep, GrantOutbound
  <2> QED BY <2>1
<1>2. CASE \/ AcceptAccess \/ AcceptFlush \/ FetchLineResp \/ EvictAck \/ TagMatch \/ MissAck
           \/ ReadMissUpdateLineResp \/ ReadResp \/ WriteResp \/ FlushLookupResp
           \/ FlushInvalidateResp
  <2>1. CpuRequest = None
    BY <1>2, RequestsAreMessages
    DEF AcceptAccess, AcceptFlush, FetchLineResp, EvictAck, TagMatch, MissAck,
        ReadMissUpdateLineResp, ReadResp, WriteResp, FlushLookupResp, FlushInvalidateResp
  <2>2. UNCHANGED snp /\ UNCHANGED arbVars
    BY <1>2
    DEF AcceptAccess, AcceptFlush, FetchLineResp, EvictAck, TagMatch, MissAck,
        ReadMissUpdateLineResp, ReadResp, WriteResp, FlushLookupResp, FlushInvalidateResp, CpuElse
  <2> QED BY <2>1, <2>2
<1>3. CASE AcceptSnoop \/ SnpFetchLineResp \/ OnSnoopEventStep \/ SnpUpdateLineResp
  <2>1. SnpRequest = None /\ UNCHANGED cpu /\ UNCHANGED arbVars
    BY <1>3 DEF AcceptSnoop, SnpFetchLineResp, OnSnoopEventStep, SnpUpdateLineResp, SnpElse, SnpRequest
  <2> QED BY <2>1
<1>4. ASSUME NEW p \in {0, 1}, GrantPort(p)
      PROVE  \/ UNCHANGED <<arbVars, snp>> /\ CpuRequest = None
             \/ UNCHANGED <<arbVars, cpu>> /\ SnpRequest = None
  <2>1. UNCHANGED arbVars /\ (UNCHANGED cpu \/ p = 0) /\ (UNCHANGED snp \/ p = 1)
    BY <1>4 DEF GrantPort
  <2>2. p = 0 => UNCHANGED snp /\ CpuRequest = None
    BY <1>4, RequestsAreMessages DEF GrantPort, PortGrantable, WantsPort, CpuAccessState
  <2>3. p = 1 => UNCHANGED cpu /\ SnpRequest = None
    BY <1>4, RequestsAreMessages DEF GrantPort, PortGrantable, WantsPort, SnpAccessState
  <2> QED BY <2>1, <2>2, <2>3
<1> QED
  BY <1>1, <1>2, <1>3, <1>4 DEF ControllerStep, CpuStep, SnpStep, PortStep

LEMMA RequestsUnchanged ==
  /\ UNCHANGED cpu => UNCHANGED CpuRequest
  /\ UNCHANGED snp => UNCHANGED SnpRequest
BY DEF CpuRequest, EvictRequest, MissRequest, OnProcessor, SnpRequest

\* A machine asks for nothing else until its request has gone out.
LEMMA ControllerKeepsPort ==
  ASSUME ControllerTypeOK, LinesHaveAddresses, PortHolds, ControllerStep
  PROVE  PortHolds'
<1>1. ASSUME UNCHANGED arbVars,
             UNCHANGED cpu \/ CpuRequest = None,
             UNCHANGED snp \/ SnpRequest = None
      PROVE  PortHolds'
  BY <1>1, RequestsUnchanged DEF PortHolds, arbVars
<1>2. ASSUME NEW i \in {0, 1}, Outbound!Handshake(i) PROVE PortHolds'
  BY <1>2 DEF Outbound!Handshake, PortHolds
<1>3. ASSUME NEW i \in {0, 1}, Outbound!Grant(i) PROVE PortHolds'
  <2> DEFINE masters == [j \in {0, 1} |-> IF j = 0 THEN CpuRequest ELSE SnpRequest]
  <2>1. /\ arb_state' = IF i = 0 THEN "GRANT_0" ELSE "GRANT_1"
        /\ arb_cache' = masters[i] /\ masters[i] # None /\ masters' = masters
    BY <1>3 DEF Outbound!Grant, Outbound!GrantState, Outbound!Master, Outbound!Chosen,
                Outbound!Asks
  <2>2. masters'[i] = masters[i]
    BY <2>1
  <2> QED BY <2>1, <2>2 DEF PortHolds
<1> QED BY <1>1, <1>2, <1>3, PortUse

--------------------------------------------------------------------------------
(* What the actions do to the registers, field by field. *)

\* The CPU machine moves on with the access, the line and the decision it has.
SameDecision ==
  /\ cpu'.addr = cpu.addr /\ cpu'.wstrb = cpu.wstrb /\ cpu'.wdata = cpu.wdata
  /\ cpu'.line = cpu.line /\ cpu'.tag_match = cpu.tag_match
  /\ OnProcessor' = OnProcessor

LEMMA GotoFields ==
  ASSUME ControllerTypeOK, NEW q, CpuGoto(q)
  PROVE  cpu'.state = q /\ SameDecision
BY DEF ControllerTypeOK, CpuGoto, SameDecision, OnProcessor

LEMMA ResetFields ==
  ASSUME cpu' = CpuReset
  PROVE  cpu'.state = "CPU_IDLE" /\ cpu'.tag_match /\ cpu'.wstrb = {} /\ cpu'.line = ZeroLine
BY DEF CpuReset

LEMMA GrantFields ==
  ASSUME ControllerTypeOK, GrantPort(0)
  PROVE  /\ UNCHANGED <<snp, line, mem, flush, bus, snoop, sent>> /\ SameDecision
         /\ \/ cpu.state = "CPU_FETCH_LINE_REQ" /\ cpu'.state = "CPU_FETCH_LINE_RESP"
            \/ cpu.state = "CPU_READ_MISS_UPDATE_LINE_REQ" /\ cpu'.state = "CPU_READ_MISS_UPDATE_LINE_RESP"
            \/ cpu.state = "CPU_READ_REQ" /\ cpu'.state = "CPU_READ_RESP"
            \/ cpu.state = "CPU_WRITE_REQ" /\ cpu'.state = "CPU_WRITE_RESP"
            \/ cpu.state = "CPU_FLUSH_LOOKUP_REQ" /\ cpu'.state = "CPU_FLUSH_LOOKUP_RESP"
            \/ cpu.state = "CPU_FLUSH_INVALIDATE_REQ" /\ cpu'.state = "CPU_FLUSH_INVALIDATE_RESP"
<1>1. /\ UNCHANGED <<snp, line, mem, flush, bus, snoop, sent>>
      /\ CpuGoto(CpuAccessState[cpu.state]) /\ cpu.state \in DOMAIN CpuAccessState
  BY DEF GrantPort, PortGrantable, WantsPort, CpuGoto
<1>2. cpu'.state = CpuAccessState[cpu.state] /\ SameDecision
  BY <1>1, GotoFields
<1> QED BY <1>1, <1>2 DEF CpuAccessState

LEMMA GrantSnpFields ==
  ASSUME ControllerTypeOK, GrantPort(1)
  PROVE  /\ UNCHANGED <<cpu, line, mem, flush, bus, snoop, sent>>
         /\ snp'.addr = snp.addr /\ snp'.cmd = snp.cmd /\ snp'.line_state = snp.line_state
         /\ snp'.flush = snp.flush /\ snp'.flush_data = snp.flush_data
         /\ \/ snp.state = "SNP_FETCH_LINE_REQ" /\ snp'.state = "SNP_FETCH_LINE_RESP"
            \/ snp.state = "SNP_UPDATE_LINE_REQ" /\ snp'.state = "SNP_UPDATE_LINE_RESP"
BY DEF GrantPort, PortGrantable, WantsPort, SnpAccessState, ControllerTypeOK

LEMMA AcceptAccessFields ==
  ASSUME ControllerTypeOK, AcceptAccess
  PROVE  /\ UNCHANGED <<snp, line, mem, flush, bus, snoop, sent>>
         /\ cpu.state = "CPU_IDLE" /\ mem # None /\ cpu'.state = "CPU_FETCH_LINE_REQ"
         /\ cpu'.addr = mem.addr /\ cpu'.wstrb = mem.wstrb /\ cpu'.wdata = mem.wdata
         /\ cpu'.line = cpu.line /\ cpu'.tag_match = cpu.tag_match
BY DEF AcceptAccess, CpuElse, ControllerTypeOK

LEMMA AcceptFlushFields ==
  ASSUME ControllerTypeOK, AcceptFlush
  PROVE  /\ UNCHANGED <<snp, line, mem, flush, bus, snoop, sent>>
         /\ cpu.state = "CPU_IDLE" /\ flush # None /\ cpu'.state = "CPU_FLUSH_LOOKUP_REQ"
         /\ cpu'.addr = flush /\ cpu'.wstrb = cpu.wstrb
         /\ cpu'.line = cpu.line /\ cpu'.tag_match = cpu.tag_match
BY DEF AcceptFlush, CpuElse, ControllerTypeOK

LEMMA FetchLineRespFields ==
  ASSUME ControllerTypeOK, FetchLineResp
  PROVE  /\ UNCHANGED <<snp, line, mem, flush, bus, snoop, sent>>
         /\ cpu.state = "CPU_FETCH_LINE_RESP"
         /\ cpu'.addr = cpu.addr /\ cpu'.wstrb = cpu.wstrb /\ cpu'.wdata = cpu.wdata
         /\ cpu'.line = line[cpu.addr.index]
         /\ \/ /\ cpu'.line.tag # cpu.addr.tag /\ cpu'.line.state # "I"
               /\ cpu'.state = "CPU_TAG_MISS" /\ ~cpu'.tag_match
            \/ /\ cpu'.line.tag = cpu.addr.tag \/ cpu'.line.state = "I"
               /\ cpu'.state = "CPU_TAG_MATCH" /\ cpu'.tag_match = cpu.tag_match
BY DEF FetchLineResp, CpuElse, ControllerTypeOK

\* A message of the CPU machine has gone out.
LEMMA SentFields ==
  ASSUME ControllerTypeOK, LinesHaveAddresses, PortHolds, SendToDirectory(0)
  PROVE  /\ sent = None /\ sent' = Packet(CpuRequest) /\ sent' # None
         /\ ~sent'.snoop /\ sent'.cmd = CpuRequest.cmd /\ sent'.addr = CpuRequest.addr
<1>1. arb_cache # None /\ arb_cache = CpuRequest /\ sent = None /\ sent' = Packet(arb_cache)
  BY DEF SendToDirectory, Outbound!Handshake, Outbound!GrantState, Outbound!Master, PortHolds
<1>2. CpuRequest \in Message /\ ~CpuRequest.snoop
  BY <1>1, RequestsAreMessages
<1> QED BY <1>1, <1>2, PacketIsMessage, NoneAssumption

LEMMA EvictSentFields ==
  ASSUME ControllerTypeOK, LinesHaveAddresses, PortHolds, EvictSent
  PROVE  /\ UNCHANGED <<snp, line, mem, flush, bus, snoop>> /\ SameDecision
         /\ sent = None /\ sent' # None /\ ~sent'.snoop
         /\ sent'.addr = [tag |-> cpu.line.tag, index |-> cpu.addr.index]
         /\ sent'.cmd = EvictCmdOf(cpu.line.state)
         /\ sent'.cmd = "EVICT_DIRTY" => sent'.data = cpu.line.data
         /\ sent' = Packet(EvictRequest)
         /\ cpu'.state = AfterEvict
         /\ cpu.state \in {"CPU_TAG_MISS", "CPU_FLUSH_EVICT"}
<1>1. /\ UNCHANGED <<snp, line, mem, flush, bus, snoop>> /\ SendToDirectory(0)
      /\ CpuGoto(AfterEvict) /\ cpu.state \in {"CPU_TAG_MISS", "CPU_FLUSH_EVICT"}
  BY DEF EvictSent
<1>2. cpu'.state = AfterEvict /\ SameDecision
  BY <1>1, GotoFields
<1>3. CpuRequest = EvictRequest
  BY <1>1 DEF CpuRequest
<1>4. /\ EvictRequest.addr = [tag |-> cpu.line.tag, index |-> cpu.addr.index]
      /\ EvictRequest.cmd = EvictCmdOf(cpu.line.state) /\ EvictRequest.data = cpu.line.data
  BY DEF EvictRequest
<1>5. EvictRequest.cmd = "EVICT_DIRTY" => Packet(EvictRequest) = EvictRequest
  BY DEF Packet
<1> QED BY <1>1, <1>2, <1>3, <1>4, <1>5, SentFields

LEMMA MissSentFields ==
  ASSUME ControllerTypeOK, LinesHaveAddresses, PortHolds, MissSent
  PROVE  /\ UNCHANGED <<snp, line, mem, flush, bus, snoop>> /\ SameDecision
         /\ sent = None /\ sent' # None /\ ~sent'.snoop
         /\ sent'.addr = cpu.addr /\ sent'.cmd = OnProcessor.cmd
         /\ sent' = Packet(MissRequest)
         /\ \/ cpu.state = "CPU_READ_MISS" /\ cpu'.state = "CPU_READ_MISS_ACK"
            \/ cpu.state = "CPU_WRITE_MISS" /\ cpu'.state = "CPU_WRITE_MISS_ACK"
<1>1. /\ UNCHANGED <<snp, line, mem, flush, bus, snoop>> /\ SendToDirectory(0)
      /\ CpuGoto(IF cpu.state = "CPU_READ_MISS" THEN "CPU_READ_MISS_ACK" ELSE "CPU_WRITE_MISS_ACK")
      /\ cpu.state \in {"CPU_READ_MISS", "CPU_WRITE_MISS"}
  BY DEF MissSent
<1>2. /\ cpu'.state = IF cpu.state = "CPU_READ_MISS" THEN "CPU_READ_MISS_ACK" ELSE "CPU_WRITE_MISS_ACK"
      /\ SameDecision
  BY <1>1, GotoFields
<1>3. CpuRequest = MissRequest /\ CpuRequest.addr = cpu.addr /\ CpuRequest.cmd = OnProcessor.cmd
  BY <1>1 DEF CpuRequest, MissRequest
<1> QED BY <1>1, <1>2, <1>3, SentFields

LEMMA EvictAckFields ==
  ASSUME ControllerTypeOK, EvictAck
  PROVE  /\ UNCHANGED <<snp, line, mem, flush, snoop, sent>> /\ SameDecision
         /\ bus # None /\ bus.cmd = "EVICT_DIRTY" /\ bus' = None
         /\ \/ cpu.state = "CPU_EVICT_DIRTY_ACK" /\ cpu'.state = "CPU_TAG_MATCH"
            \/ cpu.state = "CPU_FLUSH_EVICT_ACK" /\ cpu'.state = "CPU_FLUSH_INVALIDATE_REQ"
BY GotoFields DEF EvictAck, CpuElse

LEMMA TagMatchFields ==
  ASSUME ControllerTypeOK, TagMatch
  PROVE  /\ UNCHANGED <<snp, line, mem, flush, bus, snoop, sent>> /\ SameDecision
         /\ cpu.state = "CPU_TAG_MATCH"
         /\ \/ cpu.wstrb = {} /\ OnProcessor.cmd # "NULL" /\ cpu'.state = "CPU_READ_MISS"
            \/ cpu.wstrb = {} /\ OnProcessor.cmd = "NULL" /\ cpu'.state = "CPU_READ_REQ"
            \/ cpu.wstrb # {} /\ OnProcessor.cmd # "NULL" /\ cpu'.state = "CPU_WRITE_MISS"
            \/ cpu.wstrb # {} /\ OnProcessor.cmd = "NULL" /\ cpu'.state = "CPU_WRITE_REQ"
<1>1. /\ UNCHANGED <<snp, line, mem, flush, bus, snoop, sent>> /\ cpu.state = "CPU_TAG_MATCH"
      /\ CpuGoto(CASE cpu.wstrb = {} /\ OnProcessor.cmd # "NULL" -> "CPU_READ_MISS"
                   [] cpu.wstrb = {} /\ OnProcessor.cmd = "NULL" -> "CPU_READ_REQ"
                   [] cpu.wstrb # {} /\ OnProcessor.cmd # "NULL" -> "CPU_WRITE_MISS"
                   [] OTHER -> "CPU_WRITE_REQ")
  BY DEF TagMatch, CpuElse
<1> QED BY <1>1, GotoFields

LEMMA MissAckFields ==
  ASSUME ControllerTypeOK, MissAck
  PROVE  /\ UNCHANGED <<snp, line, mem, flush, snoop, sent>>
         /\ bus # None /\ bus' = None
         /\ cpu'.addr = cpu.addr /\ cpu'.wstrb = cpu.wstrb /\ cpu'.wdata = cpu.wdata
         /\ cpu'.tag_match = cpu.tag_match
         /\ cpu'.line.tag = cpu.line.tag /\ cpu'.line.state = cpu.line.state
         /\ bus.cmd = "BUS_RD" => cpu'.line.data = bus.data
         /\ OnProcessor' = OnProcessor
         /\ \/ cpu.state = "CPU_READ_MISS_ACK" /\ cpu'.state = "CPU_READ_MISS_UPDATE_LINE_REQ"
            \/ cpu.state = "CPU_WRITE_MISS_ACK" /\ cpu'.state = "CPU_WRITE_REQ"
<1> DEFINE q == IF cpu.state = "CPU_READ_MISS_ACK" THEN "CPU_READ_MISS_UPDATE_LINE_REQ"
                                                   ELSE "CPU_WRITE_REQ"
           word == IF bus.cmd \in {"BUS_RD", "BUS_RDX"} THEN bus.data ELSE cpu.line.data
<1>1. /\ UNCHANGED <<snp, line, mem, flush, snoop, sent>>
      /\ bus # None /\ bus' = None /\ cpu.state \in {"CPU_READ_MISS_ACK", "CPU_WRITE_MISS_ACK"}
      /\ cpu' = [cpu EXCEPT !.state = q, !.line.data = word]
  BY DEF MissAck, CpuElse
<1>2. cpu \in [state : CpuState, addr : Addr, wstrb : SUBSET Lane, wdata : Word,
               line : Line, tag_match : BOOLEAN]
  BY DEF ControllerTypeOK
<1>3. /\ cpu'.addr = cpu.addr /\ cpu'.wstrb = cpu.wstrb /\ cpu'.wdata = cpu.wdata
      /\ cpu'.tag_match = cpu.tag_match /\ cpu'.state = q
      /\ cpu'.line.tag = cpu.line.tag /\ cpu'.line.state = cpu.line.state /\ cpu'.line.data = word
  BY <1>1, <1>2 DEF Line
<1>4. OnProcessor' = OnProcessor
  BY <1>3 DEF OnProcessor
<1> QED BY <1>1, <1>3, <1>4

\* A write access changes one line, as its request says.
OnlyLine(i) == \A j \in Index : j # i => line'[j] = line[j]

LEMMA WriteFields ==
  ASSUME line \in [Index -> Line], NEW r \in MemRequest, WriteLine(r)
  PROVE  /\ OnlyLine(r.index)
         /\ line'[r.index].tag = r.tag /\ line'[r.index].state = r.state
         /\ r.wstrb = Lane => line'[r.index].data = r.data
<1>1. r.index \in Index /\ r.data \in Word
  BY DEF MemRequest
<1>2. line' = [line EXCEPT ![r.index] =
                 [tag |-> r.tag, state |-> r.state,
                  data |-> ApplyWstrb(line[r.index].data, r.data, r.wstrb)]]
  BY DEF WriteLine
<1>3. r.wstrb = Lane => ApplyWstrb(line[r.index].data, r.data, r.wstrb) = r.data
  BY <1>1 DEF ApplyWstrb, Word
<1> QED BY <1>1, <1>2, <1>3 DEF OnlyLine

LEMMA ReadMissUpdateFields ==
  ASSUME ControllerTypeOK, ReadMissUpdateLineResp
  PROVE  /\ UNCHANGED <<snp, mem, flush, bus, snoop, sent>> /\ SameDecision
         /\ cpu.state = "CPU_READ_MISS_UPDATE_LINE_RESP" /\ cpu'.state = "CPU_READ_REQ"
         /\ OnlyLine(cpu.addr.index)
         /\ line'[cpu.addr.index].tag = cpu.addr.tag
         /\ line'[cpu.addr.index].state = OnProcessor.next
         /\ line'[cpu.addr.index].data = cpu.line.data
<1>1. /\ UNCHANGED <<snp, mem, flush, bus, snoop, sent>> /\ CpuGoto("CPU_READ_REQ")
      /\ cpu.state = "CPU_READ_MISS_UPDATE_LINE_RESP" /\ WriteLine(CpuMemRequest)
  BY DEF ReadMissUpdateLineResp, CpuElse
<1>2. CpuMemRequest = MemWrite(cpu.addr.index, Lane, cpu.line.data, cpu.addr.tag, OnProcessor.next)
  BY <1>1 DEF CpuMemRequest
<1>3. CpuMemRequest \in MemRequest
  BY <1>1, MemRequests
<1>4. line \in [Index -> Line]
  BY DEF ControllerTypeOK
<1>5. /\ CpuMemRequest.index = cpu.addr.index /\ CpuMemRequest.tag = cpu.addr.tag
      /\ CpuMemRequest.state = OnProcessor.next /\ CpuMemRequest.data = cpu.line.data
      /\ CpuMemRequest.wstrb = Lane
  BY <1>2 DEF MemWrite
<1>6. /\ OnlyLine(CpuMemRequest.index)
      /\ line'[CpuMemRequest.index].tag = CpuMemRequest.tag
      /\ line'[CpuMemRequest.index].state = CpuMemRequest.state
      /\ CpuMemRequest.wstrb = Lane => line'[CpuMemRequest.index].data = CpuMemRequest.data
  BY <1>1, <1>3, <1>4, WriteFields
<1> QED BY <1>1, <1>5, <1>6, GotoFields

LEMMA ReadRespFields ==
  ASSUME ControllerTypeOK, ReadResp
  PROVE  /\ UNCHANGED <<snp, line, flush, bus, snoop, sent>> /\ mem' = None
         /\ cpu.state = "CPU_READ_RESP" /\ cpu' = CpuReset
BY DEF ReadResp, CpuDone, CpuElse

\* A whole word takes the line's place.
LEMMA WriteRespFields ==
  ASSUME ControllerTypeOK, WriteResp, cpu.wstrb = Lane
  PROVE  /\ UNCHANGED <<snp, flush, bus, snoop, sent>> /\ mem' = None
         /\ cpu.state = "CPU_WRITE_RESP" /\ cpu' = CpuReset
         /\ OnlyLine(cpu.addr.index)
         /\ line'[cpu.addr.index].tag = cpu.addr.tag
         /\ line'[cpu.addr.index].state = "M"
         /\ line'[cpu.addr.index].data = cpu.wdata
         /\ \A word \in Word : ApplyWstrb(word, cpu.wdata, cpu.wstrb) = cpu.wdata
<1>1. /\ UNCHANGED <<snp, flush, bus, snoop, sent>> /\ mem' = None /\ cpu' = CpuReset
      /\ cpu.state = "CPU_WRITE_RESP" /\ WriteLine(CpuMemRequest)
  BY DEF WriteResp, CpuElse, CpuDone
<1>2. \A word : ApplyWstrb(word, cpu.wdata, Lane) = cpu.wdata
  BY CpuFields DEF ApplyWstrb, Word
<1>3. CpuMemRequest = MemWrite(cpu.addr.index, Lane, cpu.wdata, cpu.addr.tag, OnProcessor.next)
  BY <1>1, <1>2 DEF CpuMemRequest
<1>4. CpuMemRequest \in MemRequest
  BY <1>1, MemRequests
<1>5. line \in [Index -> Line]
  BY DEF ControllerTypeOK
<1>6. OnProcessor.next = "M"
  BY LaneAssumption DEF OnProcessor, OnProcessorEvent
<1>7. /\ CpuMemRequest.index = cpu.addr.index /\ CpuMemRequest.tag = cpu.addr.tag
      /\ CpuMemRequest.state = "M" /\ CpuMemRequest.data = cpu.wdata
      /\ CpuMemRequest.wstrb = Lane
  BY <1>3, <1>6 DEF MemWrite
<1>8. /\ OnlyLine(CpuMemRequest.index)
      /\ line'[CpuMemRequest.index].tag = CpuMemRequest.tag
      /\ line'[CpuMemRequest.index].state = CpuMemRequest.state
      /\ CpuMemRequest.wstrb = Lane => line'[CpuMemRequest.index].data = CpuMemRequest.data
  BY <1>1, <1>4, <1>5, WriteFields
<1> QED BY <1>1, <1>2, <1>7, <1>8

LEMMA FlushLookupFields ==
  ASSUME ControllerTypeOK, FlushLookupResp
  PROVE  /\ UNCHANGED <<snp, line, mem, bus, snoop, sent>>
         /\ cpu.state = "CPU_FLUSH_LOOKUP_RESP"
         /\ \/ /\ cpu'.addr = cpu.addr /\ cpu'.wstrb = cpu.wstrb /\ cpu'.tag_match = cpu.tag_match
               /\ cpu'.line = line[cpu.addr.index]
               /\ cpu'.line.tag = cpu.addr.tag /\ cpu'.line.state # "I"
               /\ cpu'.state = "CPU_FLUSH_EVICT" /\ UNCHANGED flush
            \/ /\ ~(line[cpu.addr.index].tag = cpu.addr.tag /\ line[cpu.addr.index].state # "I")
               /\ cpu' = CpuReset /\ flush' = None
BY DEF FlushLookupResp, CpuDone, CpuElse, ControllerTypeOK

LEMMA FlushInvalidateFields ==
  ASSUME ControllerTypeOK, FlushInvalidateResp
  PROVE  /\ UNCHANGED <<snp, mem, bus, snoop, sent>> /\ flush' = None
         /\ cpu.state = "CPU_FLUSH_INVALIDATE_RESP" /\ cpu' = CpuReset
         /\ OnlyLine(cpu.addr.index)
         /\ line'[cpu.addr.index].state = "I"
<1>1. /\ UNCHANGED <<snp, mem, bus, snoop, sent>> /\ flush' = None /\ cpu' = CpuReset
      /\ cpu.state = "CPU_FLUSH_INVALIDATE_RESP" /\ WriteLine(CpuMemRequest)
  BY DEF FlushInvalidateResp, CpuElse, CpuDone
<1>2. CpuMemRequest = MemWrite(cpu.addr.index, Lane, cpu.line.data, cpu.line.tag, "I")
  BY <1>1 DEF CpuMemRequest
<1>3. CpuMemRequest.index = cpu.addr.index /\ CpuMemRequest.state = "I"
  BY <1>2 DEF MemWrite
<1>4. CpuMemRequest \in MemRequest /\ line \in [Index -> Line]
  BY <1>1, MemRequests DEF ControllerTypeOK
<1> QED BY <1>1, <1>3, <1>4, WriteFields

LEMMA AcceptSnoopFields ==
  ASSUME ControllerTypeOK, AcceptSnoop
  PROVE  /\ UNCHANGED <<cpu, mem, flush, bus, line, sent>>
         /\ snp.state = "SNP_IDLE" /\ snp'.state = "SNP_FETCH_LINE_REQ"
         /\ snoop # None /\ snoop' = None /\ snp'.addr = snoop.addr /\ snp'.cmd = snoop.cmd
BY DEF AcceptSnoop, SnpElse, ControllerTypeOK

LEMMA SnpFetchFields ==
  ASSUME ControllerTypeOK, SnpFetchLineResp
  PROVE  /\ UNCHANGED <<cpu, mem, flush, bus, line, snoop, sent>>
         /\ snp.state = "SNP_FETCH_LINE_RESP" /\ snp'.addr = snp.addr /\ snp'.cmd = snp.cmd
         /\ \/ /\ line[snp.addr.index].tag # snp.addr.tag
               /\ snp'.state = "SNP_DONE" /\ snp'.flush = FALSE
            \/ /\ line[snp.addr.index].tag = snp.addr.tag
               /\ snp'.state = "SNP_ON_SNOOP_EVENT"
               /\ snp'.line_state = line[snp.addr.index].state
               /\ snp'.flush_data = line[snp.addr.index].data
BY DEF SnpFetchLineResp, SnpElse, ControllerTypeOK, GhostFlush

LEMMA OnSnoopFields ==
  ASSUME ControllerTypeOK, OnSnoopEventStep
  PROVE  /\ UNCHANGED <<cpu, mem, flush, bus, line, snoop, sent>>
         /\ snp.state = "SNP_ON_SNOOP_EVENT" /\ snp'.state = "SNP_UPDATE_LINE_REQ"
         /\ snp'.addr = snp.addr /\ snp'.cmd = snp.cmd
         /\ snp'.line_state = snp.line_state /\ snp'.flush_data = snp.flush_data
         /\ snp'.flush = OnSnoop.flush
BY DEF OnSnoopEventStep, SnpElse, ControllerTypeOK

LEMMA SnpUpdateFields ==
  ASSUME ControllerTypeOK, SnpUpdateLineResp
  PROVE  /\ UNCHANGED <<cpu, mem, flush, bus, snoop, sent>>
         /\ snp.state = "SNP_UPDATE_LINE_RESP" /\ snp'.state = "SNP_DONE"
         /\ snp'.addr = snp.addr /\ snp'.cmd = snp.cmd
         /\ snp'.flush = snp.flush /\ snp'.flush_data = snp.flush_data
         /\ OnlyLine(snp.addr.index)
         /\ line'[snp.addr.index].tag = snp.addr.tag
         /\ line'[snp.addr.index].state = OnSnoop.next
         /\ line'[snp.addr.index].data = snp.flush_data
<1>1. /\ UNCHANGED <<cpu, mem, flush, bus, snoop, sent>> /\ snp.state = "SNP_UPDATE_LINE_RESP"
      /\ SnpGoto("SNP_DONE") /\ WriteLine(SnpMemRequest)
  BY DEF SnpUpdateLineResp, SnpElse
<1>2. /\ snp'.state = "SNP_DONE" /\ snp'.addr = snp.addr /\ snp'.cmd = snp.cmd
      /\ snp'.flush = snp.flush /\ snp'.flush_data = snp.flush_data
  BY <1>1 DEF SnpGoto, ControllerTypeOK
<1>3. SnpMemRequest = MemWrite(snp.addr.index, Lane, snp.flush_data, snp.addr.tag, OnSnoop.next)
  BY <1>1 DEF SnpMemRequest
<1>4. /\ SnpMemRequest.index = snp.addr.index /\ SnpMemRequest.tag = snp.addr.tag
      /\ SnpMemRequest.state = OnSnoop.next /\ SnpMemRequest.data = snp.flush_data
      /\ SnpMemRequest.wstrb = Lane
  BY <1>3 DEF MemWrite
<1>5. SnpMemRequest \in MemRequest /\ line \in [Index -> Line]
  BY <1>1, MemRequests DEF ControllerTypeOK
<1> QED BY <1>1, <1>2, <1>4, <1>5, WriteFields

LEMMA SnoopAckFields ==
  ASSUME ControllerTypeOK, LinesHaveAddresses, PortHolds, SnoopAckSent
  PROVE  /\ UNCHANGED <<cpu, mem, flush, bus, line, snoop>>
         /\ snp.state = "SNP_DONE" /\ snp'.state = "SNP_IDLE"
         /\ sent = None /\ sent' # None /\ sent'.snoop /\ sent' = Packet(SnpRequest)
         /\ snp.flush /\ snp.cmd # "BUS_UPGR" => sent'.data = snp.flush_data
<1>1. /\ UNCHANGED <<cpu, mem, flush, bus, line, snoop>> /\ snp.state = "SNP_DONE"
      /\ snp'.state = "SNP_IDLE" /\ SendToDirectory(1)
  BY DEF SnoopAckSent, SnpElse, SnpReset
<1>2. arb_cache # None /\ arb_cache = SnpRequest /\ sent = None /\ sent' = Packet(arb_cache)
  BY <1>1 DEF SendToDirectory, Outbound!Handshake, Outbound!GrantState, Outbound!Master, PortHolds
<1>3. SnpRequest \in Message /\ SnpRequest.snoop
  BY <1>2, RequestsAreMessages
<1>4. SnpRequest.cmd = snp.cmd /\ (snp.flush => SnpRequest.data = snp.flush_data)
  BY <1>1 DEF SnpRequest
<1>5. SnpRequest.cmd # "BUS_UPGR" => Packet(SnpRequest) = SnpRequest
  BY <1>3 DEF Packet
<1> QED BY <1>1, <1>2, <1>3, <1>4, <1>5, PacketIsMessage, NoneAssumption

--------------------------------------------------------------------------------
(* The steps of the machines. *)

LEMMA SnpLeaves ==
  ASSUME ControllerTypeOK, SnpStep \/ GrantPort(1) \/ ArbiterStep
  PROVE  UNCHANGED <<cpu, mem, flush, bus>>
BY GrantSnpFields
   DEF SnpStep, AcceptSnoop, SnpFetchLineResp, OnSnoopEventStep, SnpUpdateLineResp, SnoopAckSent,
       SnpElse, ArbiterStep, GrantOutbound

LEMMA ServingKept ==
  ASSUME ControllerTypeOK, LinesHaveAddresses, PortHolds, Serving, ControllerStep
  PROVE  Serving'
<1> USE DEF Serving, AccessState, FlushState, SameDecision
<1>0. cpu.state \in CpuState
  BY CpuFields
<1>1. CASE AcceptAccess
  BY <1>1, AcceptAccessFields
<1>2. CASE AcceptFlush
  BY <1>2, AcceptFlushFields
<1>3. CASE FetchLineResp
  BY <1>3, FetchLineRespFields
<1>4. CASE EvictSent
  BY <1>4, EvictSentFields DEF AfterEvict
<1>5. CASE EvictAck
  BY <1>5, EvictAckFields
<1>6. CASE TagMatch
  BY <1>6, TagMatchFields
<1>7. CASE MissSent
  BY <1>7, MissSentFields
<1>8. CASE MissAck
  BY <1>8, MissAckFields
<1>9. CASE ReadMissUpdateLineResp
  BY <1>9, ReadMissUpdateFields
<1>10. CASE ReadResp
  BY <1>10, ReadRespFields, ResetFields
<1>11. CASE WriteResp
  <2>1. UNCHANGED flush /\ mem' = None /\ cpu' = CpuReset
    BY <1>11 DEF WriteResp, CpuElse, CpuDone
  <2> QED BY <2>1, ResetFields
<1>12. CASE FlushLookupResp
  BY <1>12, FlushLookupFields, ResetFields
<1>13. CASE FlushInvalidateResp
  BY <1>13, FlushInvalidateFields, ResetFields
<1>14. CASE GrantPort(0)
  BY <1>14, GrantFields
<1>15. CASE SnpStep \/ GrantPort(1) \/ ArbiterStep
  BY <1>15, SnpLeaves
<1> QED
  BY <1>1, <1>2, <1>3, <1>4, <1>5, <1>6, <1>7, <1>8, <1>9, <1>10, <1>11, <1>12, <1>13, <1>14, <1>15
  DEF ControllerStep, CpuStep, PortStep

\* No transfer is raised by the controller.
LEMMA CpuLeaves ==
  ASSUME ControllerTypeOK, CpuStep \/ GrantPort(0)
  PROVE  UNCHANGED <<snp, snoop>> /\ mem' \in {mem, None} /\ flush' \in {flush, None}
BY GrantFields
   DEF CpuStep, AcceptAccess, AcceptFlush, FetchLineResp, EvictSent, EvictAck, TagMatch, MissSent,
       MissAck, ReadMissUpdateLineResp, ReadResp, WriteResp, FlushLookupResp, FlushInvalidateResp,
       CpuElse

LEMMA SnpLineUntouched ==
  ASSUME ControllerTypeOK, MachinesApart, cpu.state # "CPU_IDLE", SnpUpdateLineResp
  PROVE  line'[cpu.addr.index] = line[cpu.addr.index]
BY SnpUpdateFields, CpuFields, AddressFields DEF MachinesApart, OnlyLine

LEMMA DecidedKept ==
  ASSUME ControllerTypeOK, LinesHaveAddresses, PortHolds, Serving, Decided, ControllerStep
  PROVE  Decided'
<1> USE DEF Decided, FetchedState, FoundState, FlushState, SameDecision
<1>1. CASE AcceptAccess
  <2>1. cpu.line.state = "I"
    BY <1>1, AcceptAccessFields DEF LinesHaveAddresses
  <2> QED BY <1>1, <2>1, AcceptAccessFields
<1>2. CASE AcceptFlush
  BY <1>2, AcceptFlushFields
<1>3. CASE FetchLineResp
  BY <1>3, FetchLineRespFields
<1>4. CASE EvictSent
  <2>1. cpu'.state = AfterEvict /\ cpu.state \in {"CPU_TAG_MISS", "CPU_FLUSH_EVICT"} /\ SameDecision
    BY <1>4, EvictSentFields
  <2> QED BY <2>1 DEF AfterEvict
<1>5. CASE EvictAck
  BY <1>5, EvictAckFields
<1>6. CASE TagMatch
  <2>1. cpu.wstrb = {} /\ OnProcessor.cmd # "NULL" => OnProcessor.cmd = "BUS_RD"
    BY CpuFields DEF OnProcessor, OnProcessorEvent, MSIState
  <2>2. cpu.wstrb # {} => cpu.wstrb = Lane
    BY DEF Serving
  <2> QED BY <1>6, <2>1, <2>2, TagMatchFields
<1>7. CASE MissSent
  BY <1>7, MissSentFields
<1>8. CASE MissAck
  BY <1>8, MissAckFields
<1>9. CASE ReadMissUpdateLineResp
  BY <1>9, ReadMissUpdateFields
<1>10. CASE ReadResp \/ WriteResp \/ FlushInvalidateResp
  <2>1. cpu' = CpuReset
    BY <1>10 DEF ReadResp, WriteResp, FlushInvalidateResp, CpuDone
  <2> QED BY <2>1, ResetFields
<1>11. CASE FlushLookupResp
  BY <1>11, FlushLookupFields, ResetFields
<1>12. CASE GrantPort(0)
  BY <1>12, GrantFields
<1>13. CASE SnpStep \/ GrantPort(1) \/ ArbiterStep
  BY <1>13, SnpLeaves DEF OnProcessor
<1> QED
  BY <1>1, <1>2, <1>3, <1>4, <1>5, <1>6, <1>7, <1>8, <1>9, <1>10, <1>11, <1>12, <1>13
  DEF ControllerStep, CpuStep, PortStep

LEMMA LatchedKept ==
  ASSUME ControllerTypeOK, LinesHaveAddresses, PortHolds, Serving, MachinesApart, Latched,
         Decided, ControllerStep
  PROVE  Latched'
<1> USE DEF Latched, FetchedState, FoundState, SameDecision
<1>1. CASE AcceptAccess
  BY <1>1, AcceptAccessFields
<1>2. CASE AcceptFlush
  BY <1>2, AcceptFlushFields
<1>3. CASE FetchLineResp
  BY <1>3, FetchLineRespFields
<1>4. CASE EvictSent
  BY <1>4, EvictSentFields DEF AfterEvict
<1>5. CASE EvictAck
  BY <1>5, EvictAckFields
<1>6. CASE TagMatch
  <2>1. cpu.wstrb = {} /\ OnProcessor.cmd = "NULL" => cpu.tag_match /\ cpu.line.state # "I"
    BY CpuFields DEF OnProcessor, OnProcessorEvent
  <2> QED BY <1>6, <2>1, TagMatchFields DEF Decided
<1>7. CASE MissSent
  BY <1>7, MissSentFields
<1>8. CASE MissAck
  BY <1>8, MissAckFields
<1>9. CASE ReadMissUpdateLineResp
  <2>1. OnProcessor.next # "I"
    BY OnProcessorType
  <2> QED BY <1>9, <2>1, ReadMissUpdateFields
<1>10. CASE ReadResp \/ WriteResp \/ FlushInvalidateResp
  <2>1. cpu' = CpuReset
    BY <1>10 DEF ReadResp, WriteResp, FlushInvalidateResp, CpuDone
  <2> QED BY <2>1, ResetFields
<1>11. CASE FlushLookupResp
  BY <1>11, FlushLookupFields, ResetFields
<1>12. CASE GrantPort(0)
  BY <1>12, GrantFields
<1>13. CASE SnpUpdateLineResp
  BY <1>13, SnpLineUntouched, SnpUpdateFields
<1>14. CASE \/ AcceptSnoop \/ SnpFetchLineResp \/ OnSnoopEventStep \/ SnoopAckSent
            \/ GrantPort(1) \/ ArbiterStep
  <2>1. UNCHANGED <<cpu, line>>
    BY <1>14, AcceptSnoopFields, SnpFetchFields, OnSnoopFields, SnoopAckFields, GrantSnpFields
    DEF ArbiterStep, GrantOutbound
  <2> QED BY <2>1
<1> QED
  BY <1>1, <1>2, <1>3, <1>4, <1>5, <1>6, <1>7, <1>8, <1>9, <1>10, <1>11, <1>12, <1>13, <1>14
  DEF ControllerStep, CpuStep, SnpStep, PortStep

\* The CPU machine changes no line but the one it works on.
LEMMA CpuLineUntouched ==
  ASSUME ControllerTypeOK, LinesHaveAddresses, PortHolds, Decided, CpuStep \/ GrantPort(0),
         NEW i \in Index, cpu.state # "CPU_IDLE" => cpu.addr.index # i
  PROVE  line'[i] = line[i]
<1>1. CASE ReadMissUpdateLineResp
  BY <1>1, ReadMissUpdateFields DEF OnlyLine
<1>2. CASE WriteResp
  <2>1. cpu.state = "CPU_WRITE_RESP"
    BY <1>2 DEF WriteResp
  <2>2. cpu.wstrb = Lane
    BY <2>1 DEF Decided
  <2> QED BY <1>2, <2>1, <2>2, WriteRespFields DEF OnlyLine
<1>3. CASE FlushInvalidateResp
  BY <1>3, FlushInvalidateFields DEF OnlyLine
<1>4. CASE \/ AcceptAccess \/ AcceptFlush \/ FetchLineResp \/ EvictSent \/ EvictAck \/ TagMatch
           \/ MissSent \/ MissAck \/ ReadResp \/ FlushLookupResp \/ GrantPort(0)
  <2>1. UNCHANGED line
    BY <1>4, GrantFields
    DEF AcceptAccess, AcceptFlush, FetchLineResp, EvictSent, EvictAck, TagMatch, MissSent,
        MissAck, ReadResp, FlushLookupResp
  <2> QED BY <2>1
<1> QED BY <1>1, <1>2, <1>3, <1>4 DEF CpuStep

LEMMA SnpLatchedKept ==
  ASSUME ControllerTypeOK, LinesHaveAddresses, PortHolds, MachinesApart, Decided, SnpLatched,
         ControllerStep
  PROVE  SnpLatched'
<1>1. CASE CpuStep \/ GrantPort(0)
  <2>1. UNCHANGED snp
    BY <1>1, CpuLeaves
  <2>2. snp.state # "SNP_IDLE" => line'[snp.addr.index] = line[snp.addr.index]
    BY <1>1, CpuLineUntouched, SnpFields, AddressFields DEF MachinesApart
  <2> QED BY <2>1, <2>2 DEF SnpLatched, OnSnoop
<1>2. CASE AcceptSnoop
  BY <1>2, AcceptSnoopFields DEF SnpLatched
<1>3. CASE SnpFetchLineResp
  <2>1. line[snp.addr.index] \in Line
    BY SnpFields, AddressFields DEF ControllerTypeOK
  <2> QED BY <1>3, <2>1, SnpFetchFields DEF SnpLatched, Line
<1>4. CASE OnSnoopEventStep
  BY <1>4, OnSnoopFields DEF SnpLatched, OnSnoop
<1>5. CASE SnpUpdateLineResp
  BY <1>5, SnpUpdateFields DEF SnpLatched
<1>6. CASE SnoopAckSent
  BY <1>6, SnoopAckFields DEF SnpLatched
<1>7. CASE GrantPort(1)
  BY <1>7, GrantSnpFields DEF SnpLatched, OnSnoop
<1>8. CASE ArbiterStep
  BY <1>8 DEF SnpLatched, OnSnoop, ArbiterStep, GrantOutbound
<1> QED
  BY <1>1, <1>2, <1>3, <1>4, <1>5, <1>6, <1>7, <1>8 DEF ControllerStep, SnpStep, PortStep

================================================================================
