--------------------------- MODULE ControllerProofs ----------------------------
(***************************************************************************)
(* What ControllerSystem promises, for any addresses, words and accesses:  *)
(* of messages, and of how its machines use the outgoing port and the      *)
(* cache memory, whatever snoops come; and, while snoops keep clear of the *)
(* index in use and accesses are of whole words, where the last word       *)
(* stored is.                                                              *)
(***************************************************************************)
EXTENDS ControllerSystem, CacheControllerProofs

--------------------------------------------------------------------------------
(* The invariant. *)

\* The command whose answer the CPU machine is waiting for.
Awaited ==
  CASE cpu.state \in {"CPU_EVICT_DIRTY_ACK", "CPU_FLUSH_EVICT_ACK"} -> {"EVICT_DIRTY"}
    [] cpu.state \in {"CPU_READ_MISS_ACK", "CPU_WRITE_MISS_ACK"} -> {OnProcessor.cmd}
    [] OTHER -> {}

\* That command, or its answer, is in one place only, and besides it there are
\* only clean evictions that went before.
InFlight ==
  /\ bus # None => bus.cmd \in Awaited
  /\ request # None => request.cmd \in Awaited \cup {"EVICT_CLEAN"}
  /\ request # None /\ request.cmd # "EVICT_CLEAN" => bus = None
  /\ sent # None /\ ~sent.snoop =>
       /\ sent.cmd \in Awaited \cup {"EVICT_CLEAN"}
       /\ request # None => request.cmd = "EVICT_CLEAN"
       /\ bus = None

\* The snoop the directory waits for is in one place only.
SnoopUnderway ==
  /\ snoop # None => pending # None /\ snp.state = "SNP_IDLE"
  /\ snp.state # "SNP_IDLE" => pending # None
  /\ sent # None /\ sent.snoop => pending # None /\ snoop = None /\ snp.state = "SNP_IDLE"

IInv == TypeOK /\ LinesHaveAddresses /\ PortHolds /\ InFlight /\ SnoopUnderway

--------------------------------------------------------------------------------
(* Types. *)

LEMMA InitEstablishes == Init => IInv
<1> SUFFICES ASSUME Init PROVE IInv
  OBVIOUS
<1>1. ControllerTypeOK /\ LinesHaveAddresses /\ PortHolds
  BY ControllerStarts DEF Init
<1>2. TypeOK
  BY <1>1, ZeroWordIsWord DEF Init, TypeOK, MSIState
<1>3. InFlight /\ SnoopUnderway
  BY DEF Init, ControllerInit, InFlight, SnoopUnderway, SnpReset
<1> QED BY <1>1, <1>2, <1>3 DEF IInv

--------------------------------------------------------------------------------
(* Messages. *)

\* A step that leaves the link and the bus alone, and does not touch the
\* command waited for.
LEMMA FlightUnchanged ==
  ASSUME InFlight, UNCHANGED <<bus, request, sent>>, UNCHANGED cpu \/ Awaited = {}
  PROVE  InFlight'
<1>1. UNCHANGED cpu => UNCHANGED Awaited
  BY DEF Awaited, OnProcessor
<1>2. CASE UNCHANGED cpu
  BY <1>1, <1>2 DEF InFlight
<1>3. CASE Awaited = {}
  <2>1. bus = None /\ (request # None => request.cmd = "EVICT_CLEAN")
        /\ (sent # None /\ ~sent.snoop => sent.cmd = "EVICT_CLEAN")
    BY <1>3 DEF InFlight
  <2> QED BY <2>1 DEF InFlight
<1> QED BY <1>2, <1>3

\* What the CPU machine sends is the command it then waits for, or a clean
\* eviction, and nothing that it waited for before is still under way.
LEMMA ControllerKeepsFlight ==
  ASSUME ControllerTypeOK, LinesHaveAddresses, PortHolds, InFlight, ControllerStep,
         UNCHANGED request
  PROVE  InFlight'
<1>1. ASSUME Awaited = {}, SendToDirectory(0), UNCHANGED bus,
             CpuRequest.cmd \in Awaited' \cup {"EVICT_CLEAN"}
      PROVE  InFlight'
  <2>1. bus' = None /\ (request' # None => request'.cmd = "EVICT_CLEAN")
    BY <1>1 DEF InFlight
  <2>2. arb_cache # None /\ arb_cache = CpuRequest /\ arb_cache \in Message
    BY <1>1 DEF SendToDirectory, Outbound!Handshake, Outbound!GrantState, Outbound!Master,
                PortHolds, ControllerTypeOK
  <2>3. ~sent'.snoop /\ sent'.cmd = CpuRequest.cmd
    BY <1>1, <2>2, PacketIsMessage, RequestsAreMessages DEF SendToDirectory
  <2> QED BY <1>1, <2>1, <2>3 DEF InFlight
<1>2. CASE EvictSent
  <2>1. Awaited = {} /\ CpuRequest = EvictRequest /\ cpu.line.state \in {"S", "M"}
    BY <1>2, CpuFields DEF EvictSent, Awaited, CpuRequest, LinesHaveAddresses, MSIState
  <2>2. cpu'.state = AfterEvict
    BY <1>2 DEF EvictSent, CpuGoto, ControllerTypeOK
  <2>3. CASE cpu.line.state = "M"
    <3>1. cpu'.state \in {"CPU_EVICT_DIRTY_ACK", "CPU_FLUSH_EVICT_ACK"}
      BY <2>2, <2>3 DEF AfterEvict
    <3>2. Awaited' = {"EVICT_DIRTY"} /\ CpuRequest.cmd = "EVICT_DIRTY"
      BY <2>1, <2>3, <3>1 DEF Awaited, EvictRequest, EvictCmdOf
    <3> QED BY <1>1, <1>2, <2>1, <3>2 DEF EvictSent
  <2>4. CASE cpu.line.state = "S"
    <3>1. CpuRequest.cmd = "EVICT_CLEAN"
      BY <2>1, <2>4 DEF EvictRequest, EvictCmdOf
    <3> QED BY <1>1, <1>2, <2>1, <3>1 DEF EvictSent
  <2> QED BY <2>1, <2>3, <2>4
<1>3. CASE MissSent
  <2>1. Awaited = {} /\ CpuRequest.cmd = OnProcessor.cmd
    BY <1>3 DEF MissSent, Awaited, CpuRequest, MissRequest
  <2>2. cpu' = [cpu EXCEPT !.state = cpu'.state]
        /\ cpu'.state \in {"CPU_READ_MISS_ACK", "CPU_WRITE_MISS_ACK"}
    BY <1>3 DEF MissSent, CpuGoto, ControllerTypeOK
  <2>3. OnProcessor' = OnProcessor
    <3>1. cpu'.line = cpu.line /\ cpu'.tag_match = cpu.tag_match /\ cpu'.wstrb = cpu.wstrb
      BY <1>3 DEF MissSent, CpuGoto, ControllerTypeOK
    <3> QED BY <3>1 DEF OnProcessor
  <2>4. Awaited' = {OnProcessor.cmd}
    BY <2>2, <2>3 DEF Awaited
  <2> QED BY <1>1, <1>3, <2>1, <2>4 DEF MissSent
<1>4. CASE EvictAck \/ MissAck
  <2>1. bus # None /\ bus' = None /\ UNCHANGED sent
    BY <1>4 DEF EvictAck, MissAck, CpuElse
  <2>2. /\ request # None => request.cmd = "EVICT_CLEAN"
        /\ ~(sent # None /\ ~sent.snoop)
    BY <2>1 DEF InFlight
  <2> QED BY <2>1, <2>2 DEF InFlight
<1>5. CASE SnoopAckSent
  <2>1. UNCHANGED <<cpu, bus>> /\ SendToDirectory(1)
    BY <1>5 DEF SnoopAckSent, SnpElse
  <2>2. arb_cache # None /\ arb_cache = SnpRequest /\ arb_cache \in Message
    BY <2>1 DEF SendToDirectory, Outbound!Handshake, Outbound!GrantState, Outbound!Master,
                PortHolds, ControllerTypeOK
  <2>3. sent'.snoop
    BY <2>1, <2>2, PacketIsMessage, RequestsAreMessages DEF SendToDirectory
  <2>4. UNCHANGED Awaited
    BY <2>1 DEF Awaited, OnProcessor
  <2> QED BY <2>1, <2>3, <2>4 DEF InFlight
<1>6. CASE \/ AcceptAccess \/ AcceptFlush \/ FetchLineResp \/ TagMatch
           \/ ReadMissUpdateLineResp \/ ReadResp \/ WriteResp \/ FlushLookupResp
           \/ FlushInvalidateResp
  <2>1. Awaited = {}
    BY <1>6 DEF AcceptAccess, AcceptFlush, FetchLineResp, TagMatch, ReadMissUpdateLineResp,
                ReadResp, WriteResp, FlushLookupResp, FlushInvalidateResp, Awaited
  <2>2. UNCHANGED <<bus, request, sent>>
    BY <1>6 DEF AcceptAccess, AcceptFlush, FetchLineResp, TagMatch, ReadMissUpdateLineResp,
                ReadResp, WriteResp, FlushLookupResp, FlushInvalidateResp, CpuElse
  <2> QED BY <2>1, <2>2, FlightUnchanged
<1>7. CASE AcceptSnoop \/ SnpFetchLineResp \/ OnSnoopEventStep \/ SnpUpdateLineResp
  <2>1. UNCHANGED <<cpu, bus, request, sent>>
    BY <1>7 DEF AcceptSnoop, SnpFetchLineResp, OnSnoopEventStep, SnpUpdateLineResp, SnpElse
  <2> QED BY <2>1, FlightUnchanged
<1>8. ASSUME NEW p \in {0, 1}, GrantPort(p) PROVE InFlight'
  <2>1. UNCHANGED <<bus, request, sent>> /\ (UNCHANGED cpu \/ p = 0)
    BY <1>8 DEF GrantPort
  <2>2. p = 0 => Awaited = {}
    BY <1>8 DEF GrantPort, PortGrantable, WantsPort, CpuAccessState, Awaited
  <2> QED BY <2>1, <2>2, FlightUnchanged
<1>9. ASSUME NEW i \in {0, 1}, GrantOutbound(i) PROVE InFlight'
  BY <1>9, FlightUnchanged DEF GrantOutbound
<1> QED
  BY <1>2, <1>3, <1>4, <1>5, <1>6, <1>7, <1>8, <1>9
  DEF ControllerStep, CpuStep, SnpStep, PortStep, ArbiterStep

\* The snoop goes from the wires to the machine and from the machine to the link.
LEMMA ControllerKeepsSnoop ==
  ASSUME ControllerTypeOK, LinesHaveAddresses, PortHolds, SnoopUnderway, ControllerStep,
         UNCHANGED pending
  PROVE  SnoopUnderway'
<1>1. ASSUME UNCHANGED snoop,
             UNCHANGED snp \/ (snp.state # "SNP_IDLE" /\ snp'.state # "SNP_IDLE"),
             UNCHANGED sent \/ ~sent'.snoop
      PROVE  SnoopUnderway'
  BY <1>1 DEF SnoopUnderway
<1>2. CASE EvictSent \/ MissSent
  <2>1. UNCHANGED <<snp, snoop>> /\ SendToDirectory(0)
    BY <1>2 DEF EvictSent, MissSent
  <2>2. arb_cache # None /\ arb_cache = CpuRequest /\ arb_cache \in Message
    BY <2>1 DEF SendToDirectory, Outbound!Handshake, Outbound!GrantState, Outbound!Master,
                PortHolds, ControllerTypeOK
  <2>3. ~sent'.snoop
    BY <2>1, <2>2, PacketIsMessage, RequestsAreMessages DEF SendToDirectory
  <2> QED BY <1>1, <2>1, <2>3
<1>3. CASE SnoopAckSent
  <2>1. UNCHANGED snoop /\ snp.state = "SNP_DONE" /\ snp'.state = "SNP_IDLE"
    BY <1>3 DEF SnoopAckSent, SnpReset
  <2> QED BY <2>1 DEF SnoopUnderway
<1>4. CASE AcceptSnoop
  <2>1. snoop # None /\ snoop' = None /\ snp'.state = "SNP_FETCH_LINE_REQ" /\ UNCHANGED sent
    BY <1>4 DEF AcceptSnoop, ControllerTypeOK
  <2> QED BY <2>1 DEF SnoopUnderway
<1>5. CASE SnpFetchLineResp \/ OnSnoopEventStep \/ SnpUpdateLineResp
  <2>1. UNCHANGED <<snoop, sent>> /\ snp.state # "SNP_IDLE" /\ snp'.state # "SNP_IDLE"
    BY <1>5 DEF SnpFetchLineResp, OnSnoopEventStep, SnpUpdateLineResp, SnpGoto, ControllerTypeOK
  <2> QED BY <1>1, <2>1
<1>6. CASE \/ AcceptAccess \/ AcceptFlush \/ FetchLineResp \/ EvictAck \/ TagMatch \/ MissAck
           \/ ReadMissUpdateLineResp \/ ReadResp \/ WriteResp \/ FlushLookupResp
           \/ FlushInvalidateResp
  <2>1. UNCHANGED <<snp, snoop, sent>>
    BY <1>6
    DEF AcceptAccess, AcceptFlush, FetchLineResp, EvictAck, TagMatch, MissAck,
        ReadMissUpdateLineResp, ReadResp, WriteResp, FlushLookupResp, FlushInvalidateResp, CpuElse
  <2> QED BY <1>1, <2>1
<1>7. ASSUME NEW p \in {0, 1}, GrantPort(p) PROVE SnoopUnderway'
  <2>1. UNCHANGED <<snoop, sent>> /\ (UNCHANGED snp \/ p = 1)
    BY <1>7 DEF GrantPort
  <2>2. p = 1 => snp.state # "SNP_IDLE" /\ snp'.state # "SNP_IDLE"
    BY <1>7 DEF GrantPort, PortGrantable, WantsPort, SnpAccessState, ControllerTypeOK
  <2> QED BY <1>1, <2>1, <2>2
<1>8. ASSUME NEW i \in {0, 1}, GrantOutbound(i) PROVE SnoopUnderway'
  BY <1>1, <1>8 DEF GrantOutbound
<1> QED
  BY <1>2, <1>3, <1>4, <1>5, <1>6, <1>7, <1>8
  DEF ControllerStep, CpuStep, SnpStep, PortStep, ArbiterStep

--------------------------------------------------------------------------------
(* The whole system. *)

LEMMA ControllerPreserves ==
  ASSUME IInv, Controller
  PROVE  IInv'
<1>1. /\ ControllerStep /\ UNCHANGED <<request, pending, perm, home>>
      /\ latest' = IF StoreAcked
                   THEN [latest EXCEPT ![cpu.addr] = ApplyWstrb(@, cpu.wdata, cpu.wstrb)]
                   ELSE latest
  BY DEF Controller, Stepped, dirVars
<1>2. ControllerTypeOK /\ LinesHaveAddresses /\ PortHolds /\ InFlight /\ SnoopUnderway
  BY DEF IInv, TypeOK
<1>3. latest' \in [Addr -> Word]
  <2>1. latest \in [Addr -> Word] /\ cpu.addr \in Addr /\ cpu.wdata \in Word
    BY CpuFields, <1>2 DEF IInv, TypeOK
  <2>2. ApplyWstrb(latest[cpu.addr], cpu.wdata, cpu.wstrb) \in Word
    BY <2>1, MergedIsWord
  <2> QED BY <1>1, <2>1, <2>2
<1>4. TypeOK'
  BY <1>1, <1>2, <1>3, ControllerKeepsType DEF IInv, TypeOK
<1> QED
  BY <1>1, <1>2, <1>4, ControllerKeepsLines, ControllerKeepsPort, ControllerKeepsFlight,
     ControllerKeepsSnoop DEF IInv

\* What others do to the wires leaves the machines and what they ask for alone.
LEMMA MachinesAlone ==
  ASSUME UNCHANGED <<cpu, snp, line, port, arbVars>>
  PROVE  /\ LinesHaveAddresses => LinesHaveAddresses'
         /\ PortHolds => PortHolds'
         /\ UNCHANGED Awaited
<1>1. LinesHaveAddresses => LinesHaveAddresses'
  BY DEF LinesHaveAddresses
<1>2. UNCHANGED <<CpuRequest, SnpRequest, Awaited>>
  BY DEF CpuRequest, EvictRequest, MissRequest, OnProcessor, SnpRequest, Awaited
<1> QED BY <1>1, <1>2 DEF PortHolds, arbVars

LEMMA ProcessorPreserves ==
  ASSUME IInv, Processor
  PROVE  IInv'
<1>1. UNCHANGED <<cpu, snp, line, port, arbVars, bus, snoop, sent, dirVars, latest>>
  BY DEF Processor, RaiseAccess, RaiseFlush
<1>2. mem' \in Access \cup {None} /\ flush' \in Addr \cup {None}
  BY WorkloadAssumption DEF Processor, RaiseAccess, RaiseFlush, IInv, TypeOK, ControllerTypeOK
<1>3. TypeOK'
  BY <1>1, <1>2 DEF IInv, TypeOK, ControllerTypeOK, arbVars, dirVars
<1> QED BY <1>1, <1>3, MachinesAlone DEF IInv, InFlight, SnoopUnderway, dirVars

LEMMA DirectoryPreserves ==
  ASSUME IInv, Directory
  PROVE  IInv'
<1> USE DEF IInv
<1>u. /\ UNCHANGED <<cpu, snp, line, port, arbVars, mem, flush>>
      /\ LinesHaveAddresses' /\ PortHolds' /\ UNCHANGED Awaited
  <2>1. UNCHANGED <<cpu, snp, line, port, arbVars, mem, flush>>
    BY DEF Directory, RequestArrives, SnoopAnswered, Serve, SendSnoop, OtherStores, linkElse
  <2> QED BY <2>1, MachinesAlone
<1>t. ASSUME bus' \in Answer \cup {None}, snoop' \in Snoop \cup {None},
             sent' \in Message \cup {None}, request' \in Message \cup {None},
             pending' \in Snoop \cup {None}, perm' \in [Addr -> MSIState],
             home' \in [Addr -> Word], latest' \in [Addr -> Word]
      PROVE  TypeOK'
  BY <1>t, <1>u DEF TypeOK, ControllerTypeOK, arbVars
<1>h. ASSUME NEW f, NEW S, f \in [Addr -> S], NEW a \in Addr, NEW v \in S
      PROVE  Update(f, a, v) \in [Addr -> S]
  BY <1>h DEF Update
<1>1. CASE RequestArrives
  <2>1. TypeOK'
    BY <1>1, <1>t DEF RequestArrives, TypeOK, ControllerTypeOK
  <2>2. InFlight'
    BY <1>1, <1>u DEF RequestArrives, InFlight
  <2>3. SnoopUnderway'
    BY <1>1, <1>u DEF RequestArrives, SnoopUnderway
  <2> QED BY <1>u, <2>1, <2>2, <2>3
<1>2. CASE SnoopAnswered
  <2>1. pending.addr \in Addr /\ sent.data \in Word
    BY <1>2 DEF SnoopAnswered, TypeOK, ControllerTypeOK, Snoop, Message
  <2>2. home' \in [Addr -> Word]
    BY <1>2, <1>h, <2>1 DEF SnoopAnswered, TypeOK
  <2>3. perm' \in [Addr -> MSIState]
    BY <1>2, <1>h, <2>1 DEF SnoopAnswered, TypeOK, MSIState
  <2>4. TypeOK'
    BY <1>2, <1>t, <2>2, <2>3 DEF SnoopAnswered, TypeOK, ControllerTypeOK
  <2>5. InFlight'
    BY <1>2, <1>u DEF SnoopAnswered, InFlight
  <2>6. SnoopUnderway'
    BY <1>2, <1>u DEF SnoopAnswered, SnoopUnderway
  <2> QED BY <1>u, <2>4, <2>5, <2>6
<1>3. CASE Serve
  <2>1. request.addr \in Addr /\ request.data \in Word /\ request.cmd \in CoherenceCmd
    BY <1>3 DEF Serve, TypeOK, Message
  <2>2. home' \in [Addr -> Word]
    BY <1>3, <1>h, <2>1 DEF Serve, TypeOK
  <2>3. perm' \in [Addr -> MSIState]
    BY <1>3, <1>h, <2>1 DEF Serve, TypeOK, MSIState
  <2>4. bus' \in Answer \cup {None}
    BY <1>3, <2>1, ZeroWordIsWord DEF Serve, TypeOK, ControllerTypeOK, Answer
  <2>5. TypeOK'
    BY <1>3, <1>t, <2>2, <2>3, <2>4 DEF Serve, TypeOK, ControllerTypeOK
  <2>6. InFlight'
    BY <1>3, <1>u DEF Serve, InFlight
  <2>7. SnoopUnderway'
    BY <1>3, <1>u DEF Serve, SnoopUnderway
  <2> QED BY <1>u, <2>5, <2>6, <2>7
<1>4. ASSUME NEW a \in Addr, NEW cmd \in SnoopEvent, SendSnoop(a, cmd) PROVE IInv'
  <2>1. pending' \in Snoop /\ snoop' = pending' /\ pending' # None
    BY <1>4, NoneAssumption DEF SendSnoop, Snoop
  <2>2. TypeOK'
    BY <1>4, <1>t, <2>1 DEF SendSnoop, TypeOK, ControllerTypeOK
  <2>3. InFlight'
    BY <1>4, <1>u DEF SendSnoop, InFlight
  <2>4. SnoopUnderway'
    BY <1>4, <1>u, <2>1 DEF SendSnoop, SnoopUnderway
  <2> QED BY <1>u, <2>2, <2>3, <2>4
<1>5. ASSUME NEW a \in Addr, NEW word \in Word, OtherStores(a, word) PROVE IInv'
  <2>1. home' \in [Addr -> Word] /\ latest' \in [Addr -> Word]
    BY <1>5, <1>h DEF OtherStores, TypeOK
  <2>2. TypeOK'
    BY <1>5, <1>t, <2>1 DEF OtherStores, TypeOK, ControllerTypeOK
  <2>3. InFlight' /\ SnoopUnderway'
    BY <1>5, <1>u DEF OtherStores, InFlight, SnoopUnderway
  <2> QED BY <1>u, <2>2, <2>3
<1> QED BY <1>1, <1>2, <1>3, <1>4, <1>5 DEF Directory

LEMMA NextPreserves == IInv /\ [Next]_vars => IInv'
<1>1. ASSUME IInv, UNCHANGED vars PROVE IInv'
  <2>1. UNCHANGED <<cpu, snp, line, port, arbVars, mem, flush, bus, snoop, sent,
                    request, pending, perm, home, latest>>
    BY <1>1 DEF vars, controllerVars, dirVars
  <2>2. TypeOK'
    BY <1>1, <2>1 DEF IInv, TypeOK, ControllerTypeOK, arbVars
  <2> QED BY <1>1, <2>1, <2>2, MachinesAlone DEF IInv, InFlight, SnoopUnderway
<1> QED
  BY <1>1, ControllerPreserves, ProcessorPreserves, DirectoryPreserves DEF Next

LEMMA Invariant == Spec => []IInv
BY InitEstablishes, NextPreserves, PTL DEF Spec

\* The registers, wires and messages have their types (cache_controller.sv).
THEOREM TypeCorrect == Spec => []TypeOK
<1>1. IInv => TypeOK
  BY DEF IInv
<1> QED BY <1>1, Invariant, PTL

\* CPU_READ_MISS_ACK and CPU_WRITE_MISS_ACK take any answer (lines 705 and 789
\* of cache_controller.sv): only the one they wait for ever comes.
THEOREM AnswersAreAwaited == Spec => []EveryAnswerIsAwaited
<1>1. IInv => EveryAnswerIsAwaited
  <2> SUFFICES ASSUME IInv, bus # None PROVE EveryAnswerIsAwaited
    BY DEF EveryAnswerIsAwaited
  <2>1. bus.cmd \in Awaited
    BY DEF IInv, InFlight
  <2>2. OnProcessor.cmd # "EVICT_DIRTY"
    BY OnProcessorType DEF IInv, TypeOK, BusCmd
  <2> QED BY <2>1, <2>2 DEF EveryAnswerIsAwaited, Awaited
<1> QED BY <1>1, Invariant, PTL

\* The pipe stages between chip and directory overwrite what has not been taken
\* (lossy_pipe_stage.sv): only a clean eviction is ever overwritten.
THEOREM PipesLoseNothing == Spec => LossyPipesLoseNothing
<1> DEFINE NothingLost ==
      /\ request \notin {request', None} /\ request.cmd # "EVICT_CLEAN" => request' = None
      /\ bus \notin {bus', None} => bus' = None
      /\ snoop \notin {snoop', None} => snoop' = None
<1>1. IInv /\ [Next]_vars => [NothingLost]_vars
  <2> SUFFICES ASSUME IInv, Next PROVE NothingLost
    OBVIOUS
  <2>1. CASE Processor
    BY <2>1 DEF Processor, RaiseAccess, RaiseFlush, dirVars
  <2>2. CASE Controller
    <3>1. /\ UNCHANGED request
          /\ UNCHANGED bus \/ bus' = None
          /\ UNCHANGED snoop \/ snoop' = None
      BY <2>2
      DEF Controller, Stepped, dirVars, ControllerStep, CpuStep, SnpStep, PortStep, ArbiterStep,
          AcceptAccess, AcceptFlush, FetchLineResp, EvictSent, EvictAck, TagMatch, MissSent,
          MissAck, ReadMissUpdateLineResp, ReadResp, WriteResp, FlushLookupResp,
          FlushInvalidateResp, AcceptSnoop, SnpFetchLineResp, OnSnoopEventStep,
          SnpUpdateLineResp, SnoopAckSent, GrantPort, GrantOutbound, CpuElse, SnpElse
    <3> QED BY <3>1
  <2>3. CASE RequestArrives
    BY <2>3 DEF RequestArrives, IInv, InFlight
  <2>4. CASE Serve
    BY <2>4 DEF Serve, IInv, InFlight
  <2>5. CASE SnoopAnswered \/ \E a \in Addr, word \in Word : OtherStores(a, word)
    BY <2>5 DEF SnoopAnswered, OtherStores
  <2>6. CASE \E a \in Addr, cmd \in SnoopEvent : SendSnoop(a, cmd)
    BY <2>6 DEF SendSnoop, IInv, SnoopUnderway
  <2> QED BY <2>1, <2>2, <2>3, <2>4, <2>5, <2>6 DEF Next, Directory
<1>2. LossyPipesLoseNothing <=> [][NothingLost]_vars
  BY DEF LossyPipesLoseNothing
<1> QED BY <1>1, <1>2, Invariant, PTL DEF Spec

RequestTypes == CpuRequest \in Message \cup {None} /\ SnpRequest \in Message \cup {None}

\* A machine that begins to ask is a master that raises a request.
LEMMA AskingIsRaising ==
  ASSUME RequestTypes', UNCHANGED arbVars,
         \/ UNCHANGED snp /\ (UNCHANGED cpu \/ CpuRequest = None)
         \/ UNCHANGED cpu /\ (UNCHANGED snp \/ SnpRequest = None)
  PROVE  Outbound!Next \/ UNCHANGED Outbound!vars
<1> DEFINE masters == [i \in {0, 1} |-> IF i = 0 THEN CpuRequest ELSE SnpRequest]
           Begins(i) == /\ masters[i] = None /\ masters'[i] \in Message
                        /\ masters' = [masters EXCEPT ![i] = masters'[i]]
<1>1. UNCHANGED masters \/ Begins(0) \/ Begins(1)
  BY RequestsUnchanged DEF RequestTypes
<1>2. CASE UNCHANGED masters
  <2>1. UNCHANGED <<arb_state, arb_rr, arb_cache, masters>>
    BY <1>2 DEF arbVars
  <2> QED BY <2>1, Zenon DEF Outbound!vars
<1>3. ASSUME NEW i \in {0, 1}, Begins(i) PROVE Outbound!Next
  <2>1. Outbound!Raise(i)
    BY <1>3 DEF Outbound!Raise, Outbound!Asks, arbVars
  <2> QED BY <2>1 DEF Outbound!Next, Outbound!Master
<1> QED BY <1>1, <1>2, <1>3

\* The two machines' wires to the outgoing port are held, with address, data and
\* command, until the machine sees ready (CPU_TAG_MISS, CPU_READ_MISS,
\* CPU_WRITE_MISS, CPU_FLUSH_EVICT and SNP_DONE of cache_controller.sv), so that
\* the port is what OutboundArbiter says.
THEOREM ImplementsArbiter == Spec => UsesArbiter
<1>1. Init => Outbound!Init
  <2> SUFFICES ASSUME Init PROVE Outbound!Init
    OBVIOUS
  <2>1. CpuRequest = None /\ SnpRequest = None
    BY DEF Init, ControllerInit, CpuReset, SnpReset, CpuRequest, SnpRequest
  <2> QED BY <2>1 DEF Init, ControllerInit, Outbound!Init, Outbound!Master
<1>2. IInv => RequestTypes
  BY RequestsAreMessages DEF IInv, TypeOK, RequestTypes
<1>3. IInv /\ RequestTypes' /\ [Next]_vars => [Outbound!Next]_<<Outbound!vars>>
  <2> SUFFICES ASSUME IInv, RequestTypes', [Next]_vars
               PROVE  Outbound!Next \/ UNCHANGED Outbound!vars
    OBVIOUS
  <2>1. CASE Controller
    <3>1. ControllerStep /\ ControllerTypeOK /\ LinesHaveAddresses
      BY <2>1 DEF Controller, Stepped, IInv, TypeOK
    <3>2. ASSUME NEW i \in {0, 1}, Outbound!Handshake(i) \/ Outbound!Grant(i)
          PROVE  Outbound!Next
      BY <3>2, Zenon DEF Outbound!Next, Outbound!Master
    <3> QED BY <3>1, <3>2, PortUse, AskingIsRaising
  <2>2. CASE Processor \/ Directory \/ UNCHANGED vars
    <3>1. UNCHANGED <<cpu, snp, arbVars>>
      BY <2>2 DEF Processor, RaiseAccess, RaiseFlush, Directory, RequestArrives, SnoopAnswered,
                  Serve, SendSnoop, OtherStores, linkElse, vars, controllerVars
    <3> QED BY <3>1, AskingIsRaising
  <2> QED BY <2>1, <2>2 DEF Next
<1> QED BY <1>1, <1>2, <1>3, Invariant, PTL DEF Spec, UsesArbiter

--------------------------------------------------------------------------------
(* The cache memory. *)

CpuResponse == {"CPU_FETCH_LINE_RESP", "CPU_READ_MISS_UPDATE_LINE_RESP", "CPU_READ_RESP",
  "CPU_WRITE_RESP", "CPU_FLUSH_LOOKUP_RESP", "CPU_FLUSH_INVALIDATE_RESP"}

SnpResponse == {"SNP_FETCH_LINE_RESP", "SNP_UPDATE_LINE_RESP"}

\* The memory runs a port's access while that port's machine waits for the
\* response, and a store has strobes.
MemoryInUse ==
  /\ port.owner = 0 <=> cpu.state \in CpuResponse
  /\ port.owner = 1 <=> snp.state \in SnpResponse
  /\ cpu.state \in {"CPU_WRITE_MISS", "CPU_WRITE_MISS_ACK", "CPU_WRITE_REQ", "CPU_WRITE_RESP"}
       => cpu.wstrb # {}

MemTypes == CpuMemRequest \in MemRequest \cup {None} /\ SnpMemRequest \in MemRequest \cup {None}

LEMMA AccessStates ==
  DOMAIN CpuAccessState =
    {"CPU_FETCH_LINE_REQ", "CPU_READ_MISS_UPDATE_LINE_REQ", "CPU_READ_REQ",
     "CPU_WRITE_REQ", "CPU_FLUSH_LOOKUP_REQ", "CPU_FLUSH_INVALIDATE_REQ"}
BY Zenon DEF CpuAccessState

LEMMA MemRequestTypes ==
  ASSUME ControllerTypeOK
  PROVE  /\ MemTypes
         /\ CpuMemRequest # None <=> cpu.state \in DOMAIN CpuAccessState \cup CpuResponse
         /\ SnpMemRequest # None <=> snp.state \in DOMAIN SnpAccessState \cup SnpResponse
<1>1. ASSUME NEW i \in Index PROVE MemRead(i) \in MemRequest
  BY ZeroWordIsWord, AddressFields, AddrAssumption DEF MemRead, MemRequest, MSIState
<1>2. ASSUME NEW i \in Index, NEW wstrb \in SUBSET Lane, NEW data \in Word, NEW tag \in Tag,
             NEW state \in MSIState
      PROVE  MemWrite(i, wstrb, data, tag, state) \in MemRequest
  BY DEF MemWrite, MemRequest
<1>3. /\ cpu.addr.index \in Index /\ cpu.addr.tag \in Tag
      /\ snp.addr.index \in Index /\ snp.addr.tag \in Tag
      /\ ApplyWstrb(cpu.line.data, cpu.wdata, cpu.wstrb) \in Word
      /\ "I" \in MSIState /\ OnProcessor.next \in MSIState
  BY CpuFields, SnpFields, AddressFields, MergedIsWord, OnProcessorType DEF MSIState
<1>4. ASSUME cpu.state \in DOMAIN CpuAccessState \cup CpuResponse
      PROVE  CpuMemRequest \in MemRequest
  <2>1. CASE cpu.state \in {"CPU_FETCH_LINE_REQ", "CPU_FETCH_LINE_RESP", "CPU_READ_REQ",
                            "CPU_READ_RESP", "CPU_FLUSH_LOOKUP_REQ", "CPU_FLUSH_LOOKUP_RESP"}
    BY <2>1, <1>1, <1>3 DEF CpuMemRequest
  <2>2. CASE cpu.state \in {"CPU_READ_MISS_UPDATE_LINE_REQ", "CPU_READ_MISS_UPDATE_LINE_RESP"}
    <3>1. CpuMemRequest =
            MemWrite(cpu.addr.index, Lane, cpu.line.data, cpu.addr.tag, OnProcessor.next)
      BY <2>2 DEF CpuMemRequest
    <3> QED BY <3>1, <1>2, <1>3, CpuFields
  <2>3. CASE cpu.state \in {"CPU_WRITE_REQ", "CPU_WRITE_RESP"}
    <3>1. CpuMemRequest =
            MemWrite(cpu.addr.index, cpu.wstrb,
                     ApplyWstrb(cpu.line.data, cpu.wdata, cpu.wstrb), cpu.addr.tag, OnProcessor.next)
      BY <2>3 DEF CpuMemRequest
    <3> QED BY <3>1, <1>2, <1>3, CpuFields
  <2>4. CASE cpu.state \in {"CPU_FLUSH_INVALIDATE_REQ", "CPU_FLUSH_INVALIDATE_RESP"}
    <3>1. CpuMemRequest = MemWrite(cpu.addr.index, Lane, cpu.line.data, cpu.line.tag, "I")
      BY <2>4 DEF CpuMemRequest
    <3> QED BY <3>1, <1>2, <1>3, CpuFields
  <2> QED BY <1>4, <2>1, <2>2, <2>3, <2>4, AccessStates DEF CpuResponse
<1>5. ASSUME cpu.state \notin DOMAIN CpuAccessState \cup CpuResponse
      PROVE  CpuMemRequest = None
  BY <1>5, AccessStates DEF CpuMemRequest, CpuResponse
<1>6. SnpMemRequest \in MemRequest \cup {None}
  BY <1>1, <1>2, <1>3, SnpFields, OnSnoopType DEF SnpMemRequest
<1>7. SnpMemRequest # None <=> snp.state \in DOMAIN SnpAccessState \cup SnpResponse
  BY <1>1, <1>2, <1>3, SnpFields, OnSnoopType, NoneAssumption
  DEF SnpMemRequest, SnpAccessState, SnpResponse
<1> QED BY <1>4, <1>5, <1>6, <1>7, NoneAssumption DEF MemTypes

LEMMA InitMemory == Init => MemoryInUse
BY NoneAssumption DEF Init, ControllerInit, CpuReset, SnpReset, MemoryInUse, CpuResponse, SnpResponse

\* What a grant makes of the granted machine, and that its request stays.
LEMMA GrantedCpu ==
  ASSUME ControllerTypeOK, GrantPort(0)
  PROVE  /\ cpu'.state \in CpuResponse
         /\ cpu'.state = "CPU_WRITE_RESP" <=> cpu.state = "CPU_WRITE_REQ"
         /\ cpu'.wstrb = cpu.wstrb
         /\ UNCHANGED CpuMemRequest
<1>1. /\ cpu.state \in DOMAIN CpuAccessState
      /\ cpu' = [cpu EXCEPT !.state = CpuAccessState[cpu.state]]
  BY DEF GrantPort, PortGrantable, WantsPort
<1>2. /\ cpu'.state = CpuAccessState[cpu.state] /\ cpu'.addr = cpu.addr
      /\ cpu'.wstrb = cpu.wstrb /\ cpu'.wdata = cpu.wdata /\ cpu'.line = cpu.line
      /\ cpu'.tag_match = cpu.tag_match
  BY <1>1 DEF ControllerTypeOK
<1>3. UNCHANGED OnProcessor
  BY <1>2 DEF OnProcessor
<1>4. CASE cpu.state = "CPU_FETCH_LINE_REQ"
  <2>1. cpu'.state = "CPU_FETCH_LINE_RESP"
    BY <1>2, <1>4 DEF CpuAccessState
  <2> QED BY <1>2, <1>3, <1>4, <2>1 DEF CpuMemRequest, CpuResponse
<1>5. CASE cpu.state = "CPU_READ_MISS_UPDATE_LINE_REQ"
  <2>1. cpu'.state = "CPU_READ_MISS_UPDATE_LINE_RESP"
    BY <1>2, <1>5 DEF CpuAccessState
  <2> QED BY <1>2, <1>3, <1>5, <2>1 DEF CpuMemRequest, CpuResponse
<1>6. CASE cpu.state = "CPU_READ_REQ"
  <2>1. cpu'.state = "CPU_READ_RESP"
    BY <1>2, <1>6 DEF CpuAccessState
  <2> QED BY <1>2, <1>3, <1>6, <2>1 DEF CpuMemRequest, CpuResponse
<1>7. CASE cpu.state = "CPU_WRITE_REQ"
  <2>1. cpu'.state = "CPU_WRITE_RESP"
    BY <1>2, <1>7 DEF CpuAccessState
  <2> QED BY <1>2, <1>3, <1>7, <2>1 DEF CpuMemRequest, CpuResponse
<1>8. CASE cpu.state = "CPU_FLUSH_LOOKUP_REQ"
  <2>1. cpu'.state = "CPU_FLUSH_LOOKUP_RESP"
    BY <1>2, <1>8 DEF CpuAccessState
  <2> QED BY <1>2, <1>3, <1>8, <2>1 DEF CpuMemRequest, CpuResponse
<1>9. CASE cpu.state = "CPU_FLUSH_INVALIDATE_REQ"
  <2>1. cpu'.state = "CPU_FLUSH_INVALIDATE_RESP"
    BY <1>2, <1>9 DEF CpuAccessState
  <2> QED BY <1>2, <1>3, <1>9, <2>1 DEF CpuMemRequest, CpuResponse
<1> QED BY <1>1, <1>4, <1>5, <1>6, <1>7, <1>8, <1>9, AccessStates

LEMMA GrantedSnp ==
  ASSUME ControllerTypeOK, GrantPort(1)
  PROVE  snp'.state \in SnpResponse /\ UNCHANGED SnpMemRequest
<1>1. /\ snp.state \in {"SNP_FETCH_LINE_REQ", "SNP_UPDATE_LINE_REQ"}
      /\ snp' = [snp EXCEPT !.state = SnpAccessState[snp.state]]
  BY DEF GrantPort, PortGrantable, WantsPort, SnpAccessState
<1>2. /\ snp'.state = SnpAccessState[snp.state] /\ snp'.addr = snp.addr
      /\ snp'.cmd = snp.cmd /\ snp'.line_state = snp.line_state
      /\ snp'.flush_data = snp.flush_data
  BY <1>1 DEF ControllerTypeOK
<1>3. UNCHANGED OnSnoop
  BY <1>2 DEF OnSnoop
<1>4. CASE snp.state = "SNP_FETCH_LINE_REQ"
  <2>1. snp'.state = "SNP_FETCH_LINE_RESP"
    BY <1>2, <1>4 DEF SnpAccessState
  <2> QED BY <1>2, <1>3, <1>4, <2>1 DEF SnpMemRequest, SnpResponse
<1>5. CASE snp.state = "SNP_UPDATE_LINE_REQ"
  <2>1. snp'.state = "SNP_UPDATE_LINE_RESP"
    BY <1>2, <1>5 DEF SnpAccessState
  <2> QED BY <1>2, <1>3, <1>5, <2>1 DEF SnpMemRequest, SnpResponse
<1> QED BY <1>1, <1>4, <1>5

\* A step has the memory grant a port or respond to it, or leaves it alone while
\* one machine, which asked nothing of it, may ask for something.
LEMMA MemoryUse ==
  ASSUME ControllerTypeOK, MemoryInUse, ControllerStep
  PROVE  \/ UNCHANGED <<line, port, snp>> /\ (UNCHANGED cpu \/ CpuMemRequest = None)
         \/ UNCHANGED <<line, port, cpu>> /\ (UNCHANGED snp \/ SnpMemRequest = None)
         \/ \E p \in {0, 1} : GrantPort(p)
         \/ /\ Respond(0) /\ UNCHANGED snp
            /\ IF CpuMemRequest.wstrb = {} THEN UNCHANGED line ELSE WriteLine(CpuMemRequest)
         \/ /\ Respond(1) /\ UNCHANGED cpu
            /\ IF SnpMemRequest.wstrb = {} THEN UNCHANGED line ELSE WriteLine(SnpMemRequest)
<1>1. CASE \/ AcceptAccess \/ AcceptFlush \/ EvictSent \/ EvictAck \/ TagMatch \/ MissSent
           \/ MissAck
  <2>1. UNCHANGED <<line, port, snp>> /\ CpuMemRequest = None
    BY <1>1 DEF AcceptAccess, AcceptFlush, EvictSent, EvictAck, TagMatch, MissSent, MissAck,
                CpuElse, CpuMemRequest
  <2> QED BY <2>1
<1>2. CASE FetchLineResp \/ ReadResp \/ FlushLookupResp
  <2>1. Respond(0) /\ UNCHANGED <<line, snp>>
    BY <1>2 DEF FetchLineResp, ReadResp, FlushLookupResp, CpuElse
  <2>2. CpuMemRequest.wstrb = {}
    BY <1>2 DEF FetchLineResp, ReadResp, FlushLookupResp, CpuMemRequest, MemRead
  <2> QED BY <2>1, <2>2
<1>3. CASE ReadMissUpdateLineResp \/ WriteResp \/ FlushInvalidateResp
  <2>1. Respond(0) /\ UNCHANGED snp /\ WriteLine(CpuMemRequest)
    BY <1>3 DEF ReadMissUpdateLineResp, WriteResp, FlushInvalidateResp, CpuElse
  <2>2. CpuMemRequest.wstrb # {}
    BY <1>3, LaneAssumption
    DEF ReadMissUpdateLineResp, WriteResp, FlushInvalidateResp, CpuMemRequest, MemWrite, MemoryInUse
  <2> QED BY <2>1, <2>2
<1>4. CASE AcceptSnoop \/ OnSnoopEventStep \/ SnoopAckSent
  <2>1. UNCHANGED <<line, port, cpu>> /\ SnpMemRequest = None
    BY <1>4 DEF AcceptSnoop, OnSnoopEventStep, SnoopAckSent, SnpElse, SnpMemRequest
  <2> QED BY <2>1
<1>5. CASE SnpFetchLineResp
  <2>1. Respond(1) /\ UNCHANGED <<line, cpu>>
    BY <1>5 DEF SnpFetchLineResp, SnpElse
  <2>2. SnpMemRequest.wstrb = {}
    BY <1>5 DEF SnpFetchLineResp, SnpMemRequest, MemRead
  <2> QED BY <2>1, <2>2
<1>6. CASE SnpUpdateLineResp
  <2>1. Respond(1) /\ UNCHANGED cpu /\ WriteLine(SnpMemRequest)
    BY <1>6 DEF SnpUpdateLineResp, SnpElse
  <2>2. SnpMemRequest.wstrb # {}
    BY <1>6, LaneAssumption DEF SnpUpdateLineResp, SnpMemRequest, MemWrite
  <2> QED BY <2>1, <2>2
<1>7. CASE PortStep
  BY <1>7 DEF PortStep
<1>8. ASSUME NEW i \in {0, 1}, GrantOutbound(i) PROVE UNCHANGED <<line, port, snp, cpu>>
  BY <1>8 DEF GrantOutbound
<1> QED
  BY <1>1, <1>2, <1>3, <1>4, <1>5, <1>6, <1>7, <1>8
  DEF ControllerStep, CpuStep, SnpStep, ArbiterStep

LEMMA ControllerKeepsMemory ==
  ASSUME ControllerTypeOK, MemoryInUse, ControllerStep
  PROVE  MemoryInUse'
<1> DEFINE Writing == cpu.state \in {"CPU_WRITE_MISS", "CPU_WRITE_MISS_ACK", "CPU_WRITE_REQ",
                                     "CPU_WRITE_RESP"}
<1>1. ASSUME UNCHANGED <<port, snp>>, cpu.state \notin CpuResponse, cpu'.state \notin CpuResponse,
             Writing' => cpu'.wstrb # {}
      PROVE  MemoryInUse'
  BY <1>1 DEF MemoryInUse
<1>2. ASSUME Respond(0), UNCHANGED snp, cpu'.state \notin CpuResponse, ~Writing'
      PROVE  MemoryInUse'
  BY <1>2, NoneAssumption DEF MemoryInUse, Respond, ControllerTypeOK
<1>3. ASSUME UNCHANGED <<port, cpu>>, snp.state \notin SnpResponse, snp'.state \notin SnpResponse
      PROVE  MemoryInUse'
  BY <1>3 DEF MemoryInUse
<1>4. ASSUME Respond(1), UNCHANGED cpu, snp'.state \notin SnpResponse
      PROVE  MemoryInUse'
  BY <1>4, NoneAssumption DEF MemoryInUse, Respond, ControllerTypeOK
<1>5. CASE AcceptAccess \/ AcceptFlush \/ EvictAck
  <2>1. /\ UNCHANGED <<port, snp>> /\ cpu.state \notin CpuResponse
        /\ cpu'.state \notin CpuResponse /\ ~Writing'
    BY <1>5 DEF AcceptAccess, AcceptFlush, EvictAck, CpuElse, CpuGoto, CpuResponse, ControllerTypeOK
  <2> QED BY <1>1, <2>1
<1>6. CASE EvictSent
  <2>1. AfterEvict \in {"CPU_EVICT_DIRTY_ACK", "CPU_TAG_MATCH", "CPU_FLUSH_EVICT_ACK",
                        "CPU_FLUSH_INVALIDATE_REQ"}
    BY DEF AfterEvict
  <2>2. /\ UNCHANGED <<port, snp>> /\ cpu.state \notin CpuResponse
        /\ cpu'.state \notin CpuResponse /\ ~Writing'
    BY <1>6, <2>1 DEF EvictSent, CpuGoto, CpuResponse, ControllerTypeOK
  <2> QED BY <1>1, <2>2
<1>7. CASE TagMatch
  <2>1. UNCHANGED <<port, snp>> /\ cpu.state = "CPU_TAG_MATCH"
    BY <1>7 DEF TagMatch, CpuElse
  <2>2. PICK q \in {"CPU_READ_MISS", "CPU_READ_REQ", "CPU_WRITE_MISS", "CPU_WRITE_REQ"} :
          CpuGoto(q) /\ (q \in {"CPU_WRITE_MISS", "CPU_WRITE_REQ"} => cpu.wstrb # {})
    BY <1>7 DEF TagMatch
  <2>3. cpu'.state = q /\ cpu'.wstrb = cpu.wstrb
    BY <2>2 DEF CpuGoto, ControllerTypeOK
  <2> QED BY <1>1, <2>1, <2>2, <2>3 DEF CpuResponse
<1>8. CASE MissSent \/ MissAck
  <2>1. /\ UNCHANGED <<port, snp>> /\ cpu.state \notin CpuResponse
        /\ cpu'.state \notin CpuResponse /\ (Writing' => Writing) /\ cpu'.wstrb = cpu.wstrb
    BY <1>8 DEF MissSent, MissAck, CpuElse, CpuGoto, CpuResponse, ControllerTypeOK
  <2>2. Writing => cpu.wstrb # {}
    BY DEF MemoryInUse
  <2> QED BY <1>1, <2>1, <2>2
<1>9. CASE \/ FetchLineResp \/ ReadMissUpdateLineResp \/ ReadResp \/ WriteResp \/ FlushLookupResp
           \/ FlushInvalidateResp
  <2>1. Respond(0) /\ UNCHANGED snp
    BY <1>9 DEF FetchLineResp, ReadMissUpdateLineResp, ReadResp, WriteResp, FlushLookupResp,
                FlushInvalidateResp, CpuElse
  <2>2. cpu'.state \in {"CPU_TAG_MISS", "CPU_TAG_MATCH", "CPU_READ_REQ", "CPU_IDLE", "CPU_FLUSH_EVICT"}
    <3>1. CASE FetchLineResp
      BY <3>1 DEF FetchLineResp, ControllerTypeOK
    <3>2. CASE ReadMissUpdateLineResp
      BY <3>2 DEF ReadMissUpdateLineResp, CpuGoto, ControllerTypeOK
    <3>3. CASE ReadResp \/ WriteResp \/ FlushInvalidateResp
      BY <3>3 DEF ReadResp, WriteResp, FlushInvalidateResp, CpuDone, CpuReset
    <3>4. CASE FlushLookupResp
      <4>1. \/ cpu' = [cpu EXCEPT !.line = line[cpu.addr.index], !.state = "CPU_FLUSH_EVICT"]
            \/ cpu' = CpuReset
        BY <3>4, Zenon DEF FlushLookupResp, CpuDone
      <4>2. CASE cpu' = [cpu EXCEPT !.line = line[cpu.addr.index], !.state = "CPU_FLUSH_EVICT"]
        <5>1. cpu'.state = "CPU_FLUSH_EVICT"
          BY <4>2 DEF ControllerTypeOK
        <5> QED BY <5>1
      <4>3. CASE cpu' = CpuReset
        BY <4>3 DEF CpuReset
      <4> QED BY <4>1, <4>2, <4>3
    <3> QED BY <1>9, <3>1, <3>2, <3>3, <3>4
  <2>3. cpu'.state \notin CpuResponse /\ ~Writing'
    BY <2>2 DEF CpuResponse
  <2> QED BY <1>2, <2>1, <2>3
<1>10. CASE AcceptSnoop \/ OnSnoopEventStep \/ SnoopAckSent
  <2>1. /\ UNCHANGED <<port, cpu>> /\ snp.state \notin SnpResponse
        /\ snp'.state \notin SnpResponse
    BY <1>10 DEF AcceptSnoop, OnSnoopEventStep, SnoopAckSent, SnpElse, SnpReset, SnpResponse,
                 ControllerTypeOK
  <2> QED BY <1>3, <2>1
<1>11. CASE SnpFetchLineResp \/ SnpUpdateLineResp
  <2>1. Respond(1) /\ UNCHANGED cpu /\ snp'.state \notin SnpResponse
    BY <1>11 DEF SnpFetchLineResp, SnpUpdateLineResp, SnpGoto, SnpElse, SnpResponse, ControllerTypeOK
  <2> QED BY <1>4, <2>1
<1>12. ASSUME NEW p \in {0, 1}, GrantPort(p) PROVE MemoryInUse'
  <2>1. port.owner = None /\ port'.owner = p /\ (p = 0 => UNCHANGED snp) /\ (p = 1 => UNCHANGED cpu)
    BY <1>12 DEF GrantPort, PortGrantable
  <2>2. cpu.state \notin CpuResponse /\ snp.state \notin SnpResponse
    BY <2>1, NoneAssumption DEF MemoryInUse
  <2>3. CASE p = 0
    <3>1. /\ cpu'.state \in CpuResponse /\ cpu'.wstrb = cpu.wstrb
          /\ cpu'.state = "CPU_WRITE_RESP" => cpu.state = "CPU_WRITE_REQ"
      BY <1>12, <2>3, GrantedCpu
    <3> QED BY <2>1, <2>2, <2>3, <3>1 DEF MemoryInUse, CpuResponse
  <2>4. CASE p = 1
    BY <1>12, <2>1, <2>2, <2>4, GrantedSnp DEF MemoryInUse
  <2> QED BY <2>3, <2>4
<1>13. ASSUME NEW i \in {0, 1}, GrantOutbound(i) PROVE MemoryInUse'
  BY <1>13 DEF GrantOutbound, MemoryInUse
<1> QED
  BY <1>5, <1>6, <1>7, <1>8, <1>9, <1>10, <1>11, <1>12, <1>13
  DEF ControllerStep, CpuStep, SnpStep, PortStep, ArbiterStep

\* The line is written when the memory responds, and counts as written from the grant.
LEMMA MemoryStep ==
  ASSUME ControllerTypeOK, MemoryInUse, MemTypes', ControllerStep
  PROVE  Memory!Next
<1> DEFINE req == [p \in {0, 1} |-> IF p = 0 THEN CpuMemRequest ELSE SnpMemRequest]
           lines == [i \in Index |-> AfterAccess(i)]
<1>a. /\ UNCHANGED cpu => UNCHANGED CpuMemRequest
      /\ UNCHANGED snp => UNCHANGED SnpMemRequest
  BY DEF CpuMemRequest, SnpMemRequest, OnProcessor, OnSnoop
<1>b. /\ port.owner = 0 => CpuMemRequest # None
      /\ port.owner = 1 => SnpMemRequest # None
  BY MemRequestTypes DEF MemoryInUse
<1>c. MemTypes
  BY MemRequestTypes
<1>1. ASSUME UNCHANGED <<line, port>>,
             \/ UNCHANGED snp /\ (UNCHANGED cpu \/ CpuMemRequest = None)
             \/ UNCHANGED cpu /\ (UNCHANGED snp \/ SnpMemRequest = None)
      PROVE  Memory!Next
  <2>1. UNCHANGED lines
    BY <1>1, <1>a, <1>b DEF AfterAccess
  <2>2. Memory!MastersHold
    BY <1>1, <1>a DEF Memory!MastersHold, Memory!Port, MemTypes
  <2> QED BY <1>1, <2>1, <2>2 DEF Memory!Next
<1>2. ASSUME NEW p \in {0, 1}, GrantPort(p) PROVE Memory!Next
  <2>1. /\ port.owner = None /\ port'.owner = p /\ port'.last_grant = p /\ WantsPort(p)
        /\ WantsPort(1 - p) => port.last_grant # p
        /\ UNCHANGED line
    BY <1>2 DEF GrantPort, PortGrantable
  <2>2. UNCHANGED req
    <3>1. p = 0 => UNCHANGED <<CpuMemRequest, SnpMemRequest>>
      BY <1>2, <1>a, GrantedCpu DEF GrantPort
    <3>2. p = 1 => UNCHANGED <<CpuMemRequest, SnpMemRequest>>
      BY <1>2, <1>a, GrantedSnp DEF GrantPort
    <3> QED BY <3>1, <3>2
  <2>3. req[p] # None /\ (req[1 - p] # None => WantsPort(1 - p))
    <3>1. cpu.state \notin CpuResponse /\ snp.state \notin SnpResponse
      BY <2>1, NoneAssumption DEF MemoryInUse
    <3>2. /\ CpuMemRequest # None <=> WantsPort(0)
          /\ SnpMemRequest # None <=> WantsPort(1)
      BY <3>1, MemRequestTypes DEF WantsPort
    <3> QED BY <2>1, <3>2
  <2>4. lines' = [lines EXCEPT ![req[p].index] = Memory!Written(@, req[p])]
    <3>1. \A i \in Index : lines[i] = line[i]
      BY <2>1, NoneAssumption DEF AfterAccess
    <3>2. \A i \in Index :
            lines'[i] = IF req[p].index = i /\ req[p].wstrb # {}
                        THEN [tag |-> req[p].tag, state |-> req[p].state,
                              data |-> ApplyWstrb(line[i].data, req[p].data, req[p].wstrb)]
                        ELSE line[i]
      <4>1. CASE p = 0
        <5>1. port'.owner = 0 /\ CpuMemRequest' = req[p] /\ line' = line
          BY <2>1, <2>2, <4>1
        <5> QED BY <5>1, <2>3 DEF AfterAccess
      <4>2. CASE p = 1
        <5>1. port'.owner = 1 /\ SnpMemRequest' = req[p] /\ line' = line
          BY <2>1, <2>2, <4>2
        <5> QED BY <5>1, <2>3 DEF AfterAccess
      <4> QED BY <4>1, <4>2
    <3> DEFINE r == req[p]
               Merged(old) == [tag |-> r.tag, state |-> r.state,
                               data |-> ApplyWstrb(old.data, r.data, r.wstrb)]
    <3> HIDE DEF req
    <3>3. \A old : Memory!Written(old, r) = IF r.wstrb = {} THEN old ELSE Merged(old)
      BY DEF Memory!Written, ApplyWstrb
    <3>4. \A i \in Index : lines'[i] = IF r.index = i THEN Memory!Written(lines[i], r) ELSE lines[i]
      BY <3>1, <3>2, <3>3
    <3> HIDE DEF r
    <3>5. lines' = [lines EXCEPT ![r.index] = Memory!Written(@, r)]
      BY <3>4
    <3> QED BY <3>5 DEF r
  <2>5. Memory!MastersHold
    BY <2>2 DEF Memory!MastersHold, Memory!Port
  <2>6. Memory!Grant(p)
    BY <2>1, <2>3, <2>4 DEF Memory!Grant
  <2> QED BY <2>5, <2>6 DEF Memory!Next, Memory!Port
<1>3. ASSUME NEW p \in {0, 1}, Respond(p), p = 0 => UNCHANGED snp, p = 1 => UNCHANGED cpu,
             IF req[p].wstrb = {} THEN UNCHANGED line ELSE WriteLine(req[p])
      PROVE  Memory!Next
  <2>1. /\ port.owner = p /\ port'.owner = None /\ UNCHANGED port.last_grant
        /\ port.owner # None
    BY <1>3, NoneAssumption DEF Respond, ControllerTypeOK
  <2>2. req[p] # None /\ req'[1 - p] = req[1 - p]
    BY <1>3, <2>1, <1>a, <1>b
  <2>3. UNCHANGED lines
    <3>1. \A i \in Index : lines'[i] = line'[i]
      BY <2>1, NoneAssumption DEF AfterAccess
    <3>2. \A i \in Index :
            lines[i] = IF req[p].index = i /\ req[p].wstrb # {}
                       THEN [tag |-> req[p].tag, state |-> req[p].state,
                             data |-> ApplyWstrb(line[i].data, req[p].data, req[p].wstrb)]
                       ELSE line[i]
      <4>1. CASE p = 0
        BY <2>1, <2>2, <4>1 DEF AfterAccess
      <4>2. CASE p = 1
        BY <2>1, <2>2, <4>2 DEF AfterAccess
      <4> QED BY <4>1, <4>2
    <3>3. line \in [Index -> Line]
      BY DEF ControllerTypeOK
    <3> HIDE DEF req
    <3>4. \A i \in Index : lines'[i] = lines[i]
      BY <1>3, <3>1, <3>2, <3>3 DEF WriteLine
    <3> QED BY <3>4
  <2>4. Memory!MastersHold
    <3>1. req'[p] \in MemRequest \cup {None}
      BY DEF MemTypes
    <3> QED BY <2>1, <2>2, <3>1 DEF Memory!MastersHold, Memory!Port
  <2>5. Memory!Respond
    BY <2>1, <2>3 DEF Memory!Respond
  <2> QED BY <2>4, <2>5 DEF Memory!Next
<1> QED BY <1>1, <1>2, <1>3, MemoryUse

\* The two machines hold address, data, tag, state and strobe wires from a request
\* to the memory until its response (the case arms of cache_controller.sv that
\* drive cm_cpu_* and cm_snoop_*), so that the memory of two_port_cache_mem.sv is
\* to them what AtomicCacheMem says.
THEOREM ImplementsMemory == Spec => UsesMemory
<1>1. Init => Memory!Init
  <2> SUFFICES ASSUME Init PROVE Memory!Init
    OBVIOUS
  <2>1. CpuMemRequest = None /\ SnpMemRequest = None
    BY DEF Init, ControllerInit, CpuReset, SnpReset, CpuMemRequest, SnpMemRequest
  <2>2. \A i \in Index : AfterAccess(i) = ZeroLine
    BY NoneAssumption DEF Init, ControllerInit, AfterAccess
  <2> QED BY <2>1, <2>2 DEF Init, ControllerInit, Memory!Init, Memory!Port
<1>2. IInv /\ MemoryInUse /\ [Next]_vars => MemoryInUse'
  <2> SUFFICES ASSUME IInv, MemoryInUse, [Next]_vars PROVE MemoryInUse'
    OBVIOUS
  <2>1. CASE Controller
    BY <2>1, ControllerKeepsMemory DEF Controller, Stepped, IInv, TypeOK
  <2>2. CASE Processor \/ Directory \/ UNCHANGED vars
    <3>1. UNCHANGED <<cpu, snp, port>>
      BY <2>2 DEF Processor, RaiseAccess, RaiseFlush, Directory, RequestArrives, SnoopAnswered,
                  Serve, SendSnoop, OtherStores, linkElse, vars, controllerVars
    <3> QED BY <3>1 DEF MemoryInUse
  <2> QED BY <2>1, <2>2 DEF Next
<1>3. IInv => MemTypes
  BY MemRequestTypes DEF IInv, TypeOK
<1>4. IInv /\ MemoryInUse /\ MemTypes' /\ [Next]_vars => [Memory!Next]_Memory!vars
  <2> SUFFICES ASSUME IInv, MemoryInUse, MemTypes', [Next]_vars
               PROVE  Memory!Next \/ UNCHANGED Memory!vars
    OBVIOUS
  <2>1. CASE Controller
    BY <2>1, MemoryStep DEF Controller, Stepped, IInv, TypeOK
  <2>2. CASE Processor \/ Directory \/ UNCHANGED vars
    <3>1. UNCHANGED <<cpu, snp, port, line>>
      BY <2>2 DEF Processor, RaiseAccess, RaiseFlush, Directory, RequestArrives, SnoopAnswered,
                  Serve, SendSnoop, OtherStores, linkElse, vars, controllerVars
    <3>2. UNCHANGED <<CpuMemRequest, SnpMemRequest>>
      BY <3>1 DEF CpuMemRequest, SnpMemRequest, OnProcessor, OnSnoop
    <3>3. \A i \in Index : UNCHANGED AfterAccess(i)
      BY <3>1, <3>2 DEF AfterAccess
    <3> QED BY <3>1, <3>2, <3>3 DEF Memory!vars
  <2> QED BY <2>1, <2>2 DEF Next
<1> QED BY <1>1, <1>2, <1>3, <1>4, InitMemory, Invariant, PTL DEF Spec, UsesMemory, Memory!Spec

--------------------------------------------------------------------------------
(* Tags. *)

\* A machine that has compared tags still finds the tag it compared, and while a
\* snoop is under way no line is refilled.
TagsStay ==
  /\ snp.state \in {"SNP_ON_SNOOP_EVENT", "SNP_UPDATE_LINE_REQ", "SNP_UPDATE_LINE_RESP"}
       => line[snp.addr.index].tag = snp.addr.tag
  /\ cpu.state \in {"CPU_TAG_MATCH", "CPU_WRITE_REQ", "CPU_WRITE_RESP"} /\ OnProcessor.cmd = "NULL"
       => line[cpu.addr.index].tag = cpu.addr.tag
  /\ cpu.state \in {"CPU_FLUSH_EVICT", "CPU_FLUSH_EVICT_ACK", "CPU_FLUSH_INVALIDATE_REQ",
                    "CPU_FLUSH_INVALIDATE_RESP"}
       => line[cpu.addr.index].tag = cpu.line.tag
  /\ cpu.state \in {"CPU_TAG_MISS", "CPU_EVICT_DIRTY_ACK"} => ~cpu.tag_match
  /\ cpu.state \in {"CPU_WRITE_MISS", "CPU_WRITE_MISS_ACK"} => OnProcessor.cmd # "NULL"
  /\ pending # None => ~Refilling

LEMMA InitTags == Init => TagsStay
BY DEF Init, ControllerInit, CpuReset, SnpReset, TagsStay, Refilling

SameTags == \A i \in Index : line'[i].tag = line[i].tag

\* Only a refill changes a tag.
LEMMA WriteKeepsTag ==
  ASSUME line \in [Index -> Line], NEW r \in MemRequest, WriteLine(r), r.tag = line[r.index].tag
  PROVE  SameTags
BY DEF WriteLine, SameTags, MemRequest

\* With no command to issue, the latched line is valid and has the tag asked for.
LEMMA HitIsValid ==
  ASSUME NEW match \in BOOLEAN, NEW state \in MSIState, NEW wstrb,
         OnProcessorEvent(IF match THEN state ELSE "I",
                          IF wstrb = {} THEN "PR_RD" ELSE "PR_WR").cmd = "NULL"
  PROVE  match /\ state # "I"
<1>1. \A e \in ProcessorEvent : OnProcessorEvent("I", e).cmd # "NULL"
  BY DEF OnProcessorEvent, ProcessorEvent
<1>2. (IF wstrb = {} THEN "PR_RD" ELSE "PR_WR") \in ProcessorEvent
  BY DEF ProcessorEvent
<1>3. (IF match THEN state ELSE "I") # "I"
  BY <1>1, <1>2
<1> QED BY <1>3

LEMMA ControllerKeepsTags ==
  ASSUME ControllerTypeOK, SnoopUnderway, TagsStay, ControllerStep, UNCHANGED pending
  PROVE  TagsStay'
<1> DEFINE SnpTag == snp.state \in {"SNP_ON_SNOOP_EVENT", "SNP_UPDATE_LINE_REQ", "SNP_UPDATE_LINE_RESP"}
                       => line[snp.addr.index].tag = snp.addr.tag
           HitTag == cpu.state \in {"CPU_TAG_MATCH", "CPU_WRITE_REQ", "CPU_WRITE_RESP"}
                         /\ OnProcessor.cmd = "NULL"
                       => line[cpu.addr.index].tag = cpu.addr.tag
           FlushTag == cpu.state \in {"CPU_FLUSH_EVICT", "CPU_FLUSH_EVICT_ACK",
                                     "CPU_FLUSH_INVALIDATE_REQ", "CPU_FLUSH_INVALIDATE_RESP"}
                         => line[cpu.addr.index].tag = cpu.line.tag
           MissTag == cpu.state \in {"CPU_TAG_MISS", "CPU_EVICT_DIRTY_ACK"} => ~cpu.tag_match
           MissCmd == cpu.state \in {"CPU_WRITE_MISS", "CPU_WRITE_MISS_ACK"} => OnProcessor.cmd # "NULL"
           CpuTags == HitTag /\ FlushTag /\ MissTag /\ MissCmd
           NoRefill == pending # None => ~Refilling
<1> USE CpuFields, SnpFields
<1>0. SnpTag /\ CpuTags /\ NoRefill
  BY DEF TagsStay
<1>1. SnpTag' /\ CpuTags' /\ NoRefill' => TagsStay'
  BY DEF TagsStay
<1>2. cpu.addr.index \in Index /\ snp.addr.index \in Index
  BY AddressFields
<1>3. UNCHANGED line => SameTags
  BY DEF SameTags
<1>4. SameTags /\ UNCHANGED snp => SnpTag'
  BY <1>0, <1>2 DEF SameTags
<1>5. SameTags /\ UNCHANGED cpu => CpuTags'
  BY <1>0, <1>2 DEF SameTags, OnProcessor
<1>6. UNCHANGED <<cpu, bus>> => NoRefill'
  BY <1>0 DEF Refilling, OnProcessor
<1>7. Refilling => pending' = None /\ snp.state = "SNP_IDLE"
  BY <1>0 DEF SnoopUnderway
<1>8. ASSUME UNCHANGED <<line, snp>>, CpuTags', Refilling' => Refilling PROVE TagsStay'
  BY <1>0, <1>1, <1>3, <1>4, <1>8
<1>9. ASSUME UNCHANGED <<cpu, bus>>, SameTags, SnpTag' PROVE TagsStay'
  BY <1>1, <1>5, <1>6, <1>9
<1>10. cpu \in [state : CpuState, addr : Addr, wstrb : SUBSET Lane, wdata : Word,
                line : Line, tag_match : BOOLEAN]
  BY DEF ControllerTypeOK
<1>11. ASSUME NEW q, CpuGoto(q)
       PROVE  /\ cpu'.state = q /\ cpu'.addr = cpu.addr /\ cpu'.line = cpu.line
              /\ cpu'.tag_match = cpu.tag_match /\ UNCHANGED OnProcessor
  <2>1. /\ cpu'.state = q /\ cpu'.addr = cpu.addr /\ cpu'.line = cpu.line
        /\ cpu'.tag_match = cpu.tag_match /\ cpu'.wstrb = cpu.wstrb
    BY <1>10, <1>11 DEF CpuGoto
  <2> QED BY <2>1 DEF OnProcessor
<1>12. ~cpu.tag_match => OnProcessor.cmd # "NULL"
  BY HitIsValid DEF OnProcessor
<1> HIDE DEF SnpTag
<1>13. CASE AcceptAccess \/ AcceptFlush
  <2>1. /\ UNCHANGED <<line, snp, bus>>
        /\ cpu'.state \in {"CPU_FETCH_LINE_REQ", "CPU_FLUSH_LOOKUP_REQ"}
    BY <1>10, <1>13 DEF AcceptAccess, AcceptFlush, CpuElse
  <2> QED BY <1>8, <2>1 DEF Refilling
<1>14. CASE FetchLineResp
  <2> DEFINE found == line[cpu.addr.index]
             miss == found.tag # cpu.addr.tag /\ found.state # "I"
  <2>1. /\ UNCHANGED <<line, snp, bus>>
        /\ cpu'.state = IF miss THEN "CPU_TAG_MISS" ELSE "CPU_TAG_MATCH"
        /\ cpu'.line = found /\ cpu'.addr = cpu.addr /\ cpu'.tag_match = (cpu.tag_match /\ ~miss)
        /\ cpu'.tag_match \in BOOLEAN /\ found.state \in MSIState
    BY <1>2, <1>10, <1>14 DEF FetchLineResp, CpuElse, ControllerTypeOK, Line
  <2>2. OnProcessor'.cmd = "NULL" => cpu'.tag_match /\ found.state # "I"
    BY <2>1, HitIsValid DEF OnProcessor
  <2>3. CpuTags'
    BY <2>1, <2>2
  <2> QED BY <1>8, <2>1, <2>3 DEF Refilling
<1>15. CASE EvictSent
  <2>1. /\ UNCHANGED <<line, snp, bus>> /\ CpuGoto(AfterEvict)
        /\ cpu.state \in {"CPU_TAG_MISS", "CPU_FLUSH_EVICT"}
    BY <1>15 DEF EvictSent
  <2>2. CASE cpu.state = "CPU_TAG_MISS"
    <3>1. cpu'.state \in {"CPU_EVICT_DIRTY_ACK", "CPU_TAG_MATCH"}
      BY <1>11, <2>1, <2>2 DEF AfterEvict
    <3>2. CpuTags'
      BY <1>0, <1>11, <1>12, <2>1, <2>2, <3>1
    <3> QED BY <1>8, <2>1, <3>1, <3>2 DEF Refilling
  <2>3. CASE cpu.state = "CPU_FLUSH_EVICT"
    <3>1. cpu'.state \in {"CPU_FLUSH_EVICT_ACK", "CPU_FLUSH_INVALIDATE_REQ"}
      BY <1>11, <2>1, <2>3 DEF AfterEvict
    <3>2. CpuTags'
      BY <1>0, <1>11, <2>1, <2>3, <3>1
    <3> QED BY <1>8, <2>1, <3>1, <3>2 DEF Refilling
  <2> QED BY <2>1, <2>2, <2>3
<1>16. CASE EvictAck
  <2>1. /\ UNCHANGED <<line, snp>> /\ bus' = None
        /\ cpu.state \in {"CPU_EVICT_DIRTY_ACK", "CPU_FLUSH_EVICT_ACK"}
        /\ CpuGoto(IF cpu.state = "CPU_EVICT_DIRTY_ACK" THEN "CPU_TAG_MATCH"
                                                        ELSE "CPU_FLUSH_INVALIDATE_REQ")
    BY <1>16 DEF EvictAck, CpuElse
  <2>2. CpuTags'
    BY <1>0, <1>11, <1>12, <2>1
  <2>3. ~Refilling'
    BY <1>11, <2>1 DEF Refilling
  <2> QED BY <1>8, <2>1, <2>2, <2>3
<1>17. CASE TagMatch
  <2>1. UNCHANGED <<line, snp, bus>> /\ cpu.state = "CPU_TAG_MATCH"
    BY <1>17 DEF TagMatch, CpuElse
  <2>2. PICK q \in {"CPU_READ_MISS", "CPU_READ_REQ", "CPU_WRITE_MISS", "CPU_WRITE_REQ"} :
          /\ CpuGoto(q)
          /\ q = "CPU_WRITE_REQ" => OnProcessor.cmd = "NULL"
          /\ q = "CPU_WRITE_MISS" => OnProcessor.cmd # "NULL"
    BY <1>17 DEF TagMatch
  <2>3. CpuTags'
    BY <1>0, <1>11, <2>1, <2>2
  <2>4. Refilling' => Refilling
    BY <1>11, <2>1, <2>2 DEF Refilling
  <2> QED BY <1>8, <2>1, <2>3, <2>4
<1>18. CASE MissSent
  <2>1. /\ UNCHANGED <<line, snp, bus>> /\ cpu.state \in {"CPU_READ_MISS", "CPU_WRITE_MISS"}
        /\ CpuGoto(IF cpu.state = "CPU_READ_MISS" THEN "CPU_READ_MISS_ACK" ELSE "CPU_WRITE_MISS_ACK")
    BY <1>18 DEF MissSent
  <2>2. CpuTags'
    BY <1>0, <1>11, <2>1
  <2>3. Refilling' => Refilling
    BY <1>11, <2>1 DEF Refilling
  <2> QED BY <1>8, <2>1, <2>2, <2>3
<1>19. CASE MissAck
  <2>1. /\ UNCHANGED <<line, snp>> /\ Refilling
        /\ cpu.state \in {"CPU_READ_MISS_ACK", "CPU_WRITE_MISS_ACK"}
    BY <1>19 DEF MissAck, CpuElse, Refilling
  <2>2. /\ cpu'.state = IF cpu.state = "CPU_READ_MISS_ACK" THEN "CPU_READ_MISS_UPDATE_LINE_REQ"
                                                          ELSE "CPU_WRITE_REQ"
        /\ cpu'.line.state = cpu.line.state /\ cpu'.tag_match = cpu.tag_match
        /\ cpu'.wstrb = cpu.wstrb
    BY <1>10, <1>19 DEF MissAck, Line
  <2>3. UNCHANGED OnProcessor
    BY <2>2 DEF OnProcessor
  <2>4. CpuTags'
    BY <1>0, <2>1, <2>2, <2>3
  <2> QED BY <1>8, <2>1, <2>4
<1>20. CASE ReadMissUpdateLineResp
  <2>1. Refilling /\ UNCHANGED snp /\ cpu'.state = "CPU_READ_REQ"
    BY <1>11, <1>20 DEF ReadMissUpdateLineResp, Refilling, CpuElse
  <2>2. CpuTags' /\ SnpTag' /\ NoRefill'
    BY <1>7, <2>1 DEF SnpTag
  <2> QED BY <1>1, <2>2
<1>21. CASE ReadResp
  <2>1. UNCHANGED <<line, snp, bus>> /\ cpu'.state = "CPU_IDLE"
    BY <1>21 DEF ReadResp, CpuElse, CpuDone, CpuReset
  <2> QED BY <1>8, <2>1 DEF Refilling
<1>22. CASE WriteResp
  <2>1. UNCHANGED <<snp, bus>> /\ cpu'.state = "CPU_IDLE" /\ WriteLine(CpuMemRequest)
    BY <1>22 DEF WriteResp, CpuElse, CpuDone, CpuReset
  <2>2. CpuTags'
    BY <2>1
  <2>3. CASE OnProcessor.cmd = "NULL"
    <3>1. /\ CpuMemRequest \in MemRequest /\ CpuMemRequest.index = cpu.addr.index
          /\ CpuMemRequest.tag = cpu.addr.tag
      BY <1>22, MemRequests DEF WriteResp, CpuMemRequest, MemWrite
    <3>2. CpuMemRequest.tag = line[CpuMemRequest.index].tag
      BY <1>0, <1>22, <2>3, <3>1 DEF WriteResp
    <3>3. SameTags
      BY <2>1, <3>1, <3>2, WriteKeepsTag DEF ControllerTypeOK
    <3>4. Refilling' => Refilling
      BY <2>1 DEF Refilling
    <3> QED BY <1>0, <1>1, <1>4, <2>1, <2>2, <3>3, <3>4
  <2>4. CASE OnProcessor.cmd # "NULL"
    <3>1. Refilling
      BY <1>22, <2>4 DEF WriteResp, Refilling
    <3>2. SnpTag' /\ NoRefill'
      BY <1>7, <2>1, <3>1 DEF SnpTag
    <3> QED BY <1>1, <2>2, <3>2
  <2> QED BY <2>3, <2>4
<1>23. CASE FlushLookupResp
  <2>1. UNCHANGED <<line, snp, bus>>
    BY <1>23 DEF FlushLookupResp, CpuElse
  <2>2. \/ cpu' = [cpu EXCEPT !.line = line[cpu.addr.index], !.state = "CPU_FLUSH_EVICT"]
        \/ cpu' = CpuReset
    BY <1>23, Zenon DEF FlushLookupResp, CpuDone
  <2>3. CASE cpu' = CpuReset
    <3>1. cpu'.state = "CPU_IDLE"
      BY <2>3 DEF CpuReset
    <3> QED BY <1>8, <2>1, <3>1 DEF Refilling
  <2>4. CASE cpu' = [cpu EXCEPT !.line = line[cpu.addr.index], !.state = "CPU_FLUSH_EVICT"]
    <3>1. /\ cpu'.state = "CPU_FLUSH_EVICT" /\ cpu'.line = line[cpu.addr.index]
          /\ cpu'.addr = cpu.addr
      BY <1>10, <2>4
    <3>2. CpuTags'
      BY <2>1, <3>1
    <3> QED BY <1>8, <2>1, <3>1, <3>2 DEF Refilling
  <2> QED BY <2>2, <2>3, <2>4
<1>24. CASE FlushInvalidateResp
  <2>1. UNCHANGED <<snp, bus>> /\ cpu'.state = "CPU_IDLE" /\ WriteLine(CpuMemRequest)
    BY <1>24 DEF FlushInvalidateResp, CpuElse, CpuDone, CpuReset
  <2>2. /\ CpuMemRequest \in MemRequest /\ CpuMemRequest.index = cpu.addr.index
        /\ CpuMemRequest.tag = cpu.line.tag
    BY <1>24, MemRequests DEF FlushInvalidateResp, CpuMemRequest, MemWrite
  <2>3. CpuMemRequest.tag = line[CpuMemRequest.index].tag
    BY <1>0, <1>24, <2>2 DEF FlushInvalidateResp
  <2>4. SameTags
    BY <2>1, <2>2, <2>3, WriteKeepsTag DEF ControllerTypeOK
  <2>5. Refilling' => Refilling
    BY <2>1 DEF Refilling
  <2> QED BY <1>0, <1>1, <1>4, <2>1, <2>4, <2>5
<1>25. CASE AcceptSnoop \/ SnoopAckSent
  <2>1. UNCHANGED <<cpu, line, bus>> /\ snp'.state \in {"SNP_FETCH_LINE_REQ", "SNP_IDLE"}
    BY <1>25 DEF AcceptSnoop, SnoopAckSent, SnpElse, SnpReset, ControllerTypeOK
  <2> QED BY <1>3, <1>9, <2>1 DEF SnpTag
<1>26. CASE SnpFetchLineResp
  <2>1. UNCHANGED <<cpu, line, bus>> /\ snp'.addr = snp.addr
        /\ (line[snp.addr.index].tag # snp.addr.tag => snp'.state = "SNP_DONE")
    BY <1>26 DEF SnpFetchLineResp, SnpElse, ControllerTypeOK
  <2> QED BY <1>3, <1>9, <2>1 DEF SnpTag
<1>27. CASE OnSnoopEventStep
  <2>1. UNCHANGED <<cpu, line, bus>> /\ snp'.addr = snp.addr /\ snp.state = "SNP_ON_SNOOP_EVENT"
    BY <1>27 DEF OnSnoopEventStep, SnpElse, ControllerTypeOK
  <2> QED BY <1>0, <1>3, <1>9, <2>1 DEF SnpTag
<1>28. CASE SnpUpdateLineResp
  <2>1. /\ UNCHANGED <<cpu, bus>> /\ snp.state = "SNP_UPDATE_LINE_RESP"
        /\ snp'.state = "SNP_DONE" /\ WriteLine(SnpMemRequest)
    BY <1>28 DEF SnpUpdateLineResp, SnpElse, SnpGoto, ControllerTypeOK
  <2>2. /\ SnpMemRequest \in MemRequest /\ SnpMemRequest.index = snp.addr.index
        /\ SnpMemRequest.tag = snp.addr.tag
    BY <2>1, MemRequests
  <2>3. SameTags
    BY <1>0, <2>1, <2>2, WriteKeepsTag DEF ControllerTypeOK, SnpTag
  <2> QED BY <1>9, <2>1, <2>3 DEF SnpTag
<1>29. ASSUME NEW p \in {0, 1}, GrantPort(p) PROVE TagsStay'
  <2>1. UNCHANGED <<line, bus>>
    BY <1>29 DEF GrantPort
  <2>2. CASE p = 0
    <3>1. /\ UNCHANGED snp /\ CpuGoto(CpuAccessState[cpu.state])
          /\ cpu.state \in DOMAIN CpuAccessState
      BY <1>29, <2>2 DEF GrantPort, PortGrantable, WantsPort, CpuGoto
    <3>2. /\ CpuAccessState["CPU_FETCH_LINE_REQ"] = "CPU_FETCH_LINE_RESP"
          /\ CpuAccessState["CPU_READ_MISS_UPDATE_LINE_REQ"] = "CPU_READ_MISS_UPDATE_LINE_RESP"
          /\ CpuAccessState["CPU_READ_REQ"] = "CPU_READ_RESP"
          /\ CpuAccessState["CPU_WRITE_REQ"] = "CPU_WRITE_RESP"
          /\ CpuAccessState["CPU_FLUSH_LOOKUP_REQ"] = "CPU_FLUSH_LOOKUP_RESP"
          /\ CpuAccessState["CPU_FLUSH_INVALIDATE_REQ"] = "CPU_FLUSH_INVALIDATE_RESP"
      BY DEF CpuAccessState
    <3>3. CpuTags'
      BY <1>0, <1>11, <2>1, <3>1, <3>2, AccessStates
    <3>4. Refilling' => Refilling
      BY <1>11, <2>1, <3>1, <3>2, AccessStates DEF Refilling
    <3> QED BY <1>8, <2>1, <3>1, <3>3, <3>4
  <2>3. CASE p = 1
    <3>1. /\ UNCHANGED cpu /\ snp'.addr = snp.addr
          /\ \/ snp.state = "SNP_FETCH_LINE_REQ" /\ snp'.state = "SNP_FETCH_LINE_RESP"
             \/ snp.state = "SNP_UPDATE_LINE_REQ" /\ snp'.state = "SNP_UPDATE_LINE_RESP"
      BY <1>29, <2>3 DEF GrantPort, PortGrantable, WantsPort, SnpAccessState, ControllerTypeOK
    <3> QED BY <1>0, <1>3, <1>9, <2>1, <3>1 DEF SnpTag
  <2> QED BY <2>2, <2>3
<1>30. ASSUME NEW i \in {0, 1}, GrantOutbound(i) PROVE TagsStay'
  BY <1>3, <1>4, <1>9, <1>30 DEF GrantOutbound
<1> QED
  BY <1>13, <1>14, <1>15, <1>16, <1>17, <1>18, <1>19, <1>20, <1>21, <1>22, <1>23, <1>24, <1>25,
     <1>26, <1>27, <1>28, <1>29, <1>30
  DEF ControllerStep, CpuStep, SnpStep, PortStep, ArbiterStep

\* The tag check of SNP_FETCH_LINE_RESP in cache_controller.sv (lines 447-458): a
\* snoop changes only a line that has the snooped address, however long ago the
\* tag was compared, and is answered with data only if it found one.
THEOREM GhostsAreHarmless == Spec => GhostSnoopsAreHarmless
<1>1. IInv /\ TagsStay /\ [Next]_vars => TagsStay'
  <2> SUFFICES ASSUME IInv, TagsStay, [Next]_vars PROVE TagsStay'
    OBVIOUS
  <2>1. CASE Controller
    BY <2>1, ControllerKeepsTags DEF Controller, Stepped, dirVars, IInv, TypeOK
  <2>2. ASSUME UNCHANGED <<cpu, snp, line>>, pending' # None => ~Refilling' PROVE TagsStay'
    BY <2>2 DEF TagsStay, OnProcessor
  <2>3. CASE Processor \/ UNCHANGED vars
    <3>1. UNCHANGED <<cpu, snp, line, bus, pending>>
      BY <2>3 DEF Processor, RaiseAccess, RaiseFlush, vars, controllerVars, dirVars
    <3>2. pending' # None => ~Refilling'
      BY <3>1 DEF TagsStay, Refilling, OnProcessor
    <3> QED BY <2>2, <3>1, <3>2
  <2>4. CASE Directory
    <3>1. UNCHANGED <<cpu, snp, line>>
      BY <2>4 DEF Directory, RequestArrives, SnoopAnswered, Serve, SendSnoop, OtherStores, linkElse
    <3>2. pending' = None \/ (UNCHANGED bus /\ (~Refilling \/ UNCHANGED pending))
      <4>1. CASE RequestArrives
        BY <4>1 DEF RequestArrives
      <4>2. CASE SnoopAnswered
        BY <4>2 DEF SnoopAnswered
      <4>3. CASE Serve
        BY <4>3, Zenon DEF Serve
      <4>4. ASSUME NEW a \in Addr, NEW cmd \in SnoopEvent, SendSnoop(a, cmd)
            PROVE  UNCHANGED bus /\ ~Refilling
        BY <4>4 DEF SendSnoop
      <4>5. ASSUME NEW a \in Addr, NEW word \in Word, OtherStores(a, word)
            PROVE  UNCHANGED <<bus, pending>>
        BY <4>5 DEF OtherStores
      <4> QED BY <2>4, <4>1, <4>2, <4>3, <4>4, <4>5, Zenon DEF Directory
    <3>3. pending' # None => ~Refilling'
      BY <3>1, <3>2 DEF TagsStay, Refilling, OnProcessor
    <3> QED BY <2>2, <3>1, <3>3
  <2> QED BY <2>1, <2>3, <2>4 DEF Next
<1>2. IInv /\ TagsStay =>
        (SnpStep /\ line' # line => line[snp.addr.index].tag = snp.addr.tag)
  BY DEF SnpStep, AcceptSnoop, SnpFetchLineResp, OnSnoopEventStep, SnpUpdateLineResp, SnoopAckSent,
         TagsStay
<1>3. IInv /\ [Next]_vars =>
        (snp'.state = "SNP_DONE" /\ snp.state = "SNP_FETCH_LINE_RESP" => ~snp'.flush)
  <2> SUFFICES ASSUME IInv, [Next]_vars,
                      snp'.state = "SNP_DONE", snp.state = "SNP_FETCH_LINE_RESP"
               PROVE  ~snp'.flush
    OBVIOUS
  <2>1. snp' # snp
    OBVIOUS
  <2>2. ControllerTypeOK
    BY DEF IInv, TypeOK
  <2>3. ~Processor /\ ~UNCHANGED vars
    BY <2>1 DEF Processor, RaiseAccess, RaiseFlush, vars, controllerVars
  <2>4. ~Directory
    BY <2>1, Zenon DEF Directory, RequestArrives, SnoopAnswered, Serve, SendSnoop, OtherStores, linkElse
  <2>5. ~CpuStep /\ ~ArbiterStep
    BY <2>1, Zenon DEF CpuStep, AcceptAccess, AcceptFlush, FetchLineResp, EvictSent, EvictAck, TagMatch,
      MissSent, MissAck, ReadMissUpdateLineResp, ReadResp, WriteResp, FlushLookupResp,
      FlushInvalidateResp, CpuElse, ArbiterStep, GrantOutbound
  <2>6. ~PortStep
    <3> SUFFICES ASSUME NEW p \in {0, 1}, GrantPort(p) PROVE FALSE
      BY DEF PortStep
    <3>1. p = 1
      BY <2>1 DEF GrantPort
    <3> QED BY <3>1 DEF GrantPort, PortGrantable, WantsPort, SnpAccessState
  <2>7. SnpStep
    BY <2>3, <2>4, <2>5, <2>6 DEF Next, Controller, Stepped, ControllerStep
  <2>8. SnpFetchLineResp
    BY <2>7 DEF SnpStep, AcceptSnoop, OnSnoopEventStep, SnpUpdateLineResp, SnoopAckSent
  <2>9. snp' = [snp EXCEPT !.state = "SNP_DONE", !.flush = FALSE]
    BY <2>2, <2>8 DEF SnpFetchLineResp, GhostFlush, ControllerTypeOK
  <2> QED BY <2>2, <2>9 DEF ControllerTypeOK
<1> QED BY <1>1, <1>2, <1>3, InitTags, Invariant, PTL DEF Spec, GhostSnoopsAreHarmless

--------------------------------------------------------------------------------
(* Data: the invariant. *)

\* What the theorems of this module are about.  Neither can be left out:
\* the runs controller_store_lost and controller_partial_miss show why.
WholeWords == \A access \in Workload : access.wstrb \in {{}, Lane}
KeptApart == ~SameIndexSnoops /\ WholeWords

\* The snoop under way is the one the directory waits for, goes to a holder,
\* and has its index to itself.
Apart ==
  /\ pending # None => ~IndexInUse(pending.addr.index)
  /\ pending # None =>
       pending.cmd \in CASE perm[pending.addr] = "M" -> {"BUS_RD", "BUS_RDX"}
                         [] perm[pending.addr] = "S" -> {"BUS_RDX", "BUS_UPGR"}
                         [] OTHER -> {}
  /\ snoop # None => snoop = pending
  /\ snp.state # "SNP_IDLE" => snp.addr = pending.addr /\ snp.cmd = pending.cmd

\* Between an answer and the refill nothing is on its way to the directory.
InOrder ==
  /\ Refilling => request = None /\ (sent = None \/ sent.snoop)
  /\ request # None => ~request.snoop

\* What is on its way is what the machine asked for; a line whose eviction has
\* been sent is not used again.
InTransit == {m \in {request, sent} : m # None /\ ~m.snoop}

Acked == cpu.state \in {"CPU_EVICT_DIRTY_ACK", "CPU_FLUSH_EVICT_ACK"} => bus # None

Retired(a) == Leaving(a) /\ cpu.state # "CPU_TAG_MISS" /\ Acked

Valid(a) == line[a.index].tag = a.tag /\ line[a.index].state # "I" /\ ~Retired(a)

SentAt(m) ==
  /\ m.cmd = "EVICT_CLEAN" => ~Valid(m.addr) /\ perm[m.addr] # "M"
  /\ m.cmd = "EVICT_DIRTY" => /\ m.addr = [tag |-> cpu.line.tag, index |-> cpu.addr.index]
                              /\ m.data = cpu.line.data
  /\ m.cmd \in BusCmd => m.addr = cpu.addr

Sent == \A m \in InTransit : SentAt(m)

\* The directory has granted the write the CPU machine asked for.
Upgraded ==
  \/ bus # None /\ bus.cmd \in {"BUS_RDX", "BUS_UPGR"}
  \/ cpu.state \in {"CPU_WRITE_REQ", "CPU_WRITE_RESP"} /\ OnProcessor.cmd # "NULL"

Granted ==
  /\ bus # None /\ bus.cmd = "BUS_RD" => perm[cpu.addr] = "S" /\ bus.data = latest[cpu.addr]
  /\ cpu.state \in {"CPU_READ_MISS_UPDATE_LINE_REQ", "CPU_READ_MISS_UPDATE_LINE_RESP"}
       => perm[cpu.addr] = "S" /\ cpu.line.data = latest[cpu.addr]
  /\ Upgraded => perm[cpu.addr] = "M"

\* The snoop has changed the line, and the answer is on its way.
Snooped == snp.state = "SNP_DONE" \/ (sent # None /\ sent.snoop)

SnoopedLine ==
  Snooped => LET a == pending.addr
             IN Valid(a) => pending.cmd = "BUS_RD" /\ line[a.index].state = "S"

\* The current word of address a is in the cache's line, or with the answer to
\* a snoop; until a write that has been granted is done, the directory has it.
Owned(a) == Valid(a) /\ line[a.index].state = "M"

Answered(a) ==
  /\ pending # None /\ pending.addr = a
  /\ \/ snp.state = "SNP_DONE" /\ snp.flush /\ snp.flush_data = latest[a]
     \/ sent # None /\ sent.snoop /\ sent.data = latest[a]

CurrentAt(a) ==
  /\ perm[a] # "M" => home[a] = latest[a]
  /\ perm[a] = "M" => Owned(a) \/ Answered(a) \/ (Upgraded /\ cpu.addr = a /\ home[a] = latest[a])
  /\ Valid(a) => /\ line[a.index].data = latest[a]
                 /\ line[a.index].state = "M" => perm[a] = "M"
                 /\ line[a.index].state = "S" => perm[a] # "I"

Current == \A a \in Addr : CurrentAt(a)

DataInv == /\ IInv
           /\ Serving /\ Apart /\ Latched /\ Decided /\ SnpLatched /\ InOrder /\ Sent /\ Granted
           /\ SnoopedLine /\ Current

--------------------------------------------------------------------------------
(* The steps of the controller: control. *)

LEMMA ApartKept ==
  ASSUME ControllerTypeOK, LinesHaveAddresses, PortHolds, Apart, SnoopUnderway, ControllerStep,
         UNCHANGED <<pending, perm>>
  PROVE  Apart'
<1>1. ASSUME mem' \in {mem, None}, flush' \in {flush, None},
             snoop' \in {snoop, None},
             snp'.state # "SNP_IDLE" => snp'.addr = pending.addr /\ snp'.cmd = pending.cmd
      PROVE  Apart'
  BY <1>1 DEF Apart, IndexInUse
<1>2. CASE CpuStep \/ GrantPort(0)
  BY <1>1, <1>2, CpuLeaves DEF Apart
<1>3. CASE AcceptSnoop
  BY <1>1, <1>3, AcceptSnoopFields DEF Apart
<1>4. CASE SnpFetchLineResp
  BY <1>1, <1>4, SnpFetchFields DEF Apart
<1>5. CASE OnSnoopEventStep
  BY <1>1, <1>5, OnSnoopFields DEF Apart
<1>6. CASE SnpUpdateLineResp
  BY <1>1, <1>6, SnpUpdateFields DEF Apart
<1>7. CASE SnoopAckSent
  BY <1>1, <1>7, SnoopAckFields DEF Apart
<1>8. CASE GrantPort(1)
  BY <1>1, <1>8, GrantSnpFields DEF Apart
<1>9. CASE ArbiterStep
  BY <1>1, <1>9 DEF Apart, ArbiterStep, GrantOutbound
<1> QED
  BY <1>2, <1>3, <1>4, <1>5, <1>6, <1>7, <1>8, <1>9 DEF ControllerStep, SnpStep, PortStep

\* The CPU machine has the index it works on to itself.
LEMMA OwnIndex ==
  ASSUME ControllerTypeOK, Serving, Apart, SnoopUnderway, cpu.state # "CPU_IDLE"
  PROVE  /\ pending # None => pending.addr.index # cpu.addr.index
         /\ snp.state # "SNP_IDLE" => snp.addr.index # cpu.addr.index
<1>1. cpu.state \in AccessState \cup FlushState
  BY CpuFields DEF CpuState, AccessState, FlushState
<1>2. IndexInUse(cpu.addr.index)
  BY <1>1, CpuFields, NoneAssumption DEF Serving, IndexInUse
<1> QED BY <1>2 DEF Apart, SnoopUnderway

LEMMA SnoopsKeepClear ==
  ASSUME ControllerTypeOK, Serving, Apart, SnoopUnderway
  PROVE  MachinesApart
BY OwnIndex DEF MachinesApart

\* Nothing is sent, and nothing arrives, between the answer and the refill.
LEMMA InOrderKept ==
  ASSUME ControllerTypeOK, LinesHaveAddresses, PortHolds, InFlight, InOrder, ControllerStep,
         UNCHANGED request
  PROVE  InOrder'
<1>1. ASSUME Refilling' => Refilling, UNCHANGED sent \/ sent'.snoop PROVE InOrder'
  BY <1>1 DEF InOrder
<1>2. CASE EvictSent \/ MissSent
  <2>1. cpu.state \in {"CPU_TAG_MISS", "CPU_FLUSH_EVICT", "CPU_READ_MISS", "CPU_WRITE_MISS"}
    BY <1>2, EvictSentFields, MissSentFields
  <2>2. bus = None
    BY <2>1 DEF InFlight, Awaited
  <2>3. UNCHANGED bus
    BY <1>2, EvictSentFields, MissSentFields
  <2>4. cpu'.state \notin {"CPU_READ_MISS_UPDATE_LINE_REQ", "CPU_READ_MISS_UPDATE_LINE_RESP",
                           "CPU_WRITE_REQ", "CPU_WRITE_RESP"}
    BY <1>2, EvictSentFields, MissSentFields DEF AfterEvict
  <2>5. ~Refilling'
    BY <2>2, <2>3, <2>4 DEF Refilling
  <2> QED BY <2>5 DEF InOrder
<1>3. CASE EvictAck \/ MissAck
  <2>1. bus # None /\ UNCHANGED sent
    BY <1>3, EvictAckFields, MissAckFields
  <2> QED BY <1>1, <2>1 DEF Refilling
<1>4. CASE TagMatch
  BY <1>1, <1>4, TagMatchFields DEF Refilling, SameDecision
<1>5. CASE GrantPort(0)
  BY <1>1, <1>5, GrantFields DEF Refilling, SameDecision
<1>6. CASE \/ AcceptAccess \/ AcceptFlush \/ FetchLineResp \/ ReadMissUpdateLineResp \/ ReadResp
           \/ WriteResp \/ FlushLookupResp \/ FlushInvalidateResp
  <2>1. UNCHANGED <<bus, sent>>
    BY <1>6 DEF AcceptAccess, AcceptFlush, FetchLineResp, ReadMissUpdateLineResp, ReadResp,
                WriteResp, FlushLookupResp, FlushInvalidateResp, CpuElse
  <2>2. cpu'.state \notin {"CPU_READ_MISS_UPDATE_LINE_REQ", "CPU_READ_MISS_UPDATE_LINE_RESP",
                           "CPU_WRITE_REQ", "CPU_WRITE_RESP"}
    BY <1>6, AcceptAccessFields, AcceptFlushFields, FetchLineRespFields, ReadMissUpdateFields,
       FlushLookupFields, ResetFields
    DEF ReadResp, WriteResp, FlushInvalidateResp, CpuDone
  <2> QED BY <1>1, <2>1, <2>2 DEF Refilling
<1>7. CASE SnpStep \/ GrantPort(1) \/ ArbiterStep
  <2>1. UNCHANGED <<cpu, bus>>
    BY <1>7, SnpLeaves
  <2>2. UNCHANGED sent \/ sent'.snoop
    BY <1>7, AcceptSnoopFields, SnpFetchFields, OnSnoopFields, SnpUpdateFields, SnoopAckFields,
       GrantSnpFields
    DEF SnpStep, ArbiterStep, GrantOutbound
  <2>3. UNCHANGED Refilling
    BY <2>1 DEF Refilling, OnProcessor
  <2> QED BY <1>1, <2>2, <2>3
<1> QED
  BY <1>2, <1>3, <1>4, <1>5, <1>6, <1>7 DEF ControllerStep, CpuStep, PortStep

--------------------------------------------------------------------------------
(* The steps of the controller: data. *)

\* The steps of the CPU machine that leave the memory as it is.
Quiet ==
  \/ AcceptAccess \/ AcceptFlush \/ FetchLineResp \/ EvictSent \/ EvictAck \/ TagMatch
  \/ MissSent \/ MissAck \/ ReadResp \/ FlushLookupResp \/ GrantPort(0)

LEMMA DataInvParts ==
  ASSUME DataInv
  PROVE  /\ ControllerTypeOK /\ LinesHaveAddresses /\ PortHolds /\ InFlight /\ SnoopUnderway
         /\ Serving /\ Apart /\ Latched /\ Decided /\ SnpLatched /\ InOrder /\ Sent /\ Granted
         /\ SnoopedLine /\ Current
BY DEF DataInv, IInv, TypeOK

\* Answers come only while the CPU machine waits for them.
LEMMA NoAnswer ==
  ASSUME InFlight, cpu.state \notin {"CPU_EVICT_DIRTY_ACK", "CPU_FLUSH_EVICT_ACK",
                                     "CPU_READ_MISS_ACK", "CPU_WRITE_MISS_ACK"}
  PROVE  bus = None
BY DEF InFlight, Awaited

LEMMA QuietValid ==
  ASSUME DataInv, Quiet, NEW a \in Addr
  PROVE  /\ line'[a.index] = line[a.index]
         /\ Valid(a)' => Valid(a)
         /\ Owned(a) => Owned(a)'
<1> USE DataInvParts DEF Valid, Owned, Retired, Leaving, Acked, SameDecision
<1>1. CASE AcceptAccess
  BY <1>1, AcceptAccessFields DEF Decided
<1>2. CASE AcceptFlush
  BY <1>2, AcceptFlushFields DEF Decided
<1>3. CASE FetchLineResp
  BY <1>3, FetchLineRespFields DEF Decided
<1>4. CASE EvictSent
  <2>1. /\ UNCHANGED <<line, bus>> /\ SameDecision /\ cpu'.state = AfterEvict
        /\ cpu.state \in {"CPU_TAG_MISS", "CPU_FLUSH_EVICT"}
    BY <1>4, EvictSentFields
  <2>2. bus = None
    BY <2>1, NoAnswer
  <2>3. ~Retired(a)
    BY <2>1 DEF Decided, FlushState
  <2>4. cpu.line.state = "M" => ~Acked'
    BY <2>1, <2>2 DEF AfterEvict
  <2>5. cpu.line.state # "M" /\ Retired(a)' => line[a.index].state # "M"
    BY <2>1 DEF Latched, FetchedState, FoundState
  <2> QED BY <2>1, <2>3, <2>4, <2>5
<1>5. CASE EvictAck
  BY <1>5, EvictAckFields DEF Decided
<1>6. CASE TagMatch
  BY <1>6, TagMatchFields
<1>7. CASE MissSent
  BY <1>7, MissSentFields
<1>8. CASE MissAck
  BY <1>8, MissAckFields
<1>9. CASE ReadResp
  <2>1. UNCHANGED line /\ cpu.state = "CPU_READ_RESP" /\ cpu'.tag_match /\ cpu'.state = "CPU_IDLE"
    BY <1>9, ReadRespFields, ResetFields
  <2>2. Retired(a) => line[a.index].tag # a.tag
    BY <2>1 DEF Decided, Latched
  <2> QED BY <2>1, <2>2
<1>10. CASE FlushLookupResp
  BY <1>10, FlushLookupFields, ResetFields DEF Decided, FlushState
<1>11. CASE GrantPort(0)
  BY <1>11, GrantFields
<1> QED BY <1>1, <1>2, <1>3, <1>4, <1>5, <1>6, <1>7, <1>8, <1>9, <1>10, <1>11 DEF Quiet

\* Whether the directory has granted the write does not change, whatever word
\* the answer brings.
LEMMA QuietGranted ==
  ASSUME DataInv, Quiet, UNCHANGED <<perm, latest>>
  PROVE  Granted' /\ (Upgraded' <=> Upgraded) /\ (Upgraded => cpu'.addr = cpu.addr)
<1> USE DataInvParts DEF Upgraded, SameDecision
<1>0. ASSUME UNCHANGED bus, cpu'.addr = cpu.addr, cpu'.line = cpu.line,
             cpu'.state \in {"CPU_READ_MISS_UPDATE_LINE_REQ", "CPU_READ_MISS_UPDATE_LINE_RESP"} =>
               cpu.state \in {"CPU_READ_MISS_UPDATE_LINE_REQ", "CPU_READ_MISS_UPDATE_LINE_RESP"},
             Upgraded' <=> Upgraded
      PROVE  Granted'
  BY <1>0 DEF Granted
<1>1. ASSUME bus = None, bus' = None, ~Upgraded,
             cpu'.state \notin {"CPU_READ_MISS_UPDATE_LINE_REQ", "CPU_READ_MISS_UPDATE_LINE_RESP",
                                "CPU_WRITE_REQ", "CPU_WRITE_RESP"}
      PROVE  Granted' /\ ~Upgraded'
  BY <1>1 DEF Granted
<1>2. CASE AcceptAccess \/ AcceptFlush \/ FetchLineResp
  BY <1>1, <1>2, NoAnswer, AcceptAccessFields, AcceptFlushFields, FetchLineRespFields
<1>3. CASE ReadResp \/ FlushLookupResp
  BY <1>1, <1>3, NoAnswer, ReadRespFields, FlushLookupFields, ResetFields
<1>4. CASE EvictSent
  <2>1. /\ UNCHANGED bus /\ cpu'.state = AfterEvict
        /\ cpu.state \in {"CPU_TAG_MISS", "CPU_FLUSH_EVICT"}
    BY <1>4, EvictSentFields
  <2> QED BY <1>1, <2>1, NoAnswer DEF AfterEvict
<1>5. CASE EvictAck
  BY <1>5, EvictAckFields DEF Granted
<1>6. CASE TagMatch
  <2>1. /\ UNCHANGED bus /\ SameDecision /\ cpu.state = "CPU_TAG_MATCH"
        /\ cpu'.state \in {"CPU_READ_MISS", "CPU_READ_REQ", "CPU_WRITE_MISS", "CPU_WRITE_REQ"}
        /\ cpu'.state = "CPU_WRITE_REQ" => OnProcessor.cmd = "NULL"
    BY <1>6, TagMatchFields
  <2> QED BY <1>0, <2>1, NoAnswer
<1>7. CASE MissSent
  <2>1. /\ UNCHANGED bus /\ cpu'.state \in {"CPU_READ_MISS_ACK", "CPU_WRITE_MISS_ACK"}
        /\ cpu.state \in {"CPU_READ_MISS", "CPU_WRITE_MISS"}
    BY <1>7, MissSentFields
  <2> QED BY <1>1, <2>1, NoAnswer
<1>8. CASE MissAck
  <2>1. /\ bus # None /\ bus' = None /\ cpu'.addr = cpu.addr /\ OnProcessor' = OnProcessor
        /\ bus.cmd = "BUS_RD" => cpu'.line.data = bus.data
        /\ \/ cpu.state = "CPU_READ_MISS_ACK" /\ cpu'.state = "CPU_READ_MISS_UPDATE_LINE_REQ"
           \/ cpu.state = "CPU_WRITE_MISS_ACK" /\ cpu'.state = "CPU_WRITE_REQ"
    BY <1>8, MissAckFields
  <2>2. bus.cmd = OnProcessor.cmd
    BY <2>1 DEF InFlight, Awaited
  <2>3. cpu.state = "CPU_READ_MISS_ACK" => OnProcessor.cmd = "BUS_RD"
    BY DEF Decided
  <2>4. cpu.state = "CPU_WRITE_MISS_ACK" => OnProcessor.cmd \in {"BUS_RDX", "BUS_UPGR"}
    BY LaneAssumption DEF Decided, OnProcessor, OnProcessorEvent
  <2>5. Upgraded' <=> Upgraded
    BY <2>1, <2>2, <2>3, <2>4
  <2> QED BY <2>1, <2>2, <2>3, <2>4, <2>5 DEF Granted
<1>9. CASE GrantPort(0)
  BY <1>0, <1>9, GrantFields
<1> QED BY <1>2, <1>3, <1>4, <1>5, <1>6, <1>7, <1>8, <1>9 DEF Quiet

\* A message other than a clean eviction keeps the CPU machine waiting.
LEMMA InTransitWaits ==
  ASSUME DataInv, CpuStep \/ GrantPort(0), NEW m \in InTransit
  PROVE  m.cmd = "EVICT_CLEAN"
<1> SUFFICES ASSUME m.cmd # "EVICT_CLEAN" PROVE FALSE
  OBVIOUS
<1>1. bus = None /\ m.cmd \in Awaited
  BY DataInvParts DEF InTransit, InFlight
<1>2. cpu.state \in {"CPU_EVICT_DIRTY_ACK", "CPU_FLUSH_EVICT_ACK",
                     "CPU_READ_MISS_ACK", "CPU_WRITE_MISS_ACK"}
  BY <1>1 DEF Awaited
<1>3. ControllerTypeOK
  BY DataInvParts
<1>4. CASE GrantPort(0)
  BY <1>2, <1>3, <1>4, GrantFields
<1>5. CASE CpuStep
  BY <1>1, <1>2, <1>5
  DEF CpuStep, AcceptAccess, AcceptFlush, FetchLineResp, EvictSent, EvictAck, TagMatch, MissSent,
      MissAck, ReadMissUpdateLineResp, ReadResp, WriteResp, FlushLookupResp, FlushInvalidateResp
<1> QED BY <1>4, <1>5

LEMMA MessagesHaveAddresses ==
  ASSUME TypeOK, NEW m \in InTransit
  PROVE  m.addr \in Addr
BY DEF InTransit, TypeOK, ControllerTypeOK, Message

LEMMA OldSentKept ==
  ASSUME DataInv, CpuStep \/ GrantPort(0), UNCHANGED perm, NEW m \in InTransit, ~Valid(m.addr)'
  PROVE  SentAt(m)'
<1>1. m.cmd = "EVICT_CLEAN"
  BY InTransitWaits
<1>2. perm[m.addr] # "M"
  BY <1>1, DataInvParts DEF Sent, SentAt
<1> QED BY <1>1, <1>2 DEF SentAt, BusCmd

LEMMA QuietOldSent ==
  ASSUME DataInv, Quiet, UNCHANGED perm, NEW m \in InTransit
  PROVE  SentAt(m)'
<1>1. CpuStep \/ GrantPort(0)
  BY DEF Quiet, CpuStep
<1>2. m.cmd = "EVICT_CLEAN"
  BY <1>1, InTransitWaits
<1>3. ~Valid(m.addr)
  BY <1>2, DataInvParts DEF Sent, SentAt
<1>4. m.addr \in Addr
  BY MessagesHaveAddresses DEF DataInv, IInv
<1>5. ~Valid(m.addr)'
  BY <1>3, <1>4, QuietValid
<1> QED BY <1>1, <1>5, OldSentKept

\* An eviction has been sent: a clean one goes for good.
LEMMA EvictSentSent ==
  ASSUME DataInv, EvictSent, UNCHANGED perm
  PROVE  \A m : m = sent' => SentAt(m)'
<1> SUFFICES ASSUME NEW m, m = sent' PROVE SentAt(m)'
  OBVIOUS
<1> USE DataInvParts
<1>1. /\ cpu'.addr = cpu.addr /\ cpu'.line = cpu.line /\ cpu'.tag_match = cpu.tag_match
      /\ UNCHANGED <<line, bus>> /\ sent = None
      /\ m.addr = [tag |-> cpu.line.tag, index |-> cpu.addr.index]
      /\ m.cmd = EvictCmdOf(cpu.line.state)
      /\ m.cmd = "EVICT_DIRTY" => m.data = cpu.line.data
      /\ cpu'.state = AfterEvict
      /\ cpu.state \in {"CPU_TAG_MISS", "CPU_FLUSH_EVICT"}
  BY EvictSentFields DEF SameDecision
<1>2. cpu.line.state \in {"S", "M"} /\ m.addr \in Addr
  BY <1>1, CpuFields DEF LinesHaveAddresses, MSIState
<1>3. /\ m.cmd \in {"EVICT_CLEAN", "EVICT_DIRTY"}
      /\ m.cmd = "EVICT_CLEAN" => cpu.line.state = "S"
  BY <1>1, <1>2 DEF EvictCmdOf
<1>4. ASSUME m.cmd = "EVICT_CLEAN" PROVE ~Valid(m.addr)'
  <2>1. cpu'.state \in {"CPU_TAG_MATCH", "CPU_FLUSH_INVALIDATE_REQ"}
        /\ (cpu'.state = "CPU_TAG_MATCH" => cpu.state = "CPU_TAG_MISS")
    BY <1>1, <1>3, <1>4 DEF AfterEvict
  <2>2. Leaving(m.addr)'
    BY <1>1, <2>1 DEF Leaving, Decided
  <2> QED BY <2>1, <2>2 DEF Valid, Retired, Acked
<1>5. ASSUME m.cmd = "EVICT_CLEAN" PROVE perm[m.addr] # "M"
  <2>1. line[m.addr.index].state = "S"
    BY <1>1, <1>3, <1>5 DEF Latched, FetchedState, FoundState
  <2>2. ~Answered(m.addr)
    BY <1>1, OwnIndex DEF Answered
  <2>3. ~Upgraded
    BY <1>1, NoAnswer DEF Upgraded
  <2> QED BY <1>2, <2>1, <2>2, <2>3 DEF Current, CurrentAt, Owned
<1> QED BY <1>1, <1>3, <1>4, <1>5 DEF SentAt, BusCmd

LEMMA MissSentSent ==
  ASSUME DataInv, MissSent
  PROVE  \A m : m = sent' => SentAt(m)'
<1> SUFFICES ASSUME NEW m, m = sent' PROVE SentAt(m)'
  OBVIOUS
<1>1. m.addr = cpu.addr /\ m.cmd = OnProcessor.cmd /\ cpu'.addr = cpu.addr
  BY MissSentFields, DataInvParts DEF SameDecision
<1>2. m.cmd \notin {"EVICT_CLEAN", "EVICT_DIRTY"}
  BY <1>1, OnProcessorType, DataInvParts DEF BusCmd
<1> QED BY <1>1, <1>2 DEF SentAt

LEMMA QuietSends ==
  ASSUME DataInv, Quiet
  PROVE  \/ UNCHANGED sent
         \/ sent = None /\ ~sent'.snoop /\ (EvictSent \/ MissSent)
BY DataInvParts, EvictSentFields, MissSentFields, GrantFields
   DEF Quiet, AcceptAccess, AcceptFlush, FetchLineResp, EvictAck, TagMatch, MissAck, ReadResp,
       FlushLookupResp, CpuElse

LEMMA QuietSent ==
  ASSUME DataInv, Quiet, UNCHANGED <<perm, request>>
  PROVE  Sent'
<1> SUFFICES ASSUME NEW m \in InTransit' PROVE SentAt(m)'
  BY DEF Sent
<1>1. CASE m \in InTransit
  BY <1>1, QuietOldSent
<1>2. CASE m \notin InTransit
  <2>1. m = sent' /\ (EvictSent \/ MissSent)
    BY <1>2, QuietSends DEF InTransit
  <2> QED BY <2>1, EvictSentSent, MissSentSent
<1> QED BY <1>1, <1>2

LEMMA CurrentAtKept ==
  ASSUME NEW a \in Addr, CurrentAt(a), UNCHANGED <<perm, home>>, latest'[a] = latest[a],
         Valid(a)' => Valid(a) /\ line'[a.index] = line[a.index],
         perm[a] = "M" => /\ Owned(a) => Owned(a)'
                          /\ Answered(a) => Answered(a)'
                          /\ Upgraded /\ cpu.addr = a => Upgraded' /\ cpu'.addr = a
  PROVE  CurrentAt(a)'
BY DEF CurrentAt

\* The CPU machine leaves what the snoop has done, and its answer, as they are.
LEMMA SnoopingApart ==
  ASSUME DataInv, CpuStep \/ GrantPort(0), UNCHANGED pending
  PROVE  /\ Snooped' <=> Snooped
         /\ \A a \in Addr : UNCHANGED latest => (Answered(a)' <=> Answered(a))
<1>1. UNCHANGED snp
  BY CpuLeaves, DataInvParts
<1>2. UNCHANGED sent \/ (sent = None /\ ~sent'.snoop)
  <2>1. CASE Quiet
    BY <2>1, QuietSends
  <2>2. CASE ~Quiet
    BY <2>2 DEF Quiet, CpuStep, ReadMissUpdateLineResp, WriteResp, FlushInvalidateResp, CpuElse
  <2> QED BY <2>1, <2>2
<1> QED BY <1>1, <1>2 DEF Snooped, Answered

LEMMA QuietKept ==
  ASSUME DataInv, Quiet, UNCHANGED <<perm, home, latest, pending, request>>
  PROVE  Sent' /\ Granted' /\ SnoopedLine' /\ Current'
<1>1. CpuStep \/ GrantPort(0)
  BY DEF Quiet, CpuStep
<1>2. Sent' /\ Granted'
  BY QuietSent, QuietGranted
<1>3. Current'
  <2> SUFFICES ASSUME NEW a \in Addr PROVE CurrentAt(a)'
    BY DEF Current
  <2>1. CurrentAt(a)
    BY DataInvParts DEF Current
  <2> QED BY <1>1, <2>1, QuietValid, QuietGranted, SnoopingApart, CurrentAtKept
<1>4. SnoopedLine'
  <2> SUFFICES ASSUME Snooped' PROVE Valid(pending.addr)' => pending.cmd = "BUS_RD"
                                                            /\ line'[pending.addr.index].state = "S"
    BY DEF SnoopedLine
  <2>1. Snooped
    BY <1>1, SnoopingApart
  <2>2. pending.addr \in Addr
    <3>1. pending # None
      BY <2>1, DataInvParts DEF Snooped, SnoopUnderway
    <3> QED BY <3>1 DEF DataInv, IInv, TypeOK, Snoop
  <2>3. PICK a \in Addr : a = pending.addr
    BY <2>2
  <2>4. (Valid(a)' => Valid(a)) /\ line'[a.index] = line[a.index]
    BY QuietValid
  <2>5. Valid(a)' <=> Valid(pending.addr)'
    BY <2>3 DEF Valid, Retired, Leaving
  <2> QED BY <2>1, <2>3, <2>4, <2>5, DataInvParts DEF SnoopedLine
<1> QED BY <1>2, <1>3, <1>4

\* The steps that write the line the CPU machine works on: no line with another
\* address of this index is valid before, nor does the directory take this
\* cache to own it.
Writing == {"CPU_READ_MISS_UPDATE_LINE_RESP", "CPU_WRITE_RESP", "CPU_FLUSH_INVALIDATE_RESP"}

LEMMA OthersInvalid ==
  ASSUME DataInv, cpu.state \in Writing, NEW a \in Addr, a.index = cpu.addr.index,
         a # cpu.addr \/ cpu.state = "CPU_FLUSH_INVALIDATE_RESP"
  PROVE  ~Valid(a) /\ perm[a] # "M"
<1> USE DataInvParts
<1>1. /\ cpu.line.tag = line[cpu.addr.index].tag
      /\ cpu.line.state = line[cpu.addr.index].state
  BY DEF Latched, FetchedState, FoundState, Writing
<1>2. ~Valid(a)
  <2>1. SUFFICES ASSUME Valid(a) PROVE FALSE
    OBVIOUS
  <2>2. cpu.line.tag = a.tag /\ cpu.line.state # "I" /\ ~Retired(a)
    BY <1>1, <2>1 DEF Valid
  <2>3. cpu.tag_match /\ cpu.state # "CPU_FLUSH_INVALIDATE_RESP"
    BY <2>2 DEF Retired, Leaving, Acked, Writing
  <2>4. a.tag = cpu.addr.tag
    BY <2>2, <2>3 DEF Decided, FetchedState, FoundState, Writing
  <2> QED BY <2>3, <2>4, AddressFields, CpuFields
<1>3. ~Answered(a)
  BY OwnIndex DEF Answered, Writing
<1>4. ~(Upgraded /\ cpu.addr = a)
  BY NoAnswer DEF Upgraded, Writing
<1> QED BY <1>2, <1>3, <1>4 DEF Current, CurrentAt, Owned

\* Elsewhere nothing changes.
LEMMA Elsewhere ==
  ASSUME DataInv, cpu.state \in Writing, NEW a \in Addr, a.index # cpu.addr.index,
         OnlyLine(cpu.addr.index), cpu'.addr = cpu.addr \/ cpu' = CpuReset,
         UNCHANGED <<perm, home, snp, sent, pending>>, latest'[a] = latest[a]
  PROVE  CurrentAt(a)' /\ (Valid(a)' <=> Valid(a))
<1>1. line'[a.index] = line[a.index]
  BY AddressFields DEF OnlyLine
<1>2. ~Retired(a) /\ ~Retired(a)'
  BY ResetFields DEF Retired, Leaving
<1>3. CurrentAt(a)
  BY DataInvParts DEF Current
<1> QED BY <1>1, <1>2, <1>3, CurrentAtKept DEF Valid, Owned, Answered

\* While a snoop is answered, the index it goes to is not the one written.
LEMMA SnoopElsewhere ==
  ASSUME DataInv, cpu.state \in Writing, OnlyLine(cpu.addr.index),
         cpu'.addr = cpu.addr \/ cpu' = CpuReset,
         UNCHANGED <<snp, sent, pending>>
  PROVE  SnoopedLine'
<1> SUFFICES ASSUME Snooped'
             PROVE  Valid(pending.addr)' => pending.cmd = "BUS_RD"
                                            /\ line'[pending.addr.index].state = "S"
  BY DEF SnoopedLine
<1>1. Snooped
  BY DEF Snooped
<1>2. pending # None
  BY <1>1, DataInvParts DEF Snooped, SnoopUnderway
<1>3. pending.addr \in Addr
  BY <1>2 DEF DataInv, IInv, TypeOK, Snoop
<1>4. pending.addr.index # cpu.addr.index
  BY <1>2, OwnIndex, DataInvParts DEF Writing
<1>5. line'[pending.addr.index] = line[pending.addr.index]
  BY <1>3, <1>4, AddressFields DEF OnlyLine
<1>6. PICK a : a = pending.addr
  OBVIOUS
<1>7. ~Retired(a) /\ ~Retired(a)'
  BY <1>4, <1>6, ResetFields DEF Retired, Leaving
<1>8. Valid(pending.addr)' => Valid(pending.addr)
  BY <1>5, <1>6, <1>7 DEF Valid
<1> QED BY <1>1, <1>5, <1>8, DataInvParts DEF SnoopedLine

LEMMA RefillKept ==
  ASSUME DataInv, ReadMissUpdateLineResp, UNCHANGED <<perm, home, latest, pending, request>>
  PROVE  Sent' /\ Granted' /\ SnoopedLine' /\ Current'
<1> USE DataInvParts
<1>1. /\ UNCHANGED <<snp, bus, sent>> /\ cpu'.addr = cpu.addr
      /\ cpu.state = "CPU_READ_MISS_UPDATE_LINE_RESP" /\ cpu'.state = "CPU_READ_REQ"
      /\ OnlyLine(cpu.addr.index)
      /\ line'[cpu.addr.index].tag = cpu.addr.tag
      /\ line'[cpu.addr.index].state = OnProcessor.next
      /\ line'[cpu.addr.index].data = cpu.line.data
      /\ cpu.state \in Writing
  BY ReadMissUpdateFields DEF SameDecision, Writing
<1>2. bus = None /\ ~Upgraded /\ ~Upgraded'
  BY <1>1, NoAnswer DEF Upgraded
<1>3. perm[cpu.addr] = "S" /\ cpu.line.data = latest[cpu.addr]
  BY <1>1 DEF Granted
<1>4. OnProcessor.next = "S"
  BY <1>1 DEF Decided, OnProcessor, OnProcessorEvent
<1>5. Sent'
  BY <1>1 DEF InOrder, Refilling, InTransit, Sent
<1>6. Granted'
  BY <1>1, <1>2 DEF Granted
<1>7. Current'
  <2> SUFFICES ASSUME NEW a \in Addr PROVE CurrentAt(a)'
    BY DEF Current
  <2>0. CurrentAt(a)
    BY DEF Current
  <2>1. CASE a = cpu.addr
    BY <1>1, <1>3, <1>4, <2>0, <2>1 DEF CurrentAt
  <2>2. CASE a # cpu.addr /\ a.index = cpu.addr.index
    <3>1. a.tag # cpu.addr.tag
      BY <2>2, AddressFields, CpuFields
    <3>2. ~Valid(a)'
      BY <1>1, <2>2, <3>1 DEF Valid
    <3> QED BY <1>1, <2>0, <2>2, <3>2, OthersInvalid DEF CurrentAt
  <2>3. CASE a.index # cpu.addr.index
    BY <1>1, <2>3, Elsewhere
  <2> QED BY <2>1, <2>2, <2>3
<1>8. SnoopedLine'
  BY <1>1, SnoopElsewhere
<1> QED BY <1>5, <1>6, <1>7, <1>8

LEMMA StoreKept ==
  ASSUME DataInv, WriteResp, UNCHANGED <<perm, home, pending, request>>,
         latest' = [latest EXCEPT ![cpu.addr] = ApplyWstrb(@, cpu.wdata, cpu.wstrb)]
  PROVE  Sent' /\ Granted' /\ SnoopedLine' /\ Current'
<1> USE DataInvParts
<1>0. cpu.state = "CPU_WRITE_RESP" /\ cpu.wstrb = Lane
  BY DEF WriteResp, Decided
<1>1. /\ UNCHANGED <<snp, bus, sent>> /\ cpu' = CpuReset /\ cpu'.state = "CPU_IDLE"
      /\ OnlyLine(cpu.addr.index)
      /\ line'[cpu.addr.index].tag = cpu.addr.tag
      /\ line'[cpu.addr.index].state = "M"
      /\ line'[cpu.addr.index].data = cpu.wdata
      /\ cpu'.tag_match /\ cpu.state \in Writing
  BY <1>0, WriteRespFields, ResetFields DEF Writing
<1>2. cpu.addr \in Addr /\ latest \in [Addr -> Word]
  BY CpuFields DEF DataInv, IInv, TypeOK
<1>3. latest'[cpu.addr] = cpu.wdata /\ \A a \in Addr : a # cpu.addr => latest'[a] = latest[a]
  BY <1>0, <1>2, WriteRespFields
<1>4. bus = None /\ ~Upgraded'
  BY <1>0, <1>1, NoAnswer DEF Upgraded
<1>5. perm[cpu.addr] = "M"
  <2>1. CASE Upgraded
    BY <2>1 DEF Granted
  <2>2. CASE ~Upgraded
    <3>1. OnProcessor.cmd = "NULL"
      BY <1>0, <2>2 DEF Upgraded
    <3>2. cpu.tag_match /\ cpu.line.state = "M"
      BY <1>0, <3>1, LaneAssumption, CpuFields DEF OnProcessor, OnProcessorEvent, MSIState
    <3>3. line[cpu.addr.index].tag = cpu.addr.tag /\ line[cpu.addr.index].state = "M"
      BY <1>0, <3>2 DEF Latched, Decided, FetchedState
    <3>4. Valid(cpu.addr)
      BY <1>0, <3>2, <3>3 DEF Valid, Retired, Leaving
    <3> QED BY <1>2, <3>3, <3>4 DEF Current, CurrentAt
  <2> QED BY <2>1, <2>2
<1>6. Sent'
  <2> SUFFICES ASSUME NEW m \in InTransit PROVE SentAt(m)'
    BY <1>1 DEF Sent, InTransit
  <2>1. m.cmd = "EVICT_CLEAN"
    BY InTransitWaits DEF CpuStep
  <2>2. m.addr \in Addr /\ ~Valid(m.addr) /\ perm[m.addr] # "M"
    BY <2>1, MessagesHaveAddresses DEF Sent, SentAt, DataInv, IInv
  <2>3. CASE m.addr.index = cpu.addr.index
    <3>1. m.addr.tag # cpu.addr.tag
      BY <1>2, <1>5, <2>2, <2>3, AddressFields
    <3>2. ~Valid(m.addr)'
      BY <1>1, <2>3, <3>1 DEF Valid
    <3> QED BY <3>2, OldSentKept DEF CpuStep
  <2>4. CASE m.addr.index # cpu.addr.index
    <3>1. ~Valid(m.addr)'
      BY <1>1, <1>3, <2>2, <2>4, Elsewhere
    <3> QED BY <3>1, OldSentKept DEF CpuStep
  <2> QED BY <2>3, <2>4
<1>7. Granted'
  BY <1>1, <1>4 DEF Granted
<1>8. Current'
  <2> SUFFICES ASSUME NEW a \in Addr PROVE CurrentAt(a)'
    BY DEF Current
  <2>0. CurrentAt(a)
    BY DEF Current
  <2>1. CASE a = cpu.addr
    BY <1>1, <1>3, <1>5, <2>1 DEF CurrentAt, Owned, Valid, Retired, Leaving
  <2>2. CASE a # cpu.addr /\ a.index = cpu.addr.index
    <3>1. a.tag # cpu.addr.tag
      BY <1>2, <2>2, AddressFields
    <3>2. ~Valid(a)'
      BY <1>1, <2>2, <3>1 DEF Valid
    <3> QED BY <1>1, <1>3, <2>0, <2>2, <3>2, OthersInvalid DEF CurrentAt
  <2>3. CASE a.index # cpu.addr.index
    BY <1>1, <1>3, <2>3, Elsewhere
  <2> QED BY <2>1, <2>2, <2>3
<1>9. SnoopedLine'
  BY <1>1, SnoopElsewhere
<1> QED BY <1>6, <1>7, <1>8, <1>9

LEMMA InvalidateKept ==
  ASSUME DataInv, FlushInvalidateResp, UNCHANGED <<perm, home, latest, pending, request>>
  PROVE  Sent' /\ Granted' /\ SnoopedLine' /\ Current'
<1> USE DataInvParts
<1>1. /\ UNCHANGED <<snp, bus, sent>> /\ cpu' = CpuReset /\ cpu'.state = "CPU_IDLE"
      /\ cpu.state = "CPU_FLUSH_INVALIDATE_RESP"
      /\ OnlyLine(cpu.addr.index)
      /\ line'[cpu.addr.index].state = "I"
      /\ cpu.state \in Writing
  BY FlushInvalidateFields, ResetFields DEF Writing
<1>2. bus = None /\ ~Upgraded'
  BY <1>1, NoAnswer DEF Upgraded
<1>3. ASSUME NEW a \in Addr, a.index = cpu.addr.index PROVE ~Valid(a)'
  BY <1>1, <1>3 DEF Valid
<1>4. Sent'
  <2> SUFFICES ASSUME NEW m \in InTransit PROVE SentAt(m)'
    BY <1>1 DEF Sent, InTransit
  <2>1. m.cmd = "EVICT_CLEAN"
    BY InTransitWaits DEF CpuStep
  <2>2. m.addr \in Addr /\ ~Valid(m.addr)
    BY <2>1, MessagesHaveAddresses DEF Sent, SentAt, DataInv, IInv
  <2>3. ~Valid(m.addr)'
    BY <1>1, <1>3, <2>2, Elsewhere
  <2> QED BY <2>3, OldSentKept DEF CpuStep
<1>5. Granted'
  BY <1>1, <1>2 DEF Granted
<1>6. Current'
  <2> SUFFICES ASSUME NEW a \in Addr PROVE CurrentAt(a)'
    BY DEF Current
  <2>0. CurrentAt(a)
    BY DEF Current
  <2>1. CASE a.index = cpu.addr.index
    BY <1>1, <1>3, <2>0, <2>1, OthersInvalid DEF CurrentAt
  <2>2. CASE a.index # cpu.addr.index
    BY <1>1, <2>2, Elsewhere
  <2> QED BY <2>1, <2>2
<1>7. SnoopedLine'
  BY <1>1, SnoopElsewhere
<1> QED BY <1>4, <1>5, <1>6, <1>7

\* The snooped line is not one the CPU machine works on.
LEMMA SnoopedIsFree ==
  ASSUME DataInv, pending # None
  PROVE  /\ pending.addr \in Addr
         /\ ~Retired(pending.addr)
         /\ ~(Upgraded /\ cpu.addr = pending.addr)
<1> USE DataInvParts
<1>1. pending.addr \in Addr
  BY DEF DataInv, IInv, TypeOK, Snoop
<1>2. CASE cpu.state = "CPU_IDLE"
  <2>1. cpu.tag_match
    BY <1>2 DEF Decided
  <2> QED BY <1>1, <1>2, <2>1, NoAnswer DEF Retired, Leaving, Upgraded
<1>3. CASE cpu.state # "CPU_IDLE"
  BY <1>1, <1>3, OwnIndex DEF Retired, Leaving
<1> QED BY <1>2, <1>3

\* While the snoop machine moves, the CPU machine's side stays.
LEMMA SnoopSide ==
  ASSUME DataInv, UNCHANGED <<cpu, bus, perm, latest>>
  PROVE  /\ Granted' /\ (Upgraded' <=> Upgraded)
         /\ \A a \in Addr : line'[a.index] = line[a.index] =>
              (Valid(a)' <=> Valid(a)) /\ (Owned(a)' <=> Owned(a))
<1>1. Upgraded' <=> Upgraded
  BY DEF Upgraded, OnProcessor
<1>2. Granted'
  BY <1>1, DataInvParts DEF Granted
<1>3. \A a \in Addr : Retired(a)' <=> Retired(a)
  BY DEF Retired, Leaving, Acked
<1> QED BY <1>1, <1>2, <1>3 DEF Valid, Owned

LEMMA SentSide ==
  ASSUME DataInv, UNCHANGED <<cpu, bus, perm, latest, request>>, UNCHANGED sent \/ sent'.snoop,
         \A a \in Addr : Valid(a)' => Valid(a)
  PROVE  Sent'
<1> SUFFICES ASSUME NEW m \in InTransit' PROVE SentAt(m)'
  BY DEF Sent
<1>1. m \in InTransit
  BY DEF InTransit
<1>2. SentAt(m) /\ m.addr \in Addr
  BY <1>1, MessagesHaveAddresses, DataInvParts DEF Sent, DataInv, IInv
<1>3. Valid(m.addr)' => Valid(m.addr)
  BY <1>2
<1> QED BY <1>2, <1>3 DEF SentAt

LEMMA SnoopQuiet ==
  ASSUME DataInv, UNCHANGED <<cpu, bus, line, perm, home, latest, request, pending, sent>>,
         snp' = snp \/ (snp.state # "SNP_DONE" /\ snp'.state # "SNP_DONE")
  PROVE  Sent' /\ Granted' /\ SnoopedLine' /\ Current'
<1>1. Granted' /\ (Upgraded' <=> Upgraded)
      /\ \A a \in Addr : (Valid(a)' <=> Valid(a)) /\ (Owned(a)' <=> Owned(a))
  BY SnoopSide
<1>2. Sent'
  BY <1>1, SentSide
<1>3. Snooped' <=> Snooped
  BY DEF Snooped
<1>4. Valid(pending.addr)' <=> Valid(pending.addr)
  BY DEF Valid, Retired, Leaving, Acked
<1>5. SnoopedLine'
  BY <1>3, <1>4, DataInvParts DEF SnoopedLine
<1>6. \A a \in Addr : Answered(a)' <=> Answered(a)
  BY DEF Answered
<1>7. Current'
  <2> SUFFICES ASSUME NEW a \in Addr PROVE CurrentAt(a)'
    BY DEF Current
  <2>1. CurrentAt(a)
    BY DataInvParts DEF Current
  <2> QED BY <1>1, <1>6, <2>1, CurrentAtKept
<1> QED BY <1>1, <1>2, <1>5, <1>7

\* A ghost snoop finds no line of its address.
LEMMA GhostKept ==
  ASSUME DataInv, SnpFetchLineResp, UNCHANGED <<perm, home, latest, pending, request>>
  PROVE  Sent' /\ Granted' /\ SnoopedLine' /\ Current'
<1> USE DataInvParts
<1>1. /\ UNCHANGED <<cpu, bus, line, sent>> /\ snp.state = "SNP_FETCH_LINE_RESP"
      /\ snp'.addr = snp.addr
      /\ \/ line[snp.addr.index].tag # snp.addr.tag /\ snp'.state = "SNP_DONE"
         \/ snp'.state = "SNP_ON_SNOOP_EVENT"
  BY SnpFetchFields
<1>2. CASE snp'.state = "SNP_ON_SNOOP_EVENT"
  BY <1>1, <1>2, SnoopQuiet
<1>3. CASE line[snp.addr.index].tag # snp.addr.tag
  <2>1. pending # None /\ snp.addr = pending.addr
    BY <1>1 DEF SnoopUnderway, Apart
  <2>2. Granted' /\ (Upgraded' <=> Upgraded)
        /\ \A a \in Addr : (Valid(a)' <=> Valid(a)) /\ (Owned(a)' <=> Owned(a))
    BY <1>1, SnoopSide
  <2>3. Sent'
    BY <1>1, <2>2, SentSide
  <2>4. SnoopedLine'
    BY <1>1, <1>3, <2>1 DEF SnoopedLine, Valid
  <2>5. \A a \in Addr : ~Answered(a)
    BY <1>1 DEF Answered, SnoopUnderway
  <2>6. Current'
    <3> SUFFICES ASSUME NEW a \in Addr PROVE CurrentAt(a)'
      BY DEF Current
    <3>1. CurrentAt(a)
      BY DEF Current
    <3> QED BY <1>1, <2>2, <2>5, <3>1, CurrentAtKept
  <2> QED BY <2>2, <2>3, <2>4, <2>6
<1> QED BY <1>1, <1>2, <1>3

\* The snoop takes the line's ownership, and its data go with the answer.
LEMMA SnoopUpdateKept ==
  ASSUME DataInv, SnpUpdateLineResp, UNCHANGED <<perm, home, latest, pending, request>>
  PROVE  Sent' /\ Granted' /\ SnoopedLine' /\ Current'
<1> USE DataInvParts
<1>1. /\ UNCHANGED <<cpu, bus, sent>> /\ snp.state = "SNP_UPDATE_LINE_RESP"
      /\ snp'.state = "SNP_DONE" /\ snp'.flush = snp.flush /\ snp'.flush_data = snp.flush_data
      /\ OnlyLine(snp.addr.index)
      /\ line'[snp.addr.index].tag = snp.addr.tag
      /\ line'[snp.addr.index].state = OnSnoop.next
      /\ line'[snp.addr.index].data = snp.flush_data
  BY SnpUpdateFields
<1>2. /\ pending # None /\ snp.addr = pending.addr /\ snp.cmd = pending.cmd
      /\ line[snp.addr.index].tag = snp.addr.tag /\ line[snp.addr.index].state = snp.line_state
      /\ line[snp.addr.index].data = snp.flush_data
      /\ snp.flush = OnSnoop.flush
      /\ snp.addr \in Addr /\ snp.line_state \in MSIState /\ snp.cmd \in SnoopEvent
  BY <1>1, SnpFields DEF SnoopUnderway, Apart, SnpLatched
<1>3. ~Retired(snp.addr) /\ ~(Upgraded /\ cpu.addr = snp.addr)
  BY <1>2, SnoopedIsFree
<1>4. /\ Valid(snp.addr) <=> snp.line_state # "I"
      /\ Owned(snp.addr) <=> snp.line_state = "M"
  BY <1>2, <1>3 DEF Valid, Owned
<1>5. \A a \in Addr : ~Answered(a)
  BY <1>1 DEF Answered, SnoopUnderway
<1>6. CurrentAt(snp.addr)
  BY <1>2 DEF Current
<1>7. ASSUME perm[snp.addr] = "M"
      PROVE  /\ snp.flush /\ snp.flush_data = latest[snp.addr]
             /\ (snp.cmd = "BUS_RD" /\ OnSnoop.next = "S") \/ OnSnoop.next = "I"
  <2>1. snp.line_state = "M" /\ snp.flush_data = latest[snp.addr]
    BY <1>2, <1>3, <1>4, <1>5, <1>6, <1>7 DEF CurrentAt
  <2>2. snp.cmd \in {"BUS_RD", "BUS_RDX"}
    BY <1>2, <1>7 DEF Apart
  <2>3. OnSnoop.flush /\ OnSnoop.next = IF snp.cmd = "BUS_RD" THEN "S" ELSE "I"
    BY <2>1, <2>2 DEF OnSnoop, OnSnoopEvent
  <2> QED BY <1>2, <2>1, <2>2, <2>3
<1>8. ASSUME perm[snp.addr] # "M" PROVE OnSnoop.next = "I"
  <2>1. snp.line_state \in {"S", "I"}
    BY <1>2, <1>4, <1>6, <1>8 DEF CurrentAt, MSIState
  <2>2. snp.cmd \in {"BUS_RDX", "BUS_UPGR"}
    BY <1>2, <1>8 DEF Apart
  <2> QED BY <2>1, <2>2 DEF OnSnoop, OnSnoopEvent
<1>9. ASSUME NEW a \in Addr, a # snp.addr
      PROVE  (Valid(a)' => Valid(a) /\ line'[a.index] = line[a.index]) /\ (Owned(a) => Owned(a)')
  <2>1. CASE a.index = snp.addr.index
    <3>1. a.tag # snp.addr.tag
      BY <1>2, <1>9, <2>1, AddressFields
    <3> QED BY <1>1, <1>2, <2>1, <3>1 DEF Valid, Owned
  <2>2. CASE a.index # snp.addr.index
    <3>1. line'[a.index] = line[a.index]
      BY <1>1, <2>2, AddressFields DEF OnlyLine
    <3> QED BY <1>1, <3>1, SnoopSide
  <2> QED BY <2>1, <2>2
<1>10. Granted' /\ (Upgraded' <=> Upgraded)
  BY <1>1, SnoopSide
<1>11. PICK a \in Addr : a = snp.addr
  BY <1>2
<1>12. ASSUME Valid(a)'
       PROVE  /\ perm[a] = "M" /\ pending.cmd = "BUS_RD" /\ line'[a.index].state = "S"
              /\ line'[a.index].data = latest[a] /\ Valid(a)
  <2>1. OnSnoop.next # "I"
    BY <1>1, <1>11, <1>12 DEF Valid
  <2>2. OnSnoop.next # "I" => snp.line_state # "I"
    BY DEF OnSnoop, OnSnoopEvent
  <2> QED BY <1>1, <1>2, <1>4, <1>7, <1>8, <1>11, <2>1, <2>2
<1>13. Sent'
  BY <1>1, <1>9, <1>11, <1>12, SentSide
<1>14. SnoopedLine'
  <2>1. Valid(pending.addr)' <=> Valid(a)'
    BY <1>2, <1>11 DEF Valid, Retired, Leaving
  <2> QED BY <1>2, <1>11, <1>12, <2>1 DEF SnoopedLine
<1>15. Current'
  <2> SUFFICES ASSUME NEW b \in Addr PROVE CurrentAt(b)'
    BY DEF Current
  <2>1. CurrentAt(b)
    BY DEF Current
  <2>2. CASE b = snp.addr
    <3>1. snp.flush /\ snp.flush_data = latest[b] => Answered(b)'
      BY <1>1, <1>2, <2>2 DEF Answered
    <3> QED BY <1>2, <1>7, <1>11, <1>12, <2>1, <2>2, <3>1 DEF CurrentAt
  <2>3. CASE b # snp.addr
    BY <1>1, <1>5, <1>9, <1>10, <2>1, <2>3, CurrentAtKept
  <2> QED BY <2>2, <2>3
<1> QED BY <1>10, <1>13, <1>14, <1>15

LEMMA SnoopAckKept ==
  ASSUME DataInv, SnoopAckSent, UNCHANGED <<perm, home, latest, pending, request>>
  PROVE  Sent' /\ Granted' /\ SnoopedLine' /\ Current'
<1> USE DataInvParts
<1>1. /\ UNCHANGED <<cpu, bus, line>> /\ snp.state = "SNP_DONE"
      /\ sent = None /\ sent' # None /\ sent'.snoop
      /\ snp.flush /\ snp.cmd # "BUS_UPGR" => sent'.data = snp.flush_data
  BY SnoopAckFields
<1>2. pending # None /\ snp.cmd = pending.cmd
  BY <1>1 DEF SnoopUnderway, Apart
<1>3. Granted' /\ (Upgraded' <=> Upgraded)
      /\ \A a \in Addr : (Valid(a)' <=> Valid(a)) /\ (Owned(a)' <=> Owned(a))
  BY <1>1, SnoopSide
<1>4. Sent'
  BY <1>1, <1>3, SentSide
<1>5. SnoopedLine'
  <2>1. Valid(pending.addr)' <=> Valid(pending.addr)
    BY <1>1 DEF Valid, Retired, Leaving, Acked
  <2> QED BY <1>1, <2>1 DEF SnoopedLine, Snooped
<1>6. ASSUME NEW a \in Addr, perm[a] = "M", Answered(a) PROVE Answered(a)'
  <2>1. pending.addr = a /\ snp.flush /\ snp.flush_data = latest[a]
    BY <1>1, <1>6 DEF Answered
  <2>2. snp.cmd # "BUS_UPGR"
    BY <1>2, <1>6, <2>1 DEF Apart
  <2> QED BY <1>1, <1>2, <2>1, <2>2 DEF Answered
<1>7. Current'
  <2> SUFFICES ASSUME NEW a \in Addr PROVE CurrentAt(a)'
    BY DEF Current
  <2>1. CurrentAt(a)
    BY DEF Current
  <2> QED BY <1>1, <1>3, <1>6, <2>1, CurrentAtKept
<1> QED BY <1>3, <1>4, <1>5, <1>7

--------------------------------------------------------------------------------
(* Every step. *)

LEMMA ControllerDataPreserves ==
  ASSUME DataInv, Controller
  PROVE  DataInv'
<1> USE DataInvParts
<1>1. ControllerStep /\ UNCHANGED <<request, pending, perm, home>>
  BY DEF Controller, Stepped, dirVars
<1>2. IInv'
  BY NextPreserves DEF DataInv, Next
<1>4. Serving' /\ Apart' /\ Latched' /\ Decided' /\ SnpLatched' /\ InOrder'
  BY <1>1, ServingKept, ApartKept, SnoopsKeepClear, LatchedKept, DecidedKept, SnpLatchedKept,
     InOrderKept
<1>5. ASSUME ~StoreAcked PROVE UNCHANGED latest
  BY <1>5 DEF Controller, Stepped
<1>6. CASE Quiet
  <2>1. ~StoreAcked
    BY <1>6, GrantFields
    DEF StoreAcked, Quiet, AcceptAccess, AcceptFlush, FetchLineResp, EvictSent, EvictAck, TagMatch,
        MissSent, MissAck, ReadResp, FlushLookupResp
  <2> QED BY <1>1, <1>2, <1>4, <1>5, <1>6, <2>1, QuietKept DEF DataInv
<1>7. CASE ReadMissUpdateLineResp \/ FlushInvalidateResp
  <2>1. ~StoreAcked
    BY <1>7 DEF StoreAcked, ReadMissUpdateLineResp, FlushInvalidateResp
  <2> QED BY <1>1, <1>2, <1>4, <1>5, <1>7, <2>1, RefillKept, InvalidateKept DEF DataInv
<1>8. CASE WriteResp
  <2>1. StoreAcked
    BY <1>8, ResetFields DEF StoreAcked, WriteResp, CpuDone
  <2>2. latest' = [latest EXCEPT ![cpu.addr] = ApplyWstrb(@, cpu.wdata, cpu.wstrb)]
    BY <2>1 DEF Controller, Stepped
  <2> QED BY <1>1, <1>2, <1>4, <1>8, <2>2, StoreKept DEF DataInv
<1>9. CASE SnpStep \/ GrantPort(1) \/ ArbiterStep
  <2>1. UNCHANGED <<cpu, bus, latest>>
    BY <1>5, <1>9, SnpLeaves DEF StoreAcked
  <2>2. CASE SnpFetchLineResp \/ SnpUpdateLineResp \/ SnoopAckSent
    BY <1>1, <1>2, <1>4, <2>1, <2>2, GhostKept, SnoopUpdateKept, SnoopAckKept DEF DataInv
  <2>3. CASE AcceptSnoop \/ OnSnoopEventStep \/ GrantPort(1) \/ ArbiterStep
    <3>1. /\ UNCHANGED <<line, sent>>
          /\ snp' = snp \/ (snp.state # "SNP_DONE" /\ snp'.state # "SNP_DONE")
      BY <2>3, AcceptSnoopFields, OnSnoopFields, GrantSnpFields DEF ArbiterStep, GrantOutbound
    <3> QED BY <1>1, <1>2, <1>4, <2>1, <3>1, SnoopQuiet DEF DataInv
  <2> QED BY <1>9, <2>2, <2>3 DEF SnpStep
<1> QED
  BY <1>1, <1>6, <1>7, <1>8, <1>9 DEF ControllerStep, CpuStep, PortStep, Quiet

\* The steps that leave the controller's registers and memory alone keep what
\* these alone decide.
LEMMA ControlStays ==
  ASSUME DataInv, UNCHANGED <<cpu, snp, line>>
  PROVE  Latched' /\ Decided' /\ SnpLatched'
<1>1. OnProcessor' = OnProcessor /\ OnSnoop' = OnSnoop
  BY DEF OnProcessor, OnSnoop
<1> QED BY <1>1, DataInvParts DEF Latched, Decided, SnpLatched

\* The processor's transfers are none of the data's business.
LEMMA TransfersKeepData ==
  ASSUME DataInv, UNCHANGED <<cpu, snp, line, bus, sent, dirVars, latest>>
  PROVE  InOrder' /\ Sent' /\ Granted' /\ SnoopedLine' /\ Current'
<1>1. InOrder'
  BY DataInvParts DEF InOrder, Refilling, OnProcessor, dirVars
<1>2. Sent' /\ Granted' /\ SnoopedLine' /\ Current'
  BY SnoopQuiet DEF dirVars
<1> QED BY <1>1, <1>2

LEMMA ProcessorDataPreserves ==
  ASSUME KeptApart, DataInv, Processor
  PROVE  DataInv'
<1> USE DataInvParts DEF KeptApart
<1>1. IInv'
  BY NextPreserves DEF DataInv, Next
<1>2. ASSUME NEW access \in Workload, RaiseAccess(access) PROVE DataInv'
  <2>1. /\ UNCHANGED <<cpu, snp, line, flush, bus, snoop, sent, dirVars, latest>>
        /\ mem = None /\ mem' = access /\ MayUse(access.addr)
    BY <1>2 DEF RaiseAccess, NoTransferToWaitFor
  <2>2. access.wstrb \in {{}, Lane}
    BY DEF WholeWords
  <2>3. Serving'
    BY <2>1, <2>2 DEF Serving
  <2>4. Apart'
    BY <2>1 DEF Apart, IndexInUse, MayUse, dirVars
  <2> QED BY <1>1, <2>1, <2>3, <2>4, ControlStays, TransfersKeepData DEF DataInv
<1>3. ASSUME NEW a \in Addr, RaiseFlush(a) PROVE DataInv'
  <2>1. /\ UNCHANGED <<cpu, snp, line, mem, bus, snoop, sent, dirVars, latest>>
        /\ flush = None /\ flush' = a /\ MayUse(a)
    BY <1>3 DEF RaiseFlush, NoTransfer
  <2>2. cpu.state \notin FlushState
    BY <2>1, CpuFields, NoneAssumption DEF Serving
  <2>3. Serving'
    BY <2>1, <2>2 DEF Serving
  <2>4. Apart'
    BY <2>1 DEF Apart, IndexInUse, MayUse, dirVars
  <2> QED BY <1>1, <2>1, <2>3, <2>4, ControlStays, TransfersKeepData DEF DataInv
<1> QED BY <1>2, <1>3 DEF Processor

\* What a step of the directory does not reach.
LEMMA ServingStays ==
  ASSUME DataInv, UNCHANGED <<cpu, mem, flush>>
  PROVE  Serving'
BY DataInvParts DEF Serving

LEMMA ArrivalKept ==
  ASSUME DataInv, RequestArrives
  PROVE  DataInv'
<1> USE DataInvParts
<1>1. /\ UNCHANGED <<cpu, snp, line, mem, flush, bus, snoop, pending, perm, home, latest>>
      /\ sent # None /\ ~sent.snoop /\ request' = sent /\ sent' = None
  BY DEF RequestArrives, linkElse
<1>2. IInv'
  BY NextPreserves DEF DataInv, Next, Directory
<1>3. Serving' /\ Latched' /\ Decided' /\ SnpLatched'
  BY <1>1, ServingStays, ControlStays
<1>4. Apart'
  BY <1>1 DEF Apart, IndexInUse
<1>5. InOrder'
  BY <1>1 DEF InOrder, Refilling, OnProcessor
<1>6. Granted' /\ (Upgraded' <=> Upgraded)
      /\ \A a \in Addr : (Valid(a)' <=> Valid(a)) /\ (Owned(a)' <=> Owned(a))
  BY <1>1, SnoopSide
<1>7. Sent'
  <2> SUFFICES ASSUME NEW m \in InTransit' PROVE SentAt(m)'
    BY DEF Sent
  <2>1. m \in InTransit
    BY <1>1 DEF InTransit
  <2>2. SentAt(m) /\ m.addr \in Addr
    BY <2>1, MessagesHaveAddresses DEF Sent, DataInv, IInv
  <2> QED BY <1>1, <1>6, <2>2 DEF SentAt
<1>8. SnoopedLine'
  <2>1. Valid(pending.addr)' <=> Valid(pending.addr)
    BY <1>1 DEF Valid, Retired, Leaving, Acked
  <2> QED BY <1>1, <2>1 DEF SnoopedLine, Snooped
<1>9. Current'
  <2> SUFFICES ASSUME NEW a \in Addr PROVE CurrentAt(a)'
    BY DEF Current
  <2>1. CurrentAt(a) /\ (Answered(a) => Answered(a)')
    BY <1>1 DEF Current, Answered
  <2> QED BY <1>1, <1>6, <2>1, CurrentAtKept
<1> QED BY <1>2, <1>3, <1>4, <1>5, <1>6, <1>7, <1>8, <1>9 DEF DataInv

LEMMA SnoopAnsweredKept ==
  ASSUME DataInv, SnoopAnswered
  PROVE  DataInv'
<1> USE DataInvParts
<1>1. /\ UNCHANGED <<cpu, snp, line, mem, flush, bus, snoop, request, latest>>
      /\ sent # None /\ sent.snoop /\ sent' = None /\ pending # None /\ pending' = None
      /\ home' = IF perm[pending.addr] = "M" THEN [home EXCEPT ![pending.addr] = sent.data] ELSE home
      /\ perm' = [perm EXCEPT ![pending.addr] = IF pending.cmd = "BUS_RD" THEN "S" ELSE "I"]
  BY DEF SnoopAnswered, linkElse, Update
<1>2. IInv'
  BY NextPreserves DEF DataInv, Next, Directory
<1>3. Serving' /\ Latched' /\ Decided' /\ SnpLatched'
  BY <1>1, ServingStays, ControlStays
<1>4. snoop = None /\ snp.state = "SNP_IDLE"
  BY <1>1 DEF SnoopUnderway
<1>5. Apart'
  BY <1>1, <1>4 DEF Apart
<1>6. InOrder'
  BY <1>1 DEF InOrder, Refilling, OnProcessor
<1>7. /\ perm \in [Addr -> MSIState] /\ home \in [Addr -> Word]
      /\ pending.addr \in Addr /\ ~Retired(pending.addr)
      /\ ~(Upgraded /\ cpu.addr = pending.addr)
  BY <1>1, SnoopedIsFree DEF DataInv, IInv, TypeOK
<1>8. \A a \in Addr : a # pending.addr => perm'[a] = perm[a] /\ home'[a] = home[a]
  BY <1>1, <1>7
<1>9. /\ Upgraded' <=> Upgraded
      /\ \A a \in Addr : (Valid(a)' <=> Valid(a)) /\ (Owned(a)' <=> Owned(a))
  BY <1>1 DEF Upgraded, OnProcessor, Valid, Owned, Retired, Leaving, Acked
<1>10. Sent'
  <2> SUFFICES ASSUME NEW m \in InTransit' PROVE SentAt(m)'
    BY DEF Sent
  <2>1. m \in InTransit
    BY <1>1 DEF InTransit
  <2>2. SentAt(m) /\ m.addr \in Addr
    BY <2>1, MessagesHaveAddresses DEF Sent, DataInv, IInv
  <2>3. perm[m.addr] # "M" => perm'[m.addr] # "M"
    BY <1>1, <1>7, <2>2
  <2> QED BY <1>1, <1>9, <2>2, <2>3 DEF SentAt
<1>11. Granted'
  <2>1. cpu.state # "CPU_IDLE" => cpu.addr # pending.addr
    BY <1>1, OwnIndex
  <2>2. cpu.state = "CPU_IDLE" => bus = None
    BY NoAnswer
  <2>3. cpu.state # "CPU_IDLE" => perm'[cpu.addr] = perm[cpu.addr]
    BY <1>8, <2>1, CpuFields
  <2> QED BY <1>1, <1>9, <2>2, <2>3 DEF Granted, Upgraded
<1>12. SnoopedLine'
  BY <1>1, <1>4 DEF SnoopedLine, Snooped
<1>13. CurrentAt(pending.addr)
  BY <1>7 DEF Current
<1>14. PICK s \in Addr : s = pending.addr
  BY <1>7
<1>15. Valid(s) => pending.cmd = "BUS_RD" /\ line[s.index].state = "S"
  BY <1>1, <1>14 DEF SnoopedLine, Snooped
<1>16. home'[s] = latest[s]
  <2>1. CASE perm[s] = "M"
    <3>1. Answered(s)
      BY <1>7, <1>13, <1>14, <1>15, <2>1 DEF CurrentAt, Owned
    <3>2. sent.data = latest[s]
      BY <1>4, <3>1 DEF Answered
    <3> QED BY <1>1, <1>7, <1>14, <2>1, <3>2
  <2>2. CASE perm[s] # "M"
    BY <1>1, <1>13, <1>14, <2>2 DEF CurrentAt
  <2> QED BY <2>1, <2>2
<1>17. CurrentAt(s)'
  <2>1. perm'[s] = IF pending.cmd = "BUS_RD" THEN "S" ELSE "I"
    BY <1>1, <1>7, <1>14
  <2> QED BY <1>1, <1>9, <1>13, <1>14, <1>15, <1>16, <2>1 DEF CurrentAt
<1>18. ASSUME NEW a \in Addr, a # s PROVE CurrentAt(a)'
  <2>1. CurrentAt(a) /\ ~Answered(a)
    BY <1>14, <1>18 DEF Current, Answered
  <2> QED BY <1>1, <1>8, <1>9, <1>14, <1>18, <2>1 DEF CurrentAt
<1>19. Current'
  BY <1>17, <1>18 DEF Current
<1> QED BY <1>2, <1>3, <1>5, <1>6, <1>10, <1>11, <1>12, <1>19 DEF DataInv

\* What the directory finds when it takes a request up: it is the only message
\* on its way but for clean evictions, and no grant and no snoop is out.
LEMMA ServeFinds ==
  ASSUME DataInv, Serve
  PROVE  /\ UNCHANGED <<cpu, snp, line, mem, flush, snoop, sent, pending, latest>>
         /\ request \in InTransit /\ request.addr \in Addr /\ SentAt(request)
         /\ request' = None /\ pending = None
         /\ bus = None /\ ~Upgraded /\ ~Refilling
         /\ snp.state = "SNP_IDLE" /\ ~Snooped /\ ~Snooped'
         /\ \A a : ~Answered(a) /\ ~Answered(a)'
         /\ request.cmd = "EVICT_CLEAN" \/ sent = None
         /\ InTransit' \subseteq {sent} \cap InTransit
         /\ \A a \in Addr : a # request.addr => perm'[a] = perm[a] /\ home'[a] = home[a]
<1> USE DataInvParts
<1>1. /\ UNCHANGED <<cpu, snp, line, mem, flush, snoop, sent, pending, latest>>
      /\ request # None /\ pending = None /\ request' = None
  BY DEF Serve, linkElse
<1>2. request \in InTransit
  BY <1>1 DEF InTransit, InOrder
<1>3. request.addr \in Addr /\ SentAt(request)
  BY <1>2, MessagesHaveAddresses DEF Sent, DataInv, IInv
<1>4. ~Refilling /\ bus = None /\ ~Upgraded
  BY <1>1 DEF InOrder, Refilling, Upgraded
<1>5. snp.state = "SNP_IDLE" /\ ~Snooped /\ ~Snooped' /\ \A a : ~Answered(a) /\ ~Answered(a)'
  BY <1>1 DEF SnoopUnderway, Snooped, Answered
<1>6. request.cmd = "EVICT_CLEAN" \/ sent = None
  BY <1>1 DEF SnoopUnderway, InFlight
<1>7. InTransit' \subseteq {sent} \cap InTransit
  BY <1>1 DEF InTransit
<1>8. perm \in [Addr -> MSIState] /\ home \in [Addr -> Word]
  BY DEF DataInv, IInv, TypeOK
<1>9. \A a \in Addr : a # request.addr => perm'[a] = perm[a] /\ home'[a] = home[a]
  BY <1>3, <1>8 DEF Serve, Update
<1> QED BY <1>1, <1>2, <1>3, <1>4, <1>5, <1>6, <1>7, <1>9

\* An address that the CPU machine asks for is not this cache's own.
LEMMA MissedIsCurrent ==
  ASSUME DataInv, Serve, request.cmd \in BusCmd
  PROVE  /\ request.addr = cpu.addr /\ request.cmd = OnProcessor.cmd
         /\ cpu.state \in {"CPU_READ_MISS_ACK", "CPU_WRITE_MISS_ACK"}
         /\ perm[cpu.addr] # "M" /\ home[cpu.addr] = latest[cpu.addr]
         /\ request.cmd # "BUS_UPGR" => ~Valid(cpu.addr)
         /\ Valid(cpu.addr) => line[cpu.addr.index].state = "S"
<1> USE DataInvParts
<1>1. /\ SentAt(request) /\ ~Upgraded /\ request # None
      /\ \A a : ~Answered(a)
  BY ServeFinds DEF Serve
<1>2. request.addr = cpu.addr
  BY <1>1 DEF SentAt
<1>3. request.cmd \in Awaited
  BY <1>1 DEF InFlight, BusCmd
<1>4. /\ request.cmd = OnProcessor.cmd
      /\ cpu.state \in {"CPU_READ_MISS_ACK", "CPU_WRITE_MISS_ACK"}
  BY <1>3 DEF Awaited, BusCmd
<1>5. /\ cpu.line.tag = line[cpu.addr.index].tag
      /\ cpu.line.state = line[cpu.addr.index].state
  BY <1>4 DEF Latched, FetchedState
<1>6. /\ cpu.tag_match => cpu.line.state \in {"I", "S"}
      /\ cpu.tag_match /\ request.cmd # "BUS_UPGR" => cpu.line.state = "I"
  BY <1>4, CpuFields DEF OnProcessor, OnProcessorEvent, MSIState, BusCmd
<1>7. ~cpu.tag_match => ~Valid(cpu.addr)
  BY <1>5 DEF Decided, Valid
<1>8. (Valid(cpu.addr) => line[cpu.addr.index].state = "S")
      /\ (request.cmd # "BUS_UPGR" => ~Valid(cpu.addr))
  BY <1>4, <1>5, <1>6, <1>7, CpuFields DEF Valid, OnProcessor, OnProcessorEvent, BusCmd
<1>9. perm[cpu.addr] # "M" /\ home[cpu.addr] = latest[cpu.addr]
  BY <1>1, <1>8, CpuFields DEF Current, CurrentAt, Owned
<1> QED BY <1>2, <1>4, <1>8, <1>9

\* The request is a miss, a dirty eviction or a clean one.
LEMMA ServeCases ==
  ASSUME DataInv, Serve
  PROVE  /\ request.cmd \in BusCmd \cup {"EVICT_DIRTY", "EVICT_CLEAN"}
         /\ request.cmd = "EVICT_DIRTY" => cpu.state \in {"CPU_EVICT_DIRTY_ACK", "CPU_FLUSH_EVICT_ACK"}
<1> USE DataInvParts
<1>1. request.cmd \in Awaited \cup {"EVICT_CLEAN"}
  BY DEF Serve, InFlight
<1>2. OnProcessor.cmd \in BusCmd \cup {"NULL"}
  BY OnProcessorType
<1>3. cpu.state \in {"CPU_READ_MISS_ACK", "CPU_WRITE_MISS_ACK"} => OnProcessor.cmd # "NULL"
  BY DEF Decided
<1> QED BY <1>1, <1>2, <1>3 DEF Awaited, BusCmd

\* What serving a request leaves to show: what it does to the data.
LEMMA ServeControl ==
  ASSUME DataInv, Serve
  PROVE  /\ IInv' /\ Serving' /\ Apart' /\ Latched' /\ Decided' /\ SnpLatched' /\ InOrder'
         /\ SnoopedLine'
<1> USE DataInvParts
<1>1. IInv'
  BY NextPreserves DEF DataInv, Next, Directory
<1>2. Serving' /\ Latched' /\ Decided' /\ SnpLatched'
  BY ServeFinds, ServingStays, ControlStays
<1>3. Apart'
  BY ServeFinds DEF Apart, SnoopUnderway
<1>4. request.cmd = "EVICT_CLEAN" => bus' = bus
  BY DEF Serve
<1>5. InOrder'
  BY <1>4, ServeFinds DEF InOrder, Refilling, OnProcessor
<1>6. SnoopedLine'
  BY ServeFinds DEF SnoopedLine
<1> QED BY <1>1, <1>2, <1>3, <1>5, <1>6

LEMMA ServeCleanKept ==
  ASSUME DataInv, Serve, request.cmd = "EVICT_CLEAN"
  PROVE  Sent' /\ Granted' /\ Current'
<1> USE DataInvParts
<1>1. /\ UNCHANGED <<cpu, line, bus, latest, home>>
      /\ perm' = [perm EXCEPT ![request.addr] = "I"]
  BY ServeFinds DEF Serve, Update, BusCmd
<1>2. ~Valid(request.addr) /\ perm[request.addr] # "M"
  BY ServeFinds DEF SentAt
<1>3. perm'[request.addr] = "I"
  BY <1>1, ServeFinds DEF DataInv, IInv, TypeOK
<1>4. /\ Upgraded' <=> Upgraded
      /\ \A a : (Valid(a)' <=> Valid(a)) /\ (Owned(a)' <=> Owned(a))
  BY <1>1 DEF Upgraded, OnProcessor, Valid, Owned, Retired, Leaving, Acked
<1>5. Granted'
  BY <1>1, <1>4, ServeFinds DEF Granted, Refilling
<1>6. Sent'
  <2> SUFFICES ASSUME NEW m \in InTransit' PROVE SentAt(m)'
    BY DEF Sent
  <2>1. SentAt(m) /\ m.addr \in Addr
    BY ServeFinds, MessagesHaveAddresses DEF Sent, DataInv, IInv
  <2>2. perm[m.addr] # "M" => perm'[m.addr] # "M"
    BY <1>3, <2>1, ServeFinds
  <2> QED BY <1>1, <1>4, <2>1, <2>2 DEF SentAt
<1>7. Current'
  <2> SUFFICES ASSUME NEW a \in Addr PROVE CurrentAt(a)'
    BY DEF Current
  <2>1. CurrentAt(a)
    BY DEF Current
  <2>2. CASE a = request.addr
    BY <1>1, <1>2, <1>3, <1>4, <2>1, <2>2 DEF CurrentAt
  <2>3. CASE a # request.addr
    BY <1>1, <1>4, <2>1, <2>3, ServeFinds DEF CurrentAt
  <2> QED BY <2>2, <2>3
<1> QED BY <1>5, <1>6, <1>7

LEMMA ServeMissKept ==
  ASSUME DataInv, Serve, request.cmd \in BusCmd
  PROVE  Sent' /\ Granted' /\ Current'
<1> USE DataInvParts
<1>1. /\ UNCHANGED <<cpu, line, latest, home>>
      /\ perm' = [perm EXCEPT ![cpu.addr] = IF request.cmd = "BUS_RD" THEN "S" ELSE "M"]
      /\ bus' = [cmd |-> request.cmd,
                 data |-> IF request.cmd \in {"BUS_RD", "BUS_RDX"} THEN home[cpu.addr] ELSE ZeroWord]
  BY ServeFinds, MissedIsCurrent DEF Serve, Update, BusCmd
<1>2. cpu.addr \in Addr
  BY CpuFields
<1>3. perm'[cpu.addr] = IF request.cmd = "BUS_RD" THEN "S" ELSE "M"
  BY <1>1, <1>2 DEF DataInv, IInv, TypeOK
<1>4. bus'.cmd = request.cmd /\ (request.cmd = "BUS_RD" => bus'.data = latest[cpu.addr])
  BY <1>1, MissedIsCurrent
<1>5. bus' # None
  <2>1. bus' \in Answer \cup {None} /\ home[cpu.addr] \in Word
    BY <1>2, ServeControl DEF DataInv, IInv, TypeOK, ControllerTypeOK
  <2>2. bus' \in Answer
    BY <1>1, <2>1, ZeroWordIsWord DEF Answer, CoherenceCmd
  <2> QED BY <2>2, NoneAssumption
<1>6. \A a : (Valid(a)' <=> Valid(a)) /\ (Owned(a)' <=> Owned(a))
  BY <1>1, MissedIsCurrent DEF Valid, Owned, Retired, Leaving, Acked
<1>7. Upgraded' <=> request.cmd \in {"BUS_RDX", "BUS_UPGR"}
  BY <1>1, <1>4, <1>5, MissedIsCurrent DEF Upgraded
<1>8. Granted'
  BY <1>1, <1>3, <1>4, <1>7, MissedIsCurrent DEF Granted
<1>9. Sent'
  BY ServeFinds DEF Sent, InTransit, BusCmd
<1>10. Current'
  <2> SUFFICES ASSUME NEW a \in Addr PROVE CurrentAt(a)'
    BY DEF Current
  <2>1. CurrentAt(a)
    BY DEF Current
  <2>2. CASE a = cpu.addr
    BY <1>1, <1>3, <1>6, <1>7, <2>1, <2>2, MissedIsCurrent DEF CurrentAt, BusCmd
  <2>3. CASE a # cpu.addr
    BY <1>1, <1>6, <2>1, <2>3, ServeFinds, MissedIsCurrent DEF CurrentAt
  <2> QED BY <2>2, <2>3
<1> QED BY <1>8, <1>9, <1>10

LEMMA ServeDirtyKept ==
  ASSUME DataInv, Serve, request.cmd = "EVICT_DIRTY"
  PROVE  Sent' /\ Granted' /\ Current'
<1> USE DataInvParts
<1>1. /\ UNCHANGED <<cpu, line, latest>>
      /\ perm' = [perm EXCEPT ![request.addr] = "I"]
      /\ home' = [home EXCEPT ![request.addr] = request.data]
      /\ bus' = [cmd |-> "EVICT_DIRTY", data |-> ZeroWord]
  BY ServeFinds DEF Serve, Update, BusCmd
<1>2. /\ request.addr \in Addr
      /\ request.addr = [tag |-> cpu.line.tag, index |-> cpu.addr.index]
      /\ request.data = cpu.line.data
  BY ServeFinds DEF SentAt
<1>3. cpu.state \in {"CPU_EVICT_DIRTY_ACK", "CPU_FLUSH_EVICT_ACK"} /\ bus = None
  BY ServeCases, ServeFinds
<1>4. cpu.line = line[cpu.addr.index] /\ cpu.line.state = "M"
  <2>1. cpu.line \in Line /\ line[cpu.addr.index] \in Line
    BY CpuFields, AddressFields DEF ControllerTypeOK
  <2> QED BY <1>3, <2>1 DEF Latched, FetchedState, FoundState, Decided, Line
<1>5. Valid(request.addr) /\ request.data = latest[request.addr]
  <2>1. Valid(request.addr)
    BY <1>2, <1>3, <1>4 DEF Valid, Retired, Acked
  <2> QED BY <1>2, <1>4, <2>1 DEF Current, CurrentAt
<1>6. /\ perm'[request.addr] = "I" /\ home'[request.addr] = latest[request.addr]
  BY <1>1, <1>2, <1>5 DEF DataInv, IInv, TypeOK
<1>7. bus' # None
  <2>1. bus' \in Answer
    BY <1>1, ZeroWordIsWord DEF Answer, CoherenceCmd, EvictCmd
  <2> QED BY <2>1, NoneAssumption
<1>8. PICK gone \in Addr : gone = request.addr
  BY <1>2
<1>9. ~Valid(gone)'
  BY <1>1, <1>2, <1>3, <1>7, <1>8 DEF Valid, Retired, Leaving, Acked, Decided
<1>10. ASSUME NEW a \in Addr, a # gone PROVE (Valid(a)' <=> Valid(a)) /\ (Owned(a)' <=> Owned(a))
  <2>1. ~Leaving(a)
    BY <1>2, <1>8, <1>10, AddressFields DEF Leaving
  <2> QED BY <1>1, <2>1 DEF Valid, Owned, Retired, Leaving
<1>11. ~Upgraded'
  BY <1>1, <1>3 DEF Upgraded
<1>12. Granted'
  BY <1>1, <1>3, <1>11 DEF Granted
<1>13. Sent'
  BY ServeFinds DEF Sent, InTransit
<1>14. Current'
  <2> SUFFICES ASSUME NEW a \in Addr PROVE CurrentAt(a)'
    BY DEF Current
  <2>1. CurrentAt(a)
    BY DEF Current
  <2>2. CASE a = gone
    BY <1>1, <1>6, <1>8, <1>9, <2>2 DEF CurrentAt
  <2>3. CASE a # gone
    BY <1>1, <1>8, <1>10, <2>1, <2>3, ServeFinds DEF CurrentAt
  <2> QED BY <2>2, <2>3
<1> QED BY <1>12, <1>13, <1>14

LEMMA ServeKept ==
  ASSUME DataInv, Serve
  PROVE  DataInv'
BY ServeCases, ServeControl, ServeCleanKept, ServeMissKept, ServeDirtyKept DEF DataInv

LEMMA SendSnoopKept ==
  ASSUME KeptApart, DataInv, NEW s \in Addr, NEW cmd \in SnoopEvent, SendSnoop(s, cmd)
  PROVE  DataInv'
<1> USE DataInvParts
<1>1. /\ UNCHANGED <<cpu, snp, line, mem, flush, bus, sent, request, perm, home, latest>>
      /\ pending = None /\ pending' = [addr |-> s, cmd |-> cmd] /\ snoop' = pending'
      /\ ~IndexInUse(s.index)
      /\ cmd \in CASE perm[s] = "M" -> {"BUS_RD", "BUS_RDX"}
                   [] perm[s] = "S" -> {"BUS_RDX", "BUS_UPGR"}
                   [] OTHER -> {}
  BY DEF SendSnoop, linkElse, KeptApart
<1>2. IInv'
  BY NextPreserves DEF DataInv, Next, Directory
<1>3. Serving' /\ Latched' /\ Decided' /\ SnpLatched'
  BY <1>1, ServingStays, ControlStays
<1>4. snp.state = "SNP_IDLE" /\ ~Snooped /\ ~Snooped' /\ \A a : ~Answered(a)
  BY <1>1 DEF SnoopUnderway, Snooped, Answered
<1>5. Apart'
  <2>1. pending'.addr = s /\ pending'.cmd = cmd
    BY <1>1
  <2> QED BY <1>1, <1>4, <2>1 DEF Apart, IndexInUse
<1>6. InOrder'
  BY <1>1 DEF InOrder, Refilling, OnProcessor
<1>7. Granted' /\ (Upgraded' <=> Upgraded)
      /\ \A a \in Addr : (Valid(a)' <=> Valid(a)) /\ (Owned(a)' <=> Owned(a))
  BY <1>1, SnoopSide
<1>8. Sent'
  BY <1>1, <1>7, SentSide
<1>9. SnoopedLine'
  BY <1>4 DEF SnoopedLine
<1>10. Current'
  <2> SUFFICES ASSUME NEW a \in Addr PROVE CurrentAt(a)'
    BY DEF Current
  <2>1. CurrentAt(a)
    BY DEF Current
  <2> QED BY <1>1, <1>4, <1>7, <2>1, CurrentAtKept
<1> QED BY <1>2, <1>3, <1>5, <1>6, <1>7, <1>8, <1>9, <1>10 DEF DataInv

LEMMA OtherStoresKept ==
  ASSUME DataInv, NEW s \in Addr, NEW word \in Word, OtherStores(s, word)
  PROVE  DataInv'
<1> USE DataInvParts
<1>1. /\ UNCHANGED <<cpu, snp, line, mem, flush, bus, snoop, sent, request, pending, perm>>
      /\ perm[s] = "I"
      /\ home' = [home EXCEPT ![s] = word] /\ latest' = [latest EXCEPT ![s] = word]
  BY DEF OtherStores, linkElse, Update
<1>2. IInv'
  BY NextPreserves DEF DataInv, Next, Directory
<1>3. Serving' /\ Latched' /\ Decided' /\ SnpLatched'
  BY <1>1, ServingStays, ControlStays
<1>4. Apart' /\ InOrder'
  BY <1>1 DEF Apart, IndexInUse, InOrder, Refilling, OnProcessor
<1>5. /\ home'[s] = word /\ latest'[s] = word
      /\ \A a \in Addr : a # s => home'[a] = home[a] /\ latest'[a] = latest[a]
  BY <1>1 DEF DataInv, IInv, TypeOK
<1>6. /\ Upgraded' <=> Upgraded
      /\ \A a : (Valid(a)' <=> Valid(a)) /\ (Owned(a)' <=> Owned(a))
  BY <1>1 DEF Upgraded, OnProcessor, Valid, Owned, Retired, Leaving, Acked
<1>7. ~Valid(s)
  <2>1. CurrentAt(s) /\ line[s.index].state \in MSIState
    BY AddressFields DEF Current, ControllerTypeOK, Line
  <2> QED BY <1>1, <2>1 DEF CurrentAt, Valid, MSIState
<1>8. Granted'
  <2>1. perm[cpu.addr] # "I" => latest'[cpu.addr] = latest[cpu.addr]
    BY <1>1, <1>5, CpuFields
  <2> QED BY <1>1, <1>6, <2>1 DEF Granted
<1>9. Sent'
  BY <1>1, <1>6 DEF Sent, SentAt, InTransit
<1>10. SnoopedLine'
  BY <1>1, <1>6 DEF SnoopedLine, Snooped
<1>11. Current'
  <2> SUFFICES ASSUME NEW a \in Addr PROVE CurrentAt(a)'
    BY DEF Current
  <2>1. CurrentAt(a)
    BY DEF Current
  <2>2. CASE a = s
    BY <1>1, <1>5, <1>6, <1>7, <2>2 DEF CurrentAt
  <2>3. CASE a # s
    <3>1. Answered(a)' <=> Answered(a)
      BY <1>1, <1>5, <2>3 DEF Answered
    <3> QED BY <1>1, <1>5, <1>6, <2>1, <2>3, <3>1 DEF CurrentAt
  <2> QED BY <2>2, <2>3
<1> QED BY <1>2, <1>3, <1>4, <1>8, <1>9, <1>10, <1>11 DEF DataInv

LEMMA DataStutter ==
  ASSUME DataInv, UNCHANGED vars
  PROVE  DataInv'
<1> USE DataInvParts
<1>1. UNCHANGED <<cpu, snp, line, mem, flush, bus, snoop, sent, request, pending, perm, home, latest>>
  BY DEF vars, controllerVars, dirVars
<1>2. IInv'
  BY NextPreserves DEF DataInv
<1>3. Serving' /\ Latched' /\ Decided' /\ SnpLatched' /\ Apart'
  BY <1>1, ServingStays, ControlStays DEF Apart, IndexInUse
<1> QED BY <1>1, <1>2, <1>3, TransfersKeepData DEF DataInv, dirVars

LEMMA DataNextPreserves ==
  ASSUME KeptApart, DataInv, [Next]_vars
  PROVE  DataInv'
<1>1. ASSUME Directory PROVE DataInv'
  BY <1>1, ArrivalKept, SnoopAnsweredKept, ServeKept, SendSnoopKept, OtherStoresKept DEF Directory
<1> QED
  BY <1>1, ControllerDataPreserves, ProcessorDataPreserves, DataStutter DEF Next

LEMMA DataInitEstablishes == Init => DataInv
<1> SUFFICES ASSUME Init PROVE DataInv
  OBVIOUS
<1>1. /\ cpu = CpuReset /\ snp = SnpReset /\ mem = None /\ flush = None /\ bus = None
      /\ snoop = None /\ sent = None /\ request = None /\ pending = None
      /\ perm = [a \in Addr |-> "I"] /\ home = latest
      /\ line = [i \in Index |-> ZeroLine]
  BY DEF Init, ControllerInit
<1>2. cpu.state = "CPU_IDLE" /\ cpu.tag_match /\ cpu.wstrb = {} /\ snp.state = "SNP_IDLE"
  BY <1>1, ResetFields DEF CpuReset, SnpReset
<1>3. IInv
  BY InitEstablishes
<1>4. Serving /\ Apart /\ Latched /\ Decided /\ SnpLatched
  BY <1>1, <1>2
  DEF Serving, AccessState, FlushState, Apart, Latched, FetchedState, FoundState, Decided, SnpLatched
<1>5. ~Refilling /\ ~Upgraded /\ ~Snooped
  BY <1>1, <1>2 DEF Refilling, Upgraded, Snooped
<1>6. InOrder /\ Sent /\ Granted /\ SnoopedLine
  BY <1>1, <1>2, <1>5 DEF InOrder, Sent, InTransit, Granted, SnoopedLine
<1>7. Current
  BY <1>1, AddressFields, ZeroLineIsLine DEF Current, CurrentAt, Valid
<1> QED BY <1>3, <1>4, <1>6, <1>7 DEF DataInv

LEMMA DataInvariant ==
  ASSUME KeptApart
  PROVE  Spec => []DataInv
<1>1. DataInv /\ [Next]_vars => DataInv'
  BY DataNextPreserves
<1> QED BY <1>1, DataInitEstablishes, PTL DEF Spec

--------------------------------------------------------------------------------
(* What the invariant gives. *)

(***************************************************************************)
(* While snoops keep clear of the index in use, and accesses are of whole  *)
(* words, no acknowledged store is lost: the last word stored in an        *)
(* address is the directory's, or in this cache's modified line, or in a   *)
(* writeback or a snoop's answer on its way (cache_controller.sv:646-648,  *)
(* 453-456; SNP_DONE).                                                     *)
(***************************************************************************)
THEOREM StoresAreKept ==
  ASSUME KeptApart
  PROVE  Spec => []StoresSurvive
<1>1. DataInv => StoresSurvive
  <2> SUFFICES ASSUME DataInv, NEW a \in Addr
               PROVE  \/ home[a] = latest[a]
                      \/ line[a.index] = [tag |-> a.tag, state |-> "M", data |-> latest[a]]
                      \/ OnItsWay(a, latest[a])
    BY DEF StoresSurvive
  <2>1. CurrentAt(a) /\ line[a.index] \in Line
    BY DataInvParts, AddressFields DEF Current, ControllerTypeOK
  <2>2. CASE perm[a] # "M" \/ (Upgraded /\ home[a] = latest[a])
    BY <2>1, <2>2 DEF CurrentAt
  <2>3. CASE Owned(a)
    BY <2>1, <2>3 DEF CurrentAt, Owned, Valid, Line
  <2>4. CASE Answered(a)
    BY <2>4 DEF Answered, OnItsWay
  <2> QED BY <2>1, <2>2, <2>3, <2>4 DEF CurrentAt
<1> QED BY <1>1, DataInvariant, PTL

(***************************************************************************)
(* Under the same hypotheses, a line that can be hit holds the last word   *)
(* stored; a modified one the directory knows to be this cache's, and a    *)
(* shared one it knows to be a copy.                                       *)
(***************************************************************************)
THEOREM LinesAreCurrent ==
  ASSUME KeptApart
  PROVE  Spec => []CopiesAreCurrent
<1>1. DataInv => CopiesAreCurrent
  BY DataInvParts DEF CopiesAreCurrent, Current, CurrentAt, Valid, Retired
<1> QED BY <1>1, DataInvariant, PTL

(***************************************************************************)
(* And the word that CPU_READ_RESP hands to the processor, straight from   *)
(* the memory (mem_rdata_o), is the last one stored in that address by     *)
(* any core.                                                               *)
(***************************************************************************)
THEOREM ReadsAreLatest ==
  ASSUME KeptApart
  PROVE  Spec => ReadsReturnLatest
<1>1. ASSUME DataInv, cpu.state = "CPU_READ_RESP" PROVE ReadData = latest[cpu.addr]
  <2>1. line[cpu.addr.index].tag = cpu.addr.tag /\ line[cpu.addr.index].state # "I"
    BY <1>1, DataInvParts DEF Latched
  <2>2. ~Leaving(cpu.addr)
    BY <1>1, DataInvParts DEF Decided, Leaving
  <2>3. Valid(cpu.addr)
    BY <2>1, <2>2 DEF Valid, Retired
  <2> QED BY <1>1, <2>3, CpuFields, DataInvParts DEF Current, CurrentAt, ReadData
<1>2. DataInv => [cpu.state = "CPU_READ_RESP" /\ cpu'.state = "CPU_IDLE" => ReadData = latest[cpu.addr]]_vars
  BY <1>1
<1> QED BY <1>2, DataInvariant, PTL DEF ReadsReturnLatest

================================================================================
