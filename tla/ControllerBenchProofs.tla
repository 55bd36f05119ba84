------------------------- MODULE ControllerBenchProofs -------------------------
(***************************************************************************)
(* The cache controller and the emulator's cache are the same cache: the   *)
(* lockstep of cache_controller_tb.py, for any addresses, words and        *)
(* accesses of whole words.                                                *)
(***************************************************************************)
EXTENDS ControllerBench, CacheControllerProofs, SequenceTheorems

\* What the theorems of this module are about: a write of part of a word that
\* misses leaves the rest of the line as it was (run controller_partial_miss).
WholeWords == \A access \in Workload : access.wstrb \in {{}, Lane}

--------------------------------------------------------------------------------
(* The invariant. *)

SentCpu == sent # None /\ ~sent.snoop
SentSnp == sent # None /\ sent.snoop

BenchTypes ==
  /\ ControllerTypeOK
  /\ golden \in [Index -> Line]
  /\ snoop_task \in [ack : Message, next : MSIState] \cup {None}

\* One transfer at a time, and the machine has what is on the wires.
Transfers ==
  /\ mem = None \/ flush = None
  /\ cpu.state \in AccessState => cpu.wstrb = mem.wstrb /\ cpu.wdata = mem.wdata

\* The coroutines keep out of each other's index.
UsedByCpu(i) == \/ mem # None /\ mem.addr.index = i
                \/ flush # None /\ flush.index = i

OwnIndices ==
  snoop_task # None =>
    /\ ~UsedByCpu(snoop_task.ack.addr.index)
    /\ director \/ NoCpuOp

\* The snoop in progress is on the wires, with the machine, or answered; and it
\* is answered what the golden model's line says.
Snooping ==
  /\ snoop_task = None => snoop = None /\ snp.state = "SNP_IDLE" /\ ~SentSnp
  /\ snoop # None => snp.state = "SNP_IDLE" /\ ~SentSnp
  /\ snp.state # "SNP_IDLE" => ~SentSnp
  /\ snoop_task # None =>
       LET a == snoop_task.ack.addr
           cmd == snoop_task.ack.cmd
       IN /\ a \in Addr /\ cmd \in SnoopEvent
          /\ snoop_task = SnoopExpectation(a, cmd)
          /\ snoop # None => snoop = [addr |-> a, cmd |-> cmd]
          /\ snp.state # "SNP_IDLE" => snp.addr = a /\ snp.cmd = cmd
          /\ snp.state = "SNP_DONE" => SnpRequest = snoop_task.ack
          /\ SentSnp => sent = Packet(snoop_task.ack)

\* The memory has changed as the snoop's answer says it does.
Snooped == snp.state = "SNP_DONE" \/ SentSnp

\* A line that is not valid may keep any tag and data.
Same(l, g) == l.state = g.state /\ (l.state # "I" => l = g)

\* The golden model changes its line when the answer has been seen.
Settled(i) == IF snoop_task # None /\ snoop_task.ack.addr.index = i /\ Snooped
              THEN [golden[i] EXCEPT !.state = snoop_task.next]
              ELSE golden[i]

Lockstep ==
  \A i \in Index : ~(mem # None /\ mem.addr.index = i) => Same(line[i], Settled(i))

\* An access is made by the golden model at once, and by the machine in steps:
\* until it has fetched the line the golden line is what the access makes of
\* that line, then what the machine has decided to make of it.
UnfetchedState == {"CPU_IDLE", "CPU_FETCH_LINE_REQ", "CPU_FETCH_LINE_RESP"}

Outcome ==
  [tag |-> cpu.addr.tag, state |-> OnProcessor.next,
   data |-> ApplyWstrb(IF OnProcessor.cmd = "NULL" THEN cpu.line.data ELSE AddrWord[cpu.addr],
                       cpu.wdata, cpu.wstrb)]

GoldenAhead ==
  /\ mem # None =>
       LET i == mem.addr.index
       IN /\ cpu.state \in UnfetchedState => golden[i] = GoldenLine(line[i], mem)
          /\ cpu.state \in FetchedState => golden[i] = Outcome
          /\ cpu.state \in {"CPU_READ_REQ", "CPU_READ_RESP"} => golden[i] = line[i]
          /\ mem.wstrb = {} => golden_rdata = golden[i].data
  /\ cpu.state \in {"CPU_READ_MISS_UPDATE_LINE_REQ", "CPU_READ_MISS_UPDATE_LINE_RESP"}
       => cpu.line.data = AddrWord[cpu.addr]

\* The golden model's requests that the machine has still to send.
Eviction(l, i) == Request(IF l.state = "M" THEN "EVICT_DIRTY" ELSE "EVICT_CLEAN",
                          [tag |-> l.tag, index |-> i], l.data)

Evictions(a) ==
  LET l == line[a.index]
  IN IF l.tag = a.tag /\ l.state # "I" THEN <<Eviction(l, a.index)>> ELSE <<>>

Miss == Request(OnProcessor.cmd, cpu.addr, ZeroWord)

Later == IF cpu.state \in FlushState \/ OnProcessor.cmd = "NULL" THEN <<>> ELSE <<Miss>>

ToSend ==
  CASE cpu.state \in UnfetchedState /\ mem # None -> GoldenRequests(line[mem.addr.index], mem)
    [] cpu.state \in UnfetchedState /\ mem = None /\ flush # None -> Evictions(flush)
    [] cpu.state \in {"CPU_FLUSH_LOOKUP_REQ", "CPU_FLUSH_LOOKUP_RESP"} -> Evictions(flush)
    [] cpu.state \in {"CPU_TAG_MISS", "CPU_FLUSH_EVICT"} -> <<EvictRequest>> \o Later
    [] cpu.state \in {"CPU_EVICT_DIRTY_ACK", "CPU_TAG_MATCH", "CPU_READ_MISS", "CPU_WRITE_MISS",
                      "CPU_FLUSH_EVICT_ACK", "CPU_FLUSH_INVALIDATE_REQ"} -> Later
    [] OTHER -> <<>>

\* The one it has just sent.
EvictedState == {"CPU_EVICT_DIRTY_ACK", "CPU_TAG_MATCH", "CPU_FLUSH_EVICT_ACK",
  "CPU_FLUSH_INVALIDATE_REQ"}
MissedState == {"CPU_READ_MISS_ACK", "CPU_WRITE_MISS_ACK"}

JustSent == IF cpu.state \in EvictedState THEN EvictRequest ELSE Miss

\* The answer the machine has, if the bench has taken its request.
Given ==
  CASE SentCpu -> None
    [] ~SentCpu /\ cpu.state \in {"CPU_EVICT_DIRTY_ACK", "CPU_FLUSH_EVICT_ACK"} ->
         [cmd |-> "EVICT_DIRTY", data |-> ZeroWord]
    [] ~SentCpu /\ cpu.state \in MissedState -> [cmd |-> OnProcessor.cmd, data |-> AddrWord[cpu.addr]]
    [] OTHER -> None

Asked ==
  /\ SentCpu => /\ cpu.state \in EvictedState \cup MissedState
                /\ cpu.state \in {"CPU_TAG_MATCH", "CPU_FLUSH_INVALIDATE_REQ"} => cpu.line.state = "S"
                /\ sent = Packet(JustSent)
  /\ captured = IF SentCpu THEN <<JustSent>> \o ToSend ELSE ToSend
  /\ bus = Given

Control == /\ LinesHaveAddresses /\ PortHolds /\ Serving /\ Latched /\ Decided /\ SnpLatched
           /\ Transfers /\ OwnIndices

BenchInv == BenchTypes /\ Control /\ Snooping /\ Lockstep /\ GoldenAhead /\ Asked

--------------------------------------------------------------------------------
(* The operators. *)

LEMMA InvParts ==
  ASSUME BenchInv
  PROVE  /\ ControllerTypeOK /\ golden \in [Index -> Line]
         /\ snoop_task \in [ack : Message, next : MSIState] \cup {None}
         /\ LinesHaveAddresses /\ PortHolds /\ Serving /\ Latched /\ Decided /\ SnpLatched
         /\ Transfers /\ OwnIndices /\ Snooping /\ Lockstep /\ GoldenAhead /\ Asked
BY DEF BenchInv, BenchTypes, Control

\* A queue with one or two requests in it.
LEMMA Queue ==
  ASSUME NEW x, NEW later, later = <<>> \/ \E y : later = <<y>>
  PROVE  /\ <<x>> \o later # <<>>
         /\ Head(<<x>> \o later) = x
         /\ Tail(<<x>> \o later) = later
<1>1. CASE later = <<>>
  BY <1>1
<1>2. ASSUME NEW y, later = <<y>>
      PROVE  /\ <<x>> \o later # <<>>
             /\ Head(<<x>> \o later) = x
             /\ Tail(<<x>> \o later) = later
  <2>1. <<x>> \o <<y>> = <<x, y>>
    <3> DEFINE S == {x, y}
    <3>1. <<x>> \in Seq(S) /\ <<y>> \in Seq(S) /\ <<x, y>> \in Seq(S)
      OBVIOUS
    <3>2. Len(<<x>>) = 1 /\ Len(<<y>>) = 1 /\ Len(<<x, y>>) = 2
      OBVIOUS
    <3>3. /\ <<x>> \o <<y>> \in Seq(S) /\ Len(<<x>> \o <<y>>) = 2
          /\ (<<x>> \o <<y>>)[1] = x /\ (<<x>> \o <<y>>)[2] = y
      BY <3>1, <3>2, ConcatProperties
    <3>4. \A n \in 1 .. 2 : (<<x>> \o <<y>>)[n] = <<x, y>>[n]
      BY <3>3
    <3> QED BY <3>1, <3>2, <3>3, <3>4, SeqEqual
  <2>2. Head(<<x, y>>) = x /\ Tail(<<x, y>>) = <<y>> /\ <<x, y>> # <<>>
    OBVIOUS
  <2> QED BY <1>2, <2>1, <2>2
<1> QED BY <1>1, <1>2

LEMMA OneInQueue ==
  ASSUME NEW later, later = <<>> \/ \E y : later = <<y>>
  PROVE  <<>> \o later = later
<1>1. ASSUME NEW y, later = <<y>> PROVE <<>> \o later = later
  BY <1>1
<1> QED BY <1>1

LEMMA LaterIsOne == Later = <<>> \/ \E y : Later = <<y>>
BY DEF Later

\* An eviction, if the tags differ, and then the miss, if there is one.
MissOf(l, access) ==
  IF Transition(l, access).cmd = "NULL" THEN <<>>
  ELSE <<Request(Transition(l, access).cmd, access.addr, ZeroWord)>>

LEMMA RequestsOf ==
  ASSUME NEW l, NEW access
  PROVE  /\ MissOf(l, access) = <<>> \/ \E y : MissOf(l, access) = <<y>>
         /\ ~Mismatch(l, access.addr) => GoldenRequests(l, access) = MissOf(l, access)
         /\ Mismatch(l, access.addr) =>
              GoldenRequests(l, access) = <<Eviction(l, access.addr.index)>> \o MissOf(l, access)
<1> DEFINE first == IF Mismatch(l, access.addr) THEN <<Eviction(l, access.addr.index)>> ELSE <<>>
<1>1. MissOf(l, access) = <<>> \/ \E y : MissOf(l, access) = <<y>>
  BY DEF MissOf
<1>2. GoldenRequests(l, access) = first \o MissOf(l, access)
  BY DEF GoldenRequests, MissOf, Eviction
<1>3. /\ ~Mismatch(l, access.addr) => first = <<>>
      /\ Mismatch(l, access.addr) => first = <<Eviction(l, access.addr.index)>>
  OBVIOUS
<1> HIDE DEF first
<1> QED BY <1>1, <1>2, <1>3, OneInQueue

\* The golden model does the same with a line that is not valid, whatever its tag.
LEMMA SameOutcome ==
  ASSUME NEW l, NEW g, Same(l, g), NEW access
  PROVE  /\ GoldenLine(l, access) = GoldenLine(g, access)
         /\ GoldenRequests(l, access) = GoldenRequests(g, access)
<1>1. CASE l.state # "I"
  BY <1>1 DEF Same
<1>2. CASE l.state = "I"
  <2>1. ~Mismatch(l, access.addr) /\ ~Mismatch(g, access.addr)
    BY <1>2 DEF Same, Mismatch
  <2>2. Transition(l, access) = Transition(g, access)
    BY <1>2, <2>1 DEF Same, Transition
  <2>3. Transition(l, access).cmd # "NULL"
    BY <1>2, <2>1 DEF Transition, OnProcessorEvent
  <2>4. GoldenLine(l, access) = GoldenLine(g, access)
    BY <2>2, <2>3 DEF GoldenLine
  <2>5. GoldenRequests(l, access) = GoldenRequests(g, access)
    BY <2>1, <2>2, RequestsOf DEF MissOf
  <2> QED BY <2>4, <2>5
<1> QED BY <1>1, <1>2

LEMMA GoldenLineIsLine ==
  ASSUME NEW l \in Line, NEW access \in Access
  PROVE  GoldenLine(l, access) \in Line
<1>1. access.addr \in Addr /\ access.addr.tag \in Tag /\ access.wdata \in Word
  BY AddressFields DEF Access
<1>2. AddrWord[access.addr] \in Word /\ l.data \in Word /\ l.state \in MSIState
  BY <1>1, AddrWordAssumption DEF Line
<1>3. ApplyWstrb(IF Transition(l, access).cmd = "NULL" THEN l.data ELSE AddrWord[access.addr],
                 access.wdata, access.wstrb) \in Word
  BY <1>1, <1>2, MergedIsWord
<1>4. Transition(l, access).next \in MSIState
  BY DEF Transition, OnProcessorEvent, MSIState
<1> QED BY <1>1, <1>3, <1>4 DEF GoldenLine, Line

\* Packet drops the data of a request.
LEMMA MissPacket ==
  ASSUME ControllerTypeOK
  PROVE  Packet(MissRequest) = Packet(Miss)
<1> DEFINE c == OnProcessor.cmd
<1>1. c # "EVICT_DIRTY"
  BY OnProcessorType DEF BusCmd
<1>2. \A word : Packet([snoop |-> FALSE, cmd |-> c, addr |-> cpu.addr, data |-> word])
                 = [snoop |-> FALSE, cmd |-> c, addr |-> cpu.addr, data |-> ZeroWord]
  <2> HIDE DEF c
  <2> QED BY <1>1 DEF Packet
<1> QED BY <1>2 DEF MissRequest, Miss, Request

\* An eviction's address has the line's own tag.
LEMMA EvictionIsRequest ==
  ASSUME cpu.line.state \in {"S", "M"}
  PROVE  EvictRequest = Eviction(cpu.line, cpu.addr.index)
BY DEF EvictRequest, EvictCmdOf, Eviction, Request

--------------------------------------------------------------------------------
(* The controller's steps: control. *)

\* The CPU machine works on an index that is in use.
LEMMA CpuUsesIndex ==
  ASSUME ControllerTypeOK, Serving, cpu.state # "CPU_IDLE"
  PROVE  UsedByCpu(cpu.addr.index)
<1>1. cpu.state \in AccessState \cup FlushState
  BY CpuFields DEF CpuState, AccessState, FlushState
<1> QED BY <1>1, CpuFields, NoneAssumption DEF Serving, UsedByCpu

LEMMA BenchApart ==
  ASSUME BenchInv
  PROVE  MachinesApart
BY InvParts, CpuUsesIndex DEF MachinesApart, Snooping, OwnIndices

\* The CPU machine sends nothing but requests.
LEMMA CpuSends ==
  ASSUME ControllerTypeOK, LinesHaveAddresses, PortHolds, CpuStep \/ GrantPort(0)
  PROVE  \/ UNCHANGED sent
         \/ /\ EvictSent \/ MissSent
            /\ sent' # None /\ ~sent'.snoop
<1>1. CASE EvictSent \/ MissSent
  BY <1>1, EvictSentFields, MissSentFields
<1>2. CASE \/ AcceptAccess \/ AcceptFlush \/ FetchLineResp \/ EvictAck \/ TagMatch \/ MissAck
           \/ ReadMissUpdateLineResp \/ ReadResp \/ WriteResp \/ FlushLookupResp
           \/ FlushInvalidateResp
  <2>1. CpuElse
    BY <1>2
    DEF AcceptAccess, AcceptFlush, FetchLineResp, EvictAck, TagMatch, MissAck,
        ReadMissUpdateLineResp, ReadResp, WriteResp, FlushLookupResp, FlushInvalidateResp
  <2> QED BY <2>1 DEF CpuElse
<1>3. CASE GrantPort(0)
  BY <1>3, GrantFields
<1> QED BY <1>1, <1>2, <1>3 DEF CpuStep

LEMMA TransfersEnd ==
  ASSUME ControllerTypeOK, ControllerStep
  PROVE  mem' \in {mem, None} /\ flush' \in {flush, None}
BY CpuLeaves, SnpLeaves DEF ControllerStep, PortStep

LEMMA TransfersKept ==
  ASSUME ControllerTypeOK, LinesHaveAddresses, PortHolds, Serving, Decided, Transfers,
         ControllerStep
  PROVE  Transfers'
<1> USE DEF AccessState, SameDecision
<1>1. mem' = None \/ flush' = None
  BY TransfersEnd DEF Transfers
<1>2. ASSUME UNCHANGED mem, SameDecision, cpu'.state \in AccessState => cpu.state \in AccessState
      PROVE  Transfers'
  BY <1>1, <1>2 DEF Transfers
<1>3. ASSUME cpu'.state \notin AccessState PROVE Transfers'
  BY <1>1, <1>3 DEF Transfers
<1>4. CASE AcceptAccess
  BY <1>1, <1>4, AcceptAccessFields DEF Transfers
<1>5. CASE AcceptFlush
  BY <1>3, <1>5, AcceptFlushFields
<1>6. CASE FetchLineResp
  BY <1>1, <1>6, FetchLineRespFields DEF Transfers
<1>7. CASE EvictSent
  BY <1>2, <1>7, EvictSentFields DEF AfterEvict
<1>8. CASE EvictAck
  BY <1>2, <1>8, EvictAckFields
<1>9. CASE TagMatch
  BY <1>2, <1>9, TagMatchFields
<1>10. CASE MissSent
  BY <1>2, <1>10, MissSentFields
<1>11. CASE MissAck
  BY <1>1, <1>11, MissAckFields DEF Transfers
<1>12. CASE ReadMissUpdateLineResp
  BY <1>2, <1>12, ReadMissUpdateFields
<1>13. CASE ReadResp \/ WriteResp \/ FlushInvalidateResp
  <2>1. cpu' = CpuReset
    BY <1>13 DEF ReadResp, WriteResp, FlushInvalidateResp, CpuDone
  <2> QED BY <1>3, <2>1, ResetFields
<1>14. CASE FlushLookupResp
  BY <1>3, <1>14, FlushLookupFields, ResetFields
<1>15. CASE GrantPort(0)
  BY <1>2, <1>15, GrantFields
<1>16. CASE SnpStep \/ GrantPort(1) \/ ArbiterStep
  BY <1>1, <1>16, SnpLeaves DEF Transfers
<1> QED
  BY <1>4, <1>5, <1>6, <1>7, <1>8, <1>9, <1>10, <1>11, <1>12, <1>13, <1>14, <1>15, <1>16
  DEF ControllerStep, CpuStep, PortStep

LEMMA ControllerKeepsControl ==
  ASSUME BenchInv, Controller
  PROVE  ControllerTypeOK' /\ Control'
<1> USE InvParts
<1>1. ControllerStep /\ UNCHANGED <<snoop_task, director>>
  BY DEF Controller
<1>2. ControllerTypeOK' /\ LinesHaveAddresses' /\ PortHolds'
  BY <1>1, ControllerKeepsType, ControllerKeepsLines, ControllerKeepsPort
<1>3. Serving' /\ Latched' /\ Decided' /\ SnpLatched'
  BY <1>1, BenchApart, ServingKept, LatchedKept, DecidedKept, SnpLatchedKept
<1>4. Transfers'
  BY <1>1, TransfersKept
<1>5. OwnIndices'
  <2>1. mem' \in {mem, None} /\ flush' \in {flush, None}
    BY <1>1, TransfersEnd
  <2> QED BY <1>1, <2>1 DEF OwnIndices, UsedByCpu, NoCpuOp
<1> QED BY <1>2, <1>3, <1>4, <1>5 DEF Control

\* The golden model's line changes at the end of a flush, which nothing snoops.
LEMMA GoldenChanges ==
  ASSUME BenchInv, Controller
  PROVE  /\ golden' \in [Index -> Line]
         /\ \A i \in Index : golden'[i] # golden[i] => flush # None /\ flush' = None /\ flush.index = i
         /\ mem # None => golden' = golden
         /\ snoop_task # None => golden'[snoop_task.ack.addr.index] = golden[snoop_task.ack.addr.index]
<1> USE InvParts
<1>1. \/ golden' = golden
      \/ /\ flush # None /\ flush' = None
         /\ golden' = [golden EXCEPT ![flush.index].state = "I"]
  BY DEF Controller
<1>2. CASE golden' = golden
  BY <1>2
<1>3. CASE flush # None /\ flush' = None /\ golden' = [golden EXCEPT ![flush.index].state = "I"]
  <2>1. flush \in Addr /\ flush.index \in Index
    BY <1>3, AddressFields DEF ControllerTypeOK
  <2>2. [golden[flush.index] EXCEPT !.state = "I"] \in Line
    BY <2>1 DEF Line, MSIState
  <2>3. golden' \in [Index -> Line]
    BY <1>3, <2>1, <2>2
  <2>4. \A i \in Index : i # flush.index => golden'[i] = golden[i]
    BY <1>3, <2>1
  <2>5. snoop_task # None =>
          /\ snoop_task.ack.addr.index \in Index
          /\ snoop_task.ack.addr.index # flush.index
    BY <1>3, AddressFields DEF Snooping, OwnIndices, UsedByCpu
  <2> QED BY <1>3, <2>3, <2>4, <2>5 DEF Transfers
<1> QED BY <1>1, <1>2, <1>3

--------------------------------------------------------------------------------
(* The controller's steps: snoops. *)

LEMMA SnoopingUntouched ==
  ASSUME Snooping, UNCHANGED <<snp, snoop, snoop_task>>,
         UNCHANGED sent \/ (~SentSnp /\ ~SentSnp'),
         snoop_task # None => golden'[snoop_task.ack.addr.index] = golden[snoop_task.ack.addr.index]
  PROVE  Snooping' /\ (Snooped' <=> Snooped)
<1>1. UNCHANGED SnpRequest
  BY RequestsUnchanged
<1>2. (SentSnp' <=> SentSnp) /\ (SentSnp => sent' = sent)
  BY DEF SentSnp
<1>3. snoop_task # None =>
        SnoopExpectation(snoop_task.ack.addr, snoop_task.ack.cmd)'
          = SnoopExpectation(snoop_task.ack.addr, snoop_task.ack.cmd)
  BY DEF SnoopExpectation
<1>4. Snooped' <=> Snooped
  BY <1>2 DEF Snooped
<1> QED BY <1>1, <1>2, <1>3, <1>4 DEF Snooping

\* Until the machine has changed the line, it has the golden model's.
LEMMA SnoopFinds ==
  ASSUME BenchInv, snp.state \notin {"SNP_IDLE", "SNP_DONE"}
  PROVE  /\ snoop_task # None /\ snoop = None /\ ~SentSnp /\ ~Snooped
         /\ snp.addr = snoop_task.ack.addr /\ snp.cmd = snoop_task.ack.cmd
         /\ snoop_task = SnoopExpectation(snp.addr, snp.cmd)
         /\ snp.addr.index \in Index /\ snp.addr.tag \in Tag /\ snp.cmd \in SnoopEvent
         /\ ~UsedByCpu(snp.addr.index)
         /\ Same(line[snp.addr.index], golden[snp.addr.index])
         /\ golden[snp.addr.index] \in Line /\ line[snp.addr.index] \in Line
<1> USE InvParts
<1>1. /\ snoop_task # None /\ snoop = None /\ ~SentSnp
      /\ snp.addr = snoop_task.ack.addr /\ snp.cmd = snoop_task.ack.cmd
      /\ snoop_task = SnoopExpectation(snp.addr, snp.cmd)
  BY DEF Snooping
<1>2. ~Snooped
  BY <1>1 DEF Snooped
<1>3. snp.addr.index \in Index /\ snp.addr.tag \in Tag /\ snp.cmd \in SnoopEvent
  BY SnpFields, AddressFields
<1>4. ~UsedByCpu(snp.addr.index)
  BY <1>1 DEF OwnIndices
<1>5. Same(line[snp.addr.index], Settled(snp.addr.index))
  BY <1>3, <1>4 DEF Lockstep, UsedByCpu
<1>6. Settled(snp.addr.index) = golden[snp.addr.index]
  BY <1>2 DEF Settled
<1> QED BY <1>1, <1>2, <1>3, <1>4, <1>5, <1>6 DEF ControllerTypeOK

\* The answer expected, and the state the line is to take.
LEMMA ExpectationFields ==
  ASSUME BenchInv, snp.state \notin {"SNP_IDLE", "SNP_DONE"}
  PROVE  /\ snoop_task.ack = [snoop |-> TRUE, cmd |-> snp.cmd, addr |-> snp.addr,
                              data |-> snoop_task.ack.data]
         /\ golden[snp.addr.index].tag # snp.addr.tag =>
              snoop_task.next = golden[snp.addr.index].state /\ snoop_task.ack.data = ZeroWord
         /\ golden[snp.addr.index].tag = snp.addr.tag =>
              /\ snoop_task.next = OnSnoopEvent(golden[snp.addr.index].state, snp.cmd).next
              /\ snoop_task.ack.data =
                   IF OnSnoopEvent(golden[snp.addr.index].state, snp.cmd).flush
                   THEN golden[snp.addr.index].data ELSE ZeroWord
<1>1. snoop_task = SnoopExpectation(snp.addr, snp.cmd)
  BY SnoopFinds
<1> QED BY <1>1 DEF SnoopExpectation

LEMMA InvalidStays ==
  ASSUME NEW cmd
  PROVE  OnSnoopEvent("I", cmd).next = "I" /\ ~OnSnoopEvent("I", cmd).flush
BY DEF OnSnoopEvent

\* A ghost snoop is nothing to either.
LEMMA GhostAnswer ==
  ASSUME BenchInv, SnpFetchLineResp, line[snp.addr.index].tag # snp.addr.tag
  PROVE  /\ SnpRequest' = snoop_task.ack
         /\ [golden[snp.addr.index] EXCEPT !.state = snoop_task.next] = golden[snp.addr.index]
<1> DEFINE i == snp.addr.index
           g == golden[i]
<1>1. /\ snp.state = "SNP_FETCH_LINE_RESP" /\ snp'.addr = snp.addr /\ snp'.cmd = snp.cmd
      /\ snp'.state = "SNP_DONE" /\ snp'.flush = FALSE
  BY InvParts, SnpFetchFields
<1>2. /\ snoop_task = SnoopExpectation(snp.addr, snp.cmd) /\ Same(line[i], g) /\ g \in Line
  BY <1>1, SnoopFinds
<1>3. g.tag # snp.addr.tag \/ g.state = "I"
  BY <1>2 DEF Same
<1>4. snoop_task.next = g.state /\ snoop_task.ack.data = ZeroWord
  <2>1. CASE g.tag # snp.addr.tag
    BY <1>1, <2>1, ExpectationFields
  <2>2. CASE g.tag = snp.addr.tag /\ g.state = "I"
    <3>1. /\ snoop_task.next = OnSnoopEvent("I", snp.cmd).next
          /\ snoop_task.ack.data = IF OnSnoopEvent("I", snp.cmd).flush THEN g.data ELSE ZeroWord
      BY <1>1, <2>2, ExpectationFields
    <3> QED BY <2>2, <3>1, InvalidStays
  <2> QED BY <1>3, <2>1, <2>2
<1>5. SnpRequest' = [snoop |-> TRUE, cmd |-> snp.cmd, addr |-> snp.addr, data |-> ZeroWord]
  BY <1>1 DEF SnpRequest
<1>6. snoop_task.ack = [snoop |-> TRUE, cmd |-> snp.cmd, addr |-> snp.addr, data |-> ZeroWord]
  BY <1>1, <1>4, ExpectationFields
<1>7. [g EXCEPT !.state = snoop_task.next] = g
  BY <1>2, <1>4 DEF Line
<1> QED BY <1>5, <1>6, <1>7

\* The line is changed, and the snoop answered, as the golden model says.
LEMMA UpdateAnswer ==
  ASSUME BenchInv, SnpUpdateLineResp, ControllerTypeOK'
  PROVE  /\ SnpRequest' = snoop_task.ack
         /\ Same(line'[snp.addr.index], [golden[snp.addr.index] EXCEPT !.state = snoop_task.next])
<1> DEFINE i == snp.addr.index
           g == golden[i]
<1>1. /\ snp.state = "SNP_UPDATE_LINE_RESP" /\ snp'.addr = snp.addr /\ snp'.cmd = snp.cmd
      /\ snp'.state = "SNP_DONE" /\ snp'.flush = snp.flush /\ snp'.flush_data = snp.flush_data
      /\ line'[i].tag = snp.addr.tag /\ line'[i].state = OnSnoop.next
      /\ line'[i].data = snp.flush_data
  BY InvParts, SnpUpdateFields
<1>2. /\ snoop_task = SnoopExpectation(snp.addr, snp.cmd) /\ Same(line[i], g) /\ g \in Line
      /\ i \in Index
  BY <1>1, SnoopFinds
<1>3. /\ line[i] = [tag |-> snp.addr.tag, state |-> snp.line_state, data |-> snp.flush_data]
      /\ snp.flush = OnSnoop.flush
  BY <1>1, InvParts DEF SnpLatched
<1>4. /\ snoop_task.next = OnSnoop.next
      /\ snoop_task.ack.data = IF snp.flush THEN snp.flush_data ELSE ZeroWord
  <2>1. CASE snp.line_state # "I"
    <3>1. g = line[i] /\ g.tag = snp.addr.tag /\ g.state = snp.line_state
          /\ g.data = snp.flush_data
      BY <1>2, <1>3, <2>1 DEF Same
    <3>2. /\ snoop_task.next = OnSnoopEvent(snp.line_state, snp.cmd).next
          /\ snoop_task.ack.data = IF OnSnoopEvent(snp.line_state, snp.cmd).flush
                                   THEN snp.flush_data ELSE ZeroWord
      BY <1>1, <3>1, ExpectationFields
    <3> QED BY <1>3, <3>2 DEF OnSnoop
  <2>2. CASE snp.line_state = "I"
    <3>1. g.state = "I"
      BY <1>2, <1>3, <2>2 DEF Same
    <3>2. OnSnoop.next = "I" /\ ~OnSnoop.flush
      BY <2>2, InvalidStays DEF OnSnoop
    <3>3. snoop_task.next = "I" /\ snoop_task.ack.data = ZeroWord
      <4>1. CASE g.tag # snp.addr.tag
        BY <1>1, <3>1, <4>1, ExpectationFields
      <4>2. CASE g.tag = snp.addr.tag
        <5>1. /\ snoop_task.next = OnSnoopEvent("I", snp.cmd).next
              /\ snoop_task.ack.data = IF OnSnoopEvent("I", snp.cmd).flush THEN g.data ELSE ZeroWord
          BY <1>1, <3>1, <4>2, ExpectationFields
        <5> QED BY <5>1, InvalidStays
      <4> QED BY <4>1, <4>2
    <3> QED BY <1>3, <3>2, <3>3
  <2> QED BY <2>1, <2>2
<1>5. SnpRequest' = snoop_task.ack
  <2>1. SnpRequest' = [snoop |-> TRUE, cmd |-> snp.cmd, addr |-> snp.addr,
                       data |-> IF snp.flush THEN snp.flush_data ELSE ZeroWord]
    BY <1>1 DEF SnpRequest
  <2> QED BY <1>1, <1>4, <2>1, ExpectationFields
<1>6. OnSnoop.next # "I" => line'[i] = [g EXCEPT !.state = OnSnoop.next]
  <2> SUFFICES ASSUME OnSnoop.next # "I" PROVE line'[i] = [g EXCEPT !.state = OnSnoop.next]
    OBVIOUS
  <2>1. snp.line_state # "I"
    BY InvalidStays DEF OnSnoop
  <2>2. g = [tag |-> snp.addr.tag, state |-> snp.line_state, data |-> snp.flush_data]
    BY <1>2, <1>3, <2>1 DEF Same
  <2>3. line'[i] \in Line
    BY <1>2 DEF ControllerTypeOK
  <2> QED BY <1>1, <2>2, <2>3 DEF Line
<1>7. [g EXCEPT !.state = OnSnoop.next].state = OnSnoop.next
  BY <1>2 DEF Line
<1> QED BY <1>1, <1>4, <1>5, <1>6, <1>7 DEF Same

\* The snoop machine's steps leave everything else as it is.
LEMMA SnpSide ==
  ASSUME BenchInv, Controller, SnpStep \/ GrantPort(1) \/ ArbiterStep
  PROVE  /\ UNCHANGED <<cpu, mem, flush, bus, golden, captured, snoop_task, director>>
         /\ mem # None => golden_rdata' = golden_rdata
<1>1. UNCHANGED <<cpu, mem, flush, bus>>
  BY InvParts, SnpLeaves
<1> QED BY <1>1 DEF Controller

LEMMA SnoopingKept ==
  ASSUME BenchInv, Controller, sent = None, ControllerTypeOK'
  PROVE  Snooping'
<1> USE InvParts
<1>0. ~SentSnp /\ UNCHANGED snoop_task /\ ControllerStep
  BY DEF SentSnp, Controller
<1>g. snoop_task # None => golden'[snoop_task.ack.addr.index] = golden[snoop_task.ack.addr.index]
  BY GoldenChanges
<1>e. snoop_task # None =>
        SnoopExpectation(snoop_task.ack.addr, snoop_task.ack.cmd)'
          = SnoopExpectation(snoop_task.ack.addr, snoop_task.ack.cmd)
  BY <1>0, <1>g DEF SnoopExpectation
<1>1. CASE CpuStep \/ GrantPort(0)
  <2>1. UNCHANGED <<snp, snoop>>
    BY <1>1, CpuLeaves
  <2>2. UNCHANGED sent \/ ~SentSnp'
    BY <1>1, CpuSends DEF SentSnp
  <2> QED BY <1>0, <1>g, <2>1, <2>2, SnoopingUntouched
<1>2. CASE ArbiterStep
  <2>1. UNCHANGED <<snp, snoop, sent>>
    BY <1>2 DEF ArbiterStep, GrantOutbound
  <2> QED BY <1>0, <1>g, <2>1, SnoopingUntouched
<1>3. CASE AcceptSnoop
  <2>1. /\ snoop_task # None /\ snp'.addr = snoop_task.ack.addr /\ snp'.cmd = snoop_task.ack.cmd
        /\ snp'.state = "SNP_FETCH_LINE_REQ" /\ snoop' = None /\ UNCHANGED sent
    BY <1>3, AcceptSnoopFields DEF Snooping
  <2> QED BY <1>0, <1>e, <2>1 DEF Snooping, SentSnp
<1>4. ASSUME snp.state \notin {"SNP_IDLE", "SNP_DONE"}, snp'.state # "SNP_IDLE",
             snp'.addr = snp.addr, snp'.cmd = snp.cmd, UNCHANGED <<snoop, sent>>,
             snp'.state = "SNP_DONE" => SnpRequest' = snoop_task.ack
      PROVE  Snooping'
  <2>1. /\ snoop_task # None /\ snoop = None
        /\ snp.addr = snoop_task.ack.addr /\ snp.cmd = snoop_task.ack.cmd
    BY <1>4, SnoopFinds
  <2> QED BY <1>0, <1>e, <1>4, <2>1 DEF Snooping, SentSnp
<1>5. CASE SnpFetchLineResp
  <2>1. CASE line[snp.addr.index].tag # snp.addr.tag
    BY <1>4, <1>5, <2>1, SnpFetchFields, GhostAnswer
  <2>2. CASE line[snp.addr.index].tag = snp.addr.tag
    BY <1>4, <1>5, <2>2, SnpFetchFields
  <2> QED BY <2>1, <2>2
<1>6. CASE OnSnoopEventStep
  BY <1>4, <1>6, OnSnoopFields
<1>7. CASE SnpUpdateLineResp
  BY <1>4, <1>7, SnpUpdateFields, UpdateAnswer
<1>8. CASE SnoopAckSent
  <2>1. /\ snp.state = "SNP_DONE" /\ snp'.state = "SNP_IDLE" /\ UNCHANGED snoop
        /\ sent' # None /\ sent'.snoop /\ sent' = Packet(SnpRequest)
    BY <1>8, SnoopAckFields
  <2>2. snoop_task # None /\ snoop = None /\ SnpRequest = snoop_task.ack
    BY <2>1 DEF Snooping
  <2> QED BY <1>0, <1>e, <2>1, <2>2 DEF Snooping, SentSnp
<1>9. CASE GrantPort(1)
  BY <1>4, <1>9, GrantSnpFields
<1> QED
  BY <1>0, <1>1, <1>2, <1>3, <1>5, <1>6, <1>7, <1>8, <1>9 DEF ControllerStep, SnpStep, PortStep

\* The snoop machine changes one line, nobody else's, and then only as the
\* golden model is to change it.
LEMMA SnpKeepsLockstep ==
  ASSUME BenchInv, Controller, sent = None, ControllerTypeOK',
         SnpStep \/ GrantPort(1) \/ ArbiterStep
  PROVE  /\ Lockstep'
         /\ \A i \in Index : UsedByCpu(i) => line'[i] = line[i]
<1> USE InvParts
<1> DEFINE j == snp.addr.index
<1>0. /\ ~SentSnp
      /\ UNCHANGED <<cpu, mem, golden, snoop_task>>
  BY SnpSide DEF SentSnp
<1>1. ASSUME UNCHANGED line, Snooped' <=> Snooped
      PROVE  Lockstep'
  <2>1. \A i : Settled(i)' = Settled(i)
    BY <1>0, <1>1 DEF Settled
  <2> QED BY <1>0, <1>1, <2>1 DEF Lockstep, Same
<1>2. ASSUME j \in Index, OnlyLine(j),
             snoop_task # None, j = snoop_task.ack.addr.index, ~Snooped, Snooped',
             Same(line'[j], [golden[j] EXCEPT !.state = snoop_task.next])
      PROVE  Lockstep'
  <2> SUFFICES ASSUME NEW i \in Index, ~(mem # None /\ mem.addr.index = i)
               PROVE  Same(line[i], Settled(i))'
    BY <1>0 DEF Lockstep
  <2>1. CASE i = j
    <3>1. Settled(i)' = [golden[j] EXCEPT !.state = snoop_task.next]
      BY <1>0, <1>2, <2>1 DEF Settled
    <3> QED BY <1>2, <2>1, <3>1 DEF Same
  <2>2. CASE i # j
    <3>1. Settled(i)' = Settled(i)
      BY <1>0, <1>2, <2>2 DEF Settled
    <3>2. line'[i] = line[i] /\ Same(line[i], Settled(i))
      BY <1>2, <2>2 DEF OnlyLine, Lockstep
    <3> QED BY <3>1, <3>2 DEF Same
  <2> QED BY <2>1, <2>2
<1>3. ASSUME AcceptSnoop PROVE Lockstep'
  BY <1>0, <1>1, <1>3, AcceptSnoopFields DEF Snooped, SentSnp
<1>4. ASSUME SnpFetchLineResp PROVE Lockstep'
  <2>1. CASE line[snp.addr.index].tag = snp.addr.tag
    BY <1>0, <1>1, <1>4, <2>1, SnpFetchFields DEF Snooped, SentSnp
  <2>2. CASE line[snp.addr.index].tag # snp.addr.tag
    <3>1. UNCHANGED line /\ snp'.state = "SNP_DONE" /\ snp.state = "SNP_FETCH_LINE_RESP"
      BY <1>4, <2>2, SnpFetchFields
    <3>2. /\ snoop_task # None /\ j = snoop_task.ack.addr.index /\ ~Snooped /\ j \in Index
          /\ Same(line[j], golden[j])
      BY <3>1, SnoopFinds
    <3>3. [golden[j] EXCEPT !.state = snoop_task.next] = golden[j]
      BY <1>4, <2>2, GhostAnswer
    <3>4. Snooped' /\ OnlyLine(j) /\ line'[j] = line[j]
      BY <3>1 DEF Snooped, OnlyLine
    <3>5. Same(line'[j], [golden[j] EXCEPT !.state = snoop_task.next])
      BY <3>2, <3>3, <3>4
    <3> QED BY <1>2, <3>2, <3>4, <3>5
  <2> QED BY <2>1, <2>2
<1>5. ASSUME OnSnoopEventStep PROVE Lockstep'
  BY <1>0, <1>1, <1>5, OnSnoopFields DEF Snooped, SentSnp
<1>6. ASSUME SnpUpdateLineResp PROVE Lockstep'
  <2>1. snp'.state = "SNP_DONE" /\ snp.state = "SNP_UPDATE_LINE_RESP" /\ OnlyLine(j)
    BY <1>6, SnpUpdateFields
  <2>2. snoop_task # None /\ j = snoop_task.ack.addr.index /\ ~Snooped /\ j \in Index
    BY <2>1, SnoopFinds
  <2>3. Same(line'[j], [golden[j] EXCEPT !.state = snoop_task.next])
    BY <1>6, UpdateAnswer
  <2>4. Snooped'
    BY <2>1 DEF Snooped
  <2> QED BY <1>2, <2>1, <2>2, <2>3, <2>4
<1>7. ASSUME SnoopAckSent PROVE Lockstep'
  BY <1>0, <1>1, <1>7, SnoopAckFields DEF Snooped, SentSnp
<1>8. ASSUME GrantPort(1) PROVE Lockstep'
  BY <1>0, <1>1, <1>8, GrantSnpFields DEF Snooped, SentSnp
<1>9. ASSUME ArbiterStep PROVE Lockstep'
  <2>1. UNCHANGED <<snp, line, sent>>
    BY <1>9 DEF ArbiterStep, GrantOutbound
  <2> QED BY <1>1, <2>1 DEF Snooped, SentSnp
<1>10. ASSUME NEW i \in Index, UsedByCpu(i) PROVE line'[i] = line[i]
  <2>1. CASE SnpUpdateLineResp
    <3>1. ~UsedByCpu(snp.addr.index) /\ OnlyLine(snp.addr.index)
      BY <2>1, SnpUpdateFields, SnoopFinds
    <3> QED BY <1>10, <3>1 DEF OnlyLine
  <2>2. CASE \/ AcceptSnoop \/ SnpFetchLineResp \/ OnSnoopEventStep \/ SnoopAckSent
             \/ GrantPort(1) \/ ArbiterStep
    <3>1. UNCHANGED line
      BY <2>2, AcceptSnoopFields, SnpFetchFields, OnSnoopFields, SnoopAckFields, GrantSnpFields
      DEF ArbiterStep, GrantOutbound
    <3> QED BY <3>1
  <2> QED BY <2>1, <2>2 DEF SnpStep
<1> QED BY <1>3, <1>4, <1>5, <1>6, <1>7, <1>8, <1>9, <1>10 DEF SnpStep

--------------------------------------------------------------------------------
(* The controller's steps: accesses and flushes. *)

\* What the CPU machine works on is on the wires, and nothing else is.
LEMMA CpuWorks ==
  ASSUME BenchInv
  PROVE  /\ cpu.state \in AccessState =>
              /\ mem # None /\ mem.addr = cpu.addr /\ mem.wstrb = cpu.wstrb /\ mem.wdata = cpu.wdata
              /\ flush = None
         /\ cpu.state \in FlushState => flush = cpu.addr /\ flush # None /\ mem = None
         /\ cpu.addr \in Addr /\ cpu.addr.index \in Index /\ cpu.addr.tag \in Tag
<1> USE InvParts
<1>1. cpu.addr \in Addr /\ cpu.addr # None
  BY CpuFields, NoneAssumption
<1> QED BY <1>1, AddressFields DEF Serving, Transfers

\* A line that nothing works on, or a flush does, is the golden model's.
LEMMA FlushedIsSame ==
  ASSUME BenchInv, mem = None, flush # None
  PROVE  flush.index \in Index /\ Same(line[flush.index], golden[flush.index])
<1> USE InvParts
<1>1. flush.index \in Index
  BY AddressFields DEF ControllerTypeOK
<1>2. Settled(flush.index) = golden[flush.index]
  BY DEF Settled, OwnIndices, UsedByCpu
<1> QED BY <1>1, <1>2 DEF Lockstep

\* The golden model's line when a flush ends.
LEMMA FlushEnds ==
  ASSUME BenchInv, Controller, flush # None, flush' = None, mem = None
  PROVE  \/ Present(flush) /\ golden'[flush.index].state = "I"
         \/ ~Present(flush) /\ golden'[flush.index] = golden[flush.index]
<1> USE InvParts
<1>1. flush.index \in Index /\ golden[flush.index] \in Line
  BY FlushedIsSame
<1>2. CASE Present(flush)
  <2>1. golden' = [golden EXCEPT ![flush.index].state = "I"]
    BY <1>2 DEF Controller
  <2> QED BY <1>1, <1>2, <2>1 DEF Line
<1>3. CASE ~Present(flush)
  BY <1>3 DEF Controller
<1> QED BY <1>2, <1>3

LEMMA CpuKeepsLockstep ==
  ASSUME BenchInv, Controller, sent = None, CpuStep \/ GrantPort(0), Snooped' <=> Snooped
  PROVE  Lockstep'
<1> USE InvParts
<1> SUFFICES ASSUME NEW i \in Index, ~(mem' # None /\ mem'.addr.index = i)
             PROVE  Same(line[i], Settled(i))'
  BY DEF Lockstep
<1>0. UNCHANGED snoop_task /\ ControllerStep
  BY DEF Controller
<1>1. CASE ~UsedByCpu(i)
  <2>1. line'[i] = line[i]
    BY <1>1, CpuUsesIndex, CpuLineUntouched
  <2>2. golden'[i] = golden[i]
    BY <1>1, GoldenChanges DEF UsedByCpu
  <2>3. Settled(i)' = Settled(i)
    BY <1>0, <2>2 DEF Settled
  <2> QED BY <1>1, <2>1, <2>3 DEF Lockstep, UsedByCpu, Same
<1>2. ASSUME UsedByCpu(i), Same(line'[i], golden'[i]) PROVE Same(line[i], Settled(i))'
  <2>1. Settled(i)' = golden'[i]
    BY <1>0, <1>2 DEF Settled, OwnIndices
  <2> QED BY <1>2, <2>1 DEF Same
<1>3. CASE mem # None /\ mem.addr.index = i
  <2>1. mem' = None /\ golden' = golden
    BY <1>0, <1>3, TransfersEnd, GoldenChanges
  <2>2. ReadResp \/ WriteResp
    BY <1>3, <2>1, AcceptAccessFields, AcceptFlushFields, FetchLineRespFields, EvictSentFields,
       EvictAckFields, TagMatchFields, MissSentFields, MissAckFields, ReadMissUpdateFields,
       FlushLookupFields, FlushInvalidateFields, GrantFields
    DEF CpuStep
  <2>3. ASSUME ReadResp PROVE line'[i] = golden[i]
    <3>1. cpu.state = "CPU_READ_RESP" /\ line' = line
      BY <2>3, ReadRespFields
    <3> QED BY <1>3, <3>1 DEF GoldenAhead
  <2>4. ASSUME WriteResp PROVE line'[i] = golden[i]
    <3>1. cpu.state = "CPU_WRITE_RESP"
      BY <2>4 DEF WriteResp
    <3>2. cpu.wstrb = Lane /\ cpu.addr = mem.addr /\ golden[i] = Outcome
      BY <1>3, <3>1, CpuWorks DEF Decided, AccessState, FetchedState, GoldenAhead
    <3>3. /\ line'[i].tag = cpu.addr.tag /\ line'[i].state = "M" /\ line'[i].data = cpu.wdata
          /\ \A word \in Word : ApplyWstrb(word, cpu.wdata, cpu.wstrb) = cpu.wdata
      BY <1>3, <2>4, <3>2, WriteRespFields
    <3>4. OnProcessor.next = "M"
      BY <3>2, LaneAssumption DEF OnProcessor, OnProcessorEvent
    <3>5. (IF OnProcessor.cmd = "NULL" THEN cpu.line.data ELSE AddrWord[cpu.addr]) \in Word
      BY CpuFields, AddrWordAssumption
    <3>6. Outcome = [tag |-> cpu.addr.tag, state |-> "M", data |-> cpu.wdata]
      BY <3>3, <3>4, <3>5 DEF Outcome
    <3>7. line'[i] \in Line
      BY <1>0, ControllerKeepsType DEF ControllerTypeOK
    <3> QED BY <3>2, <3>3, <3>6, <3>7 DEF Line
  <2>5. UsedByCpu(i) /\ line'[i] = golden'[i]
    BY <1>3, <2>1, <2>2, <2>3, <2>4 DEF UsedByCpu
  <2>6. Same(line'[i], golden'[i])
    BY <2>5 DEF Same
  <2> QED BY <1>2, <2>5, <2>6
<1>4. CASE mem = None /\ flush # None /\ flush.index = i
  <2>1. UsedByCpu(i) /\ Same(line[i], golden[i]) /\ cpu.state \notin AccessState
    BY <1>4, FlushedIsSame, CpuWorks DEF UsedByCpu
  <2>2. ASSUME UNCHANGED <<line, flush>> PROVE Same(line[i], Settled(i))'
    <3>1. golden'[i] = golden[i]
      BY <1>4, <2>2, GoldenChanges
    <3> QED BY <1>2, <2>1, <2>2, <3>1
  <2>3. CASE AcceptFlush \/ EvictSent \/ EvictAck \/ GrantPort(0)
    BY <2>2, <2>3, AcceptFlushFields, EvictSentFields, EvictAckFields, GrantFields
  <2>4. CASE FlushLookupResp
    <3>1. CASE UNCHANGED flush
      BY <2>2, <2>4, <3>1, FlushLookupFields
    <3>2. CASE flush' # flush
      <4>1. /\ ~(line[cpu.addr.index].tag = cpu.addr.tag /\ line[cpu.addr.index].state # "I")
            /\ flush' = None /\ UNCHANGED line /\ cpu.state = "CPU_FLUSH_LOOKUP_RESP"
        BY <2>4, <3>2, FlushLookupFields
      <4>2. flush = cpu.addr
        BY <4>1, CpuWorks DEF FlushState
      <4>3. ~Present(flush)
        BY <1>4, <2>1, <4>1, <4>2 DEF Present, Same
      <4>4. golden'[i] = golden[i]
        BY <1>4, <4>1, <4>3, FlushEnds
      <4> QED BY <1>2, <2>1, <4>1, <4>4
    <3> QED BY <3>1, <3>2
  <2>5. CASE FlushInvalidateResp
    <3>1. flush' = None /\ cpu.state = "CPU_FLUSH_INVALIDATE_RESP" /\ line'[cpu.addr.index].state = "I"
      BY <2>5, FlushInvalidateFields
    <3>2. flush = cpu.addr
      BY <3>1, CpuWorks DEF FlushState
    <3>3. line[i].state # "I" /\ line[i].tag = flush.tag
      BY <1>4, <3>1, <3>2 DEF Latched, Decided, FoundState, FlushState
    <3>4. Present(flush)
      BY <1>4, <2>1, <3>3 DEF Present, Same
    <3>5. golden'[i].state = "I" /\ line'[i].state = "I"
      BY <1>4, <3>1, <3>2, <3>4, FlushEnds
    <3>6. Same(line'[i], golden'[i])
      BY <3>5 DEF Same
    <3> QED BY <1>2, <2>1, <3>6
  <2>6. CASE \/ AcceptAccess \/ FetchLineResp \/ TagMatch \/ MissSent \/ MissAck
             \/ ReadMissUpdateLineResp \/ ReadResp \/ WriteResp
    <3>1. mem # None
      BY <2>1, <2>6
      DEF AcceptAccess, FetchLineResp, TagMatch, MissSent, MissAck, ReadMissUpdateLineResp,
          ReadResp, WriteResp, AccessState
    <3> QED BY <1>4, <3>1
  <2> QED BY <2>3, <2>4, <2>5, <2>6 DEF CpuStep
<1> QED BY <1>1, <1>3, <1>4 DEF UsedByCpu, Transfers

\* What the golden model knows of the access that the machine has just found the line of.
LEMMA FetchedOutcome ==
  ASSUME BenchInv, FetchLineResp
  PROVE  /\ OnProcessor' = Transition(line[mem.addr.index], mem)
         /\ mem # None /\ mem.addr = cpu.addr /\ mem.addr.index \in Index
         /\ cpu'.line = line[mem.addr.index] /\ cpu'.addr = mem.addr
         /\ cpu'.wstrb = mem.wstrb /\ cpu'.wdata = mem.wdata
         /\ \/ Mismatch(cpu'.line, mem.addr) /\ cpu'.state = "CPU_TAG_MISS"
            \/ ~Mismatch(cpu'.line, mem.addr) /\ cpu'.state = "CPU_TAG_MATCH"
<1> USE InvParts
<1>1. /\ cpu.state = "CPU_FETCH_LINE_RESP"
      /\ cpu'.addr = cpu.addr /\ cpu'.wstrb = cpu.wstrb /\ cpu'.wdata = cpu.wdata
      /\ cpu'.line = line[cpu.addr.index]
      /\ \/ /\ cpu'.line.tag # cpu.addr.tag /\ cpu'.line.state # "I"
            /\ cpu'.state = "CPU_TAG_MISS" /\ ~cpu'.tag_match
         \/ /\ cpu'.line.tag = cpu.addr.tag \/ cpu'.line.state = "I"
            /\ cpu'.state = "CPU_TAG_MATCH" /\ cpu'.tag_match = cpu.tag_match
  BY FetchLineRespFields
<1>2. /\ mem # None /\ mem.addr = cpu.addr /\ mem.wstrb = cpu.wstrb /\ mem.wdata = cpu.wdata
      /\ cpu.addr.index \in Index
  BY <1>1, CpuWorks DEF AccessState
<1>3. cpu.tag_match
  BY <1>1 DEF Decided
<1>4. \/ Mismatch(cpu'.line, mem.addr) /\ cpu'.state = "CPU_TAG_MISS" /\ ~cpu'.tag_match
      \/ ~Mismatch(cpu'.line, mem.addr) /\ cpu'.state = "CPU_TAG_MATCH" /\ cpu'.tag_match
  BY <1>1, <1>2, <1>3 DEF Mismatch
<1>5. OnProcessor' = Transition(line[mem.addr.index], mem)
  BY <1>1, <1>2, <1>4 DEF OnProcessor, Transition
<1> QED BY <1>1, <1>2, <1>4, <1>5

\* A hit of a read: the line stays as it is.
LEMMA HitOutcome ==
  ASSUME BenchInv, cpu.state = "CPU_TAG_MATCH", cpu.wstrb = {}, OnProcessor.cmd = "NULL"
  PROVE  Outcome = line[cpu.addr.index]
<1> USE InvParts
<1>1. cpu.tag_match /\ cpu.line.state \in {"S", "M"} /\ OnProcessor.next = cpu.line.state
  BY CpuFields DEF OnProcessor, OnProcessorEvent, MSIState
<1>2. cpu.line.tag = cpu.addr.tag
  BY <1>1 DEF Decided, FetchedState
<1>3. cpu.line.data \in Word /\ cpu.line \in Line /\ cpu.addr.index \in Index
  BY CpuFields, CpuWorks
<1>4. ApplyWstrb(cpu.line.data, cpu.wdata, {}) = cpu.line.data
  BY <1>3 DEF ApplyWstrb, Word
<1>5. Outcome = [tag |-> cpu.line.tag, state |-> cpu.line.state, data |-> cpu.line.data]
  BY <1>1, <1>2, <1>4 DEF Outcome
<1>6. /\ line[cpu.addr.index] \in Line
      /\ line[cpu.addr.index].tag = cpu.line.tag /\ line[cpu.addr.index].state = cpu.line.state
      /\ line[cpu.addr.index].data = cpu.line.data
  BY <1>3 DEF ControllerTypeOK, Latched, FetchedState
<1> QED BY <1>5, <1>6 DEF Line

\* Any step that keeps the access, its line and what has been decided of it.
LEMMA AheadKept ==
  ASSUME GoldenAhead,
         mem' # None =>
           LET i == mem.addr.index
           IN /\ UNCHANGED <<mem, golden_rdata>> /\ golden'[i] = golden[i]
              /\ cpu'.state \in UnfetchedState
                   => cpu.state \in UnfetchedState /\ line'[i] = line[i]
              /\ cpu'.state \in FetchedState => cpu.state \in FetchedState /\ Outcome' = Outcome
              /\ cpu'.state \in {"CPU_READ_REQ", "CPU_READ_RESP"}
                   => cpu.state \in {"CPU_READ_REQ", "CPU_READ_RESP"} /\ line'[i] = line[i],
         cpu'.state \in {"CPU_READ_MISS_UPDATE_LINE_REQ", "CPU_READ_MISS_UPDATE_LINE_RESP"}
           => /\ cpu.state \in {"CPU_READ_MISS_UPDATE_LINE_REQ", "CPU_READ_MISS_UPDATE_LINE_RESP"}
              /\ cpu'.line.data = cpu.line.data /\ cpu'.addr = cpu.addr
  PROVE  GoldenAhead'
BY DEF GoldenAhead

LEMMA SameOutcomeNow ==
  ASSUME SameDecision
  PROVE  Outcome' = Outcome
BY DEF SameDecision, Outcome

LEMMA GoldenAheadKept ==
  ASSUME BenchInv, Controller, sent = None, ControllerTypeOK'
  PROVE  GoldenAhead'
<1> USE InvParts DEF UnfetchedState, FetchedState
<1>0. mem' # None => UNCHANGED <<mem, golden_rdata, golden>>
  BY TransfersEnd, GoldenChanges DEF Controller
<1>1. ASSUME UNCHANGED line, SameDecision,
             mem' # None /\ cpu'.state \in UnfetchedState => cpu.state \in UnfetchedState,
             mem' # None /\ cpu'.state \in FetchedState => cpu.state \in FetchedState,
             cpu'.state \in {"CPU_READ_REQ", "CPU_READ_RESP"}
               => cpu.state \in {"CPU_READ_REQ", "CPU_READ_RESP"},
             cpu'.state \in {"CPU_READ_MISS_UPDATE_LINE_REQ", "CPU_READ_MISS_UPDATE_LINE_RESP"}
               => cpu.state \in {"CPU_READ_MISS_UPDATE_LINE_REQ", "CPU_READ_MISS_UPDATE_LINE_RESP"}
      PROVE  GoldenAhead'
  <2>1. Outcome' = Outcome /\ cpu'.line = cpu.line /\ cpu'.addr = cpu.addr
    BY <1>1, SameOutcomeNow DEF SameDecision
  <2> HIDE DEF UnfetchedState, FetchedState
  <2> QED BY <1>0, <1>1, <2>1, AheadKept
<1>2. ASSUME mem' = None, cpu'.state \notin {"CPU_READ_MISS_UPDATE_LINE_REQ",
                                             "CPU_READ_MISS_UPDATE_LINE_RESP"}
      PROVE  GoldenAhead'
  BY <1>2 DEF GoldenAhead
<1>3. CASE AcceptAccess
  BY <1>0, <1>3, AcceptAccessFields DEF GoldenAhead
<1>4. CASE AcceptFlush
  BY <1>2, <1>4, AcceptFlushFields DEF Transfers
<1>5. CASE FetchLineResp
  <2>1. /\ cpu.state = "CPU_FETCH_LINE_RESP" /\ cpu'.state \in {"CPU_TAG_MISS", "CPU_TAG_MATCH"}
        /\ UNCHANGED mem
    BY <1>5, FetchLineRespFields
  <2>2. /\ OnProcessor' = Transition(line[mem.addr.index], mem) /\ mem # None
        /\ cpu'.line = line[mem.addr.index] /\ cpu'.addr = mem.addr
        /\ cpu'.wstrb = mem.wstrb /\ cpu'.wdata = mem.wdata
    BY <1>5, FetchedOutcome
  <2>3. golden[mem.addr.index] = GoldenLine(line[mem.addr.index], mem)
    BY <2>1, <2>2 DEF GoldenAhead
  <2>4. golden[mem.addr.index] = Outcome'
    BY <2>2, <2>3 DEF GoldenLine, Outcome
  <2> QED BY <1>0, <2>1, <2>2, <2>4 DEF GoldenAhead
<1>6. CASE EvictSent
  <2>1. SameDecision /\ UNCHANGED <<line, mem>> /\ cpu'.state = AfterEvict
        /\ cpu.state \in {"CPU_TAG_MISS", "CPU_FLUSH_EVICT"}
    BY <1>6, EvictSentFields
  <2> QED BY <1>1, <2>1, CpuWorks DEF AfterEvict
<1>7. CASE EvictAck
  BY <1>1, <1>7, EvictAckFields
<1>8. CASE TagMatch
  <2>1. SameDecision /\ UNCHANGED <<line, mem>> /\ cpu.state = "CPU_TAG_MATCH"
    BY <1>8, TagMatchFields
  <2>2. CASE cpu'.state = "CPU_READ_REQ"
    <3>1. cpu.wstrb = {} /\ OnProcessor.cmd = "NULL"
      BY <1>8, <2>2, TagMatchFields
    <3>2. mem # None /\ mem.addr = cpu.addr /\ golden[cpu.addr.index] = Outcome
      BY <2>1, CpuWorks DEF AccessState, GoldenAhead
    <3>3. golden[mem.addr.index] = line[mem.addr.index]
      BY <2>1, <3>1, <3>2, HitOutcome
    <3> QED BY <1>0, <2>1, <2>2, <3>2, <3>3 DEF GoldenAhead
  <2>3. CASE cpu'.state # "CPU_READ_REQ"
    BY <1>1, <1>8, <2>1, <2>3, TagMatchFields
  <2> QED BY <2>2, <2>3
<1>9. CASE MissSent
  BY <1>1, <1>9, MissSentFields
<1>10. CASE MissAck
  <2>1. /\ UNCHANGED <<line, mem>> /\ bus # None
        /\ cpu'.addr = cpu.addr /\ cpu'.wstrb = cpu.wstrb /\ cpu'.wdata = cpu.wdata
        /\ bus.cmd = "BUS_RD" => cpu'.line.data = bus.data
        /\ OnProcessor' = OnProcessor
        /\ \/ cpu.state = "CPU_READ_MISS_ACK" /\ cpu'.state = "CPU_READ_MISS_UPDATE_LINE_REQ"
           \/ cpu.state = "CPU_WRITE_MISS_ACK" /\ cpu'.state = "CPU_WRITE_REQ"
    BY <1>10, MissAckFields
  <2>2. OnProcessor.cmd # "NULL" /\ (cpu.state = "CPU_READ_MISS_ACK" => OnProcessor.cmd = "BUS_RD")
    BY <2>1 DEF Decided
  <2>3. Outcome' = Outcome
    BY <2>1, <2>2 DEF Outcome
  <2>4. bus = [cmd |-> OnProcessor.cmd, data |-> AddrWord[cpu.addr]]
    BY <2>1 DEF Asked, Given, SentCpu, MissedState
  <2>5. cpu'.state = "CPU_READ_MISS_UPDATE_LINE_REQ" => cpu'.line.data = AddrWord[cpu'.addr]
    BY <2>1, <2>2, <2>4
  <2>6. mem # None /\ mem.addr = cpu.addr
    BY <2>1, CpuWorks DEF AccessState
  <2> QED BY <1>0, <2>1, <2>3, <2>5, <2>6 DEF GoldenAhead
<1>11. CASE ReadMissUpdateLineResp
  <2> DEFINE i == cpu.addr.index
  <2>1. /\ UNCHANGED mem /\ SameDecision
        /\ cpu.state = "CPU_READ_MISS_UPDATE_LINE_RESP" /\ cpu'.state = "CPU_READ_REQ"
        /\ line'[i].tag = cpu.addr.tag /\ line'[i].state = OnProcessor.next
        /\ line'[i].data = cpu.line.data
    BY <1>11, ReadMissUpdateFields
  <2>2. mem # None /\ mem.addr = cpu.addr /\ golden[i] = Outcome /\ cpu.line.data = AddrWord[cpu.addr]
    BY <2>1, CpuWorks DEF AccessState, GoldenAhead
  <2>3. cpu.wstrb = {} /\ OnProcessor.cmd = "BUS_RD"
    BY <2>1 DEF Decided
  <2>4. ApplyWstrb(AddrWord[cpu.addr], cpu.wdata, {}) = cpu.line.data
    BY <2>2, CpuFields DEF ApplyWstrb, Word
  <2>5. Outcome = [tag |-> cpu.addr.tag, state |-> OnProcessor.next, data |-> cpu.line.data]
    BY <2>3, <2>4 DEF Outcome
  <2>6. line'[i] \in Line
    BY CpuWorks DEF ControllerTypeOK
  <2>7. golden[i] = line'[i]
    BY <2>1, <2>2, <2>5, <2>6 DEF Line
  <2> QED BY <1>0, <2>1, <2>2, <2>7 DEF GoldenAhead
<1>12. CASE ReadResp \/ WriteResp
  <2>1. mem' = None /\ cpu' = CpuReset
    BY <1>12 DEF ReadResp, WriteResp, CpuDone
  <2> QED BY <1>2, <2>1, ResetFields
<1>13. CASE FlushLookupResp \/ FlushInvalidateResp
  <2>1. /\ UNCHANGED mem /\ cpu.state \in FlushState
        /\ cpu'.state \in {"CPU_FLUSH_EVICT", "CPU_IDLE"}
    BY <1>13, FlushLookupFields, FlushInvalidateFields, ResetFields DEF FlushState
  <2>2. mem = None
    BY <2>1, CpuWorks
  <2> QED BY <1>2, <2>1, <2>2
<1>14. CASE GrantPort(0)
  BY <1>1, <1>14, GrantFields
<1>15. CASE SnpStep \/ GrantPort(1) \/ ArbiterStep
  <2>1. UNCHANGED <<cpu, mem>>
    BY <1>15, SnpSide
  <2>2. mem # None => line'[mem.addr.index] = line[mem.addr.index]
    <3>1. mem # None => mem.addr.index \in Index /\ UsedByCpu(mem.addr.index)
      BY AddressFields DEF ControllerTypeOK, Access, UsedByCpu
    <3> QED BY <1>15, <3>1, SnpKeepsLockstep
  <2>3. Outcome' = Outcome
    BY <2>1 DEF Outcome, OnProcessor
  <2> QED BY <1>0, <2>1, <2>2, <2>3, AheadKept
<1> QED
  BY <1>3, <1>4, <1>5, <1>6, <1>7, <1>8, <1>9, <1>10, <1>11, <1>12, <1>13, <1>14, <1>15
  DEF Controller, ControllerStep, CpuStep, PortStep

\* What the machine has to send depends on its registers, on the wires and on
\* the line they ask for.
LEMMA SameToSend ==
  ASSUME cpu' = cpu, mem' = mem, flush' = flush,
         mem # None => line'[mem.addr.index] = line[mem.addr.index],
         flush # None => line'[flush.index] = line[flush.index],
         cpu.state \in FlushState => flush # None
  PROVE  ToSend' = ToSend /\ JustSent' = JustSent
<1>1. Later' = Later /\ EvictRequest' = EvictRequest /\ Miss' = Miss
  BY DEF Later, EvictRequest, Miss, OnProcessor
<1>2. flush # None => Evictions(flush)' = Evictions(flush)
  BY DEF Evictions
<1>3. mem # None => GoldenRequests(line[mem.addr.index], mem)'
                      = GoldenRequests(line[mem.addr.index], mem)
  OBVIOUS
<1>4. JustSent' = JustSent
  BY <1>1 DEF JustSent
<1>5. ToSend' = ToSend
  BY <1>1, <1>2, <1>3 DEF ToSend, FlushState
<1> QED BY <1>4, <1>5

\* A decision kept is what is left to send kept.
LEMMA SameLater ==
  ASSUME SameDecision
  PROVE  /\ EvictRequest' = EvictRequest /\ Miss' = Miss /\ MissRequest' = MissRequest
         /\ (cpu'.state \in FlushState <=> cpu.state \in FlushState) => Later' = Later
BY DEF SameDecision, EvictRequest, Miss, MissRequest, Later

\* What is left to send, state by state.
LEMMA ToSendIn ==
  /\ cpu.state \in UnfetchedState /\ mem # None => ToSend = GoldenRequests(line[mem.addr.index], mem)
  /\ cpu.state \in UnfetchedState /\ mem = None /\ flush # None => ToSend = Evictions(flush)
  /\ cpu.state \in UnfetchedState /\ mem = None /\ flush = None => ToSend = <<>>
  /\ cpu.state \in {"CPU_FLUSH_LOOKUP_REQ", "CPU_FLUSH_LOOKUP_RESP"} => ToSend = Evictions(flush)
  /\ cpu.state \in {"CPU_TAG_MISS", "CPU_FLUSH_EVICT"} => ToSend = <<EvictRequest>> \o Later
  /\ cpu.state \in {"CPU_EVICT_DIRTY_ACK", "CPU_TAG_MATCH", "CPU_READ_MISS", "CPU_WRITE_MISS",
                    "CPU_FLUSH_EVICT_ACK", "CPU_FLUSH_INVALIDATE_REQ"} => ToSend = Later
  /\ cpu.state \in {"CPU_READ_MISS_ACK", "CPU_READ_MISS_UPDATE_LINE_REQ",
                    "CPU_READ_MISS_UPDATE_LINE_RESP", "CPU_READ_REQ", "CPU_READ_RESP",
                    "CPU_WRITE_MISS_ACK", "CPU_WRITE_REQ", "CPU_WRITE_RESP",
                    "CPU_FLUSH_INVALIDATE_RESP"} => ToSend = <<>>
BY DEF ToSend, UnfetchedState

LEMMA AskedKept ==
  ASSUME BenchInv, Controller, sent = None, ControllerTypeOK'
  PROVE  Asked'
<1> USE InvParts
<1>0. captured = ToSend /\ bus = Given /\ UNCHANGED captured /\ ~SentCpu
  BY DEF Asked, SentCpu, Controller
<1>1. ASSUME ~SentCpu', ToSend' = ToSend, bus' = Given' PROVE Asked'
  BY <1>0, <1>1 DEF Asked
<1>2. ASSUME ~SentCpu', cpu'.state \notin {"CPU_EVICT_DIRTY_ACK", "CPU_FLUSH_EVICT_ACK"} \cup MissedState
      PROVE  Given' = None
  BY <1>2 DEF Given
<1>3. cpu.state \notin {"CPU_EVICT_DIRTY_ACK", "CPU_FLUSH_EVICT_ACK"} \cup MissedState => bus = None
  BY <1>0 DEF Given
<1>4. UNCHANGED sent => ~SentCpu'
  BY DEF SentCpu
<1>5. cpu.state \in FlushState => Later = <<>>
  BY DEF Later
<1>6. CASE AcceptAccess
  <2>1. /\ UNCHANGED <<line, mem, flush, bus, sent>> /\ mem # None
        /\ cpu.state = "CPU_IDLE" /\ cpu'.state = "CPU_FETCH_LINE_REQ"
    BY <1>6, AcceptAccessFields
  <2>2. ToSend = GoldenRequests(line[mem.addr.index], mem)
    BY <2>1, ToSendIn DEF UnfetchedState
  <2>3. ToSend' = GoldenRequests(line[mem.addr.index], mem)
    BY <2>1 DEF ToSend, UnfetchedState
  <2> QED BY <1>1, <1>2, <1>3, <1>4, <2>1, <2>2, <2>3 DEF MissedState
<1>7. CASE AcceptFlush
  <2>1. /\ UNCHANGED <<line, mem, flush, bus, sent>> /\ mem = None /\ flush # None
        /\ cpu.state = "CPU_IDLE" /\ cpu'.state = "CPU_FLUSH_LOOKUP_REQ"
    BY <1>7, AcceptFlushFields DEF AcceptFlush
  <2>2. ToSend = Evictions(flush)
    BY <2>1, ToSendIn DEF UnfetchedState
  <2>3. Evictions(flush)' = Evictions(flush)
    BY <2>1 DEF Evictions
  <2>4. ToSend' = Evictions(flush)'
    BY <2>1 DEF ToSend, UnfetchedState
  <2> QED BY <1>1, <1>2, <1>3, <1>4, <2>1, <2>2, <2>3, <2>4 DEF MissedState
<1>8. CASE FetchLineResp
  <2> DEFINE l == line[mem.addr.index]
  <2>1. /\ UNCHANGED <<line, mem, flush, bus, sent>> /\ cpu.state = "CPU_FETCH_LINE_RESP"
        /\ cpu'.state \in {"CPU_TAG_MISS", "CPU_TAG_MATCH"}
    BY <1>8, FetchLineRespFields
  <2>2. /\ OnProcessor' = Transition(l, mem) /\ mem # None
        /\ cpu'.line = l /\ cpu'.addr = mem.addr /\ l \in Line
        /\ \/ Mismatch(l, mem.addr) /\ cpu'.state = "CPU_TAG_MISS"
           \/ ~Mismatch(l, mem.addr) /\ cpu'.state = "CPU_TAG_MATCH"
    BY <1>8, FetchedOutcome DEF ControllerTypeOK
  <2>3. ToSend = GoldenRequests(l, mem)
    BY <2>1, <2>2, ToSendIn DEF UnfetchedState
  <2>4. Later' = MissOf(l, mem)
    BY <2>1, <2>2 DEF Later, Miss, MissOf, FlushState
  <2>5. CASE cpu'.state = "CPU_TAG_MATCH"
    <3>1. ToSend' = Later'
      BY <2>5 DEF ToSend, UnfetchedState
    <3>2. ~Mismatch(l, mem.addr)
      BY <2>2, <2>5
    <3> HIDE DEF l
    <3>3. GoldenRequests(l, mem) = MissOf(l, mem)
      BY <3>2, RequestsOf
    <3> QED BY <1>1, <1>2, <1>3, <1>4, <2>1, <2>3, <2>4, <3>1, <3>3 DEF MissedState
  <2>6. CASE cpu'.state = "CPU_TAG_MISS"
    <3>1. ToSend' = <<EvictRequest'>> \o Later'
      BY <2>6 DEF ToSend, UnfetchedState
    <3>2. Mismatch(l, mem.addr)
      BY <2>2, <2>6
    <3>3. l.state \in {"S", "M"}
      BY <2>2, <3>2 DEF Mismatch, Line, MSIState
    <3>4. EvictRequest' = Eviction(l, mem.addr.index)
      BY <2>2, <3>3 DEF EvictRequest, EvictCmdOf, Eviction, Request
    <3> HIDE DEF l
    <3>5. GoldenRequests(l, mem) = <<Eviction(l, mem.addr.index)>> \o MissOf(l, mem)
      BY <3>2, RequestsOf
    <3> QED BY <1>1, <1>2, <1>3, <1>4, <2>1, <2>3, <2>4, <2>6, <3>1, <3>4, <3>5 DEF MissedState
  <2> QED BY <2>1, <2>5, <2>6
<1>9. CASE EvictSent
  <2>1. /\ UNCHANGED bus /\ SameDecision /\ sent' # None /\ ~sent'.snoop
        /\ sent' = Packet(EvictRequest)
        /\ cpu'.state = AfterEvict /\ cpu.state \in {"CPU_TAG_MISS", "CPU_FLUSH_EVICT"}
    BY <1>9, EvictSentFields
  <2>2. /\ cpu.line.state \in {"S", "M"} /\ cpu'.line = cpu.line
    BY <2>1, CpuFields DEF LinesHaveAddresses, SameDecision, MSIState
  <2>3. /\ cpu'.state \in EvictedState
        /\ cpu'.state \in {"CPU_TAG_MATCH", "CPU_FLUSH_INVALIDATE_REQ"} => cpu.line.state = "S"
        /\ cpu'.state \in FlushState <=> cpu.state \in FlushState
    BY <2>1, <2>2 DEF AfterEvict, EvictedState, FlushState
  <2>4. EvictRequest' = EvictRequest /\ Later' = Later
    BY <2>1, <2>3, SameLater
  <2>5. JustSent' = EvictRequest
    BY <2>3, <2>4 DEF JustSent
  <2>6. ToSend' = Later
    BY <2>3, <2>4 DEF ToSend, EvictedState, UnfetchedState
  <2>7. captured' = <<JustSent'>> \o ToSend'
    BY <1>0, <2>1, <2>5, <2>6, ToSendIn
  <2>8. SentCpu' /\ bus' = Given'
    BY <1>3, <2>1 DEF SentCpu, Given, MissedState
  <2> QED BY <2>1, <2>2, <2>3, <2>5, <2>7, <2>8 DEF Asked
<1>10. CASE EvictAck
  <2>1. /\ UNCHANGED sent /\ SameDecision /\ bus' = None
        /\ \/ cpu.state = "CPU_EVICT_DIRTY_ACK" /\ cpu'.state = "CPU_TAG_MATCH"
           \/ cpu.state = "CPU_FLUSH_EVICT_ACK" /\ cpu'.state = "CPU_FLUSH_INVALIDATE_REQ"
    BY <1>10, EvictAckFields
  <2>2. Later' = Later
    BY <2>1, SameLater DEF FlushState
  <2>3. ToSend = Later
    BY <2>1, ToSendIn
  <2>4. ToSend' = Later'
    BY <2>1 DEF ToSend, UnfetchedState
  <2> QED BY <1>1, <1>2, <1>4, <2>1, <2>2, <2>3, <2>4 DEF MissedState
<1>11. CASE TagMatch
  <2>1. /\ UNCHANGED <<bus, sent>> /\ SameDecision /\ cpu.state = "CPU_TAG_MATCH"
        /\ \/ OnProcessor.cmd # "NULL" /\ cpu'.state \in {"CPU_READ_MISS", "CPU_WRITE_MISS"}
           \/ OnProcessor.cmd = "NULL" /\ cpu'.state \in {"CPU_READ_REQ", "CPU_WRITE_REQ"}
    BY <1>11, TagMatchFields
  <2>2. Later' = Later
    BY <2>1, SameLater DEF FlushState
  <2>3. ToSend = Later /\ (OnProcessor.cmd = "NULL" => Later = <<>>)
    BY <2>1, ToSendIn DEF Later
  <2>4. ToSend' = IF cpu'.state \in {"CPU_READ_MISS", "CPU_WRITE_MISS"} THEN Later' ELSE <<>>
    BY <2>1 DEF ToSend, UnfetchedState
  <2> QED BY <1>1, <1>2, <1>3, <1>4, <2>1, <2>2, <2>3, <2>4 DEF MissedState
<1>12. CASE MissSent
  <2>1. /\ UNCHANGED bus /\ SameDecision /\ sent' # None /\ ~sent'.snoop
        /\ sent' = Packet(MissRequest)
        /\ \/ cpu.state = "CPU_READ_MISS" /\ cpu'.state = "CPU_READ_MISS_ACK"
           \/ cpu.state = "CPU_WRITE_MISS" /\ cpu'.state = "CPU_WRITE_MISS_ACK"
    BY <1>12, MissSentFields
  <2>2. OnProcessor.cmd # "NULL"
    BY <2>1 DEF Decided
  <2>3. captured = <<Miss>>
    BY <1>0, <2>1, <2>2, ToSendIn DEF Later, FlushState
  <2>4. JustSent' = Miss
    BY <2>1, SameLater DEF JustSent, EvictedState
  <2>5. ToSend' = <<>>
    BY <2>1 DEF ToSend, UnfetchedState
  <2>6. captured' = <<JustSent'>> \o ToSend'
    BY <1>0, <2>3, <2>4, <2>5
  <2>7. sent' = Packet(JustSent')
    BY <2>1, <2>4, MissPacket
  <2>8. SentCpu' /\ bus' = Given'
    BY <1>3, <2>1 DEF SentCpu, Given, MissedState
  <2> QED BY <2>1, <2>6, <2>7, <2>8 DEF Asked, MissedState
<1>13. CASE MissAck
  <2>1. /\ UNCHANGED sent /\ bus' = None
        /\ cpu.state \in MissedState /\ cpu'.state \in {"CPU_READ_MISS_UPDATE_LINE_REQ", "CPU_WRITE_REQ"}
    BY <1>13, MissAckFields DEF MissedState
  <2>2. ToSend = <<>> /\ ToSend' = <<>>
    BY <2>1 DEF ToSend, UnfetchedState, MissedState
  <2> QED BY <1>1, <1>2, <1>4, <2>1, <2>2 DEF MissedState
<1>14. CASE ReadMissUpdateLineResp
  <2>1. /\ UNCHANGED <<bus, sent>>
        /\ cpu.state = "CPU_READ_MISS_UPDATE_LINE_RESP" /\ cpu'.state = "CPU_READ_REQ"
    BY <1>14, ReadMissUpdateFields
  <2>2. ToSend = <<>> /\ ToSend' = <<>>
    BY <2>1 DEF ToSend, UnfetchedState
  <2> QED BY <1>1, <1>2, <1>3, <1>4, <2>1, <2>2 DEF MissedState
<1>15. ASSUME cpu' = CpuReset, mem' = None, flush' = None, UNCHANGED <<bus, sent>>, ToSend = <<>>,
              cpu.state \notin {"CPU_EVICT_DIRTY_ACK", "CPU_FLUSH_EVICT_ACK"} \cup MissedState
       PROVE  Asked'
  <2>1. cpu'.state = "CPU_IDLE"
    BY <1>15, ResetFields
  <2>2. ToSend' = <<>>
    BY <1>15, <2>1 DEF ToSend, UnfetchedState
  <2> QED BY <1>1, <1>2, <1>3, <1>4, <1>15, <2>1, <2>2 DEF MissedState
<1>16. CASE ReadResp \/ WriteResp
  <2>1. /\ cpu' = CpuReset /\ mem' = None /\ UNCHANGED <<flush, bus, sent>>
        /\ cpu.state \in {"CPU_READ_RESP", "CPU_WRITE_RESP"}
    BY <1>16 DEF ReadResp, WriteResp, CpuDone, CpuElse
  <2>2. flush = None
    BY <2>1, CpuWorks DEF AccessState
  <2>3. ToSend = <<>>
    BY <2>1, ToSendIn
  <2> QED BY <1>15, <2>1, <2>2, <2>3 DEF MissedState
<1>17. CASE FlushLookupResp
  <2>1. /\ UNCHANGED <<line, mem, bus, sent>> /\ cpu.state = "CPU_FLUSH_LOOKUP_RESP"
    BY <1>17, FlushLookupFields
  <2>2. mem = None /\ flush = cpu.addr /\ ToSend = Evictions(flush)
    BY <2>1, CpuWorks, ToSendIn DEF FlushState
  <2>3. CASE cpu' = CpuReset
    <3>1. /\ ~(line[cpu.addr.index].tag = cpu.addr.tag /\ line[cpu.addr.index].state # "I")
          /\ flush' = None
      BY <1>17, <2>3, FlushLookupFields, ResetFields
    <3>2. ToSend = <<>>
      BY <2>2, <3>1 DEF Evictions
    <3> QED BY <1>15, <2>1, <2>2, <2>3, <3>1, <3>2 DEF MissedState
  <2>4. CASE cpu' # CpuReset
    <3>1. /\ cpu'.addr = cpu.addr /\ cpu'.line = line[cpu.addr.index]
          /\ cpu'.line.tag = cpu.addr.tag /\ cpu'.line.state # "I"
          /\ cpu'.state = "CPU_FLUSH_EVICT"
      BY <1>17, <2>4, FlushLookupFields
    <3>2. ToSend = <<Eviction(cpu'.line, cpu.addr.index)>>
      BY <2>2, <3>1 DEF Evictions
    <3>3. ToSend' = <<EvictRequest'>> \o Later' /\ Later' = <<>>
      BY <3>1 DEF ToSend, UnfetchedState, Later, FlushState
    <3>4. cpu'.line.state \in {"S", "M"}
      BY <3>1, CpuWorks DEF ControllerTypeOK, Line, MSIState
    <3>5. EvictRequest' = Eviction(cpu'.line, cpu.addr.index)
      BY <3>1, <3>4 DEF EvictRequest, EvictCmdOf, Eviction, Request
    <3>6. ToSend' = ToSend
      BY <3>2, <3>3, <3>5
    <3> QED BY <1>1, <1>2, <1>3, <1>4, <2>1, <3>1, <3>6 DEF MissedState
  <2> QED BY <2>3, <2>4
<1>18. CASE FlushInvalidateResp
  <2>1. /\ cpu' = CpuReset /\ flush' = None /\ UNCHANGED <<mem, bus, sent>>
        /\ cpu.state = "CPU_FLUSH_INVALIDATE_RESP"
    BY <1>18, FlushInvalidateFields
  <2>2. mem = None /\ ToSend = <<>>
    BY <2>1, CpuWorks, ToSendIn DEF FlushState
  <2> QED BY <1>15, <2>1, <2>2 DEF MissedState
<1>19. CASE GrantPort(0)
  <2>1. /\ UNCHANGED <<line, mem, flush, bus, sent>>
        /\ \/ cpu.state = "CPU_FETCH_LINE_REQ" /\ cpu'.state = "CPU_FETCH_LINE_RESP"
           \/ cpu.state = "CPU_READ_MISS_UPDATE_LINE_REQ" /\ cpu'.state = "CPU_READ_MISS_UPDATE_LINE_RESP"
           \/ cpu.state = "CPU_READ_REQ" /\ cpu'.state = "CPU_READ_RESP"
           \/ cpu.state = "CPU_WRITE_REQ" /\ cpu'.state = "CPU_WRITE_RESP"
           \/ cpu.state = "CPU_FLUSH_LOOKUP_REQ" /\ cpu'.state = "CPU_FLUSH_LOOKUP_RESP"
           \/ cpu.state = "CPU_FLUSH_INVALIDATE_REQ" /\ cpu'.state = "CPU_FLUSH_INVALIDATE_RESP"
    BY <1>19, GrantFields
  <2>2. ToSend' = ToSend
    <3>1. CASE cpu.state = "CPU_FETCH_LINE_REQ"
      <4>1. mem # None /\ cpu'.state = "CPU_FETCH_LINE_RESP"
        BY <2>1, <3>1, CpuWorks DEF AccessState
      <4> QED BY <2>1, <3>1, <4>1 DEF ToSend, UnfetchedState
    <3>2. CASE cpu.state = "CPU_FLUSH_LOOKUP_REQ"
      <4>1. Evictions(flush)' = Evictions(flush) /\ cpu'.state = "CPU_FLUSH_LOOKUP_RESP"
        BY <2>1, <3>2 DEF Evictions
      <4> QED BY <3>2, <4>1 DEF ToSend, UnfetchedState
    <3>3. CASE cpu.state \notin {"CPU_FETCH_LINE_REQ", "CPU_FLUSH_LOOKUP_REQ"}
      <4>1. ToSend = <<>>
        BY <1>5, <2>1, <3>3, ToSendIn DEF FlushState
      <4>2. ToSend' = <<>>
        BY <2>1, <3>3 DEF ToSend, UnfetchedState
      <4> QED BY <4>1, <4>2
    <3> QED BY <3>1, <3>2, <3>3
  <2> QED BY <1>1, <1>2, <1>3, <1>4, <2>1, <2>2 DEF MissedState
<1>20. CASE SnpStep \/ GrantPort(1) \/ ArbiterStep
  <2>1. UNCHANGED <<cpu, mem, flush, bus>>
    BY <1>20, SnpSide
  <2>2. /\ mem # None => line'[mem.addr.index] = line[mem.addr.index]
        /\ flush # None => line'[flush.index] = line[flush.index]
    <3>1. /\ mem # None => mem.addr.index \in Index /\ UsedByCpu(mem.addr.index)
          /\ flush # None => flush.index \in Index /\ UsedByCpu(flush.index)
      BY AddressFields DEF ControllerTypeOK, Access, UsedByCpu
    <3> QED BY <1>20, <3>1, SnpKeepsLockstep
  <2>3. ToSend' = ToSend
    BY <2>1, <2>2, CpuWorks, SameToSend
  <2>4. ~SentCpu'
    <3>1. CASE SnoopAckSent
      BY <3>1, SnoopAckFields DEF SentCpu
    <3>2. CASE \/ AcceptSnoop \/ SnpFetchLineResp \/ OnSnoopEventStep \/ SnpUpdateLineResp
               \/ GrantPort(1) \/ ArbiterStep
      <4>1. UNCHANGED sent
        BY <3>2, AcceptSnoopFields, SnpFetchFields, OnSnoopFields, SnpUpdateFields, GrantSnpFields
        DEF ArbiterStep, GrantOutbound
      <4> QED BY <1>4, <4>1
    <3> QED BY <1>20, <3>1, <3>2 DEF SnpStep
  <2>5. Given' = Given
    BY <1>0, <2>1, <2>4 DEF Given, OnProcessor
  <2> QED BY <1>0, <1>1, <2>1, <2>3, <2>4, <2>5
<1> QED
  BY <1>6, <1>7, <1>8, <1>9, <1>10, <1>11, <1>12, <1>13, <1>14, <1>16, <1>17, <1>18, <1>19, <1>20
  DEF Controller, ControllerStep, CpuStep, PortStep

\* A step of the controller.
LEMMA ControllerKeepsInv ==
  ASSUME BenchInv, Controller, sent = None
  PROVE  BenchInv'
<1> USE InvParts
<1>1. ControllerTypeOK' /\ Control'
  BY ControllerKeepsControl
<1>2. golden' \in [Index -> Line] /\ UNCHANGED snoop_task
  BY GoldenChanges DEF Controller
<1>3. Snooping' /\ GoldenAhead' /\ Asked'
  BY <1>1, SnoopingKept, GoldenAheadKept, AskedKept
<1>4. Lockstep'
  <2>1. CASE CpuStep \/ GrantPort(0)
    <3>1. UNCHANGED snp
      BY <2>1, CpuLeaves
    <3>2. ~SentSnp /\ ~SentSnp'
      BY <2>1, CpuSends DEF SentSnp
    <3> QED BY <2>1, <3>1, <3>2, CpuKeepsLockstep DEF Snooped
  <2>2. CASE SnpStep \/ GrantPort(1) \/ ArbiterStep
    BY <1>1, <2>2, SnpKeepsLockstep
  <2> QED BY <2>1, <2>2 DEF Controller, ControllerStep, PortStep
<1> QED BY <1>1, <1>2, <1>3, <1>4 DEF BenchInv, BenchTypes

--------------------------------------------------------------------------------
(* The bench's steps. *)

\* What the registers mean stays, as long as they do.
LEMMA MachinesStay ==
  ASSUME BenchInv, UNCHANGED <<cpu, snp, line, port, arbVars>>
  PROVE  /\ LinesHaveAddresses' /\ PortHolds' /\ Latched' /\ Decided' /\ SnpLatched'
         /\ UNCHANGED <<OnProcessor, Later, Miss, EvictRequest, JustSent>>
<1> USE InvParts
<1>1. LinesHaveAddresses'
  BY DEF LinesHaveAddresses
<1>2. PortHolds'
  BY RequestsUnchanged DEF PortHolds, arbVars
<1>3. UNCHANGED OnProcessor
  BY DEF OnProcessor
<1>4. UNCHANGED OnSnoop
  BY DEF OnSnoop
<1>5. Latched' /\ Decided' /\ SnpLatched'
  BY <1>3, <1>4 DEF Latched, Decided, SnpLatched
<1>6. UNCHANGED <<Miss, EvictRequest>>
  BY <1>3 DEF Miss, EvictRequest
<1>7. UNCHANGED <<Later, JustSent>>
  BY <1>3, <1>6 DEF Later, JustSent
<1> QED BY <1>1, <1>2, <1>3, <1>5, <1>6, <1>7

\* While no access and no flush is on, the CPU machine rests.
LEMMA CpuRests ==
  ASSUME BenchInv, NoCpuOp
  PROVE  /\ cpu.state = "CPU_IDLE" /\ ~SentCpu /\ captured = <<>> /\ bus = None
         /\ \A i \in Index : Same(line[i], Settled(i))
<1> USE InvParts DEF NoCpuOp
<1>1. cpu.state = "CPU_IDLE"
  BY CpuFields, CpuWorks DEF CpuState, AccessState, FlushState
<1>2. ~SentCpu
  BY <1>1 DEF Asked, EvictedState, MissedState
<1>3. ToSend = <<>>
  BY <1>1, ToSendIn DEF UnfetchedState
<1>4. captured = <<>> /\ bus = None
  BY <1>1, <1>2, <1>3 DEF Asked, Given, MissedState
<1>5. \A i \in Index : Same(line[i], Settled(i))
  BY DEF Lockstep
<1> QED BY <1>1, <1>2, <1>4, <1>5

LEMMA RaiseKeepsInv ==
  ASSUME WholeWords, BenchInv, sent = None, NEW access \in Workload, Raise(access), NoCpuOp,
         snoop_task # None => director /\ snoop_task.ack.addr.index # access.addr.index
  PROVE  BenchInv'
<1> USE InvParts
<1> DEFINE i == access.addr.index
<1>1. /\ access \in Access /\ access # None /\ access.addr \in Addr /\ i \in Index
      /\ access.wstrb \in {{}, Lane}
  BY WorkloadAssumption, AddressFields, NoneAssumption DEF WholeWords, Access
<1>2. /\ mem' = access /\ golden' = [golden EXCEPT ![i] = GoldenLine(golden[i], access)]
      /\ captured' = GoldenRequests(golden[i], access)
      /\ golden_rdata' = IF access.wstrb = {} THEN GoldenLine(golden[i], access).data ELSE ZeroWord
      /\ UNCHANGED <<cpu, snp, line, port, arbVars, sent, bus, flush, snoop, snoop_task, director>>
      /\ UNCHANGED <<arb_state, arb_rr, arb_cache>>
  BY DEF Raise, controllerElse, arbVars
<1>3. /\ cpu.state = "CPU_IDLE" /\ bus = None /\ flush = None
      /\ \A j \in Index : Same(line[j], Settled(j))
  BY CpuRests DEF NoCpuOp
<1>4. Settled(i) = golden[i]
  BY DEF Settled
<1>5. GoldenLine(golden[i], access) \in Line
  BY <1>1, GoldenLineIsLine
<1>6. /\ GoldenLine(golden[i], access) = GoldenLine(line[i], access)
      /\ GoldenRequests(golden[i], access) = GoldenRequests(line[i], access)
  BY <1>1, <1>3, <1>4, SameOutcome
<1>7. golden'[i] = GoldenLine(line[i], access) /\ \A j \in Index : j # i => golden'[j] = golden[j]
  BY <1>1, <1>2, <1>6
<1>8. BenchTypes'
  BY <1>1, <1>2, <1>5 DEF BenchTypes, ControllerTypeOK
<1>9. Control'
  <2>1. LinesHaveAddresses' /\ PortHolds' /\ Latched' /\ Decided' /\ SnpLatched'
    BY <1>2, MachinesStay
  <2>2. Serving' /\ Transfers'
    BY <1>1, <1>2, <1>3 DEF Serving, Transfers, AccessState, FlushState
  <2>3. OwnIndices'
    BY <1>2, <1>3 DEF OwnIndices, UsedByCpu
  <2> QED BY <2>1, <2>2, <2>3 DEF Control
<1>10. Snooping' /\ (Snooped' <=> Snooped)
  <2>1. snoop_task # None => snoop_task.ack.addr.index \in Index
    BY AddressFields DEF Snooping
  <2>2. snoop_task # None =>
          golden'[snoop_task.ack.addr.index] = golden[snoop_task.ack.addr.index]
    BY <1>7, <2>1
  <2> QED BY <1>2, <2>2, SnoopingUntouched
<1>11. Lockstep'
  <2> SUFFICES ASSUME NEW j \in Index, ~(mem' # None /\ mem'.addr.index = j)
               PROVE  Same(line[j], Settled(j))'
    BY DEF Lockstep
  <2>1. golden'[j] = golden[j]
    BY <1>1, <1>2, <1>7
  <2>2. Settled(j)' = Settled(j)
    BY <1>2, <1>10, <2>1 DEF Settled
  <2> QED BY <1>2, <1>3, <2>2 DEF Same
<1>12. GoldenAhead'
  BY <1>1, <1>2, <1>3, <1>6, <1>7 DEF GoldenAhead, UnfetchedState, FetchedState
<1>13. Asked'
  <2>1. ~SentCpu' /\ Given' = None
    BY <1>2, <1>3 DEF SentCpu, Given, MissedState
  <2>2. ToSend' = GoldenRequests(line[i], access)
    BY <1>1, <1>2, <1>3 DEF ToSend, UnfetchedState
  <2> QED BY <1>2, <1>3, <1>6, <2>1, <2>2 DEF Asked
<1> QED BY <1>8, <1>9, <1>10, <1>11, <1>12, <1>13 DEF BenchInv

\* The golden model's line is present where the memory's is.
LEMMA OneFlushKeepsInv ==
  ASSUME BenchInv, sent = None, NEW a \in Addr, OneFlush(a)
  PROVE  BenchInv'
<1> USE InvParts
<1>1. /\ a # None /\ a.index \in Index /\ flush' = a /\ mem = None /\ flush = None
      /\ NoCpuOp /\ snoop_task = None
      /\ captured' = IF Present(a)
                     THEN <<Request(IF golden[a.index].state = "M" THEN "EVICT_DIRTY" ELSE "EVICT_CLEAN",
                                    a, golden[a.index].data)>>
                     ELSE <<>>
      /\ UNCHANGED <<cpu, snp, line, port, arbVars, sent, bus, mem, snoop, golden, golden_rdata,
                     snoop_task, director>>
      /\ UNCHANGED <<arb_state, arb_rr, arb_cache>>
  BY NoneAssumption, AddressFields DEF OneFlush, Quiet, NoCpuOp, controllerElse, arbVars
<1>2. cpu.state = "CPU_IDLE" /\ bus = None /\ Same(line[a.index], Settled(a.index))
  BY <1>1, CpuRests
<1>3. Settled(a.index) = golden[a.index]
  BY <1>1 DEF Settled
<1>4. BenchTypes'
  BY <1>1 DEF BenchTypes, ControllerTypeOK
<1>5. Control'
  <2>1. LinesHaveAddresses' /\ PortHolds' /\ Latched' /\ Decided' /\ SnpLatched'
    BY <1>1, MachinesStay
  <2>2. Serving' /\ Transfers'
    BY <1>1, <1>2 DEF Serving, Transfers, AccessState, FlushState
  <2>3. OwnIndices'
    BY <1>1 DEF OwnIndices
  <2> QED BY <2>1, <2>2, <2>3 DEF Control
<1>6. Snooping' /\ (Snooped' <=> Snooped)
  BY <1>1, SnoopingUntouched
<1>7. Lockstep'
  <2>1. \A i : Settled(i)' = Settled(i)
    BY <1>1, <1>6 DEF Settled
  <2> QED BY <1>1, <2>1 DEF Lockstep, Same
<1>8. GoldenAhead'
  BY <1>1, <1>2 DEF GoldenAhead
<1>9. Asked'
  <2>1. ~SentCpu' /\ Given' = None
    BY <1>1, <1>2 DEF SentCpu, Given, MissedState
  <2>2. ToSend' = Evictions(flush)'
    BY <1>1, <1>2 DEF ToSend, UnfetchedState
  <2>3. Evictions(flush)' = IF line[a.index].tag = a.tag /\ line[a.index].state # "I"
                            THEN <<Eviction(line[a.index], a.index)>> ELSE <<>>
    BY <1>1 DEF Evictions
  <2>4. Present(a) <=> line[a.index].tag = a.tag /\ line[a.index].state # "I"
    BY <1>2, <1>3 DEF Present, Same
  <2>5. ASSUME Present(a)
        PROVE  Request(IF golden[a.index].state = "M" THEN "EVICT_DIRTY" ELSE "EVICT_CLEAN",
                       a, golden[a.index].data)
                 = Eviction(line[a.index], a.index)
    <3>1. line[a.index] = golden[a.index] /\ a = [tag |-> line[a.index].tag, index |-> a.index]
      BY <1>2, <1>3, <2>4, <2>5, AddressFields DEF Same
    <3> QED BY <3>1 DEF Eviction, Request
  <2>6. captured' = ToSend'
    BY <1>1, <2>2, <2>3, <2>4, <2>5
  <2> QED BY <1>1, <1>2, <2>1, <2>6 DEF Asked
<1> QED BY <1>4, <1>5, <1>6, <1>7, <1>8, <1>9 DEF BenchInv

LEMMA DriveSnoopKeepsInv ==
  ASSUME BenchInv, sent = None, NEW a \in Addr, NEW cmd \in SnoopEvent, DriveSnoop(a, cmd),
         snoop_task = None, ~UsedByCpu(a.index), director \/ NoCpuOp
  PROVE  BenchInv'
<1> USE InvParts
<1>1. /\ snoop' = [addr |-> a, cmd |-> cmd] /\ snoop_task' = SnoopExpectation(a, cmd)
      /\ UNCHANGED <<cpu, snp, line, port, arbVars, sent, bus, mem, flush, golden, captured,
                     golden_rdata, director>>
      /\ UNCHANGED <<arb_state, arb_rr, arb_cache>>
  BY DEF DriveSnoop, controllerElse, arbVars
<1>2. a.index \in Index /\ golden[a.index] \in Line
  BY AddressFields
<1>3. SnoopExpectation(a, cmd) \in [ack : Message, next : MSIState]
  <2>1. /\ golden[a.index].state \in MSIState /\ golden[a.index].data \in Word
        /\ OnSnoopEvent(golden[a.index].state, cmd).next \in MSIState
    BY <1>2, SnoopEvents DEF Line
  <2>2. cmd \in CoherenceCmd
    BY DEF CoherenceCmd, BusCmd, SnoopEvent
  <2> QED BY <2>1, <2>2, ZeroWordIsWord DEF SnoopExpectation, Message
<1>4. /\ snoop_task' # None /\ snoop_task'.ack.addr = a /\ snoop_task'.ack.cmd = cmd
      /\ snoop_task' = SnoopExpectation(a, cmd)'
  <2>1. SnoopExpectation(a, cmd) # None
    BY <1>3, NoTaskAssumption
  <2>2. SnoopExpectation(a, cmd)' = SnoopExpectation(a, cmd)
    BY <1>1 DEF SnoopExpectation
  <2>3. SnoopExpectation(a, cmd).ack.addr = a /\ SnoopExpectation(a, cmd).ack.cmd = cmd
    BY DEF SnoopExpectation
  <2> QED BY <1>1, <2>1, <2>2, <2>3
<1>5. snp.state = "SNP_IDLE" /\ ~SentSnp /\ ~SentSnp' /\ ~Snooped /\ ~Snooped'
  BY <1>1 DEF Snooping, Snooped, SentSnp
<1>6. BenchTypes'
  <2>1. snoop' \in Snoop
    BY <1>1 DEF Snoop
  <2> QED BY <1>1, <1>3, <2>1 DEF BenchTypes, ControllerTypeOK
<1>7. Control'
  <2>1. LinesHaveAddresses' /\ PortHolds' /\ Latched' /\ Decided' /\ SnpLatched'
    BY <1>1, MachinesStay
  <2>2. Serving' /\ Transfers'
    BY <1>1 DEF Serving, Transfers
  <2>3. OwnIndices'
    BY <1>1, <1>4 DEF OwnIndices, UsedByCpu, NoCpuOp
  <2> QED BY <2>1, <2>2, <2>3 DEF Control
<1>8. Snooping'
  <2>1. snp'.state = "SNP_IDLE"
    BY <1>1, <1>5
  <2>2. SnoopExpectation(snoop_task.ack.addr, snoop_task.ack.cmd)' = SnoopExpectation(a, cmd)'
    BY <1>4 DEF SnoopExpectation
  <2> QED BY <1>1, <1>4, <1>5, <2>1, <2>2 DEF Snooping
<1>9. Lockstep'
  <2>1. \A i : Settled(i)' = Settled(i)
    BY <1>1, <1>5 DEF Settled
  <2> QED BY <1>1, <2>1 DEF Lockstep, Same
<1>10. GoldenAhead'
  BY <1>1 DEF GoldenAhead, Outcome, OnProcessor
<1>11. Asked'
  <2>1. ToSend' = ToSend /\ JustSent' = JustSent
    BY <1>1, CpuWorks, SameToSend
  <2>2. SentCpu' = SentCpu /\ Given' = Given
    BY <1>1 DEF SentCpu, Given, OnProcessor
  <2> QED BY <1>1, <2>1, <2>2 DEF Asked
<1> QED BY <1>6, <1>7, <1>8, <1>9, <1>10, <1>11 DEF BenchInv

LEMMA SwitchKeepsInv ==
  ASSUME BenchInv, SwitchDirector
  PROVE  BenchInv'
<1> USE InvParts
<1>1. /\ snoop_task = None
      /\ UNCHANGED <<cpu, snp, line, port, arbVars, sent, bus, mem, flush, snoop, golden, captured,
                     golden_rdata, snoop_task>>
      /\ UNCHANGED <<arb_state, arb_rr, arb_cache>>
  BY DEF SwitchDirector, Quiet, controllerElse, arbVars
<1>2. BenchTypes'
  BY <1>1 DEF BenchTypes, ControllerTypeOK
<1>3. Control'
  <2>1. LinesHaveAddresses' /\ PortHolds' /\ Latched' /\ Decided' /\ SnpLatched'
    BY <1>1, MachinesStay
  <2>2. Serving' /\ Transfers' /\ OwnIndices'
    BY <1>1 DEF Serving, Transfers, OwnIndices
  <2> QED BY <2>1, <2>2 DEF Control
<1>4. Snooping' /\ (Snooped' <=> Snooped)
  BY <1>1, SnoopingUntouched
<1>5. Lockstep'
  <2>1. \A i : Settled(i)' = Settled(i)
    BY <1>1, <1>4 DEF Settled
  <2> QED BY <1>1, <2>1 DEF Lockstep, Same
<1>6. GoldenAhead'
  BY <1>1 DEF GoldenAhead, Outcome, OnProcessor
<1>7. Asked'
  <2>1. ToSend' = ToSend /\ JustSent' = JustSent
    BY <1>1, CpuWorks, SameToSend
  <2>2. SentCpu' = SentCpu /\ Given' = Given
    BY <1>1 DEF SentCpu, Given, OnProcessor
  <2> QED BY <1>1, <2>1, <2>2 DEF Asked
<1> QED BY <1>2, <1>3, <1>4, <1>5, <1>6, <1>7 DEF BenchInv

LEMMA ResetKeepsInv ==
  ASSUME BenchInv, ResetDut
  PROVE  BenchInv'
<1> USE InvParts
<1>1. /\ cpu' = CpuReset /\ snp' = SnpReset /\ line' = [i \in Index |-> ZeroLine]
      /\ port' = [owner |-> None, last_grant |-> 0]
      /\ arb_state' = "IDLE" /\ arb_rr' = 0 /\ arb_cache' = None /\ sent' = None /\ bus' = None
      /\ golden' = [i \in Index |-> [golden[i] EXCEPT !.state = "I"]] /\ captured' = <<>>
      /\ mem' = None /\ flush' = None /\ snoop' = None /\ snoop_task' = None
  BY DEF ResetDut, Quiet, NoCpuOp, Snooping
<1>2. cpu'.state = "CPU_IDLE" /\ snp'.state = "SNP_IDLE" /\ cpu'.tag_match /\ cpu'.wstrb = {}
      /\ cpu'.line.state = "I"
  BY <1>1, ResetFields, ZeroLineIsLine DEF SnpReset
<1>3. BenchTypes'
  <2>1. golden' \in [Index -> Line]
    <3>1. \A i \in Index : [golden[i] EXCEPT !.state = "I"] \in Line
      BY DEF Line, MSIState
    <3> QED BY <1>1, <3>1
  <2>2. ControllerTypeOK'
    BY <1>1, ResetTypes, ZeroLineIsLine DEF ControllerTypeOK
  <2> QED BY <1>1, <2>1, <2>2 DEF BenchTypes
<1>4. Control'
  <2>1. LinesHaveAddresses'
    BY <1>1, <1>2, ZeroLineIsLine DEF LinesHaveAddresses
  <2>2. PortHolds' /\ Serving' /\ Latched' /\ SnpLatched' /\ Transfers' /\ OwnIndices'
    BY <1>1, <1>2
    DEF PortHolds, Serving, AccessState, FlushState, Latched, FetchedState, FoundState, SnpLatched,
        Transfers, OwnIndices
  <2>3. Decided'
    BY <1>2 DEF Decided, FetchedState, FoundState
  <2> QED BY <2>1, <2>2, <2>3 DEF Control
<1>5. Snooping'
  BY <1>1, <1>2 DEF Snooping, SentSnp
<1>6. Lockstep'
  <2> SUFFICES ASSUME NEW i \in Index PROVE Same(line[i], Settled(i))'
    BY DEF Lockstep
  <2>1. Settled(i)' = golden'[i]
    BY <1>1 DEF Settled
  <2>2. golden'[i].state = "I" /\ line'[i].state = "I"
    BY <1>1, ZeroLineIsLine DEF Line
  <2> QED BY <2>1, <2>2 DEF Same
<1>7. GoldenAhead'
  BY <1>1, <1>2 DEF GoldenAhead
<1>8. Asked'
  <2>1. ~SentCpu' /\ Given' = None /\ ToSend' = <<>>
    BY <1>1, <1>2 DEF SentCpu, Given, MissedState, ToSend, UnfetchedState
  <2> QED BY <1>1, <2>1 DEF Asked
<1> QED BY <1>3, <1>4, <1>5, <1>6, <1>7, <1>8 DEF BenchInv

\* A request is the first of the golden model's, and is given its answer.
LEMMA AnswerKeepsInv ==
  ASSUME BenchInv, SentCpu, sent' = None,
         bus' \in Answer \cup {None},
         captured' = Tail(captured),
         bus' = CASE JustSent.cmd \in BusCmd -> [cmd |-> JustSent.cmd, data |-> AddrWord[cpu.addr]]
                  [] JustSent.cmd = "EVICT_DIRTY" -> [cmd |-> "EVICT_DIRTY", data |-> ZeroWord]
                  [] OTHER -> None,
         UNCHANGED <<cpu, snp, line, port, arbVars, mem, flush, snoop, golden, golden_rdata,
                     snoop_task, director>>
  PROVE  BenchInv'
<1> USE InvParts
<1>0. UNCHANGED <<arb_state, arb_rr, arb_cache>>
  BY DEF arbVars
<1>1. BenchTypes'
  BY <1>0 DEF BenchTypes, ControllerTypeOK
<1>2. Control'
  <2>1. LinesHaveAddresses' /\ PortHolds' /\ Latched' /\ Decided' /\ SnpLatched'
    BY MachinesStay
  <2>2. Serving' /\ Transfers' /\ OwnIndices'
    BY DEF Serving, Transfers, OwnIndices, UsedByCpu, NoCpuOp
  <2> QED BY <2>1, <2>2 DEF Control
<1>3. Snooping' /\ (Snooped' <=> Snooped)
  <2>1. ~SentSnp /\ ~SentSnp'
    BY DEF SentCpu, SentSnp
  <2> QED BY <2>1, SnoopingUntouched
<1>4. Lockstep'
  <2>1. \A i : Settled(i)' = Settled(i)
    BY <1>3 DEF Settled
  <2> QED BY <2>1 DEF Lockstep, Same
<1>5. GoldenAhead'
  BY DEF GoldenAhead, Outcome, OnProcessor
<1>6. Asked'
  <2>1. ~SentCpu'
    BY DEF SentCpu
  <2>2. ToSend' = ToSend
    BY CpuWorks, SameToSend
  <2>3. captured' = ToSend
    <3>1. captured = <<JustSent>> \o ToSend
      BY DEF Asked
    <3>2. ToSend = <<>> \/ ToSend = Later
      BY ToSendIn DEF Asked, EvictedState, MissedState
    <3> QED BY <3>1, <3>2, LaterIsOne, Queue
  <2>4. bus' = Given'
    <3>1. CASE cpu.state \in EvictedState
      <4>1. JustSent = EvictRequest
        BY <3>1 DEF JustSent
      <4>2. /\ cpu.state \in {"CPU_EVICT_DIRTY_ACK", "CPU_FLUSH_EVICT_ACK"} => cpu.line.state = "M"
            /\ cpu.state \in {"CPU_TAG_MATCH", "CPU_FLUSH_INVALIDATE_REQ"} => cpu.line.state = "S"
        BY DEF Decided, Asked
      <4>3. JustSent.cmd = EvictCmdOf(cpu.line.state)
        BY <4>1 DEF EvictRequest
      <4> QED BY <2>1, <3>1, <4>2, <4>3 DEF EvictedState, MissedState, Given, EvictCmdOf, BusCmd
    <3>2. CASE cpu.state \in MissedState
      <4>1. JustSent.cmd = OnProcessor.cmd
        BY <3>2 DEF JustSent, EvictedState, MissedState, Miss, Request
      <4>2. OnProcessor.cmd \in BusCmd
        BY <3>2, OnProcessorType DEF Decided, MissedState, BusCmd
      <4>3. bus' = [cmd |-> OnProcessor.cmd, data |-> AddrWord[cpu.addr]]
        BY <4>1, <4>2 DEF BusCmd
      <4>4. OnProcessor' = OnProcessor
        BY DEF OnProcessor
      <4> QED BY <2>1, <3>2, <4>3, <4>4 DEF MissedState, Given
    <3> QED BY <3>1, <3>2 DEF Asked
  <2> QED BY <2>1, <2>2, <2>3, <2>4 DEF Asked
<1> QED BY <1>1, <1>2, <1>3, <1>4, <1>5, <1>6 DEF BenchInv

\* What has just been sent is the first of the golden model's requests.
LEMMA FirstCaptured ==
  ASSUME BenchInv, SentCpu
  PROVE  /\ captured # <<>> /\ Head(captured) = JustSent /\ sent = Packet(JustSent) /\ bus = None
         /\ JustSent.cmd \in BusCmd => JustSent.addr = cpu.addr /\ mem # None /\ mem.addr = cpu.addr
         /\ sent.cmd = JustSent.cmd /\ sent.addr = JustSent.addr
<1> USE InvParts
<1>1. /\ captured = <<JustSent>> \o ToSend /\ sent = Packet(JustSent) /\ bus = None
      /\ cpu.state \in EvictedState \cup MissedState
  BY DEF Asked, Given
<1>2. ToSend = <<>> \/ ToSend = Later
  BY <1>1, ToSendIn DEF EvictedState, MissedState
<1>3. captured # <<>> /\ Head(captured) = JustSent
  BY <1>1, <1>2, LaterIsOne, Queue
<1>4. JustSent.cmd \in BusCmd => JustSent.addr = cpu.addr /\ mem # None /\ mem.addr = cpu.addr
  <2>1. CASE cpu.state \in EvictedState
    <3>1. JustSent.cmd \notin BusCmd
      BY <2>1 DEF JustSent, EvictRequest, EvictCmdOf, BusCmd
    <3> QED BY <3>1
  <2>2. CASE cpu.state \in MissedState
    <3>1. JustSent.addr = cpu.addr
      BY <2>2 DEF JustSent, EvictedState, MissedState, Miss, Request
    <3>2. mem # None /\ mem.addr = cpu.addr
      BY <2>2, CpuWorks DEF AccessState, MissedState
    <3> QED BY <3>1, <3>2
  <2> QED BY <1>1, <2>1, <2>2
<1>5. sent.cmd = JustSent.cmd /\ sent.addr = JustSent.addr
  <2>1. \A m : m \in {EvictRequest, Miss} => Packet(m).cmd = m.cmd /\ Packet(m).addr = m.addr
    BY DEF EvictRequest, Miss, Request, Packet
  <2> QED BY <1>1, <2>1 DEF JustSent
<1> QED BY <1>1, <1>3, <1>4, <1>5

LEMMA TakeKeepsInv ==
  ASSUME BenchInv, TakeExpected
  PROVE  BenchInv'
<1>1. SentCpu /\ captured' = Tail(captured) /\ sent' = None
  BY DEF TakeExpected, SentCpu
<1>2. Head(captured) = JustSent /\ bus = None /\ (JustSent.cmd \in BusCmd => mem.addr = cpu.addr)
  BY <1>1, FirstCaptured
<1>3. bus' = CASE JustSent.cmd \in BusCmd -> [cmd |-> JustSent.cmd, data |-> AddrWord[cpu.addr]]
               [] JustSent.cmd = "EVICT_DIRTY" -> [cmd |-> "EVICT_DIRTY", data |-> ZeroWord]
               [] OTHER -> None
  BY <1>2 DEF TakeExpected
<1>4. bus' \in Answer \cup {None}
  BY <1>3, InvParts, CpuFields, AddrWordAssumption, ZeroWordIsWord
  DEF Answer, CoherenceCmd, EvictCmd
<1>5. UNCHANGED <<cpu, snp, line, port, arbVars, mem, flush, snoop, golden, golden_rdata,
                  snoop_task, director>>
  BY DEF TakeExpected, takeElse
<1> QED BY <1>1, <1>3, <1>4, <1>5, AnswerKeepsInv

LEMMA DirectorKeepsInv ==
  ASSUME BenchInv, Director
  PROVE  BenchInv'
<1>1. SentCpu /\ sent' = None
  BY DEF Director, SentCpu
<1>2. /\ captured # <<>> /\ bus = None /\ sent.cmd = JustSent.cmd
      /\ JustSent.cmd \in BusCmd => sent.addr = cpu.addr
  BY <1>1, FirstCaptured
<1>3. captured' = Tail(captured)
  BY <1>2 DEF Director
<1>4. bus' = CASE JustSent.cmd \in BusCmd -> [cmd |-> JustSent.cmd, data |-> AddrWord[cpu.addr]]
               [] JustSent.cmd = "EVICT_DIRTY" -> [cmd |-> "EVICT_DIRTY", data |-> ZeroWord]
               [] OTHER -> None
  BY <1>2 DEF Director
<1>5. bus' \in Answer \cup {None}
  BY <1>4, InvParts, CpuFields, AddrWordAssumption, ZeroWordIsWord
  DEF Answer, CoherenceCmd, EvictCmd
<1>6. UNCHANGED <<cpu, snp, line, port, arbVars, mem, flush, snoop, golden, golden_rdata,
                  snoop_task, director>>
  BY DEF Director, takeElse
<1> QED BY <1>1, <1>3, <1>4, <1>5, <1>6, AnswerKeepsInv

\* The golden model changes its line, as the controller already has.
LEMMA SnoopSeenKeepsInv ==
  ASSUME BenchInv, SnoopSeen
  PROVE  BenchInv'
<1> USE InvParts
<1> DEFINE i == snoop_task.ack.addr.index
<1>1. /\ SentSnp /\ ~SentCpu /\ snoop_task # None /\ snoop_task' = None /\ sent' = None
      /\ golden' = [golden EXCEPT ![i].state = snoop_task.next]
      /\ UNCHANGED <<cpu, snp, line, port, arbVars, mem, flush, snoop, golden_rdata, director,
                     bus, captured>>
      /\ UNCHANGED <<arb_state, arb_rr, arb_cache>>
  BY DEF SnoopSeen, takeElse, SentSnp, SentCpu, arbVars
<1>2. /\ i \in Index /\ snoop = None /\ snp.state = "SNP_IDLE" /\ ~UsedByCpu(i)
      /\ snoop_task.next \in MSIState
  BY <1>1, AddressFields DEF Snooping, OwnIndices
<1>3. /\ golden'[i] = [golden[i] EXCEPT !.state = snoop_task.next]
      /\ \A j \in Index : j # i => golden'[j] = golden[j]
  BY <1>1, <1>2
<1>4. BenchTypes'
  <2>1. [golden[i] EXCEPT !.state = snoop_task.next] \in Line
    BY <1>2 DEF Line
  <2>2. golden' \in [Index -> Line]
    BY <1>1, <1>2, <2>1
  <2> QED BY <1>1, <2>2 DEF BenchTypes, ControllerTypeOK
<1>5. Control'
  <2>1. LinesHaveAddresses' /\ PortHolds' /\ Latched' /\ Decided' /\ SnpLatched'
    BY <1>1, MachinesStay
  <2>2. Serving' /\ Transfers' /\ OwnIndices'
    BY <1>1 DEF Serving, Transfers, OwnIndices
  <2> QED BY <2>1, <2>2 DEF Control
<1>6. Snooping'
  BY <1>1, <1>2 DEF Snooping, SentSnp
<1>7. Lockstep'
  <2> SUFFICES ASSUME NEW j \in Index, ~(mem' # None /\ mem'.addr.index = j)
               PROVE  Same(line[j], Settled(j))'
    BY DEF Lockstep
  <2>1. Settled(j)' = golden'[j]
    BY <1>1 DEF Settled
  <2>2. golden'[j] = Settled(j)
    BY <1>1, <1>3 DEF Settled, Snooped
  <2> QED BY <1>1, <2>1, <2>2 DEF Lockstep, Same
<1>8. GoldenAhead'
  <2>1. mem # None => golden'[mem.addr.index] = golden[mem.addr.index]
    <3>1. mem # None => mem.addr.index \in Index /\ mem.addr.index # i
      BY <1>2, AddressFields DEF ControllerTypeOK, Access, UsedByCpu
    <3> QED BY <1>3, <3>1
  <2> QED BY <1>1, <2>1 DEF GoldenAhead, Outcome, OnProcessor
<1>9. Asked'
  <2>1. ToSend' = ToSend
    BY <1>1, CpuWorks, SameToSend
  <2>2. ~SentCpu' /\ Given' = Given
    BY <1>1 DEF SentCpu, Given, OnProcessor
  <2> QED BY <1>1, <2>1, <2>2 DEF Asked
<1> QED BY <1>4, <1>5, <1>6, <1>7, <1>8, <1>9 DEF BenchInv

--------------------------------------------------------------------------------
(* The invariant, and what it says. *)

LEMMA BenchStarts ==
  ASSUME Init
  PROVE  BenchInv
<1> USE DEF Init, ControllerInit
<1>1. ControllerTypeOK /\ LinesHaveAddresses /\ PortHolds
  BY ControllerStarts
<1>2. /\ cpu.state = "CPU_IDLE" /\ snp.state = "SNP_IDLE" /\ cpu.tag_match /\ cpu.wstrb = {}
      /\ cpu.line.state = "I"
  BY ZeroLineIsLine DEF CpuReset, SnpReset
<1>3. BenchTypes
  BY <1>1, ZeroLineIsLine DEF BenchTypes
<1>4. Control
  <2>1. Serving /\ Latched /\ SnpLatched /\ Transfers /\ OwnIndices
    BY <1>2
    DEF Serving, AccessState, FlushState, Latched, FetchedState, FoundState, SnpLatched,
        Transfers, OwnIndices
  <2>2. Decided
    BY <1>2 DEF Decided, FetchedState, FoundState
  <2> QED BY <1>1, <2>1, <2>2 DEF Control
<1>5. Snooping
  BY <1>2 DEF Snooping, SentSnp
<1>6. Lockstep
  BY DEF Lockstep, Same, Settled
<1>7. GoldenAhead
  BY <1>2 DEF GoldenAhead
<1>8. Asked
  <2>1. ~SentCpu /\ Given = None /\ ToSend = <<>>
    BY <1>2 DEF SentCpu, Given, MissedState, ToSend, UnfetchedState
  <2> QED BY <2>1 DEF Asked
<1> QED BY <1>3, <1>4, <1>5, <1>6, <1>7, <1>8 DEF BenchInv

LEMMA StutterKeepsInv ==
  ASSUME BenchInv, UNCHANGED vars
  PROVE  BenchInv'
<1> USE InvParts
<1>1. /\ UNCHANGED <<cpu, snp, line, port, arbVars, sent, bus, mem, flush, snoop, golden, captured,
                     golden_rdata, snoop_task, director>>
      /\ UNCHANGED <<arb_state, arb_rr, arb_cache>>
  BY DEF vars, controllerVars, benchVars, arbVars
<1>2. BenchTypes'
  BY <1>1 DEF BenchTypes, ControllerTypeOK
<1>3. Control'
  <2>1. LinesHaveAddresses' /\ PortHolds' /\ Latched' /\ Decided' /\ SnpLatched'
    BY <1>1, MachinesStay
  <2>2. Serving' /\ Transfers' /\ OwnIndices'
    BY <1>1 DEF Serving, Transfers, OwnIndices, UsedByCpu, NoCpuOp
  <2> QED BY <2>1, <2>2 DEF Control
<1>4. Snooping' /\ (Snooped' <=> Snooped)
  BY <1>1, SnoopingUntouched
<1>5. Lockstep'
  <2>1. \A i : Settled(i)' = Settled(i)
    BY <1>1, <1>4 DEF Settled
  <2> QED BY <1>1, <2>1 DEF Lockstep, Same
<1>6. GoldenAhead'
  BY <1>1 DEF GoldenAhead, Outcome, OnProcessor
<1>7. Asked'
  <2>1. ToSend' = ToSend /\ JustSent' = JustSent
    BY <1>1, CpuWorks, SameToSend
  <2>2. SentCpu' = SentCpu /\ Given' = Given
    BY <1>1 DEF SentCpu, Given, OnProcessor
  <2> QED BY <1>1, <2>1, <2>2 DEF Asked
<1> QED BY <1>2, <1>3, <1>4, <1>5, <1>6, <1>7 DEF BenchInv

LEMMA BenchInvIsInductive ==
  ASSUME WholeWords, BenchInv, [Next]_vars
  PROVE  BenchInv'
<1> USE InvParts
<1>1. CASE OneReadTakes \/ OneWriteTakes \/ OneFlushTakes
  BY <1>1, TakeKeepsInv DEF OneReadTakes, OneWriteTakes, OneFlushTakes
<1>2. CASE Director
  BY <1>2, DirectorKeepsInv
<1>3. CASE SnoopSeen
  BY <1>3, SnoopSeenKeepsInv
<1>4. CASE sent = None /\ CpuCoroutine
  <2>1. ASSUME NEW access \in Workload,
               OneRead(access) \/ OneWrite(access) \/ CpuOpConcurrent(access)
        PROVE  BenchInv'
    <3>1. /\ Raise(access) /\ NoCpuOp
          /\ snoop_task # None => director /\ snoop_task.ack.addr.index # access.addr.index
      BY <2>1 DEF OneRead, OneWrite, CpuOpConcurrent, Quiet, InUse
    <3> QED BY <1>4, <3>1, RaiseKeepsInv
  <2>2. ASSUME NEW a \in Addr, OneFlush(a) PROVE BenchInv'
    BY <1>4, <2>2, OneFlushKeepsInv
  <2> QED BY <1>4, <2>1, <2>2 DEF CpuCoroutine
<1>5. CASE sent = None /\ SnoopCoroutine
  <2>1. ASSUME NEW a \in Addr, NEW cmd \in SnoopEvent,
               OneSnoop(a, cmd) \/ SnoopOpConcurrent(a, cmd)
        PROVE  BenchInv'
    <3>1. /\ DriveSnoop(a, cmd) /\ snoop_task = None /\ ~UsedByCpu(a.index)
          /\ director \/ NoCpuOp
      BY <2>1 DEF OneSnoop, SnoopOpConcurrent, Quiet, NoCpuOp, InUse, UsedByCpu
    <3> QED BY <1>5, <3>1, DriveSnoopKeepsInv
  <2> QED BY <1>5, <2>1 DEF SnoopCoroutine
<1>6. CASE SwitchDirector
  BY <1>6, SwitchKeepsInv
<1>7. CASE ResetDut
  BY <1>7, ResetKeepsInv
<1>8. CASE sent = None /\ Controller
  BY <1>8, ControllerKeepsInv
<1>9. CASE UNCHANGED vars
  BY <1>9, StutterKeepsInv
<1> QED BY <1>1, <1>2, <1>3, <1>4, <1>5, <1>6, <1>7, <1>8, <1>9 DEF Next

LEMMA BenchInvHolds == ASSUME WholeWords PROVE Spec => []BenchInv
<1>1. Init => BenchInv
  BY BenchStarts
<1>2. BenchInv /\ [Next]_vars => BenchInv'
  BY BenchInvIsInductive
<1> QED BY <1>1, <1>2, PTL DEF Spec

(***************************************************************************)
(* The controller asks for what the emulated cache asks for, command by    *)
(* command and in its order, evicts what it evicts, and answers a snoop as *)
(* the transition table says of the golden model's line                    *)
(* (cache_controller_tb.py's "Expected ..., got ..."), whatever the order  *)
(* in which its machines move.                                             *)
(***************************************************************************)
THEOREM RequestsMatch == ASSUME WholeWords PROVE Spec => []RequestsAreGolden
<1>1. ASSUME BenchInv PROVE RequestsAreGolden
  <2>1. CASE SentSnp
    BY <1>1, <2>1, InvParts DEF Snooping, SentSnp, RequestsAreGolden
  <2>2. CASE SentCpu
    BY <1>1, <2>2, FirstCaptured DEF SentCpu, RequestsAreGolden
  <2>3. CASE sent = None
    BY <2>3 DEF RequestsAreGolden
  <2> QED BY <2>1, <2>2, <2>3 DEF SentSnp, SentCpu
<1> QED BY <1>1, BenchInvHolds, PTL

(***************************************************************************)
(* Wherever nothing is going on the chip's memory has the golden model's   *)
(* line, and after every access and every flush nothing is left that only  *)
(* the golden model asked for.                                             *)
(***************************************************************************)
THEOREM LinesMatch == ASSUME WholeWords PROVE Spec => []LinesAreGolden
<1>1. ASSUME BenchInv PROVE LinesAreGolden
  <2>1. NoCpuOp => captured = <<>>
    BY <1>1, CpuRests
  <2>2. ASSUME NEW i \in Index, ~InUse(i) PROVE Same(line[i], golden[i])
    <3>1. Settled(i) = golden[i]
      BY <2>2 DEF Settled, InUse
    <3> QED BY <1>1, <2>2, <3>1, InvParts DEF Lockstep, InUse
  <2> QED BY <2>1, <2>2 DEF LinesAreGolden, Same
<1> QED BY <1>1, BenchInvHolds, PTL

(***************************************************************************)
(* A read that misses, hits or evicts first gives the processor the data   *)
(* that it gives the golden model.                                         *)
(***************************************************************************)
THEOREM ReadsMatch == ASSUME WholeWords PROVE Spec => ReadsAreGolden
<1>1. ASSUME BenchInv, cpu.state = "CPU_READ_RESP"
      PROVE  ReadData = golden_rdata
  <2>1. mem # None /\ mem.addr = cpu.addr /\ mem.wstrb = {}
    BY <1>1, CpuWorks, InvParts DEF AccessState, Decided
  <2>2. golden[cpu.addr.index] = line[cpu.addr.index] /\ golden_rdata = golden[cpu.addr.index].data
    BY <1>1, <2>1, InvParts DEF GoldenAhead
  <2> QED BY <2>2 DEF ReadData
<1>2. ASSUME BenchInv, [Next]_vars
      PROVE  [cpu.state = "CPU_READ_RESP" /\ cpu'.state = "CPU_IDLE" => ReadData = golden_rdata]_vars
  BY <1>1, <1>2
<1> QED BY <1>2, BenchInvHolds, PTL DEF Spec, ReadsAreGolden

================================================================================
