------------------------- MODULE TwoPortCacheMemProofs -------------------------
(***************************************************************************)
(* The processor leaves reset only when the cache memory has cleared       *)
(* itself; from reset on, the cache memory is an atomic one.  For any      *)
(* number of lines, any bytes, tags and requests.                          *)
(***************************************************************************)
EXTENDS TwoPortCacheMem, TLAPS

(***************************************************************************)
(* The counter of chip_core.sv and the addresses being cleared go up       *)
(* together, the counter one ahead for the cycle of RESET_SRAMS.           *)
(***************************************************************************)
CountsTogether ==
  /\ tag.state = "RESET_SRAMS" => mem_init_count = 0 /\ tag.reset_addr = 0
  /\ tag.state = "RESET_DATA" => mem_init_count = 1 + tag.reset_addr
  /\ data.state = "RESET_SRAMS" => mem_init_count = 0 /\ data.reset_addr = 0
  /\ data.state = "RESET_DATA" => mem_init_count = 1 + data.reset_addr

IInv == TypeOK /\ CountsTogether

TagState == {"RESET_SRAMS", "RESET_DATA", "IDLE", "MEM_REQ", "MEM_REQ_WAIT", "MEM_RESP"}
DataState == {"RESET_SRAMS", "RESET_DATA", "IDLE", "MEM_REQ", "MEM_RESP"}

TagRegisters == [state : TagState, reset_addr : Line, addr : Line, read : Entry]
DataRegisters == [state : DataState, reset_addr : 0 .. 4 * NumLines - 1, addr : Line,
                  step : 0 .. 4, mode : SUBSET Lane, to_write : Byte, read : Word, q : Byte]

LEMMA ZeroTypes ==
  /\ ZeroEntry \in Entry /\ ZeroWord \in Word /\ 0 \in Line
  /\ TagIdleRegisters \in TagRegisters
  /\ DataIdleRegisters \in DataRegisters
<1>1. ZeroEntry \in Entry /\ ZeroWord \in Word /\ 0 \in Line
  BY ZeroAssumption, NumLinesAssumption DEF ZeroEntry, ZeroWord, Entry, Word, Line
<1>2. TagIdleRegisters \in TagRegisters
  BY <1>1 DEF TagIdleRegisters, TagRegisters, TagState
<1>3. DataIdleRegisters \in DataRegisters
  BY <1>1, ZeroAssumption, NumLinesAssumption DEF DataIdleRegisters, DataRegisters, DataState
<1> QED BY <1>1, <1>2, <1>3

\* The request that the multiplexer passes on is a master's.
LEMMA RequestType ==
  ASSUME TypeOK, cm_request # None
  PROVE  /\ cm_request.index \in Line /\ cm_request.wstrb \subseteq Lane
         /\ cm_request.data \in Word /\ cm_request.tag \in Tag
         /\ cm_request.state \in LineState
<1>1. cm_request \in Request
  BY DEF cm_request, TypeOK, Port
<1> QED BY <1>1, RequestAssumption

LEMMA InitEstablishes == Init => IInv
<1> SUFFICES ASSUME Init PROVE IInv
  OBVIOUS
<1>1. tag \in TagRegisters /\ data \in DataRegisters
  BY ZeroTypes DEF Init, TagRegisters, DataRegisters, TagState, DataState
<1>2. master \in [Port -> [request : Request \cup {None}, phase : {"REQ", "RESP"}]]
  BY DEF Init
<1>3. mem_init_count \in 0 .. MEM_INIT_CYCLES
  BY NumLinesAssumption DEF Init, MEM_INIT_CYCLES
<1>4. arb \in [busy : BOOLEAN, active_port : Port, last_grant : Port]
  BY DEF Init, Port
<1>5. TypeOK
  BY <1>1, <1>2, <1>3, <1>4 DEF Init, TypeOK, TagRegisters, DataRegisters, TagState, DataState
<1>6. CountsTogether
  BY DEF Init, CountsTogether, TagIdleRegisters, DataIdleRegisters
<1> QED BY <1>5, <1>6 DEF IInv

LEMMA TagTypeStep ==
  ASSUME TypeOK, TagTick
  PROVE  tag' \in TagRegisters /\ tag_sram' \in [Line -> Entry]
<1> USE ZeroTypes DEF TagRegisters, TagState
<1>0. tag \in TagRegisters /\ tag_sram \in [Line -> Entry]
  BY DEF TypeOK
<1>1. CASE TagReset
  BY <1>0, <1>1 DEF TagReset
<1>2. CASE TagClear
  <2>1. tag.reset_addr # NumLines - 1 => tag.reset_addr + 1 \in Line
    BY <1>0, NumLinesAssumption DEF Line
  <2> QED BY <1>0, <1>2, <2>1 DEF TagClear
<1>3. CASE TagAccept
  <2>1. [tag |-> cm_request.tag, state |-> cm_request.state] \in Entry
    BY <1>3, RequestType DEF TagAccept, Entry
  <2> QED BY <1>0, <1>3, <2>1, RequestType DEF TagAccept
<1>4. CASE TagWait
  BY <1>0, <1>4 DEF TagWait
<1>5. CASE TagRead
  BY <1>0, <1>5 DEF TagRead
<1>6. CASE TagCapture
  BY <1>0, <1>6 DEF TagCapture
<1>7. CASE TagRespond
  BY <1>0, <1>7 DEF TagRespond
<1> QED BY <1>1, <1>2, <1>3, <1>4, <1>5, <1>6, <1>7 DEF TagTick

LEMMA WireType ==
  ASSUME TypeOK, NEW l \in Lane
  PROVE  WdataWire(l) \in Byte
  BY RequestType, ZeroAssumption DEF WdataWire, Word

LEMMA DataTypeStep ==
  ASSUME TypeOK, DataTick
  PROVE  data' \in DataRegisters /\ data_sram' \in [Line -> Word]
<1> USE ZeroTypes DEF DataRegisters, DataState
<1>0. data \in DataRegisters /\ data_sram \in [Line -> Word]
  BY DEF TypeOK
<1>1. CASE DataReset
  BY <1>0, <1>1 DEF DataReset
<1>2. CASE DataClear
  <2>1. data.reset_addr # 4 * NumLines - 1 => data.reset_addr + 1 \in 0 .. 4 * NumLines - 1
    BY <1>0, NumLinesAssumption
  <2>2. data' \in DataRegisters
    BY <1>0, <1>2, <2>1 DEF DataClear
  <2>3. data_sram' \in [Line -> Word]
    BY <1>0, <1>2 DEF DataClear, Word
  <2> QED BY <2>2, <2>3
<1>3. CASE DataAccept
  <2>1. WdataWire(0) \in Byte
    BY WireType DEF Lane
  <2>2. cm_request.index \in Line /\ cm_request.wstrb \subseteq Lane
    BY <1>3, RequestType DEF DataAccept
  <2>3. data' \in DataRegisters
    <3> HIDE DEF DataState
    <3>1. "MEM_REQ" \in DataState /\ 0 \in 0 .. 4
      BY DEF DataState
    <3>2. data' = [data EXCEPT !.state = "MEM_REQ", !.step = 0, !.addr = cm_request.index,
                               !.mode = cm_request.wstrb, !.to_write = WdataWire(0)]
      BY <1>3 DEF DataAccept
    <3> QED BY <1>0, <2>1, <2>2, <3>1, <3>2
  <2> QED BY <1>0, <1>3, <2>3 DEF DataAccept
<1>4. CASE DataWait
  BY <1>0, <1>4 DEF DataWait
<1>5. CASE DataTransfer
  <2>1. data.step < 3 => WdataWire(data.step + 1) \in Byte
    BY <1>0, WireType DEF Lane
  <2>2. ShiftIn(data.read, data.q) \in Word
    BY <1>0 DEF ShiftIn, Word, Lane
  <2>3. data.step < 4 => data_sram[data.addr][data.step] \in Byte
    BY <1>0 DEF Word, Lane
  <2>4. data' \in DataRegisters
    <3> DEFINE state == IF data.step = 4 THEN "MEM_RESP" ELSE data.state
               step == IF data.step = 4 THEN 0 ELSE data.step + 1
               byte == IF data.step < 3 THEN WdataWire(data.step + 1) ELSE data.to_write
               word == IF data.step = 0 THEN data.read ELSE ShiftIn(data.read, data.q)
               q == IF data.step < 4 THEN data_sram[data.addr][data.step] ELSE data.q
    <3>1. state \in DataState /\ step \in 0 .. 4 /\ byte \in Byte /\ word \in Word /\ q \in Byte
      BY <1>0, <2>1, <2>2, <2>3
    <3>2. data' = [data EXCEPT !.state = state, !.step = step, !.to_write = byte,
                               !.read = word, !.q = q]
      BY <1>5 DEF DataTransfer
    <3> HIDE DEF state, step, byte, word, q, DataState
    <3> QED BY <1>0, <3>1, <3>2
  <2>5. data_sram' \in [Line -> Word]
    BY <1>0, <1>5 DEF DataTransfer, Word
  <2> QED BY <2>4, <2>5
<1>6. CASE DataRespond
  BY <1>0, <1>6 DEF DataRespond
<1> QED BY <1>1, <1>2, <1>3, <1>4, <1>5, <1>6 DEF DataTick

LEMMA ControlTypeStep ==
  ASSUME TypeOK, Tick
  PROVE  /\ mem_init_count' \in 0 .. MEM_INIT_CYCLES
         /\ master' \in [Port -> [request : Request \cup {None}, phase : {"REQ", "RESP"}]]
         /\ arb' \in [busy : BOOLEAN, active_port : Port, last_grant : Port]
<1>1. mem_init_count' \in 0 .. MEM_INIT_CYCLES
  BY NumLinesAssumption DEF TypeOK, Tick, CountCycles, memory_ready, MEM_INIT_CYCLES
<1>2. master' \in [Port -> [request : Request \cup {None}, phase : {"REQ", "RESP"}]]
  <2>1. ASSUME NEW p \in Port
        PROVE  NextWires(p) \subseteq [request : Request \cup {None}, phase : {"REQ", "RESP"}]
    BY <2>1 DEF NextWires, TypeOK
  <2> QED BY <2>1 DEF Tick, DriveMasters, Port
<1>3. arb' \in [busy : BOOLEAN, active_port : Port, last_grant : Port]
  <2>1. Arbitrate /\ arb \in [busy : BOOLEAN, active_port : Port, last_grant : Port]
    BY DEF Tick, TypeOK
  <2>2. CASE ~arb.busy
    <3>1. arb' = arb \/ \E p \in Port : arb' = [busy |-> TRUE, active_port |-> p, last_grant |-> p]
      BY <2>1, <2>2 DEF Arbitrate
    <3>2. ASSUME NEW p \in Port, arb' = [busy |-> TRUE, active_port |-> p, last_grant |-> p]
          PROVE  arb' \in [busy : BOOLEAN, active_port : Port, last_grant : Port]
      BY <3>2
    <3> QED BY <2>1, <3>1, <3>2
  <2>3. CASE arb.busy
    <3>1. arb' = [arb EXCEPT !.busy = ~(cm_valid_o /\ cm_ready_i)]
      BY <2>1, <2>3 DEF Arbitrate
    <3> DEFINE busy == ~(cm_valid_o /\ cm_ready_i)
    <3>2. busy \in BOOLEAN
      OBVIOUS
    <3> HIDE DEF busy
    <3> QED BY <2>1, <3>1, <3>2
  <2> QED BY <2>2, <2>3
<1> QED BY <1>1, <1>2, <1>3

LEMMA CountsStep ==
  ASSUME TypeOK, CountsTogether, Tick
  PROVE  CountsTogether'
<1>1. /\ mem_init_count \in Nat
      /\ tag.reset_addr \in 0 .. NumLines - 1
      /\ data.reset_addr \in 0 .. 4 * NumLines - 1
      /\ tag \in TagRegisters /\ data \in DataRegisters
  BY NumLinesAssumption DEF TypeOK, Line, MEM_INIT_CYCLES, TagRegisters, TagState,
                            DataRegisters, DataState
<1>2. tag.state \in Resetting \/ data.state \in Resetting => mem_init_count' = mem_init_count + 1
  BY <1>1, NumLinesAssumption
     DEF CountsTogether, Tick, CountCycles, memory_ready, MEM_INIT_CYCLES, Resetting
<1>3. /\ tag'.state # "RESET_SRAMS"
      /\ tag'.state = "RESET_DATA" =>
           /\ tag.state \in Resetting
           /\ tag'.reset_addr = IF tag.state = "RESET_DATA" THEN tag.reset_addr + 1
                                                            ELSE tag.reset_addr
  <2>0. TagTick /\ tag \in TagRegisters
    BY <1>1 DEF Tick
  <2>1. CASE TagReset
    BY <2>0, <2>1 DEF TagReset, TagRegisters, Resetting
  <2>2. CASE TagClear
    BY <2>0, <2>2 DEF TagClear, TagRegisters, Resetting, TagIdleRegisters
  <2>3. CASE TagAccept
    BY <2>0, <2>3 DEF TagAccept, TagRegisters, Resetting
  <2>4. CASE TagWait
    BY <2>0, <2>4 DEF TagWait, TagRegisters, Resetting
  <2>5. CASE TagRead
    BY <2>0, <2>5 DEF TagRead, TagRegisters, Resetting
  <2>6. CASE TagCapture
    BY <2>0, <2>6 DEF TagCapture, TagRegisters, Resetting
  <2>7. CASE TagRespond
    BY <2>0, <2>7 DEF TagRespond, TagRegisters, Resetting, TagIdleRegisters
  <2> QED BY <2>0, <2>1, <2>2, <2>3, <2>4, <2>5, <2>6, <2>7 DEF TagTick
<1>4. /\ data'.state # "RESET_SRAMS"
      /\ data'.state = "RESET_DATA" =>
           /\ data.state \in Resetting
           /\ data'.reset_addr = IF data.state = "RESET_DATA" THEN data.reset_addr + 1
                                                              ELSE data.reset_addr
  <2>0. DataTick /\ data \in DataRegisters
    BY <1>1 DEF Tick
  <2>1. CASE DataReset
    BY <2>0, <2>1 DEF DataReset, DataRegisters, Resetting
  <2>2. CASE DataClear
    BY <2>0, <2>2 DEF DataClear, DataRegisters, Resetting, DataIdleRegisters
  <2>3. CASE DataAccept
    BY <2>0, <2>3 DEF DataAccept, DataRegisters, Resetting
  <2>4. CASE DataWait
    BY <2>0, <2>4 DEF DataWait, DataRegisters, Resetting
  <2>5. CASE DataTransfer
    BY <2>0, <2>5 DEF DataTransfer, DataRegisters, Resetting
  <2>6. CASE DataRespond
    BY <2>0, <2>6 DEF DataRespond, DataRegisters, Resetting, DataIdleRegisters
  <2> QED BY <2>0, <2>1, <2>2, <2>3, <2>4, <2>5, <2>6 DEF DataTick
<1> QED BY <1>1, <1>2, <1>3, <1>4 DEF CountsTogether, Resetting

LEMMA NextPreserves == IInv /\ [Next]_vars => IInv'
<1> SUFFICES ASSUME IInv, [Next]_vars PROVE IInv'
  OBVIOUS
<1>1. CASE Tick
  <2>1. tag' \in TagRegisters /\ tag_sram' \in [Line -> Entry]
    BY <1>1, TagTypeStep DEF IInv, Tick
  <2>2. data' \in DataRegisters /\ data_sram' \in [Line -> Word]
    BY <1>1, DataTypeStep DEF IInv, Tick
  <2>3. TypeOK'
    BY <1>1, <2>1, <2>2, ControlTypeStep
       DEF IInv, TypeOK, TagRegisters, TagState, DataRegisters, DataState
  <2> QED BY <1>1, <2>3, CountsStep DEF IInv
<1>2. CASE UNCHANGED vars
  BY <1>2 DEF vars, IInv, TypeOK, CountsTogether
<1> QED BY <1>1, <1>2 DEF Next

LEMMA ClearedWhenReady == IInv => ClearedBeforeUse
  BY NumLinesAssumption DEF IInv, TypeOK, CountsTogether, ClearedBeforeUse, memory_ready,
                            MEM_INIT_CYCLES, Line, Resetting

\* The type invariant of the memory, its ports and the counter.
THEOREM TypeCorrect == Spec => []TypeOK
<1>1. IInv => TypeOK
  BY DEF IInv
<1> QED BY <1>1, InitEstablishes, NextPreserves, PTL DEF Spec

\* MEM_INIT_CYCLES of chip_core.sv is enough for the clear sequences of both
\* memories, however many lines there are.
THEOREM ClearedInTime == Spec => []ClearedBeforeUse
BY ClearedWhenReady, InitEstablishes, NextPreserves, PTL DEF Spec

--------------------------------------------------------------------------------
(* One access at a time. *)

(***************************************************************************)
(* Nobody asks before the memory is cleared, so that what the clear        *)
(* sequences have written stays.                                           *)
(***************************************************************************)
Gated == \A p \in Port : Asks(p) => memory_ready

Clearing ==
  /\ data.state \in Resetting => data.to_write = ZeroByte
  /\ data.state = "RESET_DATA" =>
       \A i \in Line, l \in Lane : 4 * i + l < data.reset_addr => data_sram[i][l] = ZeroByte
  /\ tag.state = "RESET_DATA" => \A i \in Line : i < tag.reset_addr => tag_sram[i] = ZeroEntry
  /\ tag.state \notin Resetting /\ data.state \in Resetting
       => \A i \in Line : tag_sram[i] = ZeroEntry
  /\ tag.state \in Resetting => data.state \in Resetting

\* The transaction that runs is the only one under way.
OneAtATime ==
  /\ \A p \in Port : master[p].phase = "RESP" <=> arb.busy /\ arb.active_port = p
  /\ arb.busy => /\ Running # None
                 /\ tag.state \in {"MEM_REQ", "MEM_REQ_WAIT", "MEM_RESP"}
                 /\ data.state \in {"MEM_REQ", "MEM_RESP"}
  /\ ~arb.busy => /\ tag.state \in Resetting \cup {"IDLE"}
                  /\ data.state \in Resetting \cup {"IDLE"}

\* The tag's memory has written, and its copy is what it holds.
TagServes ==
  arb.busy =>
    /\ tag.addr = Running.index
    /\ Running.wstrb # {} =>
         tag_sram[Running.index] = [tag |-> Running.tag, state |-> Running.state]
    /\ tag.state = "MEM_RESP" => tag.read = tag_sram[Running.index]

\* The word's memory has written the lanes below the step.
DataWrites ==
  arb.busy =>
    /\ data.addr = Running.index /\ data.mode = Running.wstrb
    /\ data.state = "MEM_REQ" /\ data.step # 4 => data.to_write = Running.data[data.step]
    /\ \A l \in Running.wstrb :
         data.state = "MEM_RESP" \/ l < data.step
           => data_sram[Running.index][l] = Running.data[l]

\* The lanes read are on top of the shift register, the last one still in q.
DataReads ==
  arb.busy /\ Running.wstrb = {} =>
    /\ data.state = "MEM_REQ" /\ data.step # 0
         => data.q = data_sram[Running.index][data.step - 1]
    /\ data.state = "MEM_REQ" =>
         \A l \in Lane : l + 1 < data.step
           => data.read[(5 - data.step) + l] = data_sram[Running.index][l]
    /\ data.state = "MEM_RESP" => data.read = data_sram[Running.index]

ServingInv == Clearing /\ OneAtATime /\ TagServes /\ DataWrites /\ DataReads
AtomicInv == IInv /\ Gated /\ ServingInv

LEMMA ServingInit == Init => Gated /\ ServingInv
  BY DEF Init, Gated, ServingInv, Clearing, OneAtATime, TagServes, DataWrites, DataReads, Asks,
         TagIdleRegisters, DataIdleRegisters, Resetting, Port

\* Who has passed the reset gate finds both memories cleared.
LEMMA GateIsShut ==
  ASSUME IInv, Gated, tag.state \in Resetting \/ data.state \in Resetting
  PROVE  ~memory_ready /\ \A p \in Port : ~Asks(p)
  BY ClearedWhenReady DEF ClearedBeforeUse, Gated

--------------------------------------------------------------------------------
(* The wires. *)

\* While a transaction runs, the multiplexer passes on its request only.
LEMMA WiresWhenBusy ==
  ASSUME TypeOK, OneAtATime, arb.busy
  PROVE  /\ cm_request = Running /\ Running \in Request
         /\ ~cm_ready_o
         /\ \A p \in Port : ~ReadyTo(p)
         /\ \A p \in Port : ValidTo(p) <=> arb.active_port = p /\ cm_valid_o
         /\ cm_ready_i <=> cm_valid_o
<1> USE DEF Port
<1>1. arb.active_port \in {0, 1}
  BY DEF TypeOK
<1>2. Passes(0) = (arb.active_port = 0) /\ Passes(1) = (arb.active_port = 1)
  BY DEF Passes
<1>3. cm_request = Running
  BY <1>1, <1>2 DEF cm_request, Running
<1>4. Running \in Request
  BY <1>1 DEF OneAtATime, Running, TypeOK
<1>5. ~cm_ready_o
  BY DEF OneAtATime, cm_ready_o
<1>6. \A p \in Port : ValidTo(p) <=> arb.active_port = p /\ cm_valid_o
  BY DEF ValidTo
<1>7. master[arb.active_port].phase = "RESP"
  BY <1>1 DEF OneAtATime
<1>8. cm_ready_i <=> cm_valid_o
  BY <1>1, <1>6, <1>7 DEF cm_ready_i
<1> QED BY <1>3, <1>4, <1>5, <1>6, <1>8 DEF ReadyTo

\* While none runs, it passes on the request of the port whose turn it is.
LEMMA WiresWhenFree ==
  ASSUME TypeOK, OneAtATime, ~arb.busy
  PROVE  /\ \A p \in Port : ~ValidTo(p)
         /\ \A p \in Port : Granted(p) => cm_request = master[p].request /\ cm_request \in Request
                                          /\ ~Granted(1 - p)
         /\ (\A p \in Port : ~Granted(p)) => cm_request = None
         /\ \A p \in Port : ReadyTo(p) <=> Granted(p) /\ cm_ready_o
<1> USE DEF Port
<1>1. \A p \in Port : Passes(p) = Granted(p)
  BY DEF Passes
<1>2. \A p \in Port : ~ValidTo(p)
  BY DEF ValidTo
<1>3. arb.last_grant \in {0, 1}
  BY DEF TypeOK
<1>4. ASSUME NEW p \in Port, Granted(p)
      PROVE  cm_request = master[p].request /\ cm_request \in Request /\ ~Granted(1 - p)
  <2>1. ~Granted(1 - p)
    BY <1>3, <1>4 DEF Granted
  <2>2. cm_request = master[p].request
    BY <1>1, <1>4, <2>1 DEF cm_request
  <2>3. master[p].request \in Request
    BY <1>4 DEF Granted, Asks, TypeOK
  <2> QED BY <2>1, <2>2, <2>3
<1>5. (\A p \in Port : ~Granted(p)) => cm_request = None
  BY <1>1 DEF cm_request
<1> QED BY <1>1, <1>2, <1>4, <1>5 DEF ReadyTo

\* What the masters may do: ask, wait, see ready, or see valid and ask again.
LEMMA MasterStep ==
  ASSUME TypeOK, DriveMasters, NEW p \in Port
  PROVE  /\ master[p].request # None =>
              IF ValidTo(p) /\ master[p].phase = "RESP"
              THEN /\ master'[p].phase = "REQ"
                   /\ master'[p].request \in Request \cup {None}
              ELSE /\ master'[p].request = master[p].request
                   /\ master'[p].phase = IF master[p].phase = "REQ" /\ ~ReadyTo(p)
                                         THEN "REQ" ELSE "RESP"
         /\ master[p].request = None =>
              /\ master'[p].phase = "REQ"
              /\ master'[p].request \in Request \cup {None}
         /\ master'[p].request # None /\ master'[p].request # master[p].request => MayAsk
<1>1. master'[p] \in NextWires(p)
  BY DEF DriveMasters, Port
<1>2. master[p] \in [request : Request \cup {None}, phase : {"REQ", "RESP"}]
  BY DEF TypeOK
<1>3. CASE ~Asks(p) \/ (ValidTo(p) /\ master[p].phase = "RESP")
  <2>1. PICK r \in {None} \cup (IF MayAsk THEN Request ELSE {}) :
          master'[p] = [request |-> r, phase |-> "REQ"]
    BY <1>1, <1>3 DEF NextWires
  <2> QED BY <1>3, <2>1 DEF Asks
<1>4. CASE Asks(p) /\ ~(ValidTo(p) /\ master[p].phase = "RESP")
  BY <1>1, <1>2, <1>4 DEF NextWires, Asks
<1> QED BY <1>3, <1>4

LEMMA GatedStep ==
  ASSUME IInv, Gated, Tick
  PROVE  Gated'
<1>1. memory_ready => memory_ready'
  BY DEF Tick, CountCycles, memory_ready
<1>2. ASSUME NEW p \in Port, Asks(p)' PROVE memory_ready'
  <2>1. CASE master'[p].request = master[p].request
    BY <1>1, <1>2, <2>1 DEF Gated, Asks
  <2>2. CASE master'[p].request # master[p].request
    BY <1>1, <1>2, <2>2, MasterStep DEF Asks, MayAsk, Tick, IInv
  <2> QED BY <2>1, <2>2
<1> QED BY <1>2 DEF Gated

--------------------------------------------------------------------------------
(* What a clock edge does to the transaction under way. *)

Rest == /\ ~arb.busy /\ ~arb'.busy /\ arb'.last_grant = arb.last_grant
        /\ cm_request = None
        /\ \A p \in Port : ~Asks(p)

Accept(p) == /\ ~arb.busy /\ cm_ready_o
             /\ Granted(p) /\ cm_request = master[p].request /\ cm_request \in Request
             /\ arb' = [busy |-> TRUE, active_port |-> p, last_grant |-> p]
             /\ Running' = cm_request

Work == /\ arb.busy /\ ~cm_valid_o /\ ~cm_ready_i
        /\ arb' = arb
        /\ cm_request = Running /\ Running \in Request /\ Running' = Running

Finish == /\ arb.busy /\ cm_valid_o /\ cm_ready_i
          /\ arb' = [arb EXCEPT !.busy = FALSE]

LEMMA EdgeKinds ==
  ASSUME AtomicInv, Tick
  PROVE  Rest \/ (\E p \in Port : Accept(p)) \/ Work \/ Finish
<1> USE DEF AtomicInv, IInv, ServingInv
<1>1. CASE ~arb.busy /\ \E p \in Port : Granted(p)
  <2>1. PICK p \in Port : Granted(p)
    BY <1>1
  <2>2. /\ cm_request = master[p].request /\ cm_request \in Request /\ ~Granted(1 - p)
    BY <1>1, <2>1, WiresWhenFree
  <2>3. cm_ready_o
    BY <1>1, <2>1, GateIsShut DEF Granted, OneAtATime, cm_ready_o
  <2>4. cm_request # None
    BY <2>2, RequestAssumption
  <2>5. arb' = [busy |-> TRUE, active_port |-> p, last_grant |-> p]
    <3>1. \A q \in Port : Granted(q) => q = p
      BY <2>2 DEF Port
    <3> QED BY <1>1, <2>3, <2>4, <3>1 DEF Tick, Arbitrate
  <2>6. master'[p].request = master[p].request
    BY <1>1, <2>1, WiresWhenFree, MasterStep DEF Tick, Granted, Asks
  <2>7. Running' = cm_request
    BY <2>2, <2>5, <2>6 DEF Running
  <2> QED BY <1>1, <2>1, <2>2, <2>3, <2>5, <2>7 DEF Accept
<1>2. CASE ~arb.busy /\ \A p \in Port : ~Granted(p)
  <2>1. cm_request = None
    BY <1>2, WiresWhenFree
  <2>2. arb' = arb
    BY <1>2, <2>1 DEF Tick, Arbitrate
  <2>3. \A p \in Port : ~Asks(p)
    BY <1>2 DEF Granted, Port, TypeOK
  <2> QED BY <1>2, <2>1, <2>2, <2>3 DEF Rest
<1>3. CASE arb.busy
  <2>1. /\ cm_request = Running /\ Running \in Request
        /\ \A p \in Port : ~ReadyTo(p)
        /\ \A p \in Port : ValidTo(p) <=> arb.active_port = p /\ cm_valid_o
        /\ cm_ready_i <=> cm_valid_o
    BY <1>3, WiresWhenBusy
  <2>2. arb' = [arb EXCEPT !.busy = ~(cm_valid_o /\ cm_ready_i)]
    BY <1>3 DEF Tick, Arbitrate
  <2>3. CASE cm_valid_o
    BY <1>3, <2>1, <2>2, <2>3 DEF Finish
  <2>4. CASE ~cm_valid_o
    <3>1. arb' = arb
      BY <1>3, <2>2, <2>4 DEF TypeOK
    <3>2. arb.active_port \in Port /\ master[arb.active_port].request # None
      BY <1>3, <2>1, RequestAssumption DEF Running, TypeOK
    <3>3. master'[arb.active_port].request = master[arb.active_port].request
      BY <2>1, <2>4, <3>2, MasterStep DEF Tick
    <3>4. Running' = Running
      BY <3>1, <3>3 DEF Running
    <3> QED BY <1>3, <2>1, <2>4, <3>1, <3>4 DEF Work
  <2> QED BY <2>3, <2>4
<1> QED BY <1>1, <1>2, <1>3

\* What each memory does at it.

LEMMA TagEdge ==
  ASSUME AtomicInv, Tick
  PROVE  /\ Rest => TagReset \/ TagClear \/ TagWait
         /\ (\E p \in Port : Accept(p)) => TagAccept
         /\ Work => \/ TagRead \/ TagCapture
                    \/ tag.state = "MEM_RESP" /\ UNCHANGED <<tag, tag_sram>>
         /\ Finish => tag' = TagIdleRegisters /\ tag_sram' = tag_sram
<1> USE DEF AtomicInv, IInv, ServingInv
<1>0. TagTick
  BY DEF Tick
<1>1. ASSUME Rest PROVE TagReset \/ TagClear \/ TagWait
  BY <1>0, <1>1 DEF Rest, OneAtATime, TagTick, TagAccept, TagRead, TagCapture, TagRespond, Resetting
<1>2. ASSUME NEW p \in Port, Accept(p) PROVE TagAccept
  <2>1. cm_request # None /\ tag.state = "IDLE"
    BY <1>2, RequestAssumption DEF Accept, cm_ready_o
  <2> QED BY <1>0, <2>1 DEF TagTick, TagReset, TagClear, TagWait, TagRead, TagCapture, TagRespond
<1>3. ASSUME Work
      PROVE  \/ TagRead \/ TagCapture
             \/ tag.state = "MEM_RESP" /\ UNCHANGED <<tag, tag_sram>>
  BY <1>0, <1>3 DEF Work, OneAtATime, TagTick, TagReset, TagClear, TagAccept, TagWait, TagRespond
<1>4. ASSUME Finish PROVE tag' = TagIdleRegisters /\ tag_sram' = tag_sram
  <2>1. tag.state = "MEM_RESP" /\ data.state = "MEM_RESP" /\ cm_ready_i
    BY <1>4 DEF Finish, cm_valid_o
  <2> QED BY <1>0, <2>1 DEF TagTick, TagReset, TagClear, TagAccept, TagWait, TagRead,
                            TagCapture, TagRespond
<1> QED BY <1>1, <1>2, <1>3, <1>4

LEMMA DataEdge ==
  ASSUME AtomicInv, Tick
  PROVE  /\ Rest => DataReset \/ DataClear \/ DataWait
         /\ (\E p \in Port : Accept(p)) => DataAccept
         /\ Work => \/ DataTransfer
                    \/ data.state = "MEM_RESP" /\ UNCHANGED <<data, data_sram>>
         /\ Finish => data' = DataIdleRegisters /\ data_sram' = data_sram
<1> USE DEF AtomicInv, IInv, ServingInv
<1>0. DataTick
  BY DEF Tick
<1>1. ASSUME Rest PROVE DataReset \/ DataClear \/ DataWait
  BY <1>0, <1>1 DEF Rest, OneAtATime, DataTick, DataAccept, DataTransfer, DataRespond, Resetting
<1>2. ASSUME NEW p \in Port, Accept(p) PROVE DataAccept
  <2>1. cm_request # None /\ data.state = "IDLE"
    BY <1>2, RequestAssumption DEF Accept, cm_ready_o
  <2> QED BY <1>0, <2>1 DEF DataTick, DataReset, DataClear, DataWait, DataTransfer, DataRespond
<1>3. ASSUME Work
      PROVE  \/ DataTransfer
             \/ data.state = "MEM_RESP" /\ UNCHANGED <<data, data_sram>>
  BY <1>0, <1>3 DEF Work, OneAtATime, DataTick, DataReset, DataClear, DataAccept, DataWait, DataRespond
<1>4. ASSUME Finish PROVE data' = DataIdleRegisters /\ data_sram' = data_sram
  <2>1. data.state = "MEM_RESP" /\ cm_ready_i
    BY <1>4 DEF Finish, cm_valid_o
  <2> QED BY <1>0, <2>1 DEF DataTick, DataReset, DataClear, DataAccept, DataWait, DataTransfer,
                            DataRespond
<1> QED BY <1>1, <1>2, <1>3, <1>4

--------------------------------------------------------------------------------
(* The invariant is kept. *)

LEMMA EdgeTypes ==
  ASSUME TypeOK
  PROVE  /\ tag \in TagRegisters /\ tag_sram \in [Line -> Entry]
         /\ data \in DataRegisters /\ data_sram \in [Line -> Word]
  BY DEF TypeOK, TagRegisters, TagState, DataRegisters, DataState

\* DataClear goes through the lanes of the lines in the order of its counter.
LEMMA ClearedLanes ==
  ASSUME AtomicInv, DataClear, NEW i \in Line, NEW l \in Lane, 4 * i + l < data.reset_addr + 1
  PROVE  data_sram'[i][l] = ZeroByte
<1> USE DEF AtomicInv, IInv, ServingInv
<1>1. /\ data \in DataRegisters /\ data_sram \in [Line -> Word]
      /\ data.state = "RESET_DATA" /\ data.reset_addr \in Nat
  BY EdgeTypes DEF DataClear, DataRegisters
<1>2. data.to_write = ZeroByte /\ (4 * i + l < data.reset_addr => data_sram[i][l] = ZeroByte)
  BY <1>1 DEF Clearing, Resetting
<1>3. 4 * i + l = data.reset_addr => i = data.reset_addr \div 4 /\ l = data.reset_addr % 4
  BY <1>1 DEF Line, Lane
<1>4. i \in Nat /\ l \in Nat
  BY DEF Line, Lane
<1>5. data_sram' = [data_sram EXCEPT ![data.reset_addr \div 4][data.reset_addr % 4] = data.to_write]
  BY DEF DataClear
<1>6. \/ data_sram'[i][l] = data.to_write
      \/ /\ data_sram'[i][l] = data_sram[i][l]
         /\ ~(i = data.reset_addr \div 4 /\ l = data.reset_addr % 4)
  BY <1>1, <1>5 DEF Word
<1> QED BY <1>1, <1>2, <1>3, <1>4, <1>6

\* The memory of the tags is done long before that of the words.
LEMMA TagIsFirst ==
  ASSUME AtomicInv, DataClear, data.reset_addr = 4 * NumLines - 1
  PROVE  tag.state \notin Resetting
<1>1. /\ data.state = "RESET_DATA" /\ tag.reset_addr \in 0 .. NumLines - 1
  BY EdgeTypes DEF DataClear, AtomicInv, IInv, TagRegisters, Line
<1> QED BY <1>1, NumLinesAssumption DEF AtomicInv, IInv, CountsTogether, Resetting

LEMMA ClearingStep ==
  ASSUME AtomicInv, Tick
  PROVE  Clearing'
<1> USE DEF AtomicInv, IInv, ServingInv
<1>0. /\ tag \in TagRegisters /\ tag_sram \in [Line -> Entry]
      /\ data \in DataRegisters /\ data_sram \in [Line -> Word]
  BY EdgeTypes
<1>1. CASE ~Rest
  <2>1. tag'.state \notin Resetting /\ data'.state \notin Resetting
    <3>1. CASE \E p \in Port : Accept(p)
      BY <1>0, <3>1, TagEdge, DataEdge DEF TagAccept, DataAccept, Resetting, TagRegisters, DataRegisters
    <3>2. CASE Work
      <4>1. tag.state \notin Resetting /\ data.state \notin Resetting
        BY <3>2 DEF Work, OneAtATime, Resetting
      <4>2. tag'.state \notin Resetting
        BY <1>0, <3>2, <4>1, TagEdge DEF TagRead, TagCapture, Resetting, TagRegisters
      <4>3. data'.state \notin Resetting
        BY <1>0, <3>2, <4>1, DataEdge DEF DataTransfer, Resetting, DataRegisters
      <4> QED BY <4>2, <4>3
    <3>3. CASE Finish
      BY <3>3, TagEdge, DataEdge DEF TagIdleRegisters, DataIdleRegisters, Resetting
    <3> QED BY <1>1, <3>1, <3>2, <3>3, EdgeKinds
  <2> QED BY <2>1 DEF Clearing, Resetting
<1>2. CASE Rest
  <2>1. /\ TagReset \/ TagClear \/ TagWait
        /\ DataReset \/ DataClear \/ DataWait
    BY <1>2, TagEdge, DataEdge
  <2>2. data'.state \in Resetting => data.state \in Resetting /\ data'.to_write = ZeroByte
    <3>1. CASE DataReset
      BY <1>0, <3>1 DEF DataReset, Clearing, Resetting, DataRegisters
    <3>2. CASE DataClear
      BY <1>0, <3>2 DEF DataClear, Clearing, Resetting, DataRegisters, DataIdleRegisters
    <3>3. CASE DataWait
      BY <3>3 DEF DataWait, Clearing, Resetting
    <3> QED BY <2>1, <3>1, <3>2, <3>3
  <2>3. ASSUME data'.state = "RESET_DATA", NEW i \in Line, NEW l \in Lane,
               4 * i + l < data'.reset_addr
        PROVE  data_sram'[i][l] = ZeroByte
    <3>1. CASE DataReset
      BY <1>0, <2>3, <3>1 DEF DataReset, CountsTogether, DataRegisters, Line, Lane
    <3>2. CASE DataClear
      <4>1. data'.reset_addr = data.reset_addr + 1
        BY <1>0, <2>3, <3>2 DEF DataClear, DataIdleRegisters, DataRegisters
      <4> QED BY <2>3, <3>2, <4>1, ClearedLanes
    <3>3. CASE DataWait
      BY <2>3, <3>3 DEF DataWait
    <3> QED BY <2>1, <3>1, <3>2, <3>3
  <2>4. ASSUME NEW i \in Line,
               \/ tag'.state = "RESET_DATA" /\ i < tag'.reset_addr
               \/ tag'.state \notin Resetting /\ data'.state \in Resetting
        PROVE  tag_sram'[i] = ZeroEntry
    <3>1. CASE TagReset
      BY <1>0, <2>4, <3>1 DEF TagReset, CountsTogether, TagRegisters, Line, Resetting
    <3>2. CASE TagClear
      <4>1. tag.state = "RESET_DATA" /\ tag.reset_addr \in 0 .. NumLines - 1
        BY <1>0, <3>2 DEF TagClear, TagRegisters, Line
      <4>2. i < tag.reset_addr => tag_sram[i] = ZeroEntry
        BY <4>1 DEF Clearing
      <4>3. i < tag.reset_addr + 1
        <5>1. CASE tag.reset_addr = NumLines - 1
          BY <4>1, <5>1, NumLinesAssumption DEF Line
        <5>2. CASE tag.reset_addr # NumLines - 1
          BY <1>0, <2>4, <3>2, <5>2 DEF TagClear, TagRegisters, Resetting
        <5> QED BY <5>1, <5>2
      <4>4. tag_sram'[i] = IF i = tag.reset_addr THEN ZeroEntry ELSE tag_sram[i]
        BY <1>0, <3>2 DEF TagClear
      <4> QED BY <4>1, <4>2, <4>3, <4>4 DEF Line
    <3>3. CASE TagWait
      BY <2>2, <2>4, <3>3 DEF TagWait, Clearing, Resetting
    <3> QED BY <2>1, <3>1, <3>2, <3>3
  <2>5. tag'.state \in Resetting => data'.state \in Resetting
    <3> SUFFICES ASSUME tag'.state \in Resetting PROVE data'.state \in Resetting
      OBVIOUS
    <3>1. tag.state \in Resetting /\ data.state \in Resetting
      BY <1>0, <2>1 DEF TagReset, TagClear, TagWait, TagRegisters, Resetting, Clearing
    <3> QED BY <1>0, <2>1, <3>1, TagIsFirst DEF DataReset, DataClear, DataWait, DataRegisters, Resetting
  <2> QED BY <2>2, <2>3, <2>4, <2>5 DEF Clearing, Resetting
<1> QED BY <1>1, <1>2

LEMMA OneAtATimeStep ==
  ASSUME AtomicInv, Tick
  PROVE  OneAtATime'
<1> USE DEF AtomicInv, IInv, ServingInv
<1>0. /\ tag \in TagRegisters /\ data \in DataRegisters /\ TypeOK'
  BY EdgeTypes, NextPreserves DEF Next
<1>1. CASE Rest
  <2>1. \A p \in Port : master'[p].phase = "REQ"
    BY <1>1, MasterStep DEF Rest, Asks, Tick
  <2>2. tag'.state \in Resetting \cup {"IDLE"}
    BY <1>0, <1>1, TagEdge DEF TagReset, TagClear, TagWait, TagIdleRegisters, TagRegisters, Resetting
  <2>3. data'.state \in Resetting \cup {"IDLE"}
    BY <1>0, <1>1, DataEdge DEF DataReset, DataClear, DataWait, DataIdleRegisters, DataRegisters, Resetting
  <2> QED BY <1>1, <2>1, <2>2, <2>3 DEF Rest, OneAtATime
<1>2. ASSUME NEW p \in Port, Accept(p) PROVE OneAtATime'
  <2>1. arb'.busy = TRUE /\ arb'.active_port = p /\ Running' # None
    BY <1>2, RequestAssumption DEF Accept
  <2>2. \A q \in Port : ReadyTo(q) <=> q = p
    <3>1. ~Granted(1 - p) /\ \A q \in Port : ReadyTo(q) <=> Granted(q) /\ cm_ready_o
      BY <1>2, WiresWhenFree DEF Accept
    <3> QED BY <1>2, <3>1 DEF Accept, Port
  <2>3. ASSUME NEW q \in Port PROVE master'[q].phase = "RESP" <=> q = p
    <3>1. ~ValidTo(q) /\ master[q].phase = "REQ"
      BY <1>2, WiresWhenFree DEF Accept, OneAtATime, TypeOK
    <3>2. CASE q = p
      <4>1. master[q].request # None
        BY <1>2, <3>2, RequestAssumption DEF Accept
      <4> QED BY <2>2, <3>1, <3>2, <4>1, MasterStep DEF Tick
    <3>3. CASE q # p
      BY <2>2, <3>1, <3>3, MasterStep DEF Tick
    <3> QED BY <3>2, <3>3
  <2>4. tag'.state = "MEM_REQ" /\ data'.state = "MEM_REQ"
    BY <1>0, <1>2, TagEdge, DataEdge DEF TagAccept, DataAccept, TagRegisters, DataRegisters
  <2> QED BY <2>1, <2>3, <2>4 DEF OneAtATime
<1>3. CASE Work
  <2>1. arb' = arb /\ arb.busy /\ Running' # None
    BY <1>3, RequestAssumption DEF Work
  <2>2. ASSUME NEW q \in Port PROVE master'[q].phase = "RESP" <=> master[q].phase = "RESP"
    <3>1. ~ReadyTo(q) /\ ~ValidTo(q)
      BY <1>3, WiresWhenBusy DEF Work
    <3>2. master[q].phase \in {"REQ", "RESP"}
      BY DEF TypeOK
    <3>3. CASE master[q].request # None
      BY <2>2, <3>1, <3>2, <3>3, MasterStep DEF Tick
    <3>4. CASE master[q].request = None
      <4>1. q # arb.active_port
        BY <1>3, <3>4, RequestAssumption DEF Work, Running
      <4>2. master[q].phase # "RESP"
        BY <4>1 DEF OneAtATime
      <4> QED BY <3>4, <4>2, MasterStep DEF Tick
    <3> QED BY <3>3, <3>4
  <2>3. tag'.state \in {"MEM_REQ", "MEM_REQ_WAIT", "MEM_RESP"}
    BY <1>0, <1>3, TagEdge DEF TagRead, TagCapture, TagRegisters
  <2>4. data'.state \in {"MEM_REQ", "MEM_RESP"}
    BY <1>0, <1>3, DataEdge DEF DataTransfer, DataRegisters
  <2> QED BY <2>1, <2>2, <2>3, <2>4 DEF OneAtATime
<1>4. CASE Finish
  <2>1. arb'.busy = FALSE
    BY <1>4 DEF Finish, TypeOK
  <2>2. ASSUME NEW q \in Port PROVE master'[q].phase = "REQ"
    <3>1. /\ ~ReadyTo(q) /\ (ValidTo(q) <=> q = arb.active_port)
          /\ master[q].phase = "RESP" <=> q = arb.active_port
      BY <1>4, WiresWhenBusy DEF Finish, OneAtATime
    <3>2. master[q].phase \in {"REQ", "RESP"}
      BY DEF TypeOK
    <3> QED BY <3>1, <3>2, MasterStep DEF Tick
  <2>3. tag'.state = "IDLE" /\ data'.state = "IDLE"
    BY <1>4, TagEdge, DataEdge DEF TagIdleRegisters, DataIdleRegisters
  <2> QED BY <2>1, <2>2, <2>3 DEF OneAtATime
<1> QED BY <1>1, <1>2, <1>3, <1>4, EdgeKinds

LEMMA TagServesStep ==
  ASSUME AtomicInv, Tick
  PROVE  TagServes'
<1> USE DEF AtomicInv, IInv, ServingInv
<1>0. tag \in TagRegisters /\ tag_sram \in [Line -> Entry]
  BY EdgeTypes
<1>1. CASE Rest \/ Finish
  BY <1>1 DEF Rest, Finish, TypeOK, TagServes
<1>2. ASSUME NEW p \in Port, Accept(p) PROVE TagServes'
  <2>1. Running' = cm_request /\ cm_request.index \in Line
    BY <1>2, RequestType, RequestAssumption DEF Accept
  <2>2. /\ tag'.state = "MEM_REQ" /\ tag'.addr = cm_request.index
        /\ tag_sram' = IF cm_request.wstrb = {} THEN tag_sram
                       ELSE [tag_sram EXCEPT ![cm_request.index] =
                               [tag |-> cm_request.tag, state |-> cm_request.state]]
    BY <1>0, <1>2, TagEdge DEF TagAccept, TagRegisters
  <2>3. cm_request.wstrb # {} =>
          tag_sram'[cm_request.index] = [tag |-> cm_request.tag, state |-> cm_request.state]
    BY <1>0, <2>1, <2>2
  <2> QED BY <2>1, <2>2, <2>3 DEF TagServes
<1>3. CASE Work
  <2>1. Running' = Running /\ arb'.busy = arb.busy /\ TagServes /\ arb.busy
    BY <1>3 DEF Work
  <2>2. tag_sram' = tag_sram /\ tag'.addr = tag.addr
    BY <1>0, <1>3, TagEdge DEF TagRead, TagCapture, TagRegisters
  <2>3. tag'.state = "MEM_RESP" => tag'.read = tag_sram[tag.addr]
    BY <1>0, <1>3, <2>1, TagEdge DEF TagRead, TagCapture, TagRegisters, TagServes
  <2> QED BY <2>1, <2>2, <2>3 DEF TagServes
<1> QED BY <1>1, <1>2, <1>3, EdgeKinds

\* One step of the word's memory, spelt out.
LEMMA TransferStep ==
  ASSUME AtomicInv, Work, DataTransfer
  PROVE  /\ data.state = "MEM_REQ" /\ data.step \in 0 .. 4
         /\ data'.addr = data.addr /\ data'.mode = data.mode
         /\ data'.state = IF data.step = 4 THEN "MEM_RESP" ELSE "MEM_REQ"
         /\ data'.step = IF data.step = 4 THEN 0 ELSE data.step + 1
         /\ data.step < 3 => data'.to_write = Running.data[data.step + 1]
         /\ data.step < 4 => data'.q = data_sram[data.addr][data.step]
         /\ data.step # 0 => data'.read = ShiftIn(data.read, data.q)
         /\ data_sram' = IF data.step \in data.mode
                         THEN [data_sram EXCEPT ![data.addr][data.step] = data.to_write]
                         ELSE data_sram
<1> USE DEF AtomicInv, IInv, ServingInv
<1>1. data \in DataRegisters /\ data.state = "MEM_REQ"
  BY EdgeTypes DEF DataTransfer
<1> DEFINE byte == IF data.step < 3 THEN WdataWire(data.step + 1) ELSE data.to_write
           word == IF data.step = 0 THEN data.read ELSE ShiftIn(data.read, data.q)
           q == IF data.step < 4 THEN data_sram[data.addr][data.step] ELSE data.q
<1>2. data' = [data EXCEPT !.state = IF data.step = 4 THEN "MEM_RESP" ELSE data.state,
                           !.step = IF data.step = 4 THEN 0 ELSE data.step + 1,
                           !.to_write = byte, !.read = word, !.q = q]
  BY DEF DataTransfer
<1>3. \A l : WdataWire(l) = Running.data[l]
  BY RequestAssumption DEF WdataWire, Work
<1>4. data'.to_write = byte /\ data'.read = word /\ data'.q = q
  <2> HIDE DEF byte, word, q
  <2> QED BY <1>1, <1>2 DEF DataRegisters
<1>5. /\ data'.addr = data.addr /\ data'.mode = data.mode
      /\ data'.state = IF data.step = 4 THEN "MEM_RESP" ELSE "MEM_REQ"
      /\ data'.step = IF data.step = 4 THEN 0 ELSE data.step + 1
  <2> HIDE DEF byte, word, q
  <2> QED BY <1>1, <1>2 DEF DataRegisters
<1>6. data.step \in 0 .. 4
  BY <1>1 DEF DataRegisters
<1> QED BY <1>1, <1>3, <1>4, <1>5, <1>6 DEF DataTransfer

LEMMA DataWritesStep ==
  ASSUME AtomicInv, Tick
  PROVE  DataWrites'
<1> USE DEF AtomicInv, IInv, ServingInv
<1>0. data \in DataRegisters /\ data_sram \in [Line -> Word]
  BY EdgeTypes
<1>1. CASE Rest \/ Finish
  BY <1>1 DEF Rest, Finish, TypeOK, DataWrites
<1>2. ASSUME NEW p \in Port, Accept(p) PROVE DataWrites'
  <2>1. /\ Running' = cm_request /\ cm_request # None
        /\ cm_request.wstrb \subseteq 0 .. 3
    BY <1>2, RequestType, RequestAssumption DEF Accept, Lane
  <2>2. WdataWire(0) = cm_request.data[0]
    BY <2>1 DEF WdataWire
  <2>3. /\ data'.state = "MEM_REQ" /\ data'.step = 0 /\ data'.addr = cm_request.index
        /\ data'.mode = cm_request.wstrb /\ data'.to_write = cm_request.data[0]
    BY <1>0, <1>2, <2>2, DataEdge DEF DataAccept, DataRegisters
  <2> QED BY <2>1, <2>3 DEF DataWrites
<1>3. CASE Work
  <2>1. /\ Running' = Running /\ arb'.busy = arb.busy /\ arb.busy
        /\ data.addr = Running.index /\ data.mode = Running.wstrb
        /\ Running.index \in Line /\ Running.wstrb \subseteq 0 .. 3
    BY <1>3, RequestType, RequestAssumption DEF Work, DataWrites, Lane
  <2>2. CASE UNCHANGED <<data, data_sram>>
    BY <2>1, <2>2 DEF DataWrites
  <2>3. CASE DataTransfer
    <3>1. /\ data.state = "MEM_REQ" /\ data.step \in 0 .. 4
          /\ data'.addr = data.addr /\ data'.mode = data.mode
          /\ data'.state = IF data.step = 4 THEN "MEM_RESP" ELSE "MEM_REQ"
          /\ data'.step = IF data.step = 4 THEN 0 ELSE data.step + 1
          /\ data.step < 3 => data'.to_write = Running.data[data.step + 1]
          /\ data_sram' = IF data.step \in data.mode
                          THEN [data_sram EXCEPT ![data.addr][data.step] = data.to_write]
                          ELSE data_sram
      BY <1>3, <2>3, TransferStep
    <3>2. data'.state = "MEM_REQ" /\ data'.step # 4 => data'.to_write = Running.data[data'.step]
      BY <3>1
    <3>3. ASSUME NEW l \in Running.wstrb, data'.state = "MEM_RESP" \/ l < data'.step
          PROVE  data_sram'[Running.index][l] = Running.data[l]
      <4>1. l \in 0 .. 3 /\ l \in Lane /\ l <= data.step
        BY <2>1, <3>1, <3>3 DEF Lane
      <4>2. CASE l = data.step
        <5>1. data.to_write = Running.data[l]
          BY <2>1, <3>1, <4>1, <4>2 DEF DataWrites
        <5> QED BY <1>0, <2>1, <3>1, <4>1, <4>2, <5>1 DEF Word
      <4>3. CASE l < data.step
        <5>1. data_sram[Running.index][l] = Running.data[l]
          BY <2>1, <4>3 DEF DataWrites
        <5>2. data_sram'[Running.index][l] = data_sram[Running.index][l]
          BY <1>0, <2>1, <3>1, <4>1, <4>3 DEF Word
        <5> QED BY <5>1, <5>2
      <4> QED BY <3>1, <4>1, <4>2, <4>3
    <3> QED BY <2>1, <3>1, <3>2, <3>3 DEF DataWrites
  <2> QED BY <1>3, <2>2, <2>3, DataEdge
<1> QED BY <1>1, <1>2, <1>3, EdgeKinds

LEMMA DataReadsStep ==
  ASSUME AtomicInv, Tick
  PROVE  DataReads'
<1> USE DEF AtomicInv, IInv, ServingInv
<1>0. data \in DataRegisters /\ data_sram \in [Line -> Word]
  BY EdgeTypes
<1>1. CASE Rest \/ Finish
  BY <1>1 DEF Rest, Finish, TypeOK, DataReads
<1>2. ASSUME NEW p \in Port, Accept(p) PROVE DataReads'
  <2>1. data'.state = "MEM_REQ" /\ data'.step = 0
    BY <1>0, <1>2, DataEdge DEF DataAccept, DataRegisters
  <2>2. \A l \in Lane : ~(l + 1 < 0)
    BY DEF Lane
  <2> QED BY <2>1, <2>2 DEF DataReads
<1>3. CASE Work
  <2>1. /\ Running' = Running /\ arb'.busy = arb.busy /\ arb.busy
        /\ data.addr = Running.index /\ data.mode = Running.wstrb
        /\ Running.index \in Line
    BY <1>3, RequestType, RequestAssumption DEF Work, DataWrites
  <2>2. CASE UNCHANGED <<data, data_sram>>
    BY <2>1, <2>2 DEF DataReads
  <2>3. CASE DataTransfer
    <3> SUFFICES ASSUME Running.wstrb = {} PROVE DataReads'
      BY <2>1 DEF DataReads
    <3>1. /\ data.state = "MEM_REQ" /\ data.step \in 0 .. 4
          /\ data'.state = IF data.step = 4 THEN "MEM_RESP" ELSE "MEM_REQ"
          /\ data'.step = IF data.step = 4 THEN 0 ELSE data.step + 1
          /\ data.step < 4 => data'.q = data_sram[data.addr][data.step]
          /\ data.step # 0 => data'.read = ShiftIn(data.read, data.q)
          /\ data_sram' = data_sram
      BY <1>3, <2>1, <2>3, TransferStep
    <3>2. data'.state = "MEM_REQ" => data'.q = data_sram'[Running.index][data'.step - 1]
      BY <2>1, <3>1
    <3>3. ASSUME NEW l \in Lane, data.step # 0, l < data.step
          PROVE  data'.read[(4 - data.step) + l] = data_sram[Running.index][l]
      <4>1. l \in 0 .. 3 /\ data.read \in [0 .. 3 -> Byte]
        BY <1>0 DEF Lane, DataRegisters, Word
      <4>2. CASE l + 1 = data.step
        <5>1. (4 - data.step) + l = 3 /\ data.step - 1 = l
          BY <4>1, <4>2
        <5>2. data'.read[3] = data.q
          BY <3>1, <3>3 DEF ShiftIn, Lane
        <5>3. data.q = data_sram[Running.index][data.step - 1]
          BY <2>1, <3>1, <3>3 DEF DataReads
        <5> QED BY <5>1, <5>2, <5>3
      <4>3. CASE l + 1 < data.step
        <5> DEFINE k == (4 - data.step) + l
        <5>1. k \in 0 .. 2 /\ k + 1 = (5 - data.step) + l
          BY <3>1, <4>1, <4>3
        <5>2. data'.read[k] = data.read[k + 1]
          <6> HIDE DEF k
          <6> QED BY <3>1, <3>3, <5>1 DEF ShiftIn, Lane
        <5>3. data.read[(5 - data.step) + l] = data_sram[Running.index][l]
          BY <2>1, <3>1, <4>3 DEF DataReads
        <5> QED BY <5>1, <5>2, <5>3
      <4> QED BY <3>1, <3>3, <4>1, <4>2, <4>3
    <3>4. CASE data.step = 4
      <4>1. \A l \in Lane : data'.read[l] = data_sram[Running.index][l]
        <5> SUFFICES ASSUME NEW l \in Lane PROVE data'.read[l] = data_sram[Running.index][l]
          OBVIOUS
        <5>1. l < data.step /\ (4 - data.step) + l = l /\ data.step # 0
          BY <3>4 DEF Lane
        <5> QED BY <3>3, <5>1
      <4>2. data'.read \in [Lane -> Byte]
        <5>1. TypeOK'
          BY NextPreserves DEF Next
        <5> QED BY <5>1 DEF TypeOK, Word
      <4>3. data_sram[Running.index] \in [Lane -> Byte]
        BY <1>0, <2>1 DEF Word
      <4>4. data'.read = data_sram[Running.index]
        BY <4>1, <4>2, <4>3
      <4> QED BY <2>1, <3>1, <3>4, <4>4 DEF DataReads
    <3>5. CASE data.step # 4
      <4>1. ASSUME NEW l \in Lane, l + 1 < data'.step
            PROVE  data'.read[(5 - data'.step) + l] = data_sram'[Running.index][l]
        <5>1. l < data.step /\ (5 - data'.step) + l = (4 - data.step) + l /\ data.step # 0
          BY <3>1, <3>5, <4>1 DEF Lane
        <5> QED BY <3>1, <3>3, <5>1
      <4> QED BY <2>1, <3>1, <3>2, <3>5, <4>1 DEF DataReads
    <3> QED BY <3>4, <3>5
  <2> QED BY <1>3, <2>2, <2>3, DataEdge
<1> QED BY <1>1, <1>2, <1>3, EdgeKinds

LEMMA AtomicNext == AtomicInv /\ [Next]_vars => AtomicInv'
<1> SUFFICES ASSUME AtomicInv, [Next]_vars PROVE AtomicInv'
  OBVIOUS
<1>1. IInv'
  BY NextPreserves DEF AtomicInv
<1>2. CASE Tick
  BY <1>1, <1>2, GatedStep, ClearingStep, OneAtATimeStep, TagServesStep, DataWritesStep,
     DataReadsStep DEF AtomicInv, ServingInv
<1>3. CASE UNCHANGED vars
  <2>1. Running' = Running /\ memory_ready' = memory_ready /\ \A p : Asks(p)' <=> Asks(p)
    BY <1>3 DEF vars, Running, memory_ready, Asks
  <2>2. Gated' /\ Clearing'
    BY <1>3, <2>1 DEF vars, AtomicInv, ServingInv, Gated, Clearing
  <2>3. OneAtATime' /\ TagServes' /\ DataWrites' /\ DataReads'
    BY <1>3, <2>1 DEF vars, AtomicInv, ServingInv, OneAtATime, TagServes, DataWrites, DataReads
  <2> QED BY <1>1, <2>2, <2>3 DEF AtomicInv, ServingInv
<1> QED BY <1>2, <1>3 DEF Next

LEMMA AtomicInvariant == Spec => []AtomicInv
<1>1. Init => AtomicInv
  BY InitEstablishes, ServingInit DEF AtomicInv
<1> QED BY <1>1, AtomicNext, PTL DEF Spec

--------------------------------------------------------------------------------
(* The atomic memory. *)

\* Nothing happens to the lines while nothing runs; that they are all zero is
\* so from the end of the clear sequences on.
LEMMA RestKeepsLines ==
  ASSUME AtomicInv, Tick, Rest, NEW i \in Line
  PROVE  AtomicLine(i)' = AtomicLine(i)
<1> USE DEF AtomicInv, IInv, ServingInv
<1>0. /\ tag \in TagRegisters /\ tag_sram \in [Line -> Entry]
      /\ data \in DataRegisters /\ data_sram \in [Line -> Word]
      /\ data_sram' \in [Line -> Word] /\ tag_sram' \in [Line -> Entry]
      /\ ~arb.busy /\ ~arb'.busy
  BY EdgeTypes, DataTypeStep, TagTypeStep DEF Tick, Rest
<1>1. /\ TagReset \/ TagClear \/ TagWait
      /\ DataReset \/ DataClear \/ DataWait
  BY TagEdge, DataEdge
<1>2. Running = None /\ Running' = None
  BY <1>0 DEF Running
<1>3. CASE data.state \notin Resetting
  <2>1. TagWait /\ DataWait
    BY <1>1, <1>3 DEF Clearing, Resetting, TagReset, TagClear, DataReset, DataClear
  <2> QED BY <1>2, <2>1 DEF AtomicLine, TagWait, DataWait
<1>4. CASE data.state \in Resetting /\ data'.state \in Resetting
  BY <1>4 DEF AtomicLine
<1>5. CASE data.state \in Resetting /\ data'.state \notin Resetting
  <2>1. DataClear /\ data.reset_addr = 4 * NumLines - 1
    BY <1>0, <1>1, <1>5 DEF DataReset, DataClear, DataWait, DataRegisters, Resetting
  <2>2. tag.state \notin Resetting
    BY <2>1, TagIsFirst
  <2>3. tag_sram'[i] = ZeroEntry
    BY <1>1, <1>5, <2>2 DEF Clearing, Resetting, TagReset, TagClear, TagWait
  <2>4. \A l \in Lane : data_sram'[i][l] = ZeroByte
    <3> SUFFICES ASSUME NEW l \in Lane PROVE data_sram'[i][l] = ZeroByte
      OBVIOUS
    <3>1. 4 * i + l < data.reset_addr + 1
      BY <2>1, NumLinesAssumption DEF Line, Lane
    <3> QED BY <2>1, <3>1, ClearedLanes
  <2>5. AtomicLine(i)' = [data |-> [l \in Lane |-> data_sram'[i][l]],
                          tag |-> tag_sram'[i].tag, state |-> tag_sram'[i].state]
    BY <1>2, <1>5 DEF AtomicLine
  <2> QED BY <1>5, <2>3, <2>4, <2>5 DEF AtomicLine, ZeroLine, ZeroWord, ZeroEntry
<1> QED BY <1>3, <1>4, <1>5

\* The whole access takes place when it is accepted.
LEMMA AcceptWritesLine ==
  ASSUME AtomicInv, Tick, NEW p \in Port, Accept(p), NEW i \in Line
  PROVE  AtomicLine(i)' = IF i = master[p].request.index
                          THEN Atomic!Written(AtomicLine(i), master[p].request)
                          ELSE AtomicLine(i)
<1> USE DEF AtomicInv, IInv, ServingInv
<1> DEFINE r == master[p].request
<1>0. /\ tag \in TagRegisters /\ tag_sram \in [Line -> Entry]
      /\ data \in DataRegisters
      /\ r = cm_request /\ r # None /\ r.index \in Line
      /\ Running = None /\ Running' = r
  BY EdgeTypes, RequestType, RequestAssumption DEF Accept, Running
<1>1. TagAccept /\ DataAccept
  BY TagEdge, DataEdge
<1>2. data.state \notin Resetting /\ data'.state \notin Resetting
  BY <1>0, <1>1 DEF DataAccept, DataRegisters, Resetting
<1>3. data_sram' = data_sram
  BY <1>1 DEF DataAccept
<1>4. tag_sram'[i] = IF r.wstrb # {} /\ i = r.index THEN [tag |-> r.tag, state |-> r.state]
                     ELSE tag_sram[i]
  BY <1>0, <1>1 DEF TagAccept
<1>5. AtomicLine(i) = [data |-> [l \in Lane |-> data_sram[i][l]],
                       tag |-> tag_sram[i].tag, state |-> tag_sram[i].state]
  BY <1>0, <1>2 DEF AtomicLine
<1> DEFINE written == IF r.index = i THEN r.wstrb ELSE {}
<1>6. AtomicLine(i)' =
        [data |-> [l \in Lane |-> IF l \in written THEN r.data[l] ELSE data_sram[i][l]],
         tag |-> IF written # {} THEN r.tag ELSE tag_sram[i].tag,
         state |-> IF written # {} THEN r.state ELSE tag_sram[i].state]
  BY <1>0, <1>2, <1>3, <1>4 DEF AtomicLine
<1> HIDE DEF r
<1>7. CASE i = r.index /\ r.wstrb # {}
  <2>1. written = r.wstrb
    BY <1>7
  <2> HIDE DEF written
  <2>2. \A l \in Lane : AtomicLine(i).data[l] = data_sram[i][l]
    BY <1>5
  <2>3. Atomic!Written(AtomicLine(i), r) =
          [data |-> [l \in Lane |-> IF l \in r.wstrb THEN r.data[l] ELSE AtomicLine(i).data[l]],
           tag |-> r.tag, state |-> r.state]
    BY <1>7 DEF Atomic!Written
  <2>4. [l \in Lane |-> IF l \in r.wstrb THEN r.data[l] ELSE AtomicLine(i).data[l]] =
        [l \in Lane |-> IF l \in written THEN r.data[l] ELSE data_sram[i][l]]
    BY <2>1, <2>2
  <2> QED BY <1>6, <1>7, <2>1, <2>3, <2>4 DEF r
<1>8. CASE i # r.index \/ r.wstrb = {}
  <2>1. written = {}
    BY <1>8
  <2>2. AtomicLine(i)' = AtomicLine(i)
    BY <1>5, <1>6, <2>1
  <2> QED BY <1>8, <2>2 DEF Atomic!Written, r
<1> QED BY <1>7, <1>8

\* The steps that carry it out change nothing that can be told.
LEMMA WorkKeepsLines ==
  ASSUME AtomicInv, Tick, Work, NEW i \in Line
  PROVE  AtomicLine(i)' = AtomicLine(i)
<1> USE DEF AtomicInv, IInv, ServingInv
<1>0. /\ tag \in TagRegisters /\ data \in DataRegisters /\ data_sram \in [Line -> Word]
      /\ Running' = Running /\ Running # None /\ arb.busy
      /\ data.addr = Running.index /\ data.mode = Running.wstrb
      /\ Running.index \in Line /\ Running.wstrb \subseteq Lane
  BY EdgeTypes, RequestType, RequestAssumption DEF Work, DataWrites
<1>1. tag_sram' = tag_sram
  BY TagEdge DEF TagRead, TagCapture
<1>2. data.state \notin Resetting /\ data'.state \notin Resetting
  BY <1>0, DataEdge, TransferStep DEF OneAtATime, Resetting
<1> DEFINE written == IF Running.index = i THEN Running.wstrb ELSE {}
<1>3. \A l \in Lane : l \notin written => data_sram'[i][l] = data_sram[i][l]
  <2>1. CASE UNCHANGED <<data, data_sram>>
    BY <2>1
  <2>2. CASE DataTransfer
    <3>1. data_sram' = IF data.step \in data.mode
                       THEN [data_sram EXCEPT ![data.addr][data.step] = data.to_write]
                       ELSE data_sram
      BY <2>2, TransferStep
    <3> QED BY <1>0, <3>1 DEF Word
  <2> QED BY <2>1, <2>2, DataEdge
<1>4. AtomicLine(i) =
        [data |-> [l \in Lane |-> IF l \in written THEN Running.data[l] ELSE data_sram[i][l]],
         tag |-> IF written # {} THEN Running.tag ELSE tag_sram[i].tag,
         state |-> IF written # {} THEN Running.state ELSE tag_sram[i].state]
  BY <1>0, <1>2 DEF AtomicLine
<1>5. AtomicLine(i)' =
        [data |-> [l \in Lane |-> IF l \in written THEN Running.data[l] ELSE data_sram'[i][l]],
         tag |-> IF written # {} THEN Running.tag ELSE tag_sram[i].tag,
         state |-> IF written # {} THEN Running.state ELSE tag_sram[i].state]
  BY <1>0, <1>1, <1>2 DEF AtomicLine
<1> HIDE DEF written
<1> QED BY <1>3, <1>4, <1>5

\* By its response everything has been written.
LEMMA FinishKeepsLines ==
  ASSUME AtomicInv, Tick, Finish, NEW i \in Line
  PROVE  AtomicLine(i)' = AtomicLine(i)
<1> USE DEF AtomicInv, IInv, ServingInv
<1>0. /\ arb.busy /\ ~arb'.busy /\ Running # None /\ Running' = None
      /\ data.state = "MEM_RESP" /\ Running.wstrb \subseteq Lane
  BY WiresWhenBusy, RequestAssumption DEF Finish, Running, cm_valid_o, TypeOK
<1>1. tag_sram' = tag_sram /\ data_sram' = data_sram /\ data'.state = "IDLE"
  BY TagEdge, DataEdge DEF DataIdleRegisters
<1> DEFINE written == IF Running.index = i THEN Running.wstrb ELSE {}
<1>2. AtomicLine(i) =
        [data |-> [l \in Lane |-> IF l \in written THEN Running.data[l] ELSE data_sram[i][l]],
         tag |-> IF written # {} THEN Running.tag ELSE tag_sram[i].tag,
         state |-> IF written # {} THEN Running.state ELSE tag_sram[i].state]
  BY <1>0 DEF AtomicLine, Resetting
<1>3. AtomicLine(i)' = [data |-> [l \in Lane |-> data_sram[i][l]],
                        tag |-> tag_sram[i].tag, state |-> tag_sram[i].state]
  BY <1>0, <1>1 DEF AtomicLine, Resetting
<1>4. \A l \in written : data_sram[i][l] = Running.data[l]
  BY <1>0 DEF DataWrites
<1>5. written # {} => tag_sram[i] = [tag |-> Running.tag, state |-> Running.state]
  BY <1>0 DEF TagServes
<1> HIDE DEF written
<1>6. [l \in Lane |-> IF l \in written THEN Running.data[l] ELSE data_sram[i][l]]
        = [l \in Lane |-> data_sram[i][l]]
  BY <1>4
<1> QED BY <1>2, <1>3, <1>5, <1>6

LEMMA InitIsAtomic == Init => Atomic!Init
<1> SUFFICES ASSUME Init PROVE Atomic!Init
  OBVIOUS
<1>1. [i \in Line |-> AtomicLine(i)] = [i \in Line |-> ZeroLine]
  BY DEF Init, AtomicLine, Resetting, DataIdleRegisters
<1>2. [p \in Port |-> master[p].request] = [p \in Port |-> None]
  BY DEF Init
<1>3. arb.busy = FALSE /\ arb.last_grant = 0
  BY DEF Init
<1> QED BY <1>1, <1>2, <1>3 DEF Atomic!Init, Atomic!Port, Port

LEMMA StepIsAtomic ==
  ASSUME AtomicInv, Tick
  PROVE  Atomic!Next
<1> USE DEF AtomicInv, IInv, ServingInv
<1> DEFINE lines == [i \in Line |-> AtomicLine(i)]
           request == [p \in Port |-> master[p].request]
           owner == IF arb.busy THEN arb.active_port ELSE None
<1>0. /\ lines' = [i \in Line |-> AtomicLine(i)']
      /\ request' = [p \in Port |-> master'[p].request]
      /\ owner' = IF arb'.busy THEN arb'.active_port ELSE None
      /\ arb.active_port \in Port /\ Atomic!Port = Port
  BY DEF TypeOK, Atomic!Port, Port
<1>1. ASSUME NEW p \in Port,
             ~(owner = p /\ owner' = None)
      PROVE  \/ request'[p] = request[p]
             \/ request[p] = None /\ request'[p] \in Request
  <2>1. ~(ValidTo(p) /\ master[p].phase = "RESP")
    <3>1. CASE Finish
      BY <1>0, <1>1, <3>1 DEF Finish, ValidTo, TypeOK
    <3>2. CASE ~Finish
      BY <1>1, <3>2, EdgeKinds DEF Rest, Accept, Work, ValidTo
    <3> QED BY <3>1, <3>2
  <2>2. CASE master[p].request = None
    BY <2>2, MasterStep DEF Tick
  <2>3. CASE master[p].request # None
    BY <2>1, <2>3, MasterStep DEF Tick
  <2> QED BY <2>2, <2>3
<1>2. ASSUME NEW p \in Port, owner = p, owner' = None
      PROVE  request'[p] = request[p] \/ request'[p] \in Request \cup {None}
  <2>1. TypeOK'
    BY NextPreserves DEF Next
  <2> QED BY <2>1 DEF TypeOK
<1> DEFINE MastersHold ==
      \A p \in Port : \/ request'[p] = request[p]
                      \/ request[p] = None /\ request'[p] \in Request
                      \/ owner = p /\ owner' = None /\ request'[p] \in Request \cup {None}
<1>3. MastersHold
  BY <1>1, <1>2
<1>4. Atomic!MastersHold
  BY <1>0, <1>3 DEF Atomic!MastersHold
<1>5. CASE Rest
  <2>1. lines' = lines
    BY <1>0, <1>5, RestKeepsLines
  <2>2. owner' = owner /\ arb'.last_grant = arb.last_grant
    BY <1>5 DEF Rest
  <2> QED BY <1>4, <2>1, <2>2 DEF Atomic!Next
<1>6. ASSUME NEW p \in Port, Accept(p) PROVE Atomic!Next
  <2>1. /\ owner = None /\ owner' = p /\ arb'.last_grant = p
        /\ request[p] # None /\ request[p].index \in Line
    BY <1>6, RequestType, RequestAssumption DEF Accept
  <2>2. request[1 - p] # None => arb.last_grant # p
    BY <1>6 DEF Accept, Granted, Asks, Port
  <2>3. lines' = [lines EXCEPT ![request[p].index] = Atomic!Written(@, request[p])]
    <3>1. lines' = [i \in Line |-> IF i = request[p].index
                                   THEN Atomic!Written(lines[i], request[p]) ELSE lines[i]]
      BY <1>0, <1>6, AcceptWritesLine
    <3> QED BY <3>1
  <2>4. Atomic!Grant(p)
    BY <2>1, <2>2, <2>3 DEF Atomic!Grant
  <2> QED BY <1>0, <1>4, <2>4 DEF Atomic!Next
<1>7. CASE Work
  <2>1. lines' = lines
    BY <1>0, <1>7, WorkKeepsLines
  <2>2. owner' = owner /\ arb'.last_grant = arb.last_grant
    BY <1>7 DEF Work
  <2> QED BY <1>4, <2>1, <2>2 DEF Atomic!Next
<1>8. CASE Finish
  <2>1. lines' = lines
    BY <1>0, <1>8, FinishKeepsLines
  <2>2. owner # None /\ owner' = None /\ arb'.last_grant = arb.last_grant
    BY <1>0, <1>8, NoneAssumption DEF Finish, TypeOK
  <2>3. Atomic!Respond
    BY <2>1, <2>2 DEF Atomic!Respond
  <2> QED BY <1>4, <2>3 DEF Atomic!Next
<1> QED BY <1>5, <1>6, <1>7, <1>8, EdgeKinds

\* The two memories of cache_mem.sv, the lanes that mem128x32 takes from live
\* wires one by one and the turns that two_port_cache_mem.sv gives are one
\* memory that serves one access at a time, at once, and starts out cleared.
THEOREM MemoryIsAtomic == Spec => ImplementsAtomicMemory
<1>1. AtomicInv /\ [Next]_vars => [Atomic!Next]_Atomic!vars
  <2> SUFFICES ASSUME AtomicInv, [Next]_vars PROVE Atomic!Next \/ UNCHANGED Atomic!vars
    OBVIOUS
  <2>1. CASE Tick
    BY <2>1, StepIsAtomic
  <2>2. CASE UNCHANGED vars
    <3>1. \A i \in Line : AtomicLine(i)' = AtomicLine(i)
      BY <2>2 DEF vars, AtomicLine, Running
    <3>2. [i \in Line |-> AtomicLine(i)]' = [i \in Line |-> AtomicLine(i)]
      BY <3>1
    <3> QED BY <2>2, <3>2 DEF vars, Atomic!vars
  <2> QED BY <2>1, <2>2 DEF Next
<1> QED BY <1>1, InitIsAtomic, AtomicInvariant, PTL DEF Spec, ImplementsAtomicMemory, Atomic!Spec

\* An access is answered when it is over in both memories: a write has stored
\* every lane it selects, tag and state, and a read shows the line, every byte in
\* its place and tag, state and word of the same line.
THEOREM ResponsesAreWhole == Spec => []ResponsesAreAtomic
<1>1. AtomicInv => ResponsesAreAtomic
  <2> DEFINE i == Running.index
  <2> SUFFICES ASSUME AtomicInv, NEW p \in Port, ValidTo(p)
               PROVE  /\ AtomicLine(i) = [data |-> data_sram[i], tag |-> tag_sram[i].tag,
                                          state |-> tag_sram[i].state]
                      /\ Running.wstrb = {} =>
                           AtomicLine(i) = [data |-> data.read, tag |-> tag.read.tag,
                                            state |-> tag.read.state]
    BY DEF ResponsesAreAtomic
  <2> USE DEF AtomicInv, IInv, ServingInv
  <2>1. arb.busy /\ tag.state = "MEM_RESP" /\ data.state = "MEM_RESP"
    BY DEF ValidTo, cm_valid_o
  <2>2. i \in Line
    BY <2>1, WiresWhenBusy, RequestType, RequestAssumption
  <2>3. data_sram[i] \in [Lane -> Byte]
    BY <2>2 DEF TypeOK, Word
  <2>4. Running.wstrb # {} =>
          tag_sram[i].tag = Running.tag /\ tag_sram[i].state = Running.state
    BY <2>1 DEF TagServes
  <2>5. AtomicLine(i).data = data_sram[i]
    <3>1. \A l \in Running.wstrb : data_sram[i][l] = Running.data[l]
      BY <2>1 DEF DataWrites
    <3>2. [l \in Lane |-> IF l \in Running.wstrb THEN Running.data[l] ELSE data_sram[i][l]]
            = data_sram[i]
      BY <2>3, <3>1
    <3> QED BY <2>1, <3>2 DEF AtomicLine, Resetting, OneAtATime
  <2>6. AtomicLine(i) = [data |-> data_sram[i], tag |-> tag_sram[i].tag,
                         state |-> tag_sram[i].state]
    BY <2>1, <2>4, <2>5 DEF AtomicLine, Resetting, OneAtATime
  <2>7. Running.wstrb = {} => data.read = data_sram[i] /\ tag.read = tag_sram[i]
    BY <2>1 DEF DataReads, TagServes
  <2> QED BY <2>6, <2>7
<1> QED BY <1>1, AtomicInvariant, PTL

================================================================================
