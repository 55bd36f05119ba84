---------------------------- MODULE TwoPortCacheMem ----------------------------
(***************************************************************************)
(* The cache memory of the chip, clock edge by clock edge:                 *)
(* two_port_cache_mem.sv, which gives two ports their turn; cache_mem.sv,  *)
(* which joins a memory for tag and state (mem128x6.sv) and one for the    *)
(* word (mem128x32.sv); and the counter of chip_core.sv that keeps the     *)
(* processor in reset while both clear themselves.                         *)
(*                                                                         *)
(* The two memories accept a request each on its own.  The word's memory   *)
(* then goes through its four lanes, taking the bytes to write from the    *)
(* request's wires as it goes; the tag's memory has written in the cycle   *)
(* it accepted.  All registers change in one action, Tick.  Registers that *)
(* are written before they are read again have their reset value while     *)
(* their memory is idle.  The SRAM macros are those of cocotb/models: a    *)
(* read is there after the edge, and a write shows what was there before.  *)
(***************************************************************************)
EXTENDS Naturals

CONSTANTS NumLines,  \* rows of the tag SRAM; the word's SRAM has four per line
          Byte, ZeroByte,
          Tag, ZeroTag,
          LineState, Invalid,  \* the states of a line, and the one encoded as 0
          Request,   \* the requests of the two masters
          None       \* a valid wire that is low

Line == 0 .. NumLines - 1
Lane == 0 .. 3
Word == [Lane -> Byte]
Entry == [tag : Tag, state : LineState]

ASSUME NumLinesAssumption == NumLines \in Nat \ {0}
ASSUME ZeroAssumption == ZeroByte \in Byte /\ ZeroTag \in Tag /\ Invalid \in LineState
ASSUME RequestAssumption ==
  /\ Request \subseteq [index : Line, wstrb : SUBSET Lane, data : Word,
                        tag : Tag, state : LineState]
  /\ None \notin Request

VARIABLES mem_init_count,  \* chip_core.sv's counter
          master,     \* master[p]: the request on port p's wires, and whether
                      \*   its machine waits for ready (REQ) or valid (RESP)
          arb,        \* busy, active_port, last_grant
          tag,        \* the registers of mem128x6
          data,       \* the registers of mem128x32; step counts MEM_REQ_0 .. 4
          tag_sram, data_sram

vars == <<mem_init_count, master, arb, tag, data, tag_sram, data_sram>>

Port == {0, 1}
ASSUME NoneAssumption == None \notin Port

ZeroWord == [l \in Lane |-> ZeroByte]
ZeroEntry == [tag |-> ZeroTag, state |-> Invalid]
ZeroLine == [data |-> ZeroWord, tag |-> ZeroTag, state |-> Invalid]

\* Mutant of MEM_INIT_CYCLES: the cycle of RESET_SRAMS is forgotten.
MEM_INIT_CYCLES_ClearOnly == 4 * NumLines

MEM_INIT_CYCLES == 1 + 4 * NumLines

TypeOK ==
  /\ mem_init_count \in 0 .. MEM_INIT_CYCLES
  /\ master \in [Port -> [request : Request \cup {None}, phase : {"REQ", "RESP"}]]
  /\ arb \in [busy : BOOLEAN, active_port : Port, last_grant : Port]
  /\ tag \in [state : {"RESET_SRAMS", "RESET_DATA", "IDLE", "MEM_REQ", "MEM_REQ_WAIT", "MEM_RESP"},
              reset_addr : Line, addr : Line, read : Entry]
  /\ data \in [state : {"RESET_SRAMS", "RESET_DATA", "IDLE", "MEM_REQ", "MEM_RESP"},
               reset_addr : 0 .. 4 * NumLines - 1, addr : Line, step : 0 .. 4,
               mode : SUBSET Lane, to_write : Byte, read : Word, q : Byte]
  /\ tag_sram \in [Line -> Entry]
  /\ data_sram \in [Line -> Word]

TagIdleRegisters == [state |-> "IDLE", reset_addr |-> 0, addr |-> 0, read |-> ZeroEntry]
DataIdleRegisters == [state |-> "IDLE", reset_addr |-> 0, addr |-> 0, step |-> 0, mode |-> {},
                      to_write |-> ZeroByte, read |-> ZeroWord, q |-> ZeroByte]

\* Reset does not touch the SRAMs.
Init ==
  /\ mem_init_count = 0
  /\ master = [p \in Port |-> [request |-> None, phase |-> "REQ"]]
  /\ arb = [busy |-> FALSE, active_port |-> 0, last_grant |-> 0]
  /\ tag = [TagIdleRegisters EXCEPT !.state = "RESET_SRAMS"]
  /\ data = [DataIdleRegisters EXCEPT !.state = "RESET_SRAMS"]
  /\ tag_sram \in [Line -> Entry]
  /\ data_sram \in [Line -> Word]

--------------------------------------------------------------------------------
(* The wires of the two-port memory: functions of the registers. *)

memory_ready == mem_init_count = MEM_INIT_CYCLES

Asks(p) == master[p].request # None

\* Mutant of Granted: port 0 first.
Granted_FixedPriority(p) == ~arb.busy /\ Asks(p) /\ (Asks(1 - p) => p = 0)

\* grant_p0, grant_p1.
Granted(p) == ~arb.busy /\ Asks(p) /\ (Asks(1 - p) => arb.last_grant # p)

\* Mutant of Passes: the multiplexer is not locked by a running transaction.
Passes_Unlocked(p) == Asks(p) /\ (Asks(1 - p) => arb.last_grant # p)

\* The multiplexer passes port p's wires on; they are locked while busy.
Passes(p) == IF arb.busy THEN arb.active_port = p ELSE Granted(p)

\* cm_valid_i and its payload.
cm_request == IF Passes(0) THEN master[0].request
              ELSE IF Passes(1) THEN master[1].request ELSE None

cm_ready_o == tag.state = "IDLE" /\ data.state = "IDLE"

cm_valid_o == tag.state = "MEM_RESP" /\ data.state = "MEM_RESP"

ReadyTo(p) == Passes(p) /\ cm_ready_o
ValidTo(p) == arb.busy /\ arb.active_port = p /\ cm_valid_o

\* The master whose transaction runs takes the response when it sees it.
cm_ready_i == \E p \in Port : ValidTo(p) /\ master[p].phase = "RESP"

--------------------------------------------------------------------------------
(* Reset gating, masters and arbitration. *)

CountCycles == mem_init_count' = IF memory_ready THEN mem_init_count ELSE mem_init_count + 1

\* The processor is in reset before; and the directory, which takes this
\* cache to hold nothing yet, has nothing to snoop.
MayAsk == memory_ready

\* What a state machine of the cache controller may drive next: it holds its
\* wires from a _REQ state to the end of the _RESP state, after which it may
\* ask again at once.
NextWires(p) ==
  CASE ~Asks(p) \/ (ValidTo(p) /\ master[p].phase = "RESP") ->
         {[request |-> r, phase |-> "REQ"] : r \in {None} \cup (IF MayAsk THEN Request ELSE {})}
    [] Asks(p) /\ master[p].phase = "REQ" ->
         {[master[p] EXCEPT !.phase = IF ReadyTo(p) THEN "RESP" ELSE "REQ"]}
    [] OTHER -> {master[p]}

DriveMasters ==
  \E wires0 \in NextWires(0), wires1 \in NextWires(1) :
    master' = [p \in Port |-> IF p = 0 THEN wires0 ELSE wires1]

\* busy, active_port and last_grant.
Arbitrate ==
  \/ /\ ~arb.busy
     /\ cm_request # None /\ cm_ready_o
     /\ \E p \in Port : /\ Granted(p)
                        /\ arb' = [busy |-> TRUE, active_port |-> p, last_grant |-> p]
  \/ /\ ~arb.busy
     /\ ~(cm_request # None /\ cm_ready_o)
     /\ UNCHANGED arb
  \/ /\ arb.busy
     /\ arb' = [arb EXCEPT !.busy = ~(cm_valid_o /\ cm_ready_i)]

--------------------------------------------------------------------------------
(* mem128x6: tag and state. *)

TagReset == /\ tag.state = "RESET_SRAMS"
            /\ tag' = [tag EXCEPT !.state = "RESET_DATA"]
            /\ UNCHANGED tag_sram

TagClear == /\ tag.state = "RESET_DATA"
            /\ tag_sram' = [tag_sram EXCEPT ![tag.reset_addr] = ZeroEntry]
            /\ tag' = IF tag.reset_addr = NumLines - 1 THEN TagIdleRegisters
                      ELSE [tag EXCEPT !.reset_addr = @ + 1]

\* The write is done in the cycle of the accept.
TagAccept ==
  /\ tag.state = "IDLE"
  /\ cm_request # None
  /\ tag' = [tag EXCEPT !.state = "MEM_REQ", !.addr = cm_request.index]
  /\ tag_sram' = IF cm_request.wstrb = {} THEN tag_sram
                 ELSE [tag_sram EXCEPT ![cm_request.index] =
                         [tag |-> cm_request.tag, state |-> cm_request.state]]

TagWait == /\ tag.state = "IDLE"
           /\ cm_request = None
           /\ UNCHANGED <<tag, tag_sram>>

TagRead == /\ tag.state = "MEM_REQ"
           /\ tag' = [tag EXCEPT !.state = "MEM_REQ_WAIT"]
           /\ UNCHANGED tag_sram

TagCapture == /\ tag.state = "MEM_REQ_WAIT"
              /\ tag' = [tag EXCEPT !.state = "MEM_RESP", !.read = tag_sram[tag.addr]]
              /\ UNCHANGED tag_sram

\* The response waits for the word's memory and for the master.
TagRespond == /\ tag.state = "MEM_RESP"
              /\ tag' = IF cm_ready_i /\ data.state = "MEM_RESP" THEN TagIdleRegisters ELSE tag
              /\ UNCHANGED tag_sram

TagTick == \/ TagReset \/ TagClear \/ TagAccept \/ TagWait
           \/ TagRead \/ TagCapture \/ TagRespond

--------------------------------------------------------------------------------
(* mem128x32: the word, one lane at a time. *)

\* mem_wdata_i's byte for lane l, as the wires are now.
WdataWire(l) == IF cm_request = None THEN ZeroByte ELSE cm_request.data[l]

DataReset == /\ data.state = "RESET_SRAMS"
             /\ data' = [data EXCEPT !.state = "RESET_DATA"]
             /\ UNCHANGED data_sram

DataClear ==
  /\ data.state = "RESET_DATA"
  /\ data_sram' = [data_sram EXCEPT ![data.reset_addr \div 4][data.reset_addr % 4] = data.to_write]
  /\ data' = IF data.reset_addr = 4 * NumLines - 1 THEN DataIdleRegisters
             ELSE [data EXCEPT !.reset_addr = @ + 1]

DataAccept ==
  /\ data.state = "IDLE"
  /\ cm_request # None
  /\ data' = [data EXCEPT !.state = "MEM_REQ", !.step = 0, !.addr = cm_request.index,
                          !.mode = cm_request.wstrb, !.to_write = WdataWire(0)]
  /\ UNCHANGED data_sram

DataWait == /\ data.state = "IDLE"
            /\ cm_request = None
            /\ UNCHANGED <<data, data_sram>>

\* Mutant of ShiftIn: the first byte ends up on top.
ShiftIn_Reversed(word, byte) == [l \in Lane |-> IF l = 0 THEN byte ELSE word[l - 1]]

\* {data_read_from_sram, data_read_q[31:8]}
ShiftIn(word, byte) == [l \in Lane |-> IF l = 3 THEN byte ELSE word[l + 1]]

\* MEM_REQ_0 .. MEM_REQ_4.  Step k writes lane k with the byte taken a step
\* before, has the SRAM read lane k, and shifts in what it read in step k - 1.
DataTransfer ==
  /\ data.state = "MEM_REQ"
  /\ data_sram' = IF data.step \in data.mode
                  THEN [data_sram EXCEPT ![data.addr][data.step] = data.to_write]
                  ELSE data_sram
  /\ data' = [data EXCEPT
       !.state = IF data.step = 4 THEN "MEM_RESP" ELSE @,
       !.step = IF @ = 4 THEN 0 ELSE @ + 1,
       !.to_write = IF data.step < 3 THEN WdataWire(data.step + 1) ELSE @,
       !.read = IF data.step = 0 THEN @ ELSE ShiftIn(@, data.q),
       !.q = IF data.step < 4 THEN data_sram[data.addr][data.step] ELSE @]

DataRespond == /\ data.state = "MEM_RESP"
               /\ data' = IF cm_ready_i THEN DataIdleRegisters ELSE data
               /\ UNCHANGED data_sram

DataTick == DataReset \/ DataClear \/ DataAccept \/ DataWait \/ DataTransfer \/ DataRespond

--------------------------------------------------------------------------------
(* One clock edge. *)

Tick == CountCycles /\ TagTick /\ DataTick /\ Arbitrate /\ DriveMasters

Next == Tick

Spec == Init /\ [][Next]_vars

\* The clock runs.
FairSpec == Spec /\ WF_vars(Tick)

--------------------------------------------------------------------------------
(* Properties. *)

Resetting == {"RESET_SRAMS", "RESET_DATA"}

(***************************************************************************)
(* chip_core.sv:51-52: "Hold the CPU in reset until the longest clear      *)
(* sequence, mem128x32, has reached IDLE."  The count is a constant of one *)
(* file, the two clear sequences are in two others.                        *)
(***************************************************************************)
ClearedBeforeUse ==
  memory_ready => tag.state \notin Resetting /\ data.state \notin Resetting

\* The request of the running transaction.
Running == IF arb.busy THEN master[arb.active_port].request ELSE None

\* The line at i as it will be when the running transaction is over: what
\* both SRAMs hold, with what the request still has to write.
AtomicLine(i) ==
  LET written == IF Running # None /\ Running.index = i THEN Running.wstrb ELSE {}
  IN IF data.state \in Resetting THEN ZeroLine
     ELSE [data |-> [l \in Lane |-> IF l \in written THEN Running.data[l] ELSE data_sram[i][l]],
           tag |-> IF written # {} THEN Running.tag ELSE tag_sram[i].tag,
           state |-> IF written # {} THEN Running.state ELSE tag_sram[i].state]

Atomic == INSTANCE AtomicCacheMem WITH
  Index <- Line,
  lines <- [i \in Line |-> AtomicLine(i)],
  request <- [p \in Port |-> master[p].request],
  owner <- IF arb.busy THEN arb.active_port ELSE None,
  last_grant <- arb.last_grant

(***************************************************************************)
(* The two memories, the lanes and the live wires together are one memory  *)
(* that serves one access at a time, and starts out cleared.               *)
(***************************************************************************)
ImplementsAtomicMemory == Atomic!Spec

(***************************************************************************)
(* A master sees valid only when its access is over in both memories: no   *)
(* lane is left to write, and what a read shows is the line, every byte in *)
(* its place, word, tag and state of the same line.  (In the response to a *)
(* write the word is the one there was before; no machine looks at it.)    *)
(***************************************************************************)
ResponsesAreAtomic ==
  \A p \in Port : ValidTo(p) =>
    LET i == Running.index
    IN /\ AtomicLine(i) = [data |-> data_sram[i], tag |-> tag_sram[i].tag,
                           state |-> tag_sram[i].state]
       /\ Running.wstrb = {} =>
            AtomicLine(i) = [data |-> data.read, tag |-> tag.read.tag, state |-> tag.read.state]

\* No access waits for ever: not for a memory that has accepted half of it,
\* and not for the other port.
AccessesComplete == \A p \in Port : Asks(p) ~> ValidTo(p)

================================================================================
