--------------------------- MODULE ControllerBench ----------------------------
(***************************************************************************)
(* cocotb/cache_controller_tb.py: the RTL's cache controller in lockstep   *)
(* with a golden model, which is a cache of the emulator (cache.py) over a *)
(* directory that answers every request at once with the address asked     *)
(* for.  The bench gives both the same accesses, flushes and snoops, takes *)
(* what the controller sends, answers it, and compares.                    *)
(*                                                                         *)
(* Its coroutines come in two kinds.  one_read, one_write, one_snoop and   *)
(* one_flush run by themselves and answer what the golden model expects;   *)
(* cpu_op_concurrent and snoop_op_concurrent run together, at different    *)
(* indices, and outbound_bus_director answers what it sees.  The emulated  *)
(* cache does not suspend over this directory, so an access to it is one   *)
(* step.                                                                   *)
(***************************************************************************)
EXTENDS CacheController, Sequences

CONSTANTS AddrWord,  \* AddrWord[a]: the address a as a word
          Workload   \* the accesses the bench makes

ASSUME AddrWordAssumption == AddrWord \in [Addr -> Word]
ASSUME WorkloadAssumption == Workload \subseteq Access
ASSUME NoTaskAssumption == None \notin [ack : Message, next : MSIState]

VARIABLES golden,        \* golden[i]: the golden model's line at index i
          captured,      \* captured_dir_requests: those the controller has yet to send
                         \* (of one_flush, expected_evict_*)
          golden_rdata,  \* golden_resp.mem_rdata
          snoop_task,    \* the snoop in progress: the answer expected, the line's next state
          director       \* outbound_bus_director is running

benchVars == <<golden, captured, golden_rdata, snoop_task, director>>
vars == <<controllerVars, benchVars>>

--------------------------------------------------------------------------------
(* The golden model. *)

Request(cmd, a, data) == [snoop |-> FALSE, cmd |-> cmd, addr |-> a, data |-> data]

\* _handle_tag_mismatch: a valid line with another tag is evicted.
Mismatch(g, a) == g.tag # a.tag /\ g.state # "I"

\* The transition of the access, on the line that a mismatch has invalidated.
Transition(g, access) ==
  OnProcessorEvent(IF Mismatch(g, access.addr) THEN "I" ELSE g.state,
                   IF access.wstrb = {} THEN "PR_RD" ELSE "PR_WR")

\* What reaches dummy_directory_handler, but for the requests that are not valid.
GoldenRequests(g, access) ==
  (IF Mismatch(g, access.addr)
   THEN <<Request(IF g.state = "M" THEN "EVICT_DIRTY" ELSE "EVICT_CLEAN",
                  [tag |-> g.tag, index |-> access.addr.index], g.data)>>
   ELSE <<>>)
  \o (IF Transition(g, access).cmd = "NULL" THEN <<>>
      ELSE <<Request(Transition(g, access).cmd, access.addr, ZeroWord)>>)

\* _handle_cpu_read and _handle_cpu_write: whatever a miss or an upgrade is
\* answered becomes the line, and then the bytes written are replaced.
GoldenLine(g, access) ==
  LET found == IF Transition(g, access).cmd = "NULL" THEN g.data ELSE AddrWord[access.addr]
  IN [tag |-> access.addr.tag, state |-> Transition(g, access).next,
      data |-> ApplyWstrb(found, access.wdata, access.wstrb)]

\* is_present of one_flush.  (A ghost for one_snoop is a line with another tag.)
Present(a) == golden[a.index].tag = a.tag /\ golden[a.index].state # "I"

--------------------------------------------------------------------------------
(* The bench starts something. *)

NoCpuOp == mem = None /\ flush = None
Quiet == NoCpuOp /\ snoop_task = None

\* Is something going on at index i?
InUse(i) == \/ mem # None /\ mem.addr.index = i
            \/ flush # None /\ flush.index = i
            \/ snoop_task # None /\ snoop_task.ack.addr.index = i

controllerElse == UNCHANGED <<cpu, snp, line, port, arbVars, sent, bus>>

\* The access is raised, and the golden model makes it.
Raise(access) ==
  LET i == access.addr.index
  IN /\ access \in Workload
     /\ mem' = access
     /\ golden' = [golden EXCEPT ![i] = GoldenLine(@, access)]
     /\ captured' = GoldenRequests(golden[i], access)
     /\ golden_rdata' = IF access.wstrb = {} THEN GoldenLine(golden[i], access).data ELSE ZeroWord
     /\ controllerElse /\ UNCHANGED <<flush, snoop, snoop_task, director>>

OneRead(access) ==
  /\ ~director /\ Quiet
  /\ access.wstrb = {}
  /\ Raise(access)

OneWrite(access) ==
  /\ ~director /\ Quiet
  /\ access.wstrb # {}
  /\ Raise(access)

CpuOpConcurrent(access) ==
  /\ director /\ NoCpuOp
  /\ ~InUse(access.addr.index)
  /\ Raise(access)

OneFlush(a) ==
  /\ ~director /\ Quiet
  /\ flush' = a
  /\ captured' =
       IF Present(a)
       THEN <<Request(IF golden[a.index].state = "M" THEN "EVICT_DIRTY" ELSE "EVICT_CLEAN",
                      a, golden[a.index].data)>>
       ELSE <<>>
  /\ controllerElse /\ UNCHANGED <<mem, snoop, golden, golden_rdata, snoop_task, director>>

\* What the snoop is to be answered, and the state it is to leave.
SnoopExpectation(a, cmd) ==
  LET g == golden[a.index]
      tr == OnSnoopEvent(g.state, cmd)
      ghost == g.tag # a.tag
  IN [ack |-> [snoop |-> TRUE, cmd |-> cmd, addr |-> a,
               data |-> IF ~ghost /\ tr.flush THEN g.data ELSE ZeroWord],
      next |-> IF ghost THEN g.state ELSE tr.next]

DriveSnoop(a, cmd) ==
  /\ snoop' = [addr |-> a, cmd |-> cmd]
  /\ snoop_task' = SnoopExpectation(a, cmd)
  /\ controllerElse /\ UNCHANGED <<mem, flush, golden, captured, golden_rdata, director>>

OneSnoop(a, cmd) == ~director /\ Quiet /\ DriveSnoop(a, cmd)

SnoopOpConcurrent(a, cmd) ==
  /\ director
  /\ snoop_task = None
  /\ ~InUse(a.index)
  /\ DriveSnoop(a, cmd)

\* The tests start and cancel the director while nothing is going on.
SwitchDirector ==
  /\ Quiet
  /\ director' = ~director
  /\ controllerElse /\ UNCHANGED <<mem, flush, snoop, golden, captured, golden_rdata, snoop_task>>

\* reset_dut, at the start of every test: the chip's memories are cleared, but
\* flush_all only invalidates the golden model's lines, whose tags remain.
ResetDut ==
  /\ ~director /\ Quiet
  /\ cpu' = CpuReset
  /\ snp' = SnpReset
  /\ line' = [i \in Index |-> ZeroLine]
  /\ port' = [owner |-> None, last_grant |-> 0]
  /\ arb_state' = "IDLE" /\ arb_rr' = 0 /\ arb_cache' = None
  /\ sent' = None /\ bus' = None
  /\ golden' = [i \in Index |-> [golden[i] EXCEPT !.state = "I"]]
  /\ captured' = <<>>
  /\ UNCHANGED <<mem, flush, snoop, golden_rdata, snoop_task, director>>

--------------------------------------------------------------------------------
(* The bench takes what the controller sends. *)

takeElse == UNCHANGED <<cpu, snp, line, port, arbVars, mem, flush, snoop, golden_rdata, director>>

\* A coroutine that runs by itself takes a request when the golden model has
\* made one, and answers the golden model's.  A clean eviction is not answered.
TakeExpected ==
  /\ ~director
  /\ sent # None /\ ~sent.snoop
  /\ captured # <<>>
  /\ captured' = Tail(captured)
  /\ sent' = None
  /\ LET dir_req == Head(captured)
     IN bus' = CASE dir_req.cmd \in BusCmd -> [cmd |-> dir_req.cmd, data |-> AddrWord[mem.addr]]
                 [] dir_req.cmd = "EVICT_DIRTY" -> [cmd |-> "EVICT_DIRTY", data |-> ZeroWord]
                 [] OTHER -> bus
  /\ takeElse /\ UNCHANGED <<golden, snoop_task>>

\* An eviction, if there is one, and then the miss.
OneReadTakes == mem # None /\ mem.wstrb = {} /\ TakeExpected

\* The same, or nothing at all: a write to a modified line.
OneWriteTakes == mem # None /\ mem.wstrb # {} /\ TakeExpected

\* An eviction, if the line is there.
OneFlushTakes == flush # None /\ TakeExpected

(***************************************************************************)
(* outbound_bus_director: the port is always ready, but the director does  *)
(* not look at it while it waits for the controller to take an answer.     *)
(***************************************************************************)
Director ==
  /\ director
  /\ sent # None /\ ~sent.snoop
  /\ bus' = CASE bus # None -> bus
              [] bus = None /\ sent.cmd \in BusCmd -> [cmd |-> sent.cmd, data |-> AddrWord[sent.addr]]
              [] bus = None /\ sent.cmd = "EVICT_DIRTY" -> [cmd |-> "EVICT_DIRTY", data |-> ZeroWord]
              [] OTHER -> bus
  /\ captured' = IF captured = <<>> THEN captured ELSE Tail(captured)
  /\ sent' = None
  /\ takeElse /\ UNCHANGED <<golden, snoop_task>>

\* The end of one_snoop and of snoop_op_concurrent: the answer has been seen.
SnoopSeen ==
  /\ sent # None /\ sent.snoop
  /\ snoop_task # None
  /\ golden' = [golden EXCEPT ![snoop_task.ack.addr.index].state = snoop_task.next]
  /\ snoop_task' = None
  /\ sent' = None
  /\ takeElse /\ UNCHANGED <<bus, captured>>

\* The controller.  When it has acknowledged an access, the coroutine and its
\* golden_resp end (LinesAreGolden shows that captured_dir_requests.clear()
\* finds nothing to clear); when a flush, one_flush first invalidates the golden
\* model's line, if it was there.
Controller ==
  /\ ControllerStep
  /\ golden' = IF flush # None /\ flush' = None /\ Present(flush)
               THEN [golden EXCEPT ![flush.index].state = "I"]
               ELSE golden
  /\ golden_rdata' = IF mem' = None THEN ZeroWord ELSE golden_rdata
  /\ UNCHANGED <<captured, snoop_task, director>>

--------------------------------------------------------------------------------

Init ==
  /\ ControllerInit
  /\ golden = [i \in Index |-> ZeroLine]
  /\ captured = <<>>
  /\ golden_rdata = ZeroWord
  /\ snoop_task = None
  /\ director = FALSE

CpuCoroutine == \/ \E access \in Workload : OneRead(access) \/ OneWrite(access)
                                            \/ CpuOpConcurrent(access)
                \/ \E a \in Addr : OneFlush(a)

SnoopCoroutine ==
  \E a \in Addr, cmd \in SnoopEvent : OneSnoop(a, cmd) \/ SnoopOpConcurrent(a, cmd)

\* There is no link here: what the controller sends is seen in the same cycle.
Next ==
  \/ OneReadTakes \/ OneWriteTakes \/ OneFlushTakes \/ Director \/ SnoopSeen
  \/ /\ sent = None
     /\ CpuCoroutine \/ SnoopCoroutine \/ SwitchDirector \/ ResetDut \/ Controller

Spec == Init /\ [][Next]_vars

--------------------------------------------------------------------------------

(***************************************************************************)
(* "Expected ..., got ...": command by command and in the same order, the  *)
(* controller asks the directory for what the emulated cache asks for,     *)
(* evicts the address and the data it evicts, and answers a snoop as the   *)
(* transition table says of the golden model's line, ghosts with nothing;  *)
(* also while a snoop and an access contend for memory and port.           *)
(***************************************************************************)
RequestsAreGolden ==
  sent # None =>
    IF sent.snoop THEN snoop_task # None /\ sent = Packet(snoop_task.ack)
                  ELSE captured # <<>> /\ sent = Packet(Head(captured))

(***************************************************************************)
(* The two are the same cache: wherever nothing is going on, the chip's    *)
(* memory has the golden model's line (a line that is not valid may keep   *)
(* another tag, and does after a reset), and after every access there is   *)
(* nothing that only the golden model asked for.                           *)
(***************************************************************************)
LinesAreGolden ==
  /\ NoCpuOp => captured = <<>>
  /\ \A i \in Index : ~InUse(i) =>
       /\ line[i].state = golden[i].state
       /\ line[i].state # "I" => line[i] = golden[i]

\* one_read and cpu_op_concurrent: a read gives the golden model's data.
ReadsAreGolden ==
  [][cpu.state = "CPU_READ_RESP" /\ cpu'.state = "CPU_IDLE" => ReadData = golden_rdata]_vars

================================================================================
