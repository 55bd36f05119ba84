--------------------------- MODULE ControllerSystem ----------------------------
(***************************************************************************)
(* One cache controller with its processor, its serial link and the        *)
(* directory at the other end.  The directory is not in the repository:    *)
(* it is modelled from what the controller and its testbench expect of it  *)
(* (cache_controller_tb.py:555-607) and from the emulated one              *)
(* (directory.py).  It handles one transaction at a time; while it waits   *)
(* for the answer to a snoop, the cache's next request stays in a lossy    *)
(* pipe stage (cache_controller.sv:125-127, lossy_pipe_stage.sv).          *)
(***************************************************************************)
EXTENDS CacheController

CONSTANTS Workload,        \* the accesses the processor may make
          SameIndexSnoops  \* may a snoop and an access meet at one index?

ASSUME WorkloadAssumption == Workload \subseteq Access

VARIABLES request,  \* the directory's request pipe stage
          pending,  \* the snoop the directory waits for, or None
          perm,     \* perm[a]: what the directory takes this cache to hold
          home,     \* home[a]: the word the directory would supply
          latest    \* latest[a]: history, the last word any core has stored

dirVars == <<request, pending, perm, home>>
vars == <<controllerVars, dirVars, latest>>

Update(f, a, v) == [f EXCEPT ![a] = v]

TypeOK ==
  /\ ControllerTypeOK
  /\ request \in Message \cup {None}
  /\ pending \in Snoop \cup {None}
  /\ perm \in [Addr -> MSIState]
  /\ home \in [Addr -> Word]
  /\ latest \in [Addr -> Word]

Init ==
  /\ ControllerInit
  /\ request = None
  /\ pending = None
  /\ perm = [a \in Addr |-> "I"]
  /\ home = [a \in Addr |-> ZeroWord]
  /\ latest = [a \in Addr |-> ZeroWord]

--------------------------------------------------------------------------------
(* The processor: one transfer at a time, held until it is ready. *)

NoTransfer == mem = None /\ flush = None

\* After a flush is acknowledged, sp_addr_handler keeps flush_valid high for
\* another one (SpAddrHandler): the next access may come while it is running.
NoTransferToWaitFor == mem = None /\ (flush # None => cpu.state # "CPU_IDLE")

\* Without SameIndexSnoops, nothing is asked of an index being snooped.
MayUse(a) == pending # None /\ pending.addr.index = a.index => SameIndexSnoops

RaiseAccess(access) ==
  /\ NoTransferToWaitFor
  /\ MayUse(access.addr)
  /\ mem' = access
  /\ UNCHANGED <<cpu, snp, line, port, arbVars, flush, bus, snoop, sent, dirVars, latest>>

RaiseFlush(a) ==
  /\ NoTransfer
  /\ MayUse(a)
  /\ flush' = a
  /\ UNCHANGED <<cpu, snp, line, port, arbVars, mem, bus, snoop, sent, dirVars, latest>>

--------------------------------------------------------------------------------
(* The controller.  A store counts from the cycle it is acknowledged in. *)

StoreAcked == cpu.state = "CPU_WRITE_RESP" /\ cpu'.state = "CPU_IDLE"

Stepped(step) ==
  /\ step
  /\ latest' = IF StoreAcked
               THEN [latest EXCEPT ![cpu.addr] = ApplyWstrb(@, cpu.wdata, cpu.wstrb)]
               ELSE latest
  /\ UNCHANGED dirVars

Controller == Stepped(ControllerStep)

--------------------------------------------------------------------------------
(* The directory. *)

linkElse == UNCHANGED <<cpu, snp, line, port, arbVars, mem, flush>>

\* A request arrives, and displaces one that is still in the pipe stage.
RequestArrives ==
  /\ sent # None
  /\ ~sent.snoop
  /\ request' = sent
  /\ sent' = None
  /\ linkElse /\ UNCHANGED <<bus, snoop, pending, perm, home, latest>>

\* The answer to the snoop: a modified line's data are the current ones.
SnoopAnswered ==
  /\ sent # None
  /\ sent.snoop
  /\ pending # None
  /\ LET a == pending.addr
     IN /\ home' = IF perm[a] = "M" THEN Update(home, a, sent.data) ELSE home
        /\ perm' = Update(perm, a, IF pending.cmd = "BUS_RD" THEN "S" ELSE "I")
  /\ pending' = None
  /\ sent' = None
  /\ linkElse /\ UNCHANGED <<bus, snoop, request, latest>>

\* Between snoops the directory takes the request up and answers it with the
\* command's own code; a clean eviction is not answered.
Serve ==
  /\ request # None
  /\ pending = None
  /\ request' = None
  /\ LET a == request.addr
     IN /\ perm' = Update(perm, a, CASE request.cmd = "BUS_RD" -> "S"
                                     [] request.cmd \in {"BUS_RDX", "BUS_UPGR"} -> "M"
                                     [] OTHER -> "I")
        /\ home' = IF request.cmd = "EVICT_DIRTY" THEN Update(home, a, request.data) ELSE home
        /\ bus' = IF request.cmd = "EVICT_CLEAN" THEN bus
                  ELSE [cmd |-> request.cmd,
                        data |-> IF request.cmd \in {"BUS_RD", "BUS_RDX"}
                                 THEN home[a] ELSE ZeroWord]
  /\ linkElse /\ UNCHANGED <<snoop, sent, pending, latest>>

\* The cache is between the answer to a miss and the refill.
Refilling ==
  \/ bus # None
  \/ cpu.state \in {"CPU_READ_MISS_UPDATE_LINE_REQ", "CPU_READ_MISS_UPDATE_LINE_RESP"}
  \/ (cpu.state \in {"CPU_WRITE_REQ", "CPU_WRITE_RESP"} /\ OnProcessor.cmd # "NULL")

IndexInUse(i) == \/ (mem # None /\ mem.addr.index = i)
                 \/ (flush # None /\ flush.index = i)

\* On behalf of another core, the directory snoops an address it takes this
\* cache to hold: a BUS_RD goes to an owner, a BUS_UPGR to a sharer.  The next
\* message takes the link longer than the refill takes the cache.
SendSnoop(a, cmd) ==
  /\ pending = None
  /\ cmd \in CASE perm[a] = "M" -> {"BUS_RD", "BUS_RDX"}
               [] perm[a] = "S" -> {"BUS_RDX", "BUS_UPGR"}
               [] OTHER -> {}
  /\ ~Refilling
  /\ IndexInUse(a.index) => SameIndexSnoops
  /\ pending' = [addr |-> a, cmd |-> cmd]
  /\ snoop' = pending'
  /\ linkElse /\ UNCHANGED <<bus, sent, request, perm, home, latest>>

\* Another core stores to an address this cache has lost.
OtherStores(a, word) ==
  /\ perm[a] = "I"
  /\ home' = Update(home, a, word)
  /\ latest' = Update(latest, a, word)
  /\ linkElse /\ UNCHANGED <<bus, snoop, sent, request, pending, perm>>

Directory ==
  \/ RequestArrives
  \/ SnoopAnswered
  \/ Serve
  \/ \E a \in Addr, cmd \in SnoopEvent : SendSnoop(a, cmd)
  \/ \E a \in Addr, word \in Word : OtherStores(a, word)

Processor == \/ \E access \in Workload : RaiseAccess(access)
             \/ \E a \in Addr : RaiseFlush(a)

Next == Processor \/ Controller \/ Directory

Spec == Init /\ [][Next]_vars

(***************************************************************************)
(* Every machine of the chip moves at the next clock edge if it can, the   *)
(* link delivers what it sends, and the directory gets to this cache's     *)
(* request between the snoops it sends.                                    *)
(***************************************************************************)
Fairness ==
  /\ WF_vars(Stepped(CpuStep))
  /\ WF_vars(Stepped(SnpStep))
  /\ WF_vars(Stepped(PortStep))
  /\ WF_vars(Stepped(ArbiterStep))
  /\ WF_vars(RequestArrives \/ SnoopAnswered)
  /\ SF_vars(Serve)

FairSpec == Spec /\ Fairness

--------------------------------------------------------------------------------
(* Properties of any interleaving. *)

(***************************************************************************)
(* cache_controller.sv:646-648: a dirty line waits for the answer to its   *)
(* writeback, so that nothing displaces it in the directory's pipe stage;  *)
(* and the same for the refills, and for the cache's own two pipe stages:  *)
(* only a clean eviction is ever lost.                                     *)
(***************************************************************************)
LossyPipesLoseNothing ==
  [][/\ request \notin {request', None} /\ request.cmd # "EVICT_CLEAN" => request' = None
     /\ bus \notin {bus', None} => bus' = None
     /\ snoop \notin {snoop', None} => snoop' = None]_vars

(***************************************************************************)
(* CPU_READ_MISS_ACK and CPU_WRITE_MISS_ACK take any answer (lines 705 and *)
(* 789), so it must be the right one: whatever waits on the bus, the CPU   *)
(* machine waits for it, with that very command outstanding.               *)
(***************************************************************************)
EveryAnswerIsAwaited ==
  bus # None =>
    IF bus.cmd = "EVICT_DIRTY"
    THEN cpu.state \in {"CPU_EVICT_DIRTY_ACK", "CPU_FLUSH_EVICT_ACK"}
    ELSE cpu.state \in {"CPU_READ_MISS_ACK", "CPU_WRITE_MISS_ACK"} /\ bus.cmd = OnProcessor.cmd

(***************************************************************************)
(* The tag check of SNP_FETCH_LINE_RESP: a snoop changes only a line that   *)
(* holds the snooped address, and an acknowledgement carries data only if  *)
(* this snoop found that line modified (lines 453-456).                    *)
(***************************************************************************)
GhostSnoopsAreHarmless ==
  [][/\ SnpStep /\ line' # line => line[snp.addr.index].tag = snp.addr.tag
     /\ snp'.state = "SNP_DONE" /\ snp.state = "SNP_FETCH_LINE_RESP" => ~snp'.flush]_vars

\* The two machines are orderly masters of the outgoing port: what they ask
\* for stays put until it is sent, and the port is what OutboundArbiter says.
UsesArbiter == Outbound!Init /\ [][Outbound!Next]_<<Outbound!vars>>

\* What the running access makes of a line, if it is a write.
AfterAccess(i) ==
  LET r == CASE port.owner = 0 -> CpuMemRequest
             [] port.owner = 1 -> SnpMemRequest
             [] OTHER -> None
  IN IF r # None /\ r.index = i /\ r.wstrb # {}
     THEN [tag |-> r.tag, state |-> r.state, data |-> ApplyWstrb(line[i].data, r.data, r.wstrb)]
     ELSE line[i]

Memory == INSTANCE AtomicCacheMem WITH
  Request <- MemRequest,
  lines <- [i \in Index |-> AfterAccess(i)],
  request <- [p \in {0, 1} |-> IF p = 0 THEN CpuMemRequest ELSE SnpMemRequest],
  owner <- port.owner,
  last_grant <- port.last_grant

(***************************************************************************)
(* And they are orderly masters of the cache memory (TwoPortCacheMem):     *)
(* address, data, tag, state and strobe wires stay as they are from the    *)
(* request to the response, although they are functions of registers and   *)
(* of the transition tables, and the line changes under the other port.    *)
(***************************************************************************)
UsesMemory == Memory!Spec

\* No access, flush or snoop waits for ever, whatever the other machine does.
TransfersComplete == /\ mem # None ~> mem = None
                     /\ flush # None ~> flush = None

SnoopsAreAnswered == pending # None ~> pending = None

--------------------------------------------------------------------------------
(* Properties of the runs where snoops keep clear of the index in use. *)

(***************************************************************************)
(* No acknowledged store is lost: the last word stored is the directory's, *)
(* or the cache's modified line, or on its way from one to the other.      *)
(***************************************************************************)
OnItsWay(a, word) ==
  \/ \E m \in {request, sent} :
       m # None /\ ~m.snoop /\ m.cmd = "EVICT_DIRTY" /\ m.addr = a /\ m.data = word
  \/ /\ pending # None /\ pending.addr = a
     /\ \/ sent # None /\ sent.snoop /\ sent.data = word
        \/ snp.state = "SNP_DONE" /\ snp.flush /\ snp.flush_data = word

StoresSurvive ==
  \A a \in Addr :
    \/ home[a] = latest[a]
    \/ line[a.index] = [tag |-> a.tag, state |-> "M", data |-> latest[a]]
    \/ OnItsWay(a, latest[a])

\* The line with address a has been evicted, or is about to be, and waits to
\* be refilled or invalidated.
Leaving(a) ==
  /\ cpu.addr.index = a.index
  /\ cpu.line.tag = a.tag
  /\ ~cpu.tag_match \/ cpu.state \in {"CPU_FLUSH_EVICT_ACK", "CPU_FLUSH_INVALIDATE_REQ",
                                      "CPU_FLUSH_INVALIDATE_RESP"}

(***************************************************************************)
(* A line that can be hit holds the last word stored, a modified one is    *)
(* known to the directory as this cache's, and a shared one as a copy.     *)
(***************************************************************************)
CopiesAreCurrent ==
  \A a \in Addr :
    LET found == line[a.index]
    IN found.tag = a.tag /\ found.state # "I" /\ ~Leaving(a) =>
         /\ found.data = latest[a]
         /\ found.state = "M" => perm[a] = "M"
         /\ found.state = "S" => perm[a] # "I"

\* A read returns the last word stored.
ReadsReturnLatest ==
  [][cpu.state = "CPU_READ_RESP" /\ cpu'.state = "CPU_IDLE" => ReadData = latest[cpu.addr]]_vars

--------------------------------------------------------------------------------
(* Properties that the code does not have (see the README). *)

(***************************************************************************)
(* cache.py:245-247, the golden model of the testbench: after a write miss *)
(* the line is what memory sent, with the written bytes replaced.          *)
(***************************************************************************)
WriteMissFillsLine ==
  [][cpu.state = "CPU_WRITE_RESP" /\ cpu'.state = "CPU_IDLE"
       => line'[cpu.addr.index].data = ApplyWstrb(cpu.line.data, cpu.wdata, cpu.wstrb)]_vars

================================================================================
