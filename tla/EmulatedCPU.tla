------------------------------ MODULE EmulatedCPU ------------------------------
(***************************************************************************)
(* The Python emulator as one event loop runs it: CPU.start_sim creates a  *)
(* task per core and cycle, each task calls its cache, and every cache     *)
(* call meets the others at the arbiter's barrier, where one request is    *)
(* let through to the directory.                                           *)
(*                                                                         *)
(* A task runs until it suspends.  The only awaits that can suspend are    *)
(* the two Event.wait calls of axi_handler_arbiter: its lock is never      *)
(* contended, since no task suspends while it holds it.  ready is asyncio's *)
(* queue of runnable tasks; its head is the task that is running.          *)
(***************************************************************************)
EXTENDS EmulatedDirectory, Sequences

CONSTANTS Workload,  \* the reads and writes a core may be given
          NoAddr     \* the address of a packet that carries no request

\* A test case; a read has no strobe set (CPU.py:116, cache.py:396).
Op == [addr : Addr, wstrb : SUBSET Lane, wdata : Word]
ASSUME WorkloadAssumption == Workload \subseteq Op

\* A core whose work has run out sends test_case(-1, -1, 0) with mem_valid False.
ASSUME NoAddrAssumption == NoAddr \notin Addr
NoOp == [addr |-> NoAddr, wstrb |-> {}, wdata |-> ZeroWord]

IsWrite(o) == o # NoOp /\ o.wstrb # {}

VARIABLES op,         \* op[c]: the test case core c is working on, or NoOp
          acked,      \* acked[c]: this cycle's result had mem_ready and mem_valid
          pc,         \* pc[c]: where the task of core c is, or will resume
          ready,      \* asyncio's queue of runnable tasks
          request,    \* request[c]: the packet last handed to the arbiter
          arrived,    \* cores_arrived
          allArrived, waitAll,   \* the event all_arrived and its waiters
          arbDone, waitArb,      \* the event arbitation_done and its waiters
          requestId,  \* request_id, the requester let through, or -1
          turn        \* [index, credits]: current_index and remaining_credits

taskVars == <<op, acked, pc, ready>>
barrierVars == <<arrived, allArrived, waitAll, arbDone, waitArb, requestId, turn>>
memoryVars == <<line, dir, mem>>
vars == <<taskVars, request, barrierVars, memoryVars>>

\* CPU.py:35 gives every core the weight 1.
Arbiter == INSTANCE ArbiterPolicy WITH num_requesters <- NumCores,
                                       weights <- [c \in Core |-> 1]

Packet == [cmd : CoherenceCmd, addr : Addr \cup {NoAddr}, payload : Word]
InvalidPacket == [cmd |-> "NULL", addr |-> NoAddr, payload |-> ZeroWord]

InitialOrder == [k \in 1 .. NumCores |-> k - 1]

SchedulerTypeOK ==
  /\ op \in [Core -> Workload \cup {NoOp}]
  /\ acked \in [Core -> BOOLEAN]
  /\ pc \in [Core -> {"done", "lookup", "arrive", "turn", "serve"}]
  /\ ready \in Seq(Core)
  /\ request \in [Core -> Packet]
  /\ arrived \in Int
  /\ allArrived \in BOOLEAN /\ arbDone \in BOOLEAN
  /\ waitAll \in Seq(Core) /\ waitArb \in Seq(Core)
  /\ requestId \in Core \cup {-1}
  /\ turn \in [index : Core, credits : {1}]

TypeOK == MemoryTypeOK /\ SchedulerTypeOK

Init ==
  /\ MemoryInit
  /\ op \in [Core -> Workload]
  /\ acked = [c \in Core |-> FALSE]
  /\ pc = [c \in Core |-> "done"]
  /\ ready = <<>>
  /\ request = [c \in Core |-> InvalidPacket]
  /\ arrived = 0
  /\ allArrived = FALSE /\ waitAll = <<>>
  /\ arbDone = FALSE /\ waitArb = <<>>
  /\ requestId = -1
  /\ turn = [index |-> 0, credits |-> 1]

--------------------------------------------------------------------------------
(* start_sim. *)

(***************************************************************************)
(* One iteration of its loop: test cases that were acknowledged are        *)
(* popped, the others are tried again, and a task is created for every     *)
(* core, also for one that has nothing left to do, while any has.          *)
(***************************************************************************)
NextCycle ==
  /\ \A c \in Core : pc[c] = "done"
  /\ op' \in [Core -> Workload \cup {NoOp}]
  /\ \A c \in Core : acked[c] \/ op'[c] = op[c]
  /\ acked' = [c \in Core |-> FALSE]
  /\ IF \A c \in Core : op'[c] = NoOp
     THEN UNCHANGED <<pc, ready>>
     ELSE /\ pc' = [c \in Core |-> "lookup"]
          /\ ready' = InitialOrder
  /\ UNCHANGED <<request, barrierVars, memoryVars>>

Running(c) == ready # <<>> /\ Head(ready) = c

Goto(c, label) == pc' = [pc EXCEPT ![c] = label]

\* The task of core c returns its result to gather.
Return(c, ack) ==
  /\ Goto(c, "done")
  /\ acked' = [acked EXCEPT ![c] = ack]
  /\ ready' = Tail(ready)
  /\ UNCHANGED op

--------------------------------------------------------------------------------
(* The cache of a core, up to its call of the arbiter: _handle_cpu_read,   *)
(* _handle_cpu_write and _handle_tag_mismatch.                             *)

MustEvict(c) ==
  /\ op[c] # NoOp
  /\ line[c][op[c].addr.index].state # "I"
  /\ line[c][op[c].addr.index].tag # op[c].addr.tag

Wanted(c) ==
  LET old == line[c][op[c].addr.index]
  IN  CASE op[c] = NoOp -> InvalidPacket
        [] MustEvict(c) ->
             [cmd |-> IF old.state = "M" THEN "EVICT_DIRTY" ELSE "EVICT_CLEAN",
              addr |-> [tag |-> old.tag, index |-> op[c].addr.index],
              payload |-> old.data]
        [] OTHER ->
             LET tr == OnProcessorEvent(old.state,
                                        IF IsWrite(op[c]) THEN "PR_WR" ELSE "PR_RD")
             IN  IF tr.cmd = "NULL" THEN InvalidPacket
                 ELSE [cmd |-> tr.cmd, addr |-> op[c].addr, payload |-> ZeroWord]

Lookup(c) ==
  /\ Running(c) /\ pc[c] = "lookup"
  /\ request' = [request EXCEPT ![c] = Wanted(c)]
  /\ Goto(c, "arrive")
  /\ UNCHANGED <<op, acked, ready, barrierVars, memoryVars>>

--------------------------------------------------------------------------------
(* axi_handler_arbiter, up to the answer. *)

\* Mutant of Arrive: the last of the cores is not counted.
Arrive_OffByOne(c) ==
  /\ Running(c) /\ pc[c] = "arrive"
  /\ arrived' = arrived + 1
  /\ allArrived' = (allArrived \/ arrived' > NumCores)
  /\ Goto(c, "turn")
  /\ IF allArrived'
     THEN ready' = ready \o waitAll /\ waitAll' = <<>>
     ELSE ready' = Tail(ready) /\ waitAll' = Append(waitAll, c)
  /\ UNCHANGED <<op, acked, request, arbDone, waitArb, requestId, turn, memoryVars>>

\* The barrier.  A task that finds the event set goes on without suspending;
\* the last to arrive sets it and makes the waiting tasks runnable.
Arrive(c) ==
  /\ Running(c) /\ pc[c] = "arrive"
  /\ arrived' = arrived + 1
  /\ allArrived' = (allArrived \/ arrived' = NumCores)
  /\ Goto(c, "turn")
  /\ IF allArrived'
     THEN ready' = ready \o waitAll /\ waitAll' = <<>>
     ELSE ready' = Tail(ready) /\ waitAll' = Append(waitAll, c)
  /\ UNCHANGED <<op, acked, request, arbDone, waitArb, requestId, turn, memoryVars>>

Requesting == {c \in Core : request[c].cmd # "NULL"}

\* Core 0 arbitrates for all.  With no request, request_id keeps its value.
ArbitrateForAll ==
  IF Requesting = {}
  THEN UNCHANGED <<requestId, turn>>
  ELSE LET result == Arbiter!Arbitrate(turn.index, turn.credits, Requesting)
       IN  /\ requestId' = result.grant
           /\ turn' = [index |-> result.index, credits |-> result.credits]

TakeTurn(c) ==
  /\ Running(c) /\ pc[c] = "turn"
  /\ IF c = 0 THEN ArbitrateForAll ELSE UNCHANGED <<requestId, turn>>
  /\ arbDone' = (arbDone \/ c = 0)
  /\ Goto(c, "serve")
  /\ IF arbDone'
     THEN ready' = ready \o waitArb /\ waitArb' = <<>>
     ELSE ready' = Tail(ready) /\ waitArb' = Append(waitArb, c)
  /\ UNCHANGED <<op, acked, request, arrived, allArrived, waitAll, memoryVars>>

--------------------------------------------------------------------------------
(* The answer: the directory's when this core was let through, the request *)
(* itself, not ready, otherwise; then the arbiter's clean-up, and what the *)
(* cache does with the answer.  None of it suspends.                       *)

\* weighted_round_robin.py:129-133.
Leave ==
  /\ arrived' = arrived - 1
  /\ allArrived' = (allArrived /\ arrived' # 0)
  /\ arbDone' = (arbDone /\ arrived' # 0)
  /\ UNCHANGED <<waitAll, waitArb, requestId, turn, request>>

Served(c, cmd) ==
  /\ Running(c) /\ pc[c] = "serve"
  /\ request[c].cmd = cmd
  /\ Leave

\* Mutant of LetThrough: the grant is not compared with the core.
LetThrough_Anyone(c) == requestId # -1

LetThrough(c) == requestId = c

Refused(c) ==
  /\ ~LetThrough(c) \/ (/\ request[c].cmd \in {"BUS_RDX", "BUS_UPGR"}
                        /\ RdxFallsThrough(c, request[c].addr))
  /\ Return(c, FALSE)
  /\ UNCHANGED memoryVars

\* A core without work: its packet comes back with mem_valid False.
Idle(c) ==
  /\ Served(c, "NULL") /\ op[c] = NoOp
  /\ Return(c, FALSE)
  /\ UNCHANGED memoryVars

\* A hit has waited at the barrier like a miss, and only now touches the line.
ReadHit(c) ==
  /\ Served(c, "NULL") /\ op[c] # NoOp /\ ~IsWrite(op[c])
  /\ Return(c, TRUE)
  /\ UNCHANGED memoryVars

WriteHit(c) ==
  /\ Served(c, "NULL") /\ IsWrite(op[c])
  /\ line' = [line EXCEPT ![c][op[c].addr.index].data =
               ApplyWstrb(@, op[c].wdata, op[c].wstrb)]
  /\ Return(c, TRUE)
  /\ UNCHANGED <<dir, mem>>

ReadMiss(c) ==
  /\ Served(c, "BUS_RD")
  /\ \/ LetThrough(c) /\ BusRd(c, op[c].addr) /\ Return(c, TRUE)
     \/ Refused(c)

WriteMiss(c) ==
  /\ Served(c, "BUS_RDX")
  /\ \/ LetThrough(c) /\ BusRdx(c, op[c]) /\ Return(c, TRUE)
     \/ Refused(c)

Upgrade(c) ==
  /\ Served(c, "BUS_UPGR")
  /\ \/ LetThrough(c) /\ BusUpgr(c, op[c]) /\ Return(c, TRUE)
     \/ Refused(c)

\* An eviction is only the first half of the access: the cache then handles
\* the access itself, in the same task and cycle.
Eviction(c) ==
  /\ \E cmd \in EvictCmd : Served(c, cmd)
  /\ IF LetThrough(c)
     THEN Evict(c, request[c].addr, request[c].cmd, request[c].payload)
     ELSE GiveUp(c, request[c].addr.index) /\ UNCHANGED <<dir, mem>>
  /\ Goto(c, "lookup")
  /\ UNCHANGED <<op, acked, ready>>

Step(c) ==
  \/ Lookup(c)
  \/ Arrive(c)
  \/ TakeTurn(c)
  \/ Idle(c)
  \/ ReadHit(c)
  \/ WriteHit(c)
  \/ ReadMiss(c)
  \/ WriteMiss(c)
  \/ Upgrade(c)
  \/ Eviction(c)

Next == NextCycle \/ \E c \in Core : Step(c)

Spec == Init /\ [][Next]_vars

\* The event loop always runs its next task.
FairSpec == Spec /\ WF_vars(Next)

--------------------------------------------------------------------------------
(* Coherence, beyond the invariants of EmulatedDirectory. *)

AboutToBeServed(c, cmds) ==
  Running(c) /\ pc[c] = "serve" /\ LetThrough(c) /\ request[c].cmd \in cmds

(***************************************************************************)
(* A BUS_UPGR is decided on at Lookup and served after the barrier; when   *)
(* it is served the cache still holds the line SHARED, so that it may keep *)
(* its data (directory.py:366 "requester already has it"), and the         *)
(* fallback to BUS_RDX of directory.py:403-405 is never taken.             *)
(***************************************************************************)
UpgradeIsFresh ==
  \A c \in Core : AboutToBeServed(c, {"BUS_UPGR"}) =>
    StateOf(c, op[c].addr) = "S" /\ dir[op[c].addr].state = "S"

(***************************************************************************)
(* The payload of an EVICT_DIRTY is read before the barrier and written to *)
(* memory after it; it is still the only copy by then, so that memory is   *)
(* never overwritten with a word that another cache has replaced.          *)
(***************************************************************************)
EvictIsFresh ==
  \A c \in Core : AboutToBeServed(c, {"EVICT_DIRTY"}) =>
    /\ StateOf(c, request[c].addr) = "M"
    /\ line[c][request[c].addr.index].data = request[c].payload

(***************************************************************************)
(* A write that takes a line over from another cache starts from that      *)
(* cache's data: bytes it does not select keep what the previous owner     *)
(* stored (directory.py:317 "Get dirty data from owner").                  *)
(***************************************************************************)
TakeoverKeepsBytes ==
  [][\A c, d \in Core, a \in Addr :
       c # d /\ StateOf(d, a) = "M" /\ StateOf(c, a)' = "M" =>
         \A l \in Lane \ op[c].wstrb :
           line'[c][a.index].data[l] = line[d][a.index].data[l]]_vars

(***************************************************************************)
(* directory.py:347 "this shouldnt have got hit": an exclusive request is  *)
(* never left unanswered by the directory, as long as nothing is evicted   *)
(* (after a refused eviction it may be: see the README).                   *)
(***************************************************************************)
RdxNeverFallsThrough ==
  \A c \in Core : AboutToBeServed(c, {"BUS_RDX", "BUS_UPGR"}) =>
    ~RdxFallsThrough(c, op[c].addr)

--------------------------------------------------------------------------------
(* Progress. *)

(***************************************************************************)
(* gather waits for all tasks of a cycle (CPU.py:131-132): the event loop  *)
(* must not run out of runnable tasks while one is still waiting.          *)
(***************************************************************************)
NeverStalls == ready = <<>> => \A c \in Core : pc[c] = "done"

(***************************************************************************)
(* Every test case is acknowledged in the end, however long the arbiter    *)
(* prefers others and however often other cores take the line away.        *)
(***************************************************************************)
EveryAccessCompletes ==
  \A c \in Core : op[c] # NoOp /\ pc[c] = "lookup" ~> acked[c]

--------------------------------------------------------------------------------
(* What the source says and the code does not do (see the README). *)

(***************************************************************************)
(* directory.py:185 and 195: a read miss fetches from memory, where the    *)
(* data is clean.  So memory changes only when a MODIFIED line is written  *)
(* back to it.                                                             *)
(***************************************************************************)
MemoryOnlyWrittenBack ==
  [][\A a \in Addr : mem'[a] # mem[a] =>
       \E c \in Core : StateOf(c, a) = "M" /\ mem'[a] = line[c][a.index].data]_vars

--------------------------------------------------------------------------------
(* The permissions the caches' lines amount to. *)

Protocol == INSTANCE MSIProtocol WITH
              perm <- [c \in Core |-> [a \in Addr |-> StateOf(c, a)]]

(***************************************************************************)
(* The emulator implements the coherence protocol: a step of the event     *)
(* loop obtains one permission at the expense of the others, drops one, or *)
(* changes none.                                                           *)
(***************************************************************************)
ImplementsProtocol == Protocol!Spec

================================================================================
