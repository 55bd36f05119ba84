# Verification of Open_Memory_Manager_CPU

TLA+ models, TLC runs and TLAPS proofs for the memory system of this
repository: a set of cores with direct-mapped caches, kept coherent by an MSI
directory. The repository has it twice: as a Python emulation
(`cocotb/emulation/`), where cores, caches, arbiter, directory and memory are
coroutines of one asyncio event loop, and as RTL (`src/`), where each chip is
one core's cache controller behind a serial link to a directory that is not in
the repository. The emulation's cache is also the golden model of the RTL's
testbench (`cocotb/cache_controller_tb.py`), which compares the two in lockstep.

Paths below are relative to the repository's root.

## 1. The system

### 1.1 Python emulation (`cocotb/emulation/`)

| part | state | operations | interacts by |
|---|---|---|---|
| `msi.py` | none | `on_processor_event`, `on_snoop_event`: the transition tables | called by caches |
| `CPU.py`, `core.py` | the remaining test cases of each core | `start_sim`: one task per core and cycle, `gather`, pop what was acknowledged | tasks call their cache |
| `cache.py` | 128 lines of (tag, state, data) | read, write, tag mismatch (eviction), snoop | awaits the arbiter; is called back by the directory |
| `weighted_round_robin.py` | turn, credits, a barrier of two events, the requests of the cycle, the requester let through | `axi_handler_arbiter`, `arbitrate` | all cores of a cycle wait for each other; one request goes on to the directory |
| `directory.py` | per address: state and sharers | `BUS_RD`, `BUS_RDX`, `BUS_UPGR`, `EVICT_CLEAN`, `EVICT_DIRTY` | snoops caches, reads and writes memory |
| `memory.py` | words | `read`, `write` | called by the directory |
| `sp_addr_handler.py` | the chip's number; eight pins and their directions | loads and stores to special addresses | nobody: `CPU.start_sim` never calls it |

What makes it hard: a cache decides what to do *before* the barrier and acts on
the answer *after* it, while another core's command may have changed its line;
only one request per cycle is let through, the others must be repeated; an
access that has to evict calls the arbiter twice; and the barrier's events are
cleared by the last core to leave.

It is correct when a MODIFIED line is the only copy, the directory knows of
every copy, what was decided before the barrier still holds after it, no store
is lost on the way between caches and memory, the barrier always opens, and the
arbiter starves no core.

### 1.2 RTL (`src/`)

| part | state | operations | interacts by |
|---|---|---|---|
| `cache_controller.sv`, CPU machine | 22 states, the latched access and line | accesses, misses, evictions, refills, flushes | valid/ready to the processor, cache memory port 0, outgoing port 0, the answer bus |
| `cache_controller.sv`, snoop machine | 7 states, the snoop, the data to flush | look up, change state, acknowledge | the snoop bus, cache memory port 1, outgoing port 1 |
| `on_*_event_state_machine.sv` | none | the same tables as `msi.py` | combinational |
| `outbound_arbiter.sv` | grant, preference, the granted request | grant one of two requests, hold it until it is taken | between the two machines and the link |
| `mem_ctrl/` | busy, active port, last grant; a state machine and an SRAM each for tags and for words | one transaction at a time, round robin; lane-by-lane SRAM accesses; clearing after reset | both machines |
| `interposer_interface/` | shift registers, two lossy pipe stages, the chip's number | packets of 4, 12, 36 or 68 bits behind a request wire | the directory |
| `sp_addr_handling/` | flush address, `flush_valid_r`; pins, directions, synchronizer | turns a store to a special address into a flush or a change of pins | between processor and controller |
| `chip_core.sv` | reset counter | holds the processor in reset while SRAMs clear | wiring |

What makes it hard: the CPU and the snoop machine go through one memory and one
outgoing port, each deciding on a line it latched earlier; the directory may
snoop while this cache's own request waits, and its requests wait in a pipe
stage that a following one overwrites; answers carry no address, and a miss
takes whichever answer comes; nothing is retried, so anything lost or mixed up
stays so. Below them, tag and word are in two memories of different speed, the
bytes to write are sampled from live wires over four cycles, and a packet has
nothing but the low request wire to end it. Above them, the flush register is
set by a store for as long as that store waits, the cycle of its acknowledgement
included.

It is correct when every answer reaches the machine that waits for it, nothing
is displaced from a lossy pipe, snoops change only the line they name, neither
machine can block the other for ever, no acknowledged store is lost, and a read
returns the last word stored; when the memory looks atomic to both machines and
is cleared before anyone uses it, packets arrive whole and in order, and a flush
is over before the access that follows it in the program.

## 2. Modules

| module | models | used by |
|---|---|---|
| `MSI` | both transition tables | everything below but the arbiters |
| `MSIProtocol` | the abstract protocol: `perm[c][a]`, obtained at the expense of the others | refined by `EmulatedCPU` |
| `ArbiterPolicy` | `arbitrate` as a function of turn, credits and requesters | `WeightedRoundRobin`, `EmulatedCPU` |
| `WeightedRoundRobin` | `arbitrate` one loop iteration at a time | `MCWeightedRoundRobin` |
| `EmulatedDirectory` | caches' lines, directory, memory; the effect of each command | `EmulatedCPU` |
| `EmulatedCPU` | tasks, event queue, barrier, and what a cache does before and after it | `MCEmulatedCPU` |
| `EmulatedMmio` | the emulated pins: what loads and stores do to them | refined by `SpAddrHandler` |
| `SpAddrHandler` | `sp_addr_handler.sv`, `mmio.sv`, between the processor's bus and the controller's idle state | itself, with `SpAddrHandler.cfg` |
| `OutboundArbiter` | `outbound_arbiter.sv` with masters that raise anything | `CacheInterface`, `CacheController` |
| `SerialLink` | `tserializer.sv` and `rserializer.sv`, word by word | `CacheInterface` |
| `CacheInterface` | the message paths: arbiter, packets, link, pipe stages, the chip's number | `MCCacheInterface` |
| `AtomicCacheMem` | the memory as the machines may take it: one access at a time, at once | refined by `TwoPortCacheMem` and, from the other side, `ControllerSystem` |
| `TwoPortCacheMem` | the memory of the chip, clock edge by clock edge, and the reset counter | `MCTwoPortCacheMem` |
| `CacheController` | both machines, the memory's port, the outgoing port | `ControllerSystem` |
| `ControllerSystem` | the processor, the link and the directory around it | `MCControllerSystem` |
| `ControllerBench` | the testbench around it: golden model, coroutines, director | `MCControllerBench` |
| `*Proofs` | theorems: `CacheControllerProofs` has lemmas on the two machines which `ControllerProofs` (`ControllerSystem`, control and data) and `ControllerBenchProofs` (`ControllerBench`) use; `EmulatedCPUProofs`, the commands of `EmulatedDirectory` and the cores that issue them; `CacheInterfaceProofs`, the arbiter alone and the message paths; `WeightedRoundRobinProofs`, `TwoPortCacheMemProofs` and `SpAddrHandlerProofs`, the module named | |

A definition followed by `_Something` and commented as a mutant is a faulty
variant of the definition after it, kept to show that a property notices it.
PROJECT.json pairs each property with one.

### 2.1 The emulator

`EmulatedDirectory` has `line` (the caches' lines), `dir` and `mem`. Its
operators are whole commands: `BusRd` reads the entry, snoops the owner
(`Snooped`, `SnoopPayload`), writes memory, updates the entry and fills the
requester's line, as `_bus_rd` and the rest of `_handle_cpu_read` do without
suspending.

In `EmulatedCPU` an action is what a task does between two points where
asyncio may switch. Only the two `Event.wait` calls of `axi_handler_arbiter`
suspend, so a task is at `lookup` (about to look its line up and to make a
request), `arrive` (about to enter the barrier), waiting for `all_arrived`,
`turn` (past it), waiting for `arbitation_done`, `serve` (about to be let
through or refused) or `done`. `ready` is asyncio's queue; `Event.set` appends
the waiters in order. `NextCycle` is one iteration of `start_sim`: accesses
that were not acknowledged are repeated. `Lookup` builds the packet from the
line *as it is then*; `ReadHit`, `WriteHit`, `ReadMiss`, `WriteMiss`, `Upgrade`
and `Eviction` act on it after the barrier.

The workload is the environment: whenever a test case is popped the next one is
any member of `Workload` or none.

### 2.2 The RTL

`CacheController` has one action per transition of either machine. In the chip
all machines step at each clock edge; in the model they take turns in any order.
That is an over-approximation: it contains the chip's schedules and slower or
faster ones, so what holds of the model holds of the chip, and every
counterexample was compared with the RTL's cycle counts (section 6).

Memory: `GrantPort` is the round-robin grant, which locks the memory, and the
read or write happens in the transition that sees the response. That this is the
chip's memory is shown in two halves, which meet in `AtomicCacheMem`: the
cycle-level memory implements it (`ImplementsAtomicMemory`, section 2.4), and
the machines use no more than it promises and hold their wires as it requires
(`UsesMemory`: `CpuMemRequest` and `SnpMemRequest` are what their states drive).
Outgoing port: an INSTANCE of `OutboundArbiter` whose `masters` are the requests
the two machines' states drive; that the machines are orderly masters is the
property `UsesArbiter`. `cpu_next_state_q`,
`cpu_issue_cmd_q` and `cpu_cmd_valid_q` are functions of registers that do not
change after they are computed, so they are the operator `OnProcessor`; registers
that every path writes before it reads are reset when their machine goes idle,
which merges equal states.

`ControllerSystem` adds
  - the processor: one access or flush at a time, held until ready
    (`RaiseAccess`, `RaiseFlush`);
  - the serial link: one message at a time (`sent`);
  - the directory: the request pipe stage (`request`), the snoop it waits for
    (`pending`), what it takes this cache to hold (`perm`), the word it would
    supply (`home`). It answers with the command's own code, as
    `cache_controller_tb.py:555-607` does. `OtherStores` is every other core
    storing to an address this cache has lost.
  - `latest`, a history variable: the last word any core stored to an address.

Two assumptions about the directory are named in the module.
`SendSnoop`'s guard `~Refilling`: a message takes the serial link longer than a
refill takes the cache, so that no snoop overtakes the answer before it.
`SameIndexSnoops = FALSE` restricts snoops to indices the processor is not
using, as the stress test does (`cache_controller_tb.py:836-844`); `TRUE` lifts
this.

### 2.3 The testbench

`ControllerBench` puts `CacheController` into `cache_controller_tb.py`. `golden`
is the golden model: the lines of an emulated cache over
`dummy_directory_handler`, which answers every request at once, with the address
asked for as the data, and notes it in `captured`. That cache never suspends over
this directory, so an access to it is one step (`GoldenRequests`, `GoldenLine`),
taken when the bench raises the same access on the controller's wires (`Raise`).
`TakeExpected` is what a coroutine that runs by itself does with a message of the
controller: it takes it as the next captured one and answers *that*.
`outbound_bus_director`, which serves accesses and snoops that run together at
different indices, answers what it sees and does not look at the port while an
answer waits (`Director`). There is no serial link, so a message is seen in the
cycle it is sent. `ResetDut` clears the chip's memories, but `flush_all` leaves the
golden model's tags. The tests are sequences of these calls; the model makes any
sequence of them. It writes whole words, as the tests do: a partial write miss is
where the two differ (section 6).

### 2.4 The parts around the controller

These three are modelled at the level of the clock: one action, `Tick`, changes
all registers, and the wires are operators with the names they have in the RTL.

`TwoPortCacheMem` starts at reset with arbitrary SRAM contents. `mem_init_count`
is `chip_core.sv`'s counter; `tag` and `data` are the registers of `mem128x6` and
`mem128x32`, each with its own state machine; the masters hold their wires from a
`_REQ` state to the end of the `_RESP` state, as the two machines do. The state
`MEM_REQ` with its `step` is `MEM_REQ_0` to `MEM_REQ_4`: step k writes lane k with
the byte sampled one step before, and shifts in what the SRAM read one step
before. Under the refinement mapping a transaction takes effect when it is
accepted: a line is what both SRAMs hold, with what the running request still has
to write.

`CacheInterface` puts `OutboundArbiter` in front of `SerialLink` and
`lossy_pipe_stage.sv` behind it. The two directions share code and no state, so a
behaviour is of one of them (`side`): outward the arbiter and the serializer are
the chip's and the receiver is the directory's, inward the other way round. A
word on the pins is `<<p, k>>`, the k-th word of packet p; a decoder reads the
type from word 0. `underway` is the history of packets taken and not yet shown as
valid.

`SpAddrHandler` has PicoRV32's native bus on one side (`Processor`: a transfer is
held until ready and followed by a cycle without) and on the other `CPU_IDLE`,
where an access comes before a flush. `owed` is the history of lines stored to
the flush register whose flush has not begun. `EmulatedMmio`, the emulator's
pins, is the specification of `mmio.sv`: the bus turns a byte address into a word
and a lane, the registers must not notice.

## 3. Runs

| run | instance | shows |
|---|---|---|
| `weighted_round_robin` | 3 requesters, weights 2, 1, 3, every sequence of request sets | `NeverTimesOut`: the search grants before its iteration limit. `BoundedBypass`: a requester is passed over at most as often as the others' weights allow. `SearchAgreesWithPolicy`: the closed form in `ArbiterPolicy` is what the loop computes. |
| `emulated_sharing` | 3 cores, 1 address, 2 bytes, byte writes | `OwnerHasLine`, `NeverStalls`, `UpgradeIsFresh`, `RdxNeverFallsThrough`, `TakeoverKeepsBytes`, `EveryAccessCompletes` while nothing is evicted. (`UpgradeIsFresh` and `TakeoverKeepsBytes` hold with evictions, too: section 5.) |
| `emulated_eviction` | 2 cores, 2 addresses at one index, 1 byte | `SingleWriter`, `DirectoryCovers`, `EvictIsFresh`, `ImplementsProtocol` with evictions served and refused |
| `message_paths` | 3 requests out (1, 4, 8 words), 4 packets in (1, 2, 4 words) | `OvertakenOnce`, `EveryRequestIsSent`: the arbiter, with the link's pauses. `DeliveredIntact`: what is valid is a packet sent, whole, in order. `StagesHoldWholeMessages`: no pipe stage mixes two messages. `EveryPacketArrives`: two packets never become one. |
| `cache_memory` | 2 lines, 4 lanes, 7 requests: reads, whole writes, writes of some lanes | `ClearedBeforeUse`, `ImplementsAtomicMemory`, `ResponsesAreAtomic`, `AccessesComplete` |
| `sp_addr_handler` | 2 lines, 3 of the 8 pins in both halves, 3 direction masks, 2 pin levels | `FlushesPrecedeAccesses`, `FlushesHappen`: each stored line is flushed, and before the next access. `BusTransfersComplete`. `PinsReadBack`, `ImplementsEmulatedMmio`: pins are the emulator's. |
| `controller_meeting` | 2 addresses at one index for the processor, a third for others, no data, any snoop at any time | `EveryAnswerIsAwaited`, `LossyPipesLoseNothing`, `GhostSnoopsAreHarmless`, `UsesArbiter`, `UsesMemory`, `TransfersComplete`, `SnoopsAreAnswered` |
| `controller_apart` | the same three addresses with data, snoops clear of the index in use | `StoresSurvive`, `CopiesAreCurrent`, `ReadsReturnLatest` |
| `controller_lockstep` | 2 tags at each of 2 indices, reads and whole-word writes of words that are addresses or one other | `RequestsAreGolden`: what the controller sends is what the golden model asked for, in its order. `LinesAreGolden`: whenever nothing is under way at an index, the lines are the same. `ReadsAreGolden`: so is what a read returns. |
| `emulated_read_clobbers` | as `emulated_eviction` | violated: section 6 |
| `controller_store_lost`, `controller_partial_miss` | 2 addresses at one index, with data; in the last of two bytes, without snoops at the index in use | violated: section 6 |

The type invariants, and `GrantedRequestIsOnThePort`, are theorems of section 5 and
not checked again by runs.

**Bounds.** Every bound is a constant of a `.cfg`; no model counts without
limit. Cores, lines and addresses matter only by being equal or not, and by
sharing an index or not. Two tags at one index give every tag mismatch; a second
index gives "something else is going on meanwhile". Three cores give a
requester, an owner and a bystander, and an arbiter with more than one loser; two
suffice where eviction is the subject, and there the theorems cover the rest. A
word is one byte of one bit where only "old or new" matters, two bytes where
strobes do. In `controller_meeting` a byte has one value because its properties
are about control, and no guard of the controller reads data. In
`controller_apart` the second index is only written and all writes are of ones,
over a memory of zeros (other cores store either): enough for a stale word to
differ from the latest. In `controller_lockstep` an
address's word tells its tag and not its index, since a line filled from the wrong
index already has the wrong tag; the written word is neither, so a line's origin
shows. In `cache_memory` two lines tell a line from its neighbour
and let the word's SRAM have more than one row; the clear takes 9 cycles instead
of 513, and `ClearedInTime` is the theorem for any number. Bytes and tags have
two values, and the requests write lanes at both ends, in the middle and all of
them. In `message_paths` there is a packet of every length in its direction, two
kinds for one pipe stage and one for each other receiver; what a word holds
besides its place is the packet it belongs to, so two packets that differ suffice
to see a mixture. Pins matter by lane and by half: 1 and 2 share a half, 2 and 6
a lane.

**Deadlock** is checked except in runs with evictions of the emulator, where the
event loop really may stop (section 6).

## 4. Fairness

Emulator: `WF_vars(Next)`. asyncio always runs the head of its queue, and
`start_sim` always starts the next cycle; there is one thread, so no other
fairness is needed, and which core wins is the arbiter's doing.

RTL: `WF` on each machine, on the memory's grant and on the arbiter: at every
clock edge a machine that can move does. `WF` on the link: what is sent arrives.
`SF` on `Serve`: between the snoops it sends, the directory gets to this cache's
request, since it handles transactions one at a time in the order they come;
weak fairness would let it snoop this cache for ever. Nothing is assumed of the
processor or of how often anyone snoops. In the clocked modules `WF` on `Tick`:
the clock runs. In `SpAddrHandler` also `WF` on the controller finishing what it
has begun, which is `ControllerSystem`'s `TransfersComplete`. `FlushesHappen`
allows for a program that stores the same line again whenever its flush begins.

## 5. Proofs

Checked with tlapm (Z3, Zenon, LS4), for all values of the constants: any number
of cores, tags, indices, lanes, lines and byte values, any workload, any set of
requests, any weights.

| module | theorem |
|---|---|
| `EmulatedCPUProofs` | `TypeCorrect`: `Spec => []TypeOK` |
| | `DirectoryIsRight`: `Spec => []DirectoryCovers` |
| | `OneWriter`: `Spec => []SingleWriter` |
| | `EmulatorImplementsProtocol`: `Spec => ImplementsProtocol` |
| | `TakeoversKeepBytes`: `Spec => TakeoverKeepsBytes` |
| | `UpgradesAreFresh`: `Spec => []UpgradeIsFresh` |
| | `EvictionsAreFresh`: `Spec => []EvictIsFresh` |
| | `OwnersHaveLines`: `Spec => []OwnerHasLine` if `NoConflicts` |
| | `RdxIsAnswered`: `Spec => []RdxNeverFallsThrough` if `NoConflicts` |
| | `BarrierNeverStalls`: `Spec => []NeverStalls` if `NoConflicts` |
| `WeightedRoundRobinProofs` | `TypeCorrect`; `SearchIsPolicy`: `Spec => SearchAgreesWithPolicy` |
| | `SearchSucceeds`: `Spec => []NeverTimesOut` |
| | `BypassIsBounded`: `Spec => []BoundedBypass` |
| `ControllerProofs` | `TypeCorrect` |
| | `AnswersAreAwaited`: `Spec => []EveryAnswerIsAwaited` |
| | `PipesLoseNothing`: `Spec => LossyPipesLoseNothing` |
| | `ImplementsArbiter`: `Spec => UsesArbiter` |
| | `ImplementsMemory`: `Spec => UsesMemory` |
| | `GhostsAreHarmless`: `Spec => GhostSnoopsAreHarmless` |
| | `StoresAreKept`: `Spec => []StoresSurvive` if `KeptApart` |
| | `LinesAreCurrent`: `Spec => []CopiesAreCurrent` if `KeptApart` |
| | `ReadsAreLatest`: `Spec => ReadsReturnLatest` if `KeptApart` |
| `ControllerBenchProofs` | `RequestsMatch`: `Spec => []RequestsAreGolden` if `WholeWords` |
| | `LinesMatch`: `Spec => []LinesAreGolden` if `WholeWords` |
| | `ReadsMatch`: `Spec => ReadsAreGolden` if `WholeWords` |
| `CacheInterfaceProofs` | of the arbiter alone, `TypeCorrect`; `RequestsAreHeld`: `Spec => []GrantedRequestIsOnThePort` |
| | `PathsTyped`: `InterfaceSpec => []InterfaceTypeOK` |
| | `LinkDelivers`: `InterfaceSpec => []DeliveredIntact` |
| | `MessagesAreWhole`: `InterfaceSpec => []StagesHoldWholeMessages` |
| | `PortHolds`: `InterfaceSpec => []GrantedRequestIsOnThePort` |
| | `OvertakingBounded`: `InterfaceSpec => []OvertakenOnce` |
| `TwoPortCacheMemProofs` | `TypeCorrect`; `ClearedInTime`: `Spec => []ClearedBeforeUse` |
| | `MemoryIsAtomic`: `Spec => ImplementsAtomicMemory` |
| | `ResponsesAreWhole`: `Spec => []ResponsesAreAtomic` |
| `SpAddrHandlerProofs` | `TypeCorrect`; `FlushesComeFirst`: `Spec => []FlushesPrecedeAccesses` |
| | `PinsAreEmulated`: `Spec => ImplementsEmulatedMmio` |
| | `PinsAreRead`: `Spec => []PinsReadBack` |

**Assumptions**: `NumCores`, `NumLines` and `num_requesters` are positive
naturals and weights positive, there is a lane, the workload is
made of well-formed accesses and `Request` of well-formed requests, `ZeroByte` is
a byte, `ZeroTag` a tag, `Invalid` a state, and what stands for "none" (`NoAddr`,
`NoRequest`, `None`) is none of the things it is the absence of. Three conditions
of theorems are about the program's use, not about its constants' types, and both are
what the code needs to be right (section 6 has what happens without them):
  - `NoConflicts`: no two addresses of the workload share an index, so that no
    emulated cache ever evicts.
  - `KeptApart`: snoops keep clear of the index the processor is using, as in
    `cache_controller_tb.py`'s stress test, and an access is a read or the write of
    a whole word, as in all of its tests.
  - `WholeWords`: the bench's accesses are reads or writes of a whole word. That
    snoops keep clear is not assumed here: the bench's coroutines see to it, and
    the proof derives it (`OwnIndices`).

**Argument for the emulator.** `SingleWriter` alone is not inductive: that a
miss invalidates every other copy depends on the directory knowing them.
`DirectoryCovers` says so, and implies `SingleWriter`. It is not inductive
either, for two reasons. A MODIFIED entry with no or several sharers would have
no owner, and `_bus_rd` and `_bus_rdx` would snoop nobody: `EntryShape` excludes
it. And what a core asked for before the
barrier must make sense after it: `PendingOK` says that a core waiting with a
command has an access to make, for an address that exists, and, if the command
is a miss, nothing at that index to evict; otherwise serving it would silently
drop a second line, a step the abstract protocol does not have. It is kept
because other cores' commands only ever lower a core's lines
(`OthersLowered`). So

    IInv == TypeOK /\ CoherenceInv /\ PendingOK
    CoherenceInv == MemoryTypeOK /\ DirectoryCovers /\ EntryShape

`EmulatedCPUProofs` first reduces the three commands to one shape, a "miss" that
leaves the requester with the state obtained and the others snooped
(`BusRdIsMiss`, `BusRdxIsMiss`, `BusUpgrIsMiss`), and proves once that a miss
keeps `CoherenceInv` (`CoherenceAfterMiss`). What the fall-through of `_bus_rdx`
and a refused eviction do is covered: both keep the invariant, since they only
lose data or time. The refinement has the same cases: a miss obtains, a served
or refused eviction drops, everything else stutters.

**Argument for the requests at the barrier.** What a cache found before the barrier
must hold after it (`FreshInv`). Within a cycle only one command is let through, and
`MayBeServed` says for whom that may still be: for anyone as long as core 0 has not
arbitrated and run to its end, then for the requester it chose. So when a
command is served every other core that still waits is one that will be refused,
and whatever was done to its line does not matter. That needs the event loop's
state: `QueueInv` says that every task that is not done is in one place of one of the
three queues, that `cores_arrived` counts the tasks at the barrier, that no event
stays set when nobody is there, and that core 0 runs on after arbitrating. For the
directory to find an upgrader's entry SHARED takes `SharedInv`. Nothing is
assumed of evictions here: a core that evicts passes the barrier twice, and both
passes are covered.

`TakeoversKeepBytes` needs no more than that the owner's line reaches the
requester, which `CoherenceInv` gives: an owner whose line is there answers the snoop
with it.

**Argument for the barrier.** `NeverStalls` and the two properties of the directory's
owner are false when a core has to evict, so they assume `NoConflicts`; then nothing
in a cache is ever in the way (`ConflictFree`), each core comes to the barrier once
in a cycle, and the cycle has three phases (`PhaseInv`): until all have arrived, until
core 0 has arbitrated, until all are done. In the first, if nothing can run then all
tasks wait for `all_arrived`, and counting them shows that the last one set it.

**Argument for the outgoing arbiter.** The grant, the granted request and the masters'
requests change together, so type and request invariant are inductive as they
stand. `OvertakenOnce` is not: that the count stays at one needs that a master
overtaken still asks and is the one preferred (`OvertakenInv`).

**Argument for the search.** `Turns(r, s)` is how many turns it is from r to s.
Skipping a requester that does not ask brings every other requester one turn
nearer (`OneTurnNearer`), so whoever was nearest still is (`SameFirst`); that
somebody is nearest is the well-foundedness of the natural numbers (`FirstAsks`).
What is skipped is skipped within a round (`SearchInv`), and the loop's limit, the
sum of the weights, is at least the number of requesters (`WeightsGrow`). For
`BoundedBypass`, `Ahead(i, credits, r)` is what others may still be granted before
r's turn: the credits left and the weights of those in between. What r has been
refused and what is ahead of it together never exceed the weights of the others
(`BypassInv`), except during a call in which r does not ask, at whose end its count
is reset. The sums are prefix sums, `WeightBefore`; that the equation defining them
has a solution, and that it grows, is shown with a least counterexample
(`SumsExist`, `WeightsGrow`), since the library's induction theorems cannot be
instantiated.

**Argument for the controller.** Answers carry no address and pipes do not hold
back, so everything rests on there being one thing under way at a time. `Awaited`
is the command whose answer the CPU machine's state waits for, if any. `InFlight`
says that this command, or its answer, is in one place only: in the serial link,
in the directory's pipe stage or on the bus; besides it there are at most clean
evictions that went before it. `SnoopUnderway` says the same of the snoop. Both
need `PortHolds`, that the outgoing port has the request the machine has now and
not an earlier one, and `LinesHaveAddresses`, that the tag found and the index
asked for make an address in use, and that a machine never evicts an invalid line.

    IInv == TypeOK /\ LinesHaveAddresses /\ PortHolds /\ InFlight /\ SnoopUnderway

The two refinements are about what the machines do with their requests: a step
that is no grant and no response changes a machine's request only from none to one
(`PortUse`, `MemoryUse`). For the memory it must also be known that a response goes
to the machine that waits for it and that a store has a strobe (`MemoryInUse`).
With `ImplementsArbiter`, the arbiter's theorems in `CacheInterfaceProofs` hold in
the controller; with `ImplementsMemory` and `MemoryIsAtomic`, the memory it uses is
the one of the chip. `GhostsAreHarmless` needs that a machine which has compared tags still
finds the tag it compared when it writes (`TagsStay`): only a refill changes a tag,
and no line is refilled while a snoop is under way. That last part is an assumption
on the directory (`SendSnoop`), and the proof shows where it is used.

**Argument for the data.** The invariant (`DataInv`) adds to `IInv` where the current
word of every address is (`Current`). If the directory does not know the line as
MODIFIED here, the word is with the directory. If it does, the word is in the
modified line (`Owned`); or on its way with the answer to a snoop (`Answered`); or
still with the directory, which has granted a write that is not done yet
(`Upgraded`). A valid line always holds it. Around this:
  - `Serving`, `Latched`, `Decided`: the transfer the CPU machine works on is still on
    the wires, the line it fetched is still in the memory, and what it decided agrees
    with the directory's `perm`;
  - `Apart`, `SnpLatched`, `SnoopedLine`: a snoop is of another index, its machine's
    line is still in the memory, and what it found agrees with `perm`;
  - `InOrder`, `Sent`, `Granted`: nothing but a snoop's answer is on the link while
    a line is refilled, an eviction carries the line that is being replaced and leaves
    no valid copy behind, an answer carries the latest word.

`KeptApart` is used in two places. Without the first half `Latched` and `SnpLatched` are
false: either machine writes what the other has already fetched
(`controller_store_lost`). Without the second a write miss leaves bytes of the line
before it (`controller_partial_miss`).

**Argument for the lockstep.** `BenchInv` relates the controller to a golden model that
makes an access or takes a snoop at once, while the machines need many steps.

    BenchInv == BenchTypes /\ Control /\ Snooping /\ Lockstep /\ GoldenAhead /\ Asked

  - `Control`: one transfer at a time, and what the machines have latched and
    decided is still so; the coroutines keep out of each other's index (`OwnIndices`).
  - `Snooping`: the snoop under way is on the wires, with its machine, or answered,
    and answered as the golden line says.
  - `Lockstep`: every line but that of the access under way is the golden one, or, if
    a snoop has been answered and the answer not seen, what the golden one will then
    become (`Settled`). An invalid line's tag and data do not count (`Same`): after
    `flush_all` they do differ.
  - `GoldenAhead`: the golden line of the access under way is what the access makes of
    the line until the machine has fetched it, then what the machine's decision will
    lead to (`Outcome`), then the line itself.
  - `Asked`: what the golden model asked for and the bench has not yet seen is what
    the machine has still to send (`ToSend`), and the answer on the bus is the one
    the bench gave it (`Given`).

The proof goes action by action, the machine's by what the decision was. It is where
the hit, miss, upgrade and eviction of `cache_controller.sv` and of `cache.py`
are compared for all inputs; a partial write miss is the one case where they
differ.

**Argument for the cache memory.** `AtomicInv` says what the registers, SRAMs and lanes
hold while a transaction runs: which lanes have been written, which bytes have been
read, what waits in the SRAM's output register (`DataWrites`, `DataReads`,
`TagServes`), and that only the port being served is in its response state, holding
its request (`OneAtATime`). Seen from `AtomicCacheMem` a clock edge is one of four
(`Rest`, `Accept`, `Work`, `Finish`): the abstract access takes place at `Accept`, from
when the lines under the mapping include what is still to be written; `Work` changes
nothing; `Finish` frees the memory. For `ResponsesAreAtomic` the same invariant gives
that at the response nothing is left to be written, so that the SRAMs hold the
atomic memory's line with the store in it, and that after step 4 of a read all four
registers show that line.

**Argument for the link.** `DeliveredIntact` speaks of one cycle; the invariant
`LinkInv` follows a packet from the port to that cycle. Nothing is on its way
(`Quiet`), or the first word of p is on the pins while the packet before may just
be valid (`Starting`), or n words have gone over and n are above each other in the
receiver (`Sending`), or all have, and the receiver has or has not yet seen the
request wire low (`Arrived`). `ShiftStep` and `ReceiveWord` are one cycle of
either end for any length; the rest is where one packet follows another. Depths
enter only as `Length(p) \in 1 .. MaxDepth`. The pipe stages take what is valid,
which is the packet that was sent first of those underway, of the kind its command
says (`StagesInv`); so a stage has the words of one message.

**Argument for the reset counter.** While the memories clear, the counter is one
ahead of the address being cleared, in each of them; so when it has reached
`MEM_INIT_CYCLES` the last address has been cleared. Once cleared, a memory never
goes back.

**Argument for the flush register.** `FlushesPrecedeAccesses` needs the line a
store left in the register: while anything is owed, it is one line, and the
store is on the bus, or the bus and the controller are idle and the register is
set and holds that very line (`OwedIsKept`). The store is
acknowledged by the end of some flush, at which the controller is idle, and in
that state the register's flush begins before the processor can raise an access.
`PinsAreEmulated` is a step-by-step match: lanes and half give back the pin. So does a
load (`PinsAreRead`), from the data register or, two clock edges later, from the pin.

**Only model-checked**: all liveness (`EveryAccessCompletes`,
`EveryRequestIsSent`, `EveryPacketArrives`, `AccessesComplete`, `FlushesHappen`,
`BusTransfersComplete`, `TransfersComplete`, `SnoopsAreAnswered`), which is beyond
the prover. Every other
property of the passing runs has a theorem.

## 6. Where the code differs from what it says

Each is a run that TLC refutes. Those of the RTL were checked against the cycle
behaviour of the files, not only against the model's interleaving.

| run | code | what happens |
|---|---|---|
| `emulated_read_clobbers` | `cocotb/emulation/directory.py:189` | `_bus_rd` hands the cache's own packet (`mem_wstrb` 0xF, payload 0) to memory, which takes it for a write: a read miss zeroes the word |
| `controller_store_lost` | `src/cache_controller/cache_controller.sv:480` | the snoop machine rewrites the whole line as it fetched it; a write hit in between is acknowledged and lost. The memory alternates between its ports and is free in the cycle of `SNP_ON_SNOOP_EVENT`, so a CPU machine waiting in `CPU_WRITE_REQ` gets in |
| `controller_partial_miss` | `src/cache_controller/cache_controller.sv:810` | a partial write miss sends the merged word under the processor's strobe, so the unselected bytes keep the previous line's values |

Noticed while modelling, in the models but without a run of their own (the first
two can be seen by adding the invariant to `EmulatedEviction.cfg`):
  - Violating `NeverStalls`: a core that evicts waits at the barrier
    (weighted_round_robin.py:75) twice in a cycle, the second time alone, and
    `gather` never returns.
  - Violating `RdxNeverFallsThrough`: after a refused dirty eviction (cache.py:155)
    the entry stays MODIFIED and owned by the core that dropped the line; its next
    write reaches the end of `_bus_rdx` ("this shouldnt have got hit",
    directory.py:347) and is not answered.
  - A write hit is decided before the barrier and carried out after it
    (cache.py:255). If another core's command takes the line away in between, the
    store goes to an INVALID line, is acknowledged and lost.
  - `_bus_upgr` answers with data 0, which `_handle_cpu_write` (cache.py:247) takes
    for the line's data before merging: a partial write to a SHARED line zeroes its
    other bytes.
  - The RTL's controller decides a write hit in `CPU_TAG_MATCH`
    (cache_controller.sv:672) and does not look again in `CPU_WRITE_REQ`. A snoop of
    the same index waiting in `SNP_UPDATE_LINE_REQ` gets the memory after the CPU
    machine's read, and the write then makes a line MODIFIED that the snoop has just
    shared or invalidated.
  - `_handle_tag_mismatch` (cache.py:155) does not look whether its eviction was
    let through: a refused `EVICT_DIRTY` drops the line and its data.
  - While a `BUS_UPGR` waits in the directory's pipe, a snoop may invalidate the
    line; an answer BUSUPGR_ACK then makes the stale copy MODIFIED, although line
    797 of `cache_controller.sv` says the copy is still there. A directory that
    answers BUSRDX_ACK with data instead, as the emulated one falls back to
    (directory.py:403-405), is understood; which it does is outside the repository.
  - In the cycle a flush is acknowledged the store is still on the bus and sets
    `flush_valid_r` again (sp_addr_handler.sv:110): the line is flushed twice, and
    the next access is raised meanwhile, which `cache_controller.sv:117` excludes.
    The second flush may acknowledge the *next* store to the flush register before
    that one's flush has begun. The order the program relies on survives:
    `FlushesPrecedeAccesses`.
  - `sp_addr_handler.py` tests addresses for membership in a member of an `Enum`,
    which raises `TypeError`, and its `set_pin` replaces the list of data bits by
    a number. Its words are also single bytes: a word store to a pin's address
    drives four pins in the RTL and one in the emulator.

## 7. Not modelled

The bits of a word on the link, scan and debug mode, `boot_done` (it only delays
the processor further), pads, physical design and build scripts: no behaviour of
the memory system. `mem128x4.sv` is not instantiated. PicoRV32 is a submodule
outside the repository; its memory interface is the processor of
`ControllerSystem` and `SpAddrHandler`. `handle_request` of `cache.py` and
`empty_caches` of `CPU.py` have no caller; `set_pin` and the dispatch of
`sp_addr_handler.py` cannot be run (section 6). Conversions between addresses and
(tag, index), and `memory.py`'s bounds, are not modelled: addresses are pairs.
A snoop before the SRAMs are cleared is assumed not to come (`MayAsk`): the
directory knows this cache to be empty. Otherwise one of the two memories could
accept without the other and the port would be blocked for good. `cache_controller_tb.py` is modelled
(section 2.3); the other testbenches drive fixed sequences and keep no model of what
they drive, so they are read only for what the RTL's environment does. The bench's
last `captured_dir_requests.clear()` is left out: `LinesAreGolden` shows that there
is nothing left to clear.

## 8. Plan

Done: sections 2 to 6. Next, in this order:

1. `CoherentSystem`: several controllers and a directory, refining
   `MSIProtocol` where snoops keep clear of the index in use.
2. `SpAddrHandler` composed with `CacheController` in place of `RaiseFlush`, and
   `CacheInterface` in place of `sent`.
3. Addresses as integers: `memory.py`'s bounds and the aliasing of addresses with
   more bits than tag and index.

Theorems: with `CoherentSystem`, that its steps are the abstract protocol's, from
`DataInv` for each chip and `DirectoryIsRight`'s argument for the directory.
