--------------------------- MODULE EmulatedDirectory ---------------------------
(***************************************************************************)
(* The caches, the directory and the memory of the Python emulator, and    *)
(* what one coherence command does to them.  The handlers of               *)
(* cocotb/emulation/directory.py await only the snooped caches' and the    *)
(* memory's handlers, none of which ever suspends, so a command and the    *)
(* snoops it sends are one atomic step; so is the work of the requesting   *)
(* cache on the answer (cache.py), which runs before the next await.       *)
(*                                                                         *)
(* EmulatedCPU says when each command is sent and served.                  *)
(***************************************************************************)
EXTENDS MSI, Integers

CONSTANTS NumCores,   \* CPU.size: the cores are 0 .. NumCores - 1
          Tag, Index, \* the two fields of an address; the offset has width 0
          ZeroTag,    \* the tag every line has at power-up
          Lane,       \* the bytes of a word, numbered as in wstrb
          Byte,       \* what a byte may hold
          ZeroByte

Core == 0 .. NumCores - 1
Addr == [tag : Tag, index : Index]
Word == [Lane -> Byte]
ZeroWord == [l \in Lane |-> ZeroByte]

ASSUME NumCoresAssumption == NumCores \in Nat \ {0}
ASSUME ZeroTagAssumption == ZeroTag \in Tag
ASSUME ZeroByteAssumption == ZeroByte \in Byte

VARIABLES line,  \* line[c][i]: the line cache c keeps at index i
          dir,   \* dir[a]: the directory entry, its sharers as a set
          mem    \* mem[a]: the word in main memory

Line == [tag : Tag, state : MSIState, data : Word]
DirectoryEntry == [state : MSIState, sharers : SUBSET Core]

MemoryTypeOK ==
  /\ line \in [Core -> [Index -> Line]]
  /\ dir \in [Addr -> DirectoryEntry]
  /\ mem \in [Addr -> Word]

MemoryInit ==
  /\ line = [c \in Core |-> [i \in Index |->
               [tag |-> ZeroTag, state |-> "I", data |-> ZeroWord]]]
  /\ dir = [a \in Addr |-> [state |-> "I", sharers |-> {}]]
  /\ mem = [a \in Addr |-> ZeroWord]

--------------------------------------------------------------------------------
(* Caches. *)

\* The state cache c has address a in.
StateOf(c, a) == IF line[c][a.index].tag = a.tag THEN line[c][a.index].state ELSE "I"

\* util.apply_wstrb: the bytes selected by wstrb come from the new value.
ApplyWstrb(old, new, wstrb) == [l \in Lane |-> IF l \in wstrb THEN new[l] ELSE old[l]]

\* Mutant of Snooped: the tag is not compared, so a ghost snoop takes effect.
Snooped_Ghost(targets, a, event) ==
  [c \in Core |->
     IF c \in targets
     THEN [line[c] EXCEPT ![a.index].state = OnSnoopEvent(@, event).next]
     ELSE line[c]]

(***************************************************************************)
(* _handle_snoop in each of the target caches.  A line with another tag is *)
(* left alone (a ghost snoop), and answers with zeros like any line that   *)
(* has nothing to flush.                                                   *)
(***************************************************************************)
Snooped(targets, a, event) ==
  [c \in Core |->
     IF c \in targets /\ line[c][a.index].tag = a.tag
     THEN [line[c] EXCEPT ![a.index].state = OnSnoopEvent(@, event).next]
     ELSE line[c]]

SnoopPayload(c, a, event) ==
  IF OnSnoopEvent(StateOf(c, a), event).flush THEN line[c][a.index].data ELSE ZeroWord

\* The cache's line after a served miss on a, the other caches being lines.
Filled(lines, c, a, state, data) ==
  [lines EXCEPT ![c][a.index] = [tag |-> a.tag, state |-> state, data |-> data]]

--------------------------------------------------------------------------------
(* The directory's handlers, for a command of cache c on address a. *)

\* entry.owner() is the one sharer of a MODIFIED entry.
HasOwner(a, d) == dir[a].state = "M" /\ dir[a].sharers = {d}

OtherSharers(c, a) == dir[a].sharers \ {c}

SetEntry(a, state, sharers) == dir' = [dir EXCEPT ![a] = [state |-> state, sharers |-> sharers]]

\* Mutant of BusRdClean: the reader replaces the sharers there were.
BusRdClean_ForgetsSharers(c, a) ==
  /\ dir[a].state \in {"I", "S"}
  /\ SetEntry(a, "S", {c})
  /\ mem' = [mem EXCEPT ![a] = ZeroWord]
  /\ line' = Filled(line, c, a, "S", ZeroWord)

(***************************************************************************)
(* _bus_rd, entry INVALID or SHARED.  The request itself is passed on to   *)
(* the memory: its strobes are all set and its payload is zero, so the     *)
(* memory takes it for a write of zeros and answers with the request's own *)
(* mem_rdata, which is zero.                                               *)
(***************************************************************************)
BusRdClean(c, a) ==
  /\ dir[a].state \in {"I", "S"}
  /\ SetEntry(a, "S", (IF dir[a].state = "I" THEN {} ELSE dir[a].sharers) \cup {c})
  /\ mem' = [mem EXCEPT ![a] = ZeroWord]
  /\ line' = Filled(line, c, a, "S", ZeroWord)

\* Mutant of BusRdModified: the entry stays MODIFIED.
BusRdModified_KeepsEntry(c, a) ==
  \E d \in Core \ {c} :
    /\ HasOwner(a, d)
    /\ SetEntry(a, "M", dir[a].sharers \cup {c})
    /\ mem' = [mem EXCEPT ![a] = SnoopPayload(d, a, "BUS_RD")]
    /\ line' = Filled(Snooped({d}, a, "BUS_RD"), c, a, "S", mem'[a])

\* _bus_rd, entry MODIFIED: another owner is snooped and what it answers is
\* written to memory; the word is then read from memory.
BusRdModified(c, a) ==
  /\ dir[a].state = "M"
  /\ SetEntry(a, "S", dir[a].sharers \cup {c})
  /\ \/ \E d \in Core \ {c} :
          /\ HasOwner(a, d)
          /\ mem' = [mem EXCEPT ![a] = SnoopPayload(d, a, "BUS_RD")]
          /\ line' = Filled(Snooped({d}, a, "BUS_RD"), c, a, "S", mem'[a])
     \/ /\ ~ \E d \in Core \ {c} : HasOwner(a, d)
        /\ line' = Filled(line, c, a, "S", mem[a])
        /\ UNCHANGED mem

BusRd(c, a) == BusRdClean(c, a) \/ BusRdModified(c, a)

\* What the requesting cache stores after a write miss that was answered data.
StoreMiss(lines, c, op, data) ==
  line' = Filled(lines, c, op.addr, "M", ApplyWstrb(data, op.wdata, op.wstrb))

\* Mutant of BusRdxClean: the sharers are not told.
BusRdxClean_NoSnoop(c, op) ==
  /\ dir[op.addr].state \in {"I", "S"}
  /\ StoreMiss(line, c, op, mem[op.addr])
  /\ SetEntry(op.addr, "M", {c})
  /\ UNCHANGED mem

\* _bus_rdx, entry INVALID or SHARED: the other sharers are snooped, the
\* answer comes from memory.
BusRdxClean(c, op) ==
  /\ dir[op.addr].state \in {"I", "S"}
  /\ LET targets == IF dir[op.addr].state = "S" THEN OtherSharers(c, op.addr) ELSE {}
     IN  StoreMiss(Snooped(targets, op.addr, "BUS_RDX"), c, op, mem[op.addr])
  /\ SetEntry(op.addr, "M", {c})
  /\ UNCHANGED mem

\* Mutant of BusRdxOwned: the requester is answered from memory.
BusRdxOwned_StaleMemory(c, op) ==
  \E d \in Core \ {c} :
    /\ HasOwner(op.addr, d)
    /\ mem' = [mem EXCEPT ![op.addr] = SnoopPayload(d, op.addr, "BUS_RDX")]
    /\ StoreMiss(Snooped({d}, op.addr, "BUS_RDX"), c, op, mem[op.addr])
    /\ SetEntry(op.addr, "M", {c})

\* _bus_rdx, entry MODIFIED with another owner: its data goes to memory and
\* to the requester.
BusRdxOwned(c, op) ==
  \E d \in Core \ {c} :
    /\ HasOwner(op.addr, d)
    /\ LET flushed == SnoopPayload(d, op.addr, "BUS_RDX")
       IN  /\ mem' = [mem EXCEPT ![op.addr] = flushed]
           /\ StoreMiss(Snooped({d}, op.addr, "BUS_RDX"), c, op, flushed)
    /\ SetEntry(op.addr, "M", {c})

\* _bus_rdx falls through ("this shouldnt have got hit"): not ready.
RdxFallsThrough(c, a) ==
  dir[a].state = "M" /\ ~ \E d \in Core \ {c} : HasOwner(a, d)

BusRdx(c, op) == BusRdxClean(c, op) \/ BusRdxOwned(c, op)

\* _bus_upgr, entry SHARED: the other sharers are snooped; the answer's
\* mem_rdata is zero, and the cache takes it for the line's data.
BusUpgrShared(c, op) ==
  /\ dir[op.addr].state = "S"
  /\ StoreMiss(Snooped(OtherSharers(c, op.addr), op.addr, "BUS_UPGR"), c, op, ZeroWord)
  /\ SetEntry(op.addr, "M", {c})
  /\ UNCHANGED mem

\* Otherwise it is treated as a BUS_RDX.
BusUpgr(c, op) ==
  BusUpgrShared(c, op) \/ (dir[op.addr].state # "S" /\ BusRdx(c, op))

\* The entry once c is no longer among its sharers.
EntryWithout(c, a) ==
  LET rest == dir[a].sharers \ {c}
  IN  [state |-> CASE rest = {} -> "I"
                   [] rest # {} /\ dir[a].state = "M" /\ ~ \E d \in Core : rest = {d} -> "S"
                   [] OTHER -> dir[a].state,
       sharers |-> rest]

\* cache.py:155: whatever the arbiter answered, the line is given up.
GiveUp(c, i) == line' = [line EXCEPT ![c][i].state = "I"]

\* _evict_clean and _evict_dirty, which also writes the payload to memory.
Evict(c, a, cmd, payload) ==
  /\ mem' = IF cmd = "EVICT_DIRTY" THEN [mem EXCEPT ![a] = payload] ELSE mem
  /\ dir' = [dir EXCEPT ![a] = EntryWithout(c, a)]
  /\ GiveUp(c, a.index)

--------------------------------------------------------------------------------
(* What the caches and the directory owe each other. *)

(***************************************************************************)
(* msi.py:25-28: at most one cache is MODIFIED for any address, and then   *)
(* all others are INVALID; at every point where tasks can interleave,      *)
(* including while one waits at the barrier with a decision taken from an  *)
(* older state of its line.                                                *)
(***************************************************************************)
SingleWriter ==
  \A c, d \in Core, a \in Addr :
    c # d /\ StateOf(c, a) = "M" => StateOf(d, a) = "I"

(***************************************************************************)
(* The directory never loses track of a copy: it snoops only the sharers   *)
(* it knows, so a cache with a valid line must be one of them, and the     *)
(* only one if its line is MODIFIED.                                       *)
(***************************************************************************)
DirectoryCovers ==
  \A c \in Core, a \in Addr :
    /\ StateOf(c, a) # "I" => c \in dir[a].sharers
    /\ StateOf(c, a) = "M" => HasOwner(a, c)

(***************************************************************************)
(* The converse, for MODIFIED: an entry that names an owner is right about *)
(* it.  An owner that no longer has the line answers a snoop with zeros,   *)
(* which the directory writes to memory.                                   *)
(***************************************************************************)
OwnerHasLine ==
  \A a \in Addr : dir[a].state = "M" =>
    \E c \in Core : dir[a].sharers = {c} /\ StateOf(c, a) = "M"

(***************************************************************************)
(* The shape of a directory entry: no sharer when INVALID, one when        *)
(* MODIFIED.  DirectoryEntry.owner returns None, and no cache is snooped,  *)
(* for any other MODIFIED entry.                                           *)
(***************************************************************************)
EntryShape ==
  \A a \in Addr :
    /\ dir[a].state = "I" => dir[a].sharers = {}
    /\ dir[a].state = "M" => \E d \in Core : dir[a].sharers = {d}

CoherenceInv == MemoryTypeOK /\ DirectoryCovers /\ EntryShape

================================================================================
