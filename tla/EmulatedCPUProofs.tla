--------------------------- MODULE EmulatedCPUProofs ---------------------------
(***************************************************************************)
(* Theorems about the emulator for any number of cores, any addresses,     *)
(* any data and any workload: first that every command the directory       *)
(* serves preserves the coherence invariant, then the cores around it.     *)
(***************************************************************************)
EXTENDS EmulatedCPU, TLAPS, SequenceTheorems, FiniteSetTheorems, WellFoundedInduction

--------------------------------------------------------------------------------
(* What the operators on the caches' lines return. *)

\* The transition table stays within the states, never raises a state, and
\* a BUS_RDX or BUS_UPGR leaves nothing of a SHARED line.
LEMMA SnoopTable ==
  ASSUME NEW s \in MSIState, NEW event \in SnoopEvent
  PROVE  /\ OnSnoopEvent(s, event).next \in MSIState
         /\ OnSnoopEvent(s, event).next \in {s, "I"} \/ (s = "M" /\ OnSnoopEvent(s, event).next = "S")
         /\ s = "S" /\ event # "BUS_RD" => OnSnoopEvent(s, event).next = "I"
         /\ s = "M" /\ event = "BUS_RDX" => OnSnoopEvent(s, event).next = "I"
         /\ event = "BUS_RD" => OnSnoopEvent(s, event).next # "M"
  BY DEF OnSnoopEvent, MSIState, SnoopEvent

\* A word with selected bytes replaced is a word.
LEMMA ApplyWstrbType ==
  ASSUME NEW old \in Word, NEW new \in Word, NEW wstrb
  PROVE  ApplyWstrb(old, new, wstrb) \in Word
  BY DEF ApplyWstrb, Word

LEMMA ZeroWordType == ZeroWord \in Word
  BY ZeroByteAssumption DEF ZeroWord, Word

\* A snoop changes only the state of the snooped address's lines.
LEMMA SnoopedLines ==
  ASSUME MemoryTypeOK, NEW targets, NEW a \in Addr, NEW event \in SnoopEvent
  PROVE  /\ Snooped(targets, a, event) \in [Core -> [Index -> Line]]
         /\ \A d \in Core, i \in Index :
              /\ Snooped(targets, a, event)[d][i].tag = line[d][i].tag
              /\ Snooped(targets, a, event)[d][i].data = line[d][i].data
              /\ Snooped(targets, a, event)[d][i].state
                   = IF d \in targets /\ i = a.index /\ line[d][i].tag = a.tag
                     THEN OnSnoopEvent(line[d][i].state, event).next
                     ELSE line[d][i].state
<1> DEFINE new == Snooped(targets, a, event)
<1>1. ASSUME NEW d \in Core
      PROVE  /\ new[d] \in [Index -> Line]
             /\ \A i \in Index :
                  /\ new[d][i].tag = line[d][i].tag
                  /\ new[d][i].data = line[d][i].data
                  /\ new[d][i].state
                       = IF d \in targets /\ i = a.index /\ line[d][i].tag = a.tag
                         THEN OnSnoopEvent(line[d][i].state, event).next
                         ELSE line[d][i].state
  <2>1. line[d] \in [Index -> Line] /\ a.index \in Index
    BY DEF MemoryTypeOK, Addr
  <2>2. CASE d \in targets /\ line[d][a.index].tag = a.tag
    <3>1. new[d] = [line[d] EXCEPT ![a.index] =
                     [line[d][a.index] EXCEPT !.state = OnSnoopEvent(line[d][a.index].state, event).next]]
      BY <2>1, <2>2 DEF Snooped, Line
    <3>2. OnSnoopEvent(line[d][a.index].state, event).next \in MSIState
      BY <2>1, SnoopTable DEF Line
    <3>3. QED BY <2>1, <2>2, <3>1, <3>2 DEF Line
  <2>3. CASE ~(d \in targets /\ line[d][a.index].tag = a.tag)
    BY <2>1, <2>3 DEF Snooped
  <2>4. QED BY <2>2, <2>3
<1>2. new = [d \in Core |-> new[d]]
  BY DEF Snooped
<1>3. QED BY <1>1, <1>2

\* A served miss replaces exactly one line.
LEMMA FilledLines ==
  ASSUME NEW lines \in [Core -> [Index -> Line]], NEW c \in Core, NEW a \in Addr,
         NEW s \in MSIState, NEW data \in Word
  PROVE  /\ Filled(lines, c, a, s, data) \in [Core -> [Index -> Line]]
         /\ \A d \in Core, i \in Index :
              Filled(lines, c, a, s, data)[d][i]
                = IF d = c /\ i = a.index
                  THEN [tag |-> a.tag, state |-> s, data |-> data]
                  ELSE lines[d][i]
<1>1. a.index \in Index /\ a.tag \in Tag
  BY DEF Addr
<1>2. [tag |-> a.tag, state |-> s, data |-> data] \in Line
  BY <1>1 DEF Line
<1>3. QED BY <1>1, <1>2 DEF Filled

--------------------------------------------------------------------------------
(* Who may hold a line, and what the directory's entry then says. *)

\* Lines that only lost their states on account of a snoop for address a: all
\* of it if the requester takes state s = "M", being MODIFIED if it takes "S".
OnlyLowered(lines, a, s) ==
  \A d \in Core, i \in Index :
    /\ lines[d][i].tag = line[d][i].tag
    /\ \/ lines[d][i].state = line[d][i].state
       \/ /\ i = a.index /\ line[d][i].tag = a.tag
          /\ \/ s = "M" /\ lines[d][i].state = "I"
             \/ s = "S" /\ line[d][i].state = "M" /\ lines[d][i].state = "S"

\* What the other caches' lines must look like for c to take a in state s, the
\* directory listing sharers.
OthersCovered(lines, c, a, s, sharers) ==
  \A d \in Core \ {c} : lines[d][a.index].tag = a.tag =>
    /\ lines[d][a.index].state # "M"
    /\ s = "M" => lines[d][a.index].state = "I"
    /\ lines[d][a.index].state # "I" => d \in sharers

\* What all misses that are let through have in common.
MissServed(c, a, s) ==
  \E lines \in [Core -> [Index -> Line]], data \in Word, sharers \in SUBSET Core :
    /\ OnlyLowered(lines, a, s)
    /\ OthersCovered(lines, c, a, s, sharers)
    /\ c \in sharers
    /\ s = "M" => sharers = {c}
    /\ line' = Filled(lines, c, a, s, data)
    /\ SetEntry(a, s, sharers)
    /\ mem' \in [Addr -> Word]

\* The argument all misses share: the invariant is about one address at a time;
\* at a the new line and entry keep it, elsewhere lines were only lowered.
LEMMA CoherenceAfterMiss ==
  ASSUME CoherenceInv, NEW c \in Core, NEW a \in Addr, NEW s \in {"S", "M"},
         MissServed(c, a, s)
  PROVE  CoherenceInv'
<1> PICK lines \in [Core -> [Index -> Line]], data \in Word, sharers \in SUBSET Core :
           /\ OnlyLowered(lines, a, s)
           /\ OthersCovered(lines, c, a, s, sharers)
           /\ c \in sharers
           /\ s = "M" => sharers = {c}
           /\ line' = Filled(lines, c, a, s, data)
           /\ SetEntry(a, s, sharers)
           /\ mem' \in [Addr -> Word]
  BY DEF MissServed
<1>1. /\ line' \in [Core -> [Index -> Line]]
      /\ \A d \in Core, i \in Index :
           line'[d][i] = IF d = c /\ i = a.index
                         THEN [tag |-> a.tag, state |-> s, data |-> data]
                         ELSE lines[d][i]
  BY FilledLines DEF MSIState
<1>2. MemoryTypeOK'
  <2>1. [state |-> s, sharers |-> sharers] \in DirectoryEntry
    BY DEF DirectoryEntry, MSIState
  <2>2. QED BY <1>1, <2>1 DEF CoherenceInv, MemoryTypeOK, SetEntry
<1>3. EntryShape'
  BY DEF CoherenceInv, EntryShape, MemoryTypeOK, SetEntry
<1>4. ASSUME NEW d \in Core, NEW b \in Addr
      PROVE  /\ StateOf(d, b)' # "I" => d \in dir'[b].sharers
             /\ StateOf(d, b)' = "M" => HasOwner(b, d)'
  <2>1. a.index \in Index /\ b.index \in Index /\ a.tag \in Tag /\ b.tag \in Tag
    BY DEF Addr
  <2>2. a.tag = b.tag /\ a.index = b.index => a = b
    BY DEF Addr
  <2>3. dir' = [dir EXCEPT ![a] = [state |-> s, sharers |-> sharers]] /\ dir \in [Addr -> DirectoryEntry]
    BY DEF CoherenceInv, MemoryTypeOK, SetEntry
  <2>4. CASE b = a
    <3>1. dir'[b] = [state |-> s, sharers |-> sharers]
      BY <2>3, <2>4
    <3>2. CASE d = c
      <4>1. StateOf(d, b)' = s
        BY <1>1, <2>1, <2>4, <3>2 DEF StateOf
      <4>2. dir'[b].sharers = sharers /\ dir'[b].state = s
        BY <3>1
      <4>3. QED BY <4>1, <4>2, <3>2 DEF HasOwner
    <3>3. CASE d # c
      BY <1>1, <2>1, <2>4, <3>1, <3>3 DEF StateOf, OthersCovered
    <3>4. QED BY <3>2, <3>3
  <2>5. CASE b # a
    <3>1. dir'[b] = dir[b]
      BY <2>3, <2>5
    <3>2. StateOf(d, b)' \in {StateOf(d, b), "I"}
      BY <1>1, <2>1, <2>2, <2>5 DEF StateOf, OnlyLowered
    <3>3. QED BY <3>1, <3>2 DEF CoherenceInv, DirectoryCovers, HasOwner
  <2>6. QED BY <2>4, <2>5
<1>5. QED BY <1>2, <1>3, <1>4 DEF CoherenceInv, DirectoryCovers

--------------------------------------------------------------------------------
(* One lemma per handler. *)

\* What an owner flushes is a word.
LEMMA SnoopPayloadType ==
  ASSUME MemoryTypeOK, NEW d \in Core, NEW a \in Addr, NEW event \in SnoopEvent
  PROVE  SnoopPayload(d, a, event) \in Word
  BY ZeroWordType DEF SnoopPayload, MemoryTypeOK, Line, Addr

\* The lines a snoop leaves are lines the invariant still covers.
LEMMA SnoopOnlyLowers ==
  ASSUME MemoryTypeOK, NEW targets, NEW a \in Addr, NEW event \in SnoopEvent,
         NEW s \in {"S", "M"}, event = "BUS_RD" <=> s = "S"
  PROVE  OnlyLowered(Snooped(targets, a, event), a, s)
<1> DEFINE lines == Snooped(targets, a, event)
<1>1. \A d \in Core, i \in Index :
        /\ lines[d][i].tag = line[d][i].tag
        /\ lines[d][i].state = IF d \in targets /\ i = a.index /\ line[d][i].tag = a.tag
                               THEN OnSnoopEvent(line[d][i].state, event).next
                               ELSE line[d][i].state
  BY SnoopedLines
<1> HIDE DEF lines
<1>2. ASSUME NEW d \in Core, NEW i \in Index
      PROVE  LET old == line[d][i].state
                 next == OnSnoopEvent(old, event).next
             IN  \/ next = old
                 \/ s = "M" /\ next = "I"
                 \/ s = "S" /\ old = "M" /\ next = "S"
  <2>1. line[d][i].state \in MSIState
    BY DEF MemoryTypeOK, Line
  <2>2. QED BY <2>1 DEF OnSnoopEvent, MSIState, SnoopEvent
<1>3. OnlyLowered(lines, a, s)
  BY <1>1, <1>2 DEF OnlyLowered
<1>4. QED BY <1>3 DEF lines

\* After a snoop of targets, which hold every valid copy of a but c's, the
\* others are ready for c to take the line.
LEMMA SnoopCovers ==
  ASSUME MemoryTypeOK, NEW targets, NEW c \in Core, NEW a \in Addr, NEW sharers,
         NEW event \in SnoopEvent, NEW s \in {"S", "M"},
         \A d \in Core \ {c} : StateOf(d, a) # "I" => d \in targets,
         event = "BUS_RD" => s = "S" /\ targets \subseteq sharers,
         event = "BUS_UPGR" => \A d \in Core : StateOf(d, a) # "M"
  PROVE  OthersCovered(Snooped(targets, a, event), c, a, s, sharers)
<1> DEFINE lines == Snooped(targets, a, event)
<1> SUFFICES ASSUME NEW d \in Core \ {c}, lines[d][a.index].tag = a.tag
             PROVE  /\ lines[d][a.index].state # "M"
                    /\ s = "M" => lines[d][a.index].state = "I"
                    /\ lines[d][a.index].state # "I" => d \in sharers
  BY DEF OthersCovered
<1>1. a.index \in Index /\ line[d][a.index] \in Line
  BY DEF Addr, MemoryTypeOK
<1>2. /\ lines[d][a.index].tag = line[d][a.index].tag
      /\ lines[d][a.index].state = IF d \in targets /\ line[d][a.index].tag = a.tag
                                   THEN OnSnoopEvent(line[d][a.index].state, event).next
                                   ELSE line[d][a.index].state
  <2>1. \A e \in Core, i \in Index :
          /\ lines[e][i].tag = line[e][i].tag
          /\ lines[e][i].state = IF e \in targets /\ i = a.index /\ line[e][i].tag = a.tag
                                 THEN OnSnoopEvent(line[e][i].state, event).next
                                 ELSE line[e][i].state
    BY SnoopedLines
  <2> HIDE DEF lines
  <2>2. QED BY <1>1, <2>1
<1> HIDE DEF lines
<1>3. line[d][a.index].tag = a.tag /\ line[d][a.index].state = StateOf(d, a)
  BY <1>2 DEF StateOf
<1>4. lines[d][a.index].state = IF d \in targets THEN OnSnoopEvent(StateOf(d, a), event).next
                                ELSE StateOf(d, a)
  BY <1>2, <1>3
<1>5. StateOf(d, a) \in MSIState
  BY <1>1, <1>3 DEF Line
<1>6. CASE d \in targets
  <2>1. lines[d][a.index].state = OnSnoopEvent(StateOf(d, a), event).next
    BY <1>4, <1>6
  <2>2. event = "BUS_RD" => lines[d][a.index].state # "M"
    BY <2>1, <1>5, SnoopTable
  <2>3. event # "BUS_RD" => lines[d][a.index].state = "I"
    BY <2>1, <1>5 DEF OnSnoopEvent, MSIState, SnoopEvent
  <2>4. QED BY <2>2, <2>3, <1>6
<1>7. CASE d \notin targets
  BY <1>4, <1>7
<1>8. QED BY <1>6, <1>7

\* The facts a handler's lemma has to collect.
LEMMA MissServedIf ==
  ASSUME NEW c \in Core, NEW a \in Addr, NEW s \in {"S", "M"}, NEW data \in Word,
         NEW lines \in [Core -> [Index -> Line]], NEW sharers \in SUBSET Core,
         OnlyLowered(lines, a, s),
         OthersCovered(lines, c, a, s, sharers),
         c \in sharers,
         s = "M" => sharers = {c},
         line' = Filled(lines, c, a, s, data),
         SetEntry(a, s, sharers),
         mem' \in [Addr -> Word]
  PROVE  MissServed(c, a, s)
  BY DEF MissServed

\* directory._bus_rd serves a miss.
LEMMA BusRdIsMiss ==
  ASSUME CoherenceInv, NEW c \in Core, NEW a \in Addr, BusRd(c, a)
  PROVE  MissServed(c, a, "S")
<1> USE ZeroWordType
<1>1. /\ MemoryTypeOK /\ DirectoryCovers /\ EntryShape
      /\ line \in [Core -> [Index -> Line]] /\ mem \in [Addr -> Word]
      /\ dir[a] \in DirectoryEntry
  BY DEF CoherenceInv, MemoryTypeOK
<1>2. OnlyLowered(line, a, "S")
  BY DEF OnlyLowered
<1>3. CASE BusRdClean(c, a)
  <2> DEFINE sharers == (IF dir[a].state = "I" THEN {} ELSE dir[a].sharers) \cup {c}
  <2>1. sharers \in SUBSET Core
    BY <1>1 DEF DirectoryEntry
  <2>2. OthersCovered(line, c, a, "S", sharers)
    <3>1. \A d \in Core : StateOf(d, a) # "M" /\ (StateOf(d, a) # "I" => d \in sharers)
      BY <1>1, <1>3 DEF BusRdClean, DirectoryCovers, EntryShape, HasOwner
    <3>2. QED BY <3>1 DEF OthersCovered, StateOf
  <2>3. /\ line' = Filled(line, c, a, "S", ZeroWord)
        /\ SetEntry(a, "S", sharers)
        /\ mem' \in [Addr -> Word]
    BY <1>1, <1>3 DEF BusRdClean
  <2> HIDE DEF sharers
  <2>4. c \in sharers
    BY DEF sharers
  <2>5. QED BY <1>1, <1>2, <2>1, <2>2, <2>3, <2>4, MissServedIf
<1>4. CASE BusRdModified(c, a)
  <2> DEFINE sharers == dir[a].sharers \cup {c}
  <2>1. /\ sharers \in SUBSET Core
        /\ SetEntry(a, "S", sharers)
        /\ dir[a].state = "M"
        /\ c \in sharers
    BY <1>1, <1>4 DEF BusRdModified, DirectoryEntry
  <2>2. ASSUME NEW d \in Core \ {c}, HasOwner(a, d),
               mem' = [mem EXCEPT ![a] = SnoopPayload(d, a, "BUS_RD")],
               line' = Filled(Snooped({d}, a, "BUS_RD"), c, a, "S", mem'[a])
        PROVE  MissServed(c, a, "S")
    <3> DEFINE lines == Snooped({d}, a, "BUS_RD")
    <3>1. "BUS_RD" \in SnoopEvent
      BY DEF SnoopEvent
    <3>2. mem' \in [Addr -> Word] /\ mem'[a] \in Word
      BY <1>1, <2>2, <3>1, SnoopPayloadType
    <3>3. lines \in [Core -> [Index -> Line]] /\ OnlyLowered(lines, a, "S")
      BY <1>1, <3>1, SnoopedLines, SnoopOnlyLowers
    <3>4. d \in sharers /\ \A e \in Core \ {c} : StateOf(e, a) # "I" => e \in {d}
      BY <1>1, <2>2 DEF DirectoryCovers, HasOwner
    <3>5. OthersCovered(lines, c, a, "S", sharers)
      BY <1>1, <3>1, <3>4, SnoopCovers
    <3>6. line' = Filled(lines, c, a, "S", mem'[a])
      BY <2>2
    <3> HIDE DEF lines, sharers
    <3>7. QED BY <2>1, <3>2, <3>3, <3>5, <3>6, MissServedIf
  <2>3. ASSUME ~ \E d \in Core \ {c} : HasOwner(a, d),
               line' = Filled(line, c, a, "S", mem[a]), UNCHANGED mem
        PROVE  MissServed(c, a, "S")
    <3>1. OthersCovered(line, c, a, "S", sharers)
      <4>1. \A d \in Core \ {c} : StateOf(d, a) = "I"
        BY <1>1, <2>1, <2>3 DEF DirectoryCovers, EntryShape, HasOwner
      <4>2. QED BY <4>1 DEF OthersCovered, StateOf
    <3>2. mem[a] \in Word /\ mem' \in [Addr -> Word]
      BY <1>1, <2>3
    <3> HIDE DEF sharers
    <3>3. QED BY <1>1, <1>2, <2>1, <2>3, <3>1, <3>2, MissServedIf
  <2>4. QED BY <1>4, <2>2, <2>3 DEF BusRdModified
<1>5. QED BY <1>3, <1>4 DEF BusRd

\* directory._bus_rdx serves a miss.
LEMMA BusRdxIsMiss ==
  ASSUME CoherenceInv, NEW c \in Core, NEW a \in Addr, NEW wstrb, NEW wdata \in Word,
         BusRdx(c, [addr |-> a, wstrb |-> wstrb, wdata |-> wdata])
  PROVE  MissServed(c, a, "M")
<1> DEFINE req == [addr |-> a, wstrb |-> wstrb, wdata |-> wdata]
<1>1. /\ MemoryTypeOK /\ DirectoryCovers /\ EntryShape
      /\ mem \in [Addr -> Word] /\ dir[a] \in DirectoryEntry
      /\ "BUS_RDX" \in SnoopEvent
  BY DEF CoherenceInv, MemoryTypeOK, SnoopEvent
<1>2. \A data \in Word : ApplyWstrb(data, wdata, wstrb) \in Word
  BY ApplyWstrbType
<1>3. {c} \in SUBSET Core /\ c \in {c}
  OBVIOUS
<1>4. CASE BusRdxClean(c, req)
  <2> DEFINE targets == IF dir[a].state = "S" THEN OtherSharers(c, a) ELSE {}
             lines == Snooped(targets, a, "BUS_RDX")
  <2>1. /\ line' = Filled(lines, c, a, "M", ApplyWstrb(mem[a], wdata, wstrb))
        /\ SetEntry(a, "M", {c})
        /\ mem' \in [Addr -> Word] /\ mem[a] \in Word
    BY <1>1, <1>4 DEF BusRdxClean, StoreMiss
  <2>2. \A d \in Core \ {c} : StateOf(d, a) # "I" => d \in targets
    BY <1>1, <1>4 DEF BusRdxClean, DirectoryCovers, EntryShape, OtherSharers
  <2> HIDE DEF targets
  <2>3. lines \in [Core -> [Index -> Line]] /\ OnlyLowered(lines, a, "M")
    BY <1>1, SnoopedLines, SnoopOnlyLowers
  <2>4. OthersCovered(lines, c, a, "M", {c})
    BY <1>1, <2>2, SnoopCovers
  <2> HIDE DEF lines
  <2>5. QED BY <1>2, <1>3, <2>1, <2>3, <2>4, MissServedIf
<1>5. CASE BusRdxOwned(c, req)
  <2>1. PICK d \in Core \ {c} :
          /\ HasOwner(a, d)
          /\ mem' = [mem EXCEPT ![a] = SnoopPayload(d, a, "BUS_RDX")]
          /\ line' = Filled(Snooped({d}, a, "BUS_RDX"), c, a, "M",
                            ApplyWstrb(SnoopPayload(d, a, "BUS_RDX"), wdata, wstrb))
          /\ SetEntry(a, "M", {c})
    BY <1>5 DEF BusRdxOwned, StoreMiss
  <2> DEFINE lines == Snooped({d}, a, "BUS_RDX")
  <2>2. SnoopPayload(d, a, "BUS_RDX") \in Word
    BY <1>1, SnoopPayloadType
  <2>3. mem' \in [Addr -> Word]
    BY <1>1, <2>1, <2>2
  <2>4. \A e \in Core \ {c} : StateOf(e, a) # "I" => e \in {d}
    BY <1>1, <2>1 DEF DirectoryCovers, HasOwner
  <2>5. lines \in [Core -> [Index -> Line]] /\ OnlyLowered(lines, a, "M")
    BY <1>1, SnoopedLines, SnoopOnlyLowers
  <2>6. OthersCovered(lines, c, a, "M", {c})
    BY <1>1, <2>4, SnoopCovers
  <2>7. /\ line' = Filled(lines, c, a, "M", ApplyWstrb(SnoopPayload(d, a, "BUS_RDX"), wdata, wstrb))
        /\ ApplyWstrb(SnoopPayload(d, a, "BUS_RDX"), wdata, wstrb) \in Word
        /\ SetEntry(a, "M", {c})
    BY <1>2, <2>1, <2>2
  <2> HIDE DEF lines
  <2>8. QED BY <1>3, <2>3, <2>5, <2>6, <2>7, MissServedIf
<1>6. QED BY <1>4, <1>5 DEF BusRdx

\* directory._bus_upgr serves a miss, its fallback included.
LEMMA BusUpgrIsMiss ==
  ASSUME CoherenceInv, NEW c \in Core, NEW a \in Addr, NEW wstrb, NEW wdata \in Word,
         BusUpgr(c, [addr |-> a, wstrb |-> wstrb, wdata |-> wdata])
  PROVE  MissServed(c, a, "M")
<1> DEFINE req == [addr |-> a, wstrb |-> wstrb, wdata |-> wdata]
<1>1. CASE BusRdx(c, req)
  BY <1>1, BusRdxIsMiss
<1>2. CASE BusUpgrShared(c, req)
  <2> DEFINE lines == Snooped(OtherSharers(c, a), a, "BUS_UPGR")
  <2>1. /\ MemoryTypeOK /\ DirectoryCovers /\ mem \in [Addr -> Word]
        /\ "BUS_UPGR" \in SnoopEvent
        /\ dir[a].state = "S"
    BY <1>2 DEF CoherenceInv, MemoryTypeOK, SnoopEvent, BusUpgrShared
  <2>2. /\ line' = Filled(lines, c, a, "M", ApplyWstrb(ZeroWord, wdata, wstrb))
        /\ SetEntry(a, "M", {c})
        /\ mem' \in [Addr -> Word]
        /\ ApplyWstrb(ZeroWord, wdata, wstrb) \in Word
    BY <1>2, <2>1, ApplyWstrbType, ZeroWordType DEF BusUpgrShared, StoreMiss
  <2>3. /\ \A d \in Core \ {c} : StateOf(d, a) # "I" => d \in OtherSharers(c, a)
        /\ \A d \in Core : StateOf(d, a) # "M"
    BY <2>1 DEF DirectoryCovers, HasOwner, OtherSharers
  <2>4. lines \in [Core -> [Index -> Line]] /\ OnlyLowered(lines, a, "M")
    BY <2>1, SnoopedLines, SnoopOnlyLowers
  <2>5. OthersCovered(lines, c, a, "M", {c})
    BY <2>1, <2>3, SnoopCovers
  <2>6. {c} \in SUBSET Core /\ c \in {c}
    OBVIOUS
  <2> HIDE DEF lines
  <2>7. QED BY <2>2, <2>4, <2>5, <2>6, MissServedIf
<1>3. QED BY <1>1, <1>2 DEF BusUpgr

\* A line given up (cache.py:155) is INVALID for every address.
LEMMA GiveUpLines ==
  ASSUME MemoryTypeOK, NEW c \in Core, NEW i \in Index, GiveUp(c, i)
  PROVE  /\ line' \in [Core -> [Index -> Line]]
         /\ \A d \in Core, j \in Index :
              /\ line'[d][j].tag = line[d][j].tag
              /\ line'[d][j].state = IF d = c /\ j = i THEN "I" ELSE line[d][j].state
<1>1. line[c][i] \in Line
  BY DEF MemoryTypeOK
<1>2. /\ [line[c][i] EXCEPT !.state = "I"] \in Line
      /\ [line[c][i] EXCEPT !.state = "I"].tag = line[c][i].tag
      /\ [line[c][i] EXCEPT !.state = "I"].state = "I"
  BY <1>1 DEF Line, MSIState
<1>3. QED BY <1>2 DEF GiveUp, MemoryTypeOK

\* So the permissions it amounts to are those before, but for c and index i.
LEMMA GiveUpStates ==
  ASSUME MemoryTypeOK, NEW c \in Core, NEW i \in Index, GiveUp(c, i)
  PROVE  \A d \in Core, b \in Addr :
           StateOf(d, b)' = IF d = c /\ b.index = i THEN "I" ELSE StateOf(d, b)
  BY GiveUpLines DEF StateOf, Addr

\* A cache that gives a line up without the directory's knowledge keeps the
\* invariant, which only bounds what the caches may hold.
LEMMA GiveUpKeepsCoherence ==
  ASSUME CoherenceInv, NEW c \in Core, NEW i \in Index, GiveUp(c, i), UNCHANGED <<dir, mem>>
  PROVE  CoherenceInv'
<1>1. MemoryTypeOK'
  BY GiveUpLines DEF CoherenceInv, MemoryTypeOK
<1>2. EntryShape'
  BY DEF CoherenceInv, EntryShape
<1>3. \A d \in Core, b \in Addr : StateOf(d, b)' \in {StateOf(d, b), "I"}
  BY GiveUpStates DEF CoherenceInv
<1>4. DirectoryCovers'
  BY <1>3 DEF CoherenceInv, DirectoryCovers, HasOwner
<1>5. QED BY <1>1, <1>2, <1>4 DEF CoherenceInv

\* A step that leaves tags, states and the directory alone, whatever it does to
\* the data, keeps the invariant.
LEMMA SameStatesKeepCoherence ==
  ASSUME CoherenceInv, line' \in [Core -> [Index -> Line]], UNCHANGED <<dir, mem>>,
         \A d \in Core, i \in Index :
           line'[d][i].tag = line[d][i].tag /\ line'[d][i].state = line[d][i].state
  PROVE  CoherenceInv'
<1>1. \A d \in Core, b \in Addr : StateOf(d, b)' = StateOf(d, b)
  BY DEF StateOf, Addr
<1>2. QED BY <1>1 DEF CoherenceInv, MemoryTypeOK, DirectoryCovers, HasOwner, EntryShape

\* directory._evict_clean and _evict_dirty keep the invariant.
LEMMA EvictKeepsCoherence ==
  ASSUME CoherenceInv, NEW c \in Core, NEW a \in Addr, NEW cmd, NEW payload \in Word,
         Evict(c, a, cmd, payload)
  PROVE  CoherenceInv'
<1>1. /\ MemoryTypeOK /\ DirectoryCovers /\ EntryShape
      /\ a.index \in Index /\ dir[a] \in DirectoryEntry
      /\ GiveUp(c, a.index)
      /\ dir' = [dir EXCEPT ![a] = EntryWithout(c, a)]
  BY DEF CoherenceInv, MemoryTypeOK, Addr, Evict
<1> DEFINE rest == dir[a].sharers \ {c}
<1>2. /\ EntryWithout(c, a) \in DirectoryEntry
      /\ EntryWithout(c, a).sharers = rest
      /\ rest = {} => EntryWithout(c, a).state = "I"
      /\ rest # {} => EntryWithout(c, a).state \in {dir[a].state, "S"}
      /\ EntryWithout(c, a).state = "M" => \E d \in Core : rest = {d}
      /\ dir[a].state = "M" /\ (\E d \in Core : rest = {d}) => EntryWithout(c, a).state = "M"
  BY <1>1 DEF EntryWithout, DirectoryEntry, MSIState
<1>3. MemoryTypeOK'
  BY <1>1, <1>2, GiveUpLines DEF MemoryTypeOK, Evict
<1>4. EntryShape'
  <2>1. EntryWithout(c, a).state = "I" => rest = {}
    BY <1>1, <1>2 DEF EntryShape
  <2>2. QED BY <1>1, <1>2, <2>1 DEF EntryShape, MemoryTypeOK
<1>5. DirectoryCovers'
  <2> SUFFICES ASSUME NEW d \in Core, NEW b \in Addr
               PROVE  /\ StateOf(d, b)' # "I" => d \in dir'[b].sharers
                      /\ StateOf(d, b)' = "M" => HasOwner(b, d)'
    BY DEF DirectoryCovers
  <2>1. /\ StateOf(d, b)' \in {StateOf(d, b), "I"}
        /\ d = c /\ b = a => StateOf(d, b)' = "I"
    BY <1>1, GiveUpStates
  <2>2. dir \in [Addr -> DirectoryEntry]
    BY <1>1 DEF MemoryTypeOK
  <2>3. CASE b = a
    <3>1. dir'[b] = EntryWithout(c, a)
      BY <1>1, <2>2, <2>3
    <3>2. StateOf(d, b)' # "I" => d \in rest
      BY <1>1, <2>1, <2>3 DEF DirectoryCovers
    <3>3. StateOf(d, b)' = "M" => dir[a].state = "M" /\ rest = {d}
      BY <1>1, <2>1, <2>3, <3>2 DEF DirectoryCovers, HasOwner
    <3>4. QED BY <1>2, <3>1, <3>2, <3>3 DEF HasOwner
  <2>4. CASE b # a
    BY <1>1, <2>1, <2>2, <2>4 DEF DirectoryCovers, HasOwner
  <2>5. QED BY <2>3, <2>4
<1>6. QED BY <1>3, <1>4, <1>5 DEF CoherenceInv

\* One writer follows from what the directory covers: the owner of an entry is
\* its only sharer.
LEMMA CoveredMeansSingleWriter ==
  ASSUME CoherenceInv
  PROVE  SingleWriter
  BY DEF CoherenceInv, DirectoryCovers, SingleWriter, HasOwner

--------------------------------------------------------------------------------
(* The arbiter's choice. *)

\* A search that is given a request finds one, and leaves the turn with a
\* requester that has its full allowance of one credit.
LEMMA ArbitrateType ==
  ASSUME NEW index \in Core, NEW requests \in SUBSET Core, requests # {}
  PROVE  LET result == Arbiter!Arbitrate(index, 1, requests)
         IN  /\ result.grant \in requests
             /\ result.index \in Core
             /\ result.credits = 1
<1> USE NumCoresAssumption
<1> DEFINE turns == {Arbiter!Turns(index, r) : r \in requests}
<1>1. \A r \in requests : Arbiter!Turns(index, r) \in Nat
  BY DEF Arbiter!Turns, Core
<1>2. turns \subseteq Nat /\ turns # {}
  BY <1>1
<1> HIDE DEF turns
<1>3. PICK least \in turns : \A m \in turns : ~ (<<m, least>> \in OpToRel(<, Nat))
  BY <1>2, NatLessThanWellFounded, WFMin
<1>4. ASSUME NEW m \in turns PROVE least <= m
  <2>1. m \in Nat /\ least \in Nat
    BY <1>2
  <2>2. m < least => <<m, least>> \in OpToRel(<, Nat)
    BY <2>1, Zenon DEF OpToRel
  <2>3. ~ (m < least)
    BY <1>3, <2>2, Zenon
  <2>4. QED BY <2>1, <2>3
<1>5. \E r \in requests : \A s \in requests : Arbiter!Turns(index, r) <= Arbiter!Turns(index, s)
  BY <1>4 DEF turns
<1>6. Arbiter!FirstFrom(index, requests) \in requests
  BY <1>5 DEF Arbiter!FirstFrom
<1> DEFINE winner == Arbiter!FirstFrom(index, requests)
<1>7. /\ winner \in Core
      /\ Arbiter!TurnAfter(winner, 1) \in Core
  <2>1. winner \in Core
    BY <1>6
  <2> HIDE DEF winner
  <2>2. winner + 1 \in Nat /\ NumCores \in Nat \ {0}
    BY <2>1 DEF Core
  <2>3. (winner + 1) % NumCores \in 0 .. NumCores - 1
    BY <2>2
  <2>4. QED BY <2>1, <2>3 DEF Arbiter!TurnAfter, Core
<1>8. (IF winner = index THEN 1 ELSE [c \in Core |-> 1][winner]) = 1
  BY <1>7
<1> HIDE DEF winner
<1>9. Arbiter!Arbitrate(index, 1, requests)
        = [grant |-> winner, index |-> Arbiter!TurnAfter(winner, 1), credits |-> 1]
  BY <1>7, <1>8 DEF Arbiter!Arbitrate, Arbiter!SpendCredit, winner
<1>10. QED BY <1>6, <1>7, <1>9 DEF winner

--------------------------------------------------------------------------------
(* The scheduler's state: each step keeps its type. *)

\* The task at the head of the queue is a core's, and so are those behind it.
LEMMA QueueType ==
  ASSUME NEW q \in Seq(Core), q # <<>>
  PROVE  Head(q) \in Core /\ Tail(q) \in Seq(Core)
  OBVIOUS

\* What a cache asks for is a packet; a request of its own is for an address,
\* on behalf of a test case, and no line stands in the way of a miss.
LEMMA WantedIsPacket ==
  ASSUME TypeOK, NEW c \in Core
  PROVE  /\ Wanted(c) \in Packet
         /\ Wanted(c).cmd # "NULL" => op[c] # NoOp /\ Wanted(c).addr \in Addr
         /\ Wanted(c).cmd \in BusCmd => ~ MustEvict(c)
<1> DEFINE old == line[c][op[c].addr.index]
           tr == OnProcessorEvent(old.state, IF IsWrite(op[c]) THEN "PR_WR" ELSE "PR_RD")
<1>1. CASE op[c] = NoOp
  <2>1. InvalidPacket \in Packet /\ "NULL" \notin BusCmd
    BY ZeroWordType DEF InvalidPacket, Packet, CoherenceCmd, BusCmd
  <2>2. InvalidPacket.cmd = "NULL"
    BY DEF InvalidPacket
  <2>3. Wanted(c) = InvalidPacket
    <3>1. ~ MustEvict(c)
      BY <1>1 DEF MustEvict
    <3>2. QED BY <1>1, <3>1, Zenon DEF Wanted
  <2>4. QED BY <2>1, <2>2, <2>3
<1>2. ASSUME op[c] # NoOp
      PROVE  op[c] \in Op /\ op[c].addr \in Addr /\ old \in Line
  BY <1>2, WorkloadAssumption DEF TypeOK, MemoryTypeOK, SchedulerTypeOK, Op, Addr
<1>3. CASE op[c] # NoOp /\ MustEvict(c)
  <2> DEFINE cmd == IF old.state = "M" THEN "EVICT_DIRTY" ELSE "EVICT_CLEAN"
             addr == [tag |-> old.tag, index |-> op[c].addr.index]
  <2>1. Wanted(c) = [cmd |-> cmd, addr |-> addr, payload |-> old.data]
    BY <1>3 DEF Wanted
  <2>2. cmd \in CoherenceCmd \ BusCmd
    BY DEF CoherenceCmd, EvictCmd, BusCmd
  <2>3. addr \in Addr /\ old.data \in Word
    BY <1>2, <1>3 DEF Addr, Line
  <2> HIDE DEF cmd, addr
  <2>4. QED BY <1>3, <2>1, <2>2, <2>3 DEF Packet
<1>4. CASE op[c] # NoOp /\ ~ MustEvict(c)
  <2>1. Wanted(c) = IF tr.cmd = "NULL" THEN InvalidPacket
                    ELSE [cmd |-> tr.cmd, addr |-> op[c].addr, payload |-> ZeroWord]
    BY <1>4 DEF Wanted
  <2>2. tr.cmd \in CoherenceCmd
    BY DEF OnProcessorEvent, CoherenceCmd, BusCmd
  <2> HIDE DEF tr
  <2>3. QED BY <1>2, <1>4, <2>1, <2>2, ZeroWordType DEF Packet, InvalidPacket, CoherenceCmd, BusCmd
<1>5. QED BY <1>1, <1>3, <1>4

\* The clean-up leaves a barrier.
LEMMA LeaveType ==
  ASSUME SchedulerTypeOK, Leave
  PROVE  /\ arrived' \in Int /\ allArrived' \in BOOLEAN /\ arbDone' \in BOOLEAN
         /\ waitAll' \in Seq(Core) /\ waitArb' \in Seq(Core)
         /\ requestId' \in Core \cup {-1}
         /\ turn' \in [index : Core, credits : {1}]
         /\ request' \in [Core -> Packet]
  BY DEF SchedulerTypeOK, Leave

\* So does a task that returns its result, or goes back for its access.
LEMMA AnsweredType ==
  ASSUME SchedulerTypeOK, NEW c \in Core, Running(c), Leave,
         \/ \E ack \in BOOLEAN : Return(c, ack)
         \/ Goto(c, "lookup") /\ UNCHANGED <<op, acked, ready>>
  PROVE  SchedulerTypeOK'
<1>1. Tail(ready) \in Seq(Core)
  BY QueueType DEF SchedulerTypeOK, Running
<1>2. /\ op' \in [Core -> Workload \cup {NoOp}]
      /\ acked' \in [Core -> BOOLEAN]
      /\ pc' \in [Core -> {"done", "lookup", "arrive", "turn", "serve"}]
      /\ ready' \in Seq(Core)
  BY <1>1 DEF SchedulerTypeOK, Return, Goto
<1>3. QED BY <1>2, LeaveType DEF SchedulerTypeOK

LEMMA NextCycleType ==
  ASSUME SchedulerTypeOK, NextCycle
  PROVE  SchedulerTypeOK'
<1>1. InitialOrder \in Seq(Core)
  <2>1. \A k \in 1 .. NumCores : k - 1 \in Core
    BY NumCoresAssumption DEF Core
  <2>2. QED BY <2>1, NumCoresAssumption DEF InitialOrder
<1>2. QED BY <1>1 DEF SchedulerTypeOK, NextCycle, barrierVars, Packet

LEMMA LookupType ==
  ASSUME TypeOK, NEW c \in Core, Lookup(c)
  PROVE  SchedulerTypeOK'
  BY WantedIsPacket DEF TypeOK, SchedulerTypeOK, Lookup, Goto, barrierVars

LEMMA ArriveType ==
  ASSUME SchedulerTypeOK, NEW c \in Core, Arrive(c)
  PROVE  SchedulerTypeOK'
<1>1. /\ pc' \in [Core -> {"done", "lookup", "arrive", "turn", "serve"}]
      /\ arrived' \in Int /\ allArrived' \in BOOLEAN
  BY DEF SchedulerTypeOK, Arrive, Goto
<1>2. /\ Tail(ready) \in Seq(Core) /\ ready \o waitAll \in Seq(Core)
      /\ Append(waitAll, c) \in Seq(Core) /\ <<>> \in Seq(Core)
  BY QueueType DEF SchedulerTypeOK, Arrive, Running
<1>3. ready' \in Seq(Core) /\ waitAll' \in Seq(Core)
  BY <1>2 DEF Arrive
<1>4. UNCHANGED <<op, acked, request, arbDone, waitArb, requestId, turn>>
  BY DEF Arrive
<1>5. QED BY <1>1, <1>3, <1>4 DEF SchedulerTypeOK

LEMMA TakeTurnType ==
  ASSUME SchedulerTypeOK, NEW c \in Core, TakeTurn(c)
  PROVE  SchedulerTypeOK'
<1>1. /\ pc' \in [Core -> {"done", "lookup", "arrive", "turn", "serve"}]
      /\ arbDone' \in BOOLEAN
  BY DEF SchedulerTypeOK, TakeTurn, Goto
<1>2. /\ Tail(ready) \in Seq(Core) /\ ready \o waitArb \in Seq(Core)
      /\ Append(waitArb, c) \in Seq(Core) /\ <<>> \in Seq(Core)
  BY QueueType DEF SchedulerTypeOK, TakeTurn, Running
<1>3. ready' \in Seq(Core) /\ waitArb' \in Seq(Core)
  BY <1>2 DEF TakeTurn
<1>4. UNCHANGED <<op, acked, request, arrived, allArrived, waitAll>>
  BY DEF TakeTurn
<1>5. turn.index \in Core /\ turn.credits = 1
  BY DEF SchedulerTypeOK
<1>6. requestId' \in Core \cup {-1} /\ turn' \in [index : Core, credits : {1}]
  <2>1. CASE UNCHANGED <<requestId, turn>>
    BY <2>1 DEF SchedulerTypeOK
  <2>2. CASE ArbitrateForAll /\ Requesting # {}
    <3> DEFINE result == Arbiter!Arbitrate(turn.index, turn.credits, Requesting)
    <3>1. Requesting \in SUBSET Core
      BY DEF Requesting
    <3>2. result.grant \in Requesting /\ result.index \in Core /\ result.credits = 1
      BY <1>5, <2>2, <3>1, ArbitrateType
    <3>3. requestId' = result.grant /\ turn' = [index |-> result.index, credits |-> result.credits]
      BY <2>2 DEF ArbitrateForAll
    <3> HIDE DEF result
    <3>4. QED BY <3>1, <3>2, <3>3
  <2>3. QED BY <2>1, <2>2 DEF TakeTurn, ArbitrateForAll
<1>7. QED BY <1>1, <1>3, <1>4, <1>6 DEF SchedulerTypeOK

--------------------------------------------------------------------------------
(* A decision taken at Lookup is still possible when it is served. *)

(***************************************************************************)
(* A request waiting at the barrier is for an address, on behalf of a test *)
(* case; and the line a miss will fill still holds nothing but the address *)
(* missed on: another core's command may lower it, but never brings in     *)
(* another one.                                                            *)
(***************************************************************************)
PendingOK ==
  \A c \in Core : pc[c] \in {"arrive", "turn", "serve"} /\ request[c].cmd # "NULL" =>
    /\ op[c] # NoOp
    /\ request[c].addr \in Addr
    /\ request[c].cmd \in BusCmd => ~ MustEvict(c)

\* The lines of the cores other than c are at most lowered.
OthersLowered(c) ==
  \A d \in Core \ {c}, i \in Index :
    /\ line'[d][i].tag = line[d][i].tag
    /\ line[d][i].state = "I" => line'[d][i].state = "I"

\* The serving core leaves the barrier; for the others, nothing but their
\* lines' states changed.
LEMMA ServedKeepsPending ==
  ASSUME TypeOK, PendingOK, NEW c \in Core, OthersLowered(c),
         UNCHANGED <<op, request>>,
         \A d \in Core \ {c} : pc'[d] = pc[d],
         pc'[c] \in {"done", "lookup"}
  PROVE  PendingOK'
<1> SUFFICES ASSUME NEW d \in Core, pc'[d] \in {"arrive", "turn", "serve"},
                    request[d].cmd # "NULL"
             PROVE  /\ op[d] # NoOp
                    /\ request[d].addr \in Addr
                    /\ request[d].cmd \in BusCmd => ~ MustEvict(d)'
  BY DEF PendingOK
<1>1. d # c /\ pc[d] = pc'[d]
  OBVIOUS
<1>2. /\ op[d] # NoOp
      /\ request[d].addr \in Addr
      /\ request[d].cmd \in BusCmd => ~ MustEvict(d)
  BY <1>1 DEF PendingOK
<1>3. op[d].addr.index \in Index
  BY <1>2, WorkloadAssumption DEF TypeOK, SchedulerTypeOK, Op, Addr
<1>4. MustEvict(d)' => MustEvict(d)
  BY <1>1, <1>3 DEF OthersLowered, MustEvict
<1>5. QED BY <1>2, <1>4

LEMMA WaitingKeepsPending ==
  ASSUME PendingOK, NEW c \in Core, UNCHANGED <<op, request, line>>,
         SchedulerTypeOK,
         \E label \in {"turn", "serve"} : Goto(c, label),
         pc[c] \in {"arrive", "turn"}
  PROVE  PendingOK'
  BY DEF PendingOK, MustEvict, Goto, SchedulerTypeOK

LEMMA LookupKeepsPending ==
  ASSUME TypeOK, PendingOK, NEW c \in Core, Lookup(c)
  PROVE  PendingOK'
<1>1. UNCHANGED <<op, line>> /\ request' = [request EXCEPT ![c] = Wanted(c)]
  BY DEF Lookup, memoryVars
<1>2. \A d \in Core : MustEvict(d)' = MustEvict(d)
  BY <1>1 DEF MustEvict
<1>3. \A d \in Core \ {c} : request'[d] = request[d] /\ pc'[d] = pc[d]
  BY <1>1 DEF Lookup, Goto, TypeOK, SchedulerTypeOK
<1>4. request'[c] = Wanted(c)
  BY <1>1 DEF TypeOK, SchedulerTypeOK
<1>5. QED BY <1>1, <1>2, <1>3, <1>4, WantedIsPacket DEF PendingOK

\* A served miss only lowers other caches' lines.
LEMMA MissLowersOthers ==
  ASSUME NEW c \in Core, NEW a \in Addr, NEW s \in {"S", "M"}, MissServed(c, a, s)
  PROVE  OthersLowered(c)
<1>1. PICK lines \in [Core -> [Index -> Line]], data \in Word :
           OnlyLowered(lines, a, s) /\ line' = Filled(lines, c, a, s, data)
  BY DEF MissServed
<1>2. \A d \in Core \ {c}, i \in Index : line'[d][i] = lines[d][i]
  <2>1. s \in MSIState
    BY DEF MSIState
  <2>2. \A d \in Core, i \in Index :
          Filled(lines, c, a, s, data)[d][i]
            = IF d = c /\ i = a.index
              THEN [tag |-> a.tag, state |-> s, data |-> data]
              ELSE lines[d][i]
    BY <2>1, FilledLines
  <2>3. QED BY <1>1, <2>2
<1>3. QED BY <1>1, <1>2 DEF OthersLowered, OnlyLowered

--------------------------------------------------------------------------------
(* The inductive invariant. *)

(***************************************************************************)
(* Coherence is inductive only together with the types, which say that a   *)
(* command comes from a core and carries a word, and with what holds of    *)
(* the requests that wait at the barrier.                                  *)
(***************************************************************************)
IInv == TypeOK /\ CoherenceInv /\ PendingOK

\* What the answering actions do to the tasks, apart from the memory.
Answered(c) ==
  /\ Running(c) /\ pc[c] = "serve" /\ Leave
  /\ \/ \E ack \in BOOLEAN : Return(c, ack)
     \/ Goto(c, "lookup") /\ UNCHANGED <<op, acked, ready>>

\* Whatever it does to the memory, an answering action that keeps the
\* coherence and only lowers the others' lines keeps the invariant.
LEMMA AnsweredKeepsInv ==
  ASSUME IInv, NEW c \in Core, Answered(c), CoherenceInv', OthersLowered(c)
  PROVE  IInv'
<1>1. SchedulerTypeOK'
  BY AnsweredType DEF Answered, IInv, TypeOK
<1>2. UNCHANGED <<op, request>>
  BY DEF Answered, Return, Leave
<1>3. /\ \A d \in Core \ {c} : pc'[d] = pc[d]
      /\ pc'[c] \in {"done", "lookup"}
  <2>1. DOMAIN pc = Core
    BY DEF IInv, TypeOK, SchedulerTypeOK
  <2>2. \E label \in {"done", "lookup"} : pc' = [pc EXCEPT ![c] = label]
    BY DEF Answered, Return, Goto
  <2>3. QED BY <2>1, <2>2
<1>4. PendingOK'
  BY <1>2, <1>3, ServedKeepsPending DEF IInv
<1>5. QED BY <1>1, <1>4 DEF IInv, TypeOK, CoherenceInv

\* An answer that leaves the memory alone.
LEMMA UntouchedKeepsInv ==
  ASSUME IInv, NEW c \in Core, Answered(c), UNCHANGED memoryVars
  PROVE  IInv'
<1>1. CoherenceInv'
  BY DEF IInv, CoherenceInv, MemoryTypeOK, DirectoryCovers, EntryShape, HasOwner,
         StateOf, memoryVars
<1>2. OthersLowered(c)
  BY DEF OthersLowered, memoryVars
<1>3. QED BY <1>1, <1>2, AnsweredKeepsInv

\* A miss the directory serves.
LEMMA MissKeepsInv ==
  ASSUME IInv, NEW c \in Core, Answered(c), NEW a \in Addr, NEW s \in {"S", "M"},
         MissServed(c, a, s)
  PROVE  IInv'
  BY CoherenceAfterMiss, MissLowersOthers, AnsweredKeepsInv DEF IInv

\* A write to a line the cache takes to be its own.
LEMMA WriteHitKeepsInv ==
  ASSUME IInv, NEW c \in Core, WriteHit(c)
  PROVE  IInv'
<1>1. Answered(c)
  BY DEF WriteHit, Served, Answered
<1>2. op[c] \in Op /\ op[c].addr.index \in Index
  BY WorkloadAssumption DEF WriteHit, IsWrite, IInv, TypeOK, SchedulerTypeOK, Op, Addr
<1> DEFINE i == op[c].addr.index
           data == ApplyWstrb(line[c][i].data, op[c].wdata, op[c].wstrb)
<1>3. line \in [Core -> [Index -> Line]] /\ line[c][i] \in Line
  BY <1>2 DEF IInv, TypeOK, MemoryTypeOK
<1>4. data \in Word
  BY <1>2, <1>3, ApplyWstrbType DEF Op, Line
<1>5. line' = [line EXCEPT ![c][i].data = data]
  BY DEF WriteHit
<1> HIDE DEF i, data
<1>6. i \in Index
  BY <1>2 DEF i
<1>7. /\ line' \in [Core -> [Index -> Line]]
      /\ \A d \in Core, j \in Index :
           line'[d][j].tag = line[d][j].tag /\ line'[d][j].state = line[d][j].state
  <2>1. [line[c][i] EXCEPT !.data = data] \in Line
    BY <1>3, <1>4 DEF Line
  <2>2. /\ [line[c][i] EXCEPT !.data = data].tag = line[c][i].tag
        /\ [line[c][i] EXCEPT !.data = data].state = line[c][i].state
    BY <1>3 DEF Line
  <2>3. QED BY <1>3, <1>5, <1>6, <2>1, <2>2
<1>8. UNCHANGED <<dir, mem>>
  BY DEF WriteHit
<1>9. CoherenceInv'
  BY <1>7, <1>8, SameStatesKeepCoherence DEF IInv
<1>10. OthersLowered(c)
  BY <1>7 DEF OthersLowered
<1>11. QED BY <1>1, <1>9, <1>10, AnsweredKeepsInv

\* The first half of an access that evicts.
LEMMA EvictionKeepsInv ==
  ASSUME IInv, NEW c \in Core, Eviction(c)
  PROVE  IInv'
<1>1. Answered(c)
  BY DEF Eviction, Served, Answered
<1>2. request[c].addr \in Addr /\ request[c].addr.index \in Index /\ request[c].payload \in Word
  <2>1. request[c].cmd # "NULL" /\ pc[c] = "serve"
    BY DEF Eviction, Served, EvictCmd
  <2>2. QED BY <2>1 DEF IInv, TypeOK, SchedulerTypeOK, PendingOK, Packet, Addr
<1>3. CoherenceInv' /\ GiveUp(c, request[c].addr.index)
  <2>1. CASE LetThrough(c)
    <3>1. Evict(c, request[c].addr, request[c].cmd, request[c].payload)
      BY <2>1 DEF Eviction
    <3>2. QED BY <1>2, <3>1, EvictKeepsCoherence DEF IInv, Evict
  <2>2. CASE ~ LetThrough(c)
    <3>1. GiveUp(c, request[c].addr.index) /\ UNCHANGED <<dir, mem>>
      BY <2>2 DEF Eviction
    <3>2. QED BY <1>2, <3>1, GiveUpKeepsCoherence DEF IInv
  <2>3. QED BY <2>1, <2>2
<1>4. OthersLowered(c)
  BY <1>2, <1>3, GiveUpLines DEF OthersLowered, IInv, TypeOK
<1>5. QED BY <1>1, <1>3, <1>4, AnsweredKeepsInv

\* A miss is served for a test case, which is an operation, and changes the
\* memory only when it is let through.
LEMMA MissIsServed ==
  ASSUME IInv, NEW c \in Core, ReadMiss(c) \/ WriteMiss(c) \/ Upgrade(c)
  PROVE  /\ Answered(c)
         /\ op[c] \in Op /\ op[c] # NoOp /\ op[c].addr \in Addr
         /\ ~ MustEvict(c)
         /\ \/ UNCHANGED memoryVars
            \/ /\ LetThrough(c) /\ Return(c, TRUE)
               /\ \/ MissServed(c, op[c].addr, "S")
                  \/ (BusRdx(c, op[c]) \/ BusUpgr(c, op[c])) /\ MissServed(c, op[c].addr, "M")
<1>1. Answered(c)
  BY DEF ReadMiss, WriteMiss, Upgrade, Served, Answered, Refused
<1>2. pc[c] = "serve" /\ request[c].cmd \in BusCmd /\ request[c].cmd # "NULL"
  BY DEF ReadMiss, WriteMiss, Upgrade, Served, BusCmd
<1>3. op[c] # NoOp /\ ~ MustEvict(c)
  BY <1>2 DEF IInv, PendingOK
<1>4. op[c] \in Op
  BY <1>3, WorkloadAssumption DEF IInv, TypeOK, SchedulerTypeOK
<1>5. /\ op[c].addr \in Addr /\ op[c].wdata \in Word
      /\ op[c] = [addr |-> op[c].addr, wstrb |-> op[c].wstrb, wdata |-> op[c].wdata]
  BY <1>4 DEF Op
<1>6. CASE Refused(c)
  BY <1>1, <1>3, <1>4, <1>5, <1>6 DEF Refused
<1>7. CASE LetThrough(c) /\ Return(c, TRUE) /\ BusRd(c, op[c].addr)
  <2>1. MissServed(c, op[c].addr, "S")
    BY <1>5, <1>7, BusRdIsMiss DEF IInv
  <2>2. QED BY <1>1, <1>3, <1>4, <1>5, <1>7, <2>1
<1>8. CASE LetThrough(c) /\ Return(c, TRUE) /\ (BusRdx(c, op[c]) \/ BusUpgr(c, op[c]))
  <2>1. MissServed(c, op[c].addr, "M")
    BY <1>5, <1>8, BusRdxIsMiss, BusUpgrIsMiss DEF IInv
  <2>2. QED BY <1>1, <1>3, <1>4, <1>5, <1>8, <2>1
<1>9. QED BY <1>6, <1>7, <1>8 DEF ReadMiss, WriteMiss, Upgrade

\* A write hit changes no line's tag or state.
LEMMA WriteHitKeepsStates ==
  ASSUME IInv, NEW c \in Core, WriteHit(c)
  PROVE  \A d \in Core, a \in Addr : StateOf(d, a)' = StateOf(d, a)
<1>1. op[c].addr.index \in Index
  BY WorkloadAssumption DEF WriteHit, IsWrite, IInv, TypeOK, SchedulerTypeOK, Op, Addr
<1>2. ASSUME NEW d \in Core, NEW i \in Index
      PROVE  line'[d][i].tag = line[d][i].tag /\ line'[d][i].state = line[d][i].state
  <2>1. line[d][i] \in Line /\ line[c][op[c].addr.index] \in Line
    BY <1>1 DEF IInv, TypeOK, MemoryTypeOK
  <2> DEFINE data == ApplyWstrb(line[c][op[c].addr.index].data, op[c].wdata, op[c].wstrb)
  <2>2. line' = [line EXCEPT ![c][op[c].addr.index].data = data]
    BY DEF WriteHit
  <2> HIDE DEF data
  <2>3. QED BY <1>1, <2>1, <2>2 DEF IInv, TypeOK, MemoryTypeOK, Line
<1>3. QED BY <1>2 DEF StateOf, Addr

\* An eviction gives up the line it was asked for, let through or not.
LEMMA EvictionGivesUp ==
  ASSUME IInv, NEW c \in Core, Eviction(c)
  PROVE  request[c].addr \in Addr /\ request[c].addr.index \in Index /\ GiveUp(c, request[c].addr.index)
<1>1. request[c].cmd # "NULL" /\ pc[c] = "serve"
  BY DEF Eviction, Served, EvictCmd
<1>2. request[c].addr \in Addr /\ request[c].addr.index \in Index
  BY <1>1 DEF IInv, PendingOK, Addr
<1>3. QED BY <1>2 DEF Eviction, Evict

--------------------------------------------------------------------------------
(* The theorems. *)

LEMMA InitInv == Init => IInv
<1> SUFFICES ASSUME Init PROVE IInv
  OBVIOUS
<1>1. MemoryTypeOK
  <2>1. [tag |-> ZeroTag, state |-> "I", data |-> ZeroWord] \in Line
    BY ZeroTagAssumption, ZeroWordType DEF Line, MSIState
  <2>2. [state |-> "I", sharers |-> {}] \in DirectoryEntry
    BY DEF DirectoryEntry, MSIState
  <2>3. QED BY <2>1, <2>2, ZeroWordType DEF Init, MemoryInit, MemoryTypeOK
<1>2. SchedulerTypeOK
  <2>1. InvalidPacket \in Packet
    BY ZeroWordType DEF InvalidPacket, Packet, CoherenceCmd
  <2>2. 0 \in Core
    BY NumCoresAssumption DEF Core
  <2>3. <<>> \in Seq(Core)
    OBVIOUS
  <2>4. QED BY <2>1, <2>2, <2>3 DEF Init, SchedulerTypeOK
<1>3. CoherenceInv
  <2>1. \A c \in Core, a \in Addr : StateOf(c, a) = "I"
    BY DEF Init, MemoryInit, StateOf, Addr
  <2>2. \A a \in Addr : dir[a].state = "I" /\ dir[a].sharers = {}
    BY DEF Init, MemoryInit
  <2>3. QED BY <1>1, <2>1, <2>2 DEF CoherenceInv, DirectoryCovers, EntryShape
<1>4. PendingOK
  BY DEF Init, PendingOK
<1>5. QED BY <1>1, <1>2, <1>3, <1>4 DEF IInv, TypeOK

\* A step that is not an answer leaves the memory alone.
LEMMA MemoryUntouched ==
  ASSUME CoherenceInv, UNCHANGED memoryVars
  PROVE  CoherenceInv'
  BY DEF CoherenceInv, MemoryTypeOK, DirectoryCovers, EntryShape, HasOwner,
         StateOf, memoryVars

LEMMA StepInv == IInv /\ [Next]_vars => IInv'
<1> SUFFICES ASSUME IInv, [Next]_vars PROVE IInv'
  OBVIOUS
<1> USE DEF IInv
<1>1. CASE NextCycle
  <2>1. SchedulerTypeOK'
    BY <1>1, NextCycleType DEF TypeOK
  <2>2. CoherenceInv'
    BY <1>1, MemoryUntouched DEF NextCycle
  <2>3. \A c \in Core : pc'[c] \in {"done", "lookup"}
    BY <1>1 DEF NextCycle
  <2>4. PendingOK'
    BY <2>3 DEF PendingOK
  <2>5. QED BY <2>1, <2>2, <2>4 DEF TypeOK, CoherenceInv
<1>2. ASSUME NEW c \in Core, Lookup(c) PROVE IInv'
  <2>1. SchedulerTypeOK' /\ PendingOK'
    BY <1>2, LookupType, LookupKeepsPending
  <2>2. CoherenceInv'
    BY <1>2, MemoryUntouched DEF Lookup
  <2>3. QED BY <2>1, <2>2 DEF TypeOK, CoherenceInv
<1>3. ASSUME NEW c \in Core, Arrive(c) PROVE IInv'
  <2>1. SchedulerTypeOK'
    BY <1>3, ArriveType DEF TypeOK
  <2>2. CoherenceInv'
    BY <1>3, MemoryUntouched DEF Arrive
  <2>3. PendingOK'
    BY <1>3, WaitingKeepsPending DEF Arrive, TypeOK, memoryVars
  <2>4. QED BY <2>1, <2>2, <2>3 DEF TypeOK, CoherenceInv
<1>4. ASSUME NEW c \in Core, TakeTurn(c) PROVE IInv'
  <2>1. SchedulerTypeOK'
    BY <1>4, TakeTurnType DEF TypeOK
  <2>2. CoherenceInv'
    BY <1>4, MemoryUntouched DEF TakeTurn
  <2>3. PendingOK'
    BY <1>4, WaitingKeepsPending DEF TakeTurn, TypeOK, memoryVars
  <2>4. QED BY <2>1, <2>2, <2>3 DEF TypeOK, CoherenceInv
<1>5. ASSUME NEW c \in Core, Idle(c) \/ ReadHit(c) PROVE IInv'
  <2>1. Answered(c) /\ UNCHANGED memoryVars
    BY <1>5 DEF Idle, ReadHit, Served, Answered
  <2>2. QED BY <2>1, UntouchedKeepsInv
<1>6. ASSUME NEW c \in Core, WriteHit(c) PROVE IInv'
  BY <1>6, WriteHitKeepsInv
<1>7. ASSUME NEW c \in Core, ReadMiss(c) \/ WriteMiss(c) \/ Upgrade(c) PROVE IInv'
  <2>1. /\ Answered(c)
        /\ op[c].addr \in Addr
        /\ UNCHANGED memoryVars \/ \E s \in {"S", "M"} : MissServed(c, op[c].addr, s)
    BY <1>7, MissIsServed
  <2>2. QED BY <2>1, UntouchedKeepsInv, MissKeepsInv
<1>8. ASSUME NEW c \in Core, Eviction(c) PROVE IInv'
  BY <1>8, EvictionKeepsInv
<1>9. CASE UNCHANGED vars
  <2>1. CoherenceInv'
    BY <1>9, MemoryUntouched DEF vars
  <2>2. SchedulerTypeOK'
    BY <1>9 DEF vars, taskVars, barrierVars, TypeOK, SchedulerTypeOK
  <2>3. PendingOK'
    BY <1>9 DEF vars, taskVars, memoryVars, PendingOK, MustEvict
  <2>4. QED BY <2>1, <2>2, <2>3 DEF TypeOK, CoherenceInv
<1>10. QED BY <1>1, <1>2, <1>3, <1>4, <1>5, <1>6, <1>7, <1>8, <1>9 DEF Next, Step

THEOREM InvHolds == Spec => []IInv
  BY InitInv, StepInv, PTL DEF Spec

(***************************************************************************)
(* Every variable of the emulator keeps its type, the arbiter's turn with  *)
(* it: in every reachable state some requester is to be served next.       *)
(***************************************************************************)
THEOREM TypeCorrect == Spec => []TypeOK
<1>1. IInv => TypeOK
  BY DEF IInv
<1>2. QED BY <1>1, InvHolds, PTL

(***************************************************************************)
(* The directory never loses track of a copy: msi.py's states and the      *)
(* entries of directory.py agree between any two steps of the event loop,  *)
(* whatever requests, evictions and refusals came before.                  *)
(***************************************************************************)
THEOREM DirectoryIsRight == Spec => []DirectoryCovers
<1>1. IInv => DirectoryCovers
  BY DEF IInv, CoherenceInv
<1>2. QED BY <1>1, InvHolds, PTL

(***************************************************************************)
(* The invariant of msi.py:25-28: a cache that is MODIFIED is alone.       *)
(***************************************************************************)
THEOREM OneWriter == Spec => []SingleWriter
<1>1. IInv => SingleWriter
  BY CoveredMeansSingleWriter DEF IInv
<1>2. QED BY <1>1, InvHolds, PTL

--------------------------------------------------------------------------------
(* The emulator implements the coherence protocol. *)

\* A served miss obtains the permission: what it fills had none.
LEMMA MissObtains ==
  ASSUME CoherenceInv, NEW c \in Core, NEW a \in Addr, NEW s \in {"S", "M"},
         MissServed(c, a, s),
         line[c][a.index].state = "I" \/ line[c][a.index].tag = a.tag
  PROVE  \A d \in Core, b \in Addr :
           StateOf(d, b)' = IF b # a THEN StateOf(d, b)
                            ELSE IF d = c THEN s
                            ELSE IF s = "M" THEN "I"
                            ELSE IF StateOf(d, b) = "M" THEN "S" ELSE StateOf(d, b)
<1> PICK lines \in [Core -> [Index -> Line]], data \in Word, sharers \in SUBSET Core :
           /\ OnlyLowered(lines, a, s)
           /\ OthersCovered(lines, c, a, s, sharers)
           /\ line' = Filled(lines, c, a, s, data)
  BY DEF MissServed
<1>1. \A d \in Core, i \in Index :
        line'[d][i] = IF d = c /\ i = a.index
                      THEN [tag |-> a.tag, state |-> s, data |-> data]
                      ELSE lines[d][i]
  <2>1. s \in MSIState
    BY DEF MSIState
  <2>2. \A d \in Core, i \in Index :
          Filled(lines, c, a, s, data)[d][i]
            = IF d = c /\ i = a.index
              THEN [tag |-> a.tag, state |-> s, data |-> data]
              ELSE lines[d][i]
    BY <2>1, FilledLines
  <2>3. QED BY <2>2
<1> SUFFICES ASSUME NEW d \in Core, NEW b \in Addr
             PROVE  StateOf(d, b)' = IF b # a THEN StateOf(d, b)
                                     ELSE IF d = c THEN s
                                     ELSE IF s = "M" THEN "I"
                                     ELSE IF StateOf(d, b) = "M" THEN "S" ELSE StateOf(d, b)
  OBVIOUS
<1>2. a.index \in Index /\ b.index \in Index /\ (a.tag = b.tag /\ a.index = b.index => a = b)
  BY DEF Addr
<1>3. CASE d = c
  <2>1. CASE b.index = a.index
    BY <1>1, <1>2, <1>3, <2>1 DEF StateOf
  <2>2. CASE b.index # a.index
    BY <1>1, <1>2, <1>3, <2>2 DEF StateOf, OnlyLowered
  <2>3. QED BY <2>1, <2>2
<1>4. CASE d # c
  <2>1. line'[d][b.index] = lines[d][b.index]
    BY <1>1, <1>2, <1>4
  <2>2. CASE b = a
    BY <1>2, <1>4, <2>1, <2>2 DEF StateOf, OnlyLowered, OthersCovered
  <2>3. CASE b # a
    BY <1>2, <2>1, <2>3 DEF StateOf, OnlyLowered
  <2>4. QED BY <2>2, <2>3
<1>5. QED BY <1>3, <1>4

\* The abstract action, state by state.
LEMMA ObtainByState ==
  ASSUME NEW c \in Core, NEW a \in Addr, NEW s \in {"S", "M"},
         \A d \in Core, b \in Addr :
           StateOf(d, b)' = IF b # a THEN StateOf(d, b)
                            ELSE IF d = c THEN s
                            ELSE IF s = "M" THEN "I"
                            ELSE IF StateOf(d, b) = "M" THEN "S" ELSE StateOf(d, b)
  PROVE  Protocol!Obtain(c, a, s)
<1> DEFINE permission == [d \in Core |-> [b \in Addr |-> StateOf(d, b)]]
           obtained == [d \in Core |-> [permission[d] EXCEPT ![a] =
                          CASE d = c -> s
                            [] d # c /\ s = "M" -> "I"
                            [] d # c /\ s = "S" ->
                                 IF permission[d][a] = "M" THEN "S" ELSE permission[d][a]]]
<1>1. ASSUME NEW d \in Core PROVE permission'[d] = obtained[d]
  <2>1. ASSUME NEW b \in Addr PROVE permission'[d][b] = obtained[d][b]
    <3>1. permission'[d][b] = StateOf(d, b)' /\ permission[d][b] = StateOf(d, b)
      OBVIOUS
    <3>2. obtained[d] = [permission[d] EXCEPT ![a] =
                          CASE d = c -> s
                            [] d # c /\ s = "M" -> "I"
                            [] d # c /\ s = "S" ->
                                 IF permission[d][a] = "M" THEN "S" ELSE permission[d][a]]
      OBVIOUS
    <3> HIDE DEF obtained
    <3>3. b # a => obtained[d][b] = permission[d][b]
      BY <3>2
    <3>4. b = a => obtained[d][b] = IF d = c THEN s
                                    ELSE IF s = "M" THEN "I"
                                    ELSE IF permission[d][a] = "M" THEN "S" ELSE permission[d][a]
      BY <3>2
    <3> HIDE DEF permission
    <3>5. QED BY <3>1, <3>3, <3>4
  <2>2. permission'[d] = [b \in Addr |-> permission'[d][b]] /\ obtained[d] = [b \in Addr |-> obtained[d][b]]
    OBVIOUS
  <2> HIDE DEF permission, obtained
  <2>3. QED BY <2>1, <2>2
<1>2. permission' = [d \in Core |-> permission'[d]] /\ obtained = [d \in Core |-> obtained[d]]
  OBVIOUS
<1>3. permission' = obtained
  <2> HIDE DEF permission, obtained
  <2>1. QED BY <1>1, <1>2
<1>4. QED BY <1>3 DEF Protocol!Obtain

\* Giving up a line drops the permission of the address it held.
LEMMA GiveUpDrops ==
  ASSUME MemoryTypeOK, NEW c \in Core, NEW i \in Index, GiveUp(c, i)
  PROVE  \E a \in Addr : Protocol!Drop(c, a)
<1> DEFINE a == [tag |-> line[c][i].tag, index |-> i]
           permission == [d \in Core |-> [b \in Addr |-> StateOf(d, b)]]
           dropped == [permission EXCEPT ![c][a] = "I"]
<1>1. a \in Addr
  BY DEF MemoryTypeOK, Line, Addr
<1>2. \A d \in Core, b \in Addr :
        StateOf(d, b)' = IF d = c /\ b = a THEN "I" ELSE StateOf(d, b)
  <2>1. ASSUME NEW d \in Core, NEW b \in Addr, d = c, b.index = i, b # a
        PROVE  StateOf(d, b) = "I"
    BY <2>1 DEF StateOf, Addr
  <2>2. QED BY <2>1, GiveUpStates
<1> HIDE DEF a
<1>3. ASSUME NEW d \in Core, NEW b \in Addr PROVE permission'[d][b] = dropped[d][b]
  BY <1>1, <1>2
<1>4. permission' = dropped
  BY <1>3
<1>5. QED BY <1>1, <1>4 DEF Protocol!Drop

LEMMA RefineInit == Init => Protocol!Init
<1> SUFFICES ASSUME Init PROVE Protocol!Init
  OBVIOUS
<1>1. \A c \in Core, a \in Addr : StateOf(c, a) = "I"
  BY DEF Init, MemoryInit, StateOf, Addr
<1>2. QED BY <1>1 DEF Protocol!Init

\* A step that leaves the lines' tags and states alone is a stutter.
LEMMA SameStatesStutter ==
  ASSUME \A c \in Core, a \in Addr : StateOf(c, a)' = StateOf(c, a)
  PROVE  UNCHANGED [c \in Core |-> [a \in Addr |-> StateOf(c, a)]]
  OBVIOUS

LEMMA RefineStep ==
  IInv /\ [Next]_vars => [Protocol!Next]_([c \in Core |-> [a \in Addr |-> StateOf(c, a)]])
<1> DEFINE permission == [c \in Core |-> [a \in Addr |-> StateOf(c, a)]]
<1> SUFFICES ASSUME IInv, [Next]_vars
             PROVE  Protocol!Next \/ UNCHANGED permission
  OBVIOUS
<1>1. MemoryTypeOK /\ CoherenceInv
  BY DEF IInv, TypeOK
<1>2. CASE UNCHANGED memoryVars
  <2>1. \A c \in Core, a \in Addr : StateOf(c, a)' = StateOf(c, a)
    BY <1>2 DEF StateOf, memoryVars
  <2>2. QED BY <2>1, SameStatesStutter
<1>3. ASSUME NEW c \in Core, WriteHit(c)
      PROVE  UNCHANGED permission
  BY <1>3, WriteHitKeepsStates, SameStatesStutter
<1>4. ASSUME NEW c \in Core, ReadMiss(c) \/ WriteMiss(c) \/ Upgrade(c)
      PROVE  Protocol!Next \/ UNCHANGED memoryVars
  <2>1. /\ op[c].addr \in Addr
        /\ ~ MustEvict(c) /\ op[c] # NoOp
        /\ UNCHANGED memoryVars \/ \E s \in {"S", "M"} : MissServed(c, op[c].addr, s)
    BY <1>4, MissIsServed
  <2>2. ASSUME NEW s \in {"S", "M"}, MissServed(c, op[c].addr, s)
        PROVE  Protocol!Next
    <3>2. line[c][op[c].addr.index].state = "I" \/ line[c][op[c].addr.index].tag = op[c].addr.tag
      BY <2>1 DEF MustEvict
    <3>3. Protocol!Obtain(c, op[c].addr, s)
      BY <1>1, <2>1, <2>2, <3>2, MissObtains, ObtainByState
    <3>4. QED BY <2>1, <3>3 DEF Protocol!Next, Protocol!GetShared, Protocol!GetModified
  <2>3. QED BY <2>1, <2>2
<1>5. ASSUME NEW c \in Core, Eviction(c)
      PROVE  Protocol!Next
  <2>1. request[c].addr.index \in Index /\ GiveUp(c, request[c].addr.index)
    BY <1>5, EvictionGivesUp
  <2>3. \E a \in Addr : Protocol!Drop(c, a)
    BY <1>1, <2>1, GiveUpDrops
  <2>4. QED BY <2>3 DEF Protocol!Next
<1>6. CASE NextCycle
  BY <1>2, <1>6 DEF NextCycle
<1>7. ASSUME NEW c \in Core, Lookup(c) \/ Arrive(c) \/ TakeTurn(c) \/ Idle(c) \/ ReadHit(c)
      PROVE  UNCHANGED memoryVars
  BY <1>7 DEF Lookup, Arrive, TakeTurn, Idle, ReadHit
<1>8. CASE UNCHANGED vars
  BY <1>2, <1>8 DEF vars
<1>9. CASE \E c \in Core : Step(c)
  <2> HIDE DEF permission
  <2>1. QED BY <1>2, <1>3, <1>4, <1>5, <1>7, <1>9 DEF Step
<1>10. QED BY <1>6, <1>8, <1>9 DEF Next

(***************************************************************************)
(* The emulator implements MSIProtocol: whatever the event loop, the       *)
(* barrier and the arbiter do, each step changes the caches' permissions   *)
(* by one abstract action or not at all.  So every miss the directory      *)
(* serves takes from the other caches exactly what the protocol says, and  *)
(* nothing else does.                                                      *)
(***************************************************************************)
THEOREM EmulatorImplementsProtocol == Spec => ImplementsProtocol
  BY RefineInit, RefineStep, InvHolds, PTL DEF Spec, ImplementsProtocol, Protocol!Spec

--------------------------------------------------------------------------------
(* A write that takes a line over. *)

\* A cache that is answered a command about address b by the directory becomes
\* MODIFIED for a only if it wrote, and a is b.
LEMMA TakenByWriter ==
  ASSUME IInv, NEW c \in Core, NEW d \in Core, c # d, NEW a \in Addr,
         StateOf(d, a) = "M", StateOf(c, a)' = "M",
         NEW e \in Core, NEW s \in {"S", "M"}, op[e].addr \in Addr, ~ MustEvict(e),
         op[e] # NoOp, MissServed(e, op[e].addr, s)
  PROVE  e = c /\ op[e].addr = a /\ s = "M"
<1>1. StateOf(c, a) = "I"
  BY CoveredMeansSingleWriter DEF IInv, SingleWriter
<1>2. line[e][op[e].addr.index].state = "I" \/ line[e][op[e].addr.index].tag = op[e].addr.tag
  BY DEF MustEvict
<1>3. \A x \in Core, b \in Addr :
        StateOf(x, b)' = IF b # op[e].addr THEN StateOf(x, b)
                         ELSE IF x = e THEN s
                         ELSE IF s = "M" THEN "I"
                         ELSE IF StateOf(x, b) = "M" THEN "S" ELSE StateOf(x, b)
  BY <1>2, MissObtains DEF IInv
<1>4. QED BY <1>1, <1>3

\* The directory answers a write with the data of the cache that owns the line.
LEMMA WriterGetsOwnersData ==
  ASSUME IInv, NEW c \in Core, NEW d \in Core, c # d, op[c] \in Op,
         StateOf(d, op[c].addr) = "M", BusRdx(c, op[c]) \/ BusUpgr(c, op[c])
  PROVE  \A l \in Lane \ op[c].wstrb :
           line'[c][op[c].addr.index].data[l] = line[d][op[c].addr.index].data[l]
<1> DEFINE a == op[c].addr
           flushed == line[d][a.index].data
<1>1. a \in Addr /\ op[c].wdata \in Word /\ a.index \in Index
  BY DEF Op, Addr
<1>2. HasOwner(a, d) /\ MemoryTypeOK
  BY <1>1 DEF IInv, CoherenceInv, DirectoryCovers
<1>3. BusRdxOwned(c, op[c])
  BY <1>2 DEF BusRdx, BusUpgr, BusRdxClean, BusUpgrShared, HasOwner
<1>4. \A e \in Core : HasOwner(a, e) => e = d
  BY <1>2 DEF HasOwner
<1>5. SnoopPayload(d, a, "BUS_RDX") = flushed
  BY DEF SnoopPayload, OnSnoopEvent
<1>6. line' = Filled(Snooped({d}, a, "BUS_RDX"), c, a, "M",
                     ApplyWstrb(flushed, op[c].wdata, op[c].wstrb))
  BY <1>3, <1>4, <1>5 DEF BusRdxOwned, StoreMiss
<1>7. Snooped({d}, a, "BUS_RDX") \in [Core -> [Index -> Line]]
  BY <1>1, <1>2, SnoopedLines DEF SnoopEvent
<1>8. flushed \in Word
  BY <1>1, <1>2 DEF MemoryTypeOK, Line
<1>9. ApplyWstrb(flushed, op[c].wdata, op[c].wstrb) \in Word
  BY <1>1, <1>8, ApplyWstrbType
<1> HIDE DEF a, flushed
<1> DEFINE lines == Snooped({d}, a, "BUS_RDX")
           data == ApplyWstrb(flushed, op[c].wdata, op[c].wstrb)
<1>10. line'[c][a.index] = [tag |-> a.tag, state |-> "M", data |-> data]
  <2> HIDE DEF lines, data
  <2>1. lines \in [Core -> [Index -> Line]] /\ data \in Word /\ "M" \in MSIState
    BY <1>7, <1>9 DEF lines, data, MSIState
  <2>2. line' = Filled(lines, c, a, "M", data)
    BY <1>6 DEF lines, data
  <2>3. \A x \in Core, i \in Index :
          Filled(lines, c, a, "M", data)[x][i]
            = IF x = c /\ i = a.index
              THEN [tag |-> a.tag, state |-> "M", data |-> data]
              ELSE lines[x][i]
    BY <1>1, <2>1, FilledLines
  <2>4. QED BY <1>1, <2>2, <2>3
<1>11. \A l \in Lane \ op[c].wstrb : ApplyWstrb(flushed, op[c].wdata, op[c].wstrb)[l] = flushed[l]
  BY DEF ApplyWstrb
<1>12. QED BY <1>10, <1>11 DEF a, flushed

\* So no step hands a line over and loses a byte of it.
LEMMA StepTakesOver ==
  ASSUME IInv, [Next]_vars, NEW c \in Core, NEW d \in Core, c # d, NEW a \in Addr,
         StateOf(d, a) = "M", StateOf(c, a)' = "M"
  PROVE  \A l \in Lane \ op[c].wstrb :
           line'[c][a.index].data[l] = line[d][a.index].data[l]
<1>1. StateOf(c, a) = "I"
  BY CoveredMeansSingleWriter DEF IInv, SingleWriter
<1>2. CASE UNCHANGED memoryVars
  BY <1>1, <1>2 DEF StateOf, memoryVars
<1>3. ASSUME NEW e \in Core, WriteHit(e) PROVE FALSE
  BY <1>1, <1>3, WriteHitKeepsStates
<1>4. ASSUME NEW e \in Core, Eviction(e) PROVE FALSE
  <2>1. request[e].addr.index \in Index /\ GiveUp(e, request[e].addr.index)
    BY <1>4, EvictionGivesUp
  <2>2. QED BY <1>1, <2>1, GiveUpStates DEF IInv, TypeOK
<1>5. ASSUME NEW e \in Core, ReadMiss(e) \/ WriteMiss(e) \/ Upgrade(e)
      PROVE  \/ UNCHANGED memoryVars
             \/ e = c /\ op[c].addr = a /\ op[c] \in Op /\ (BusRdx(c, op[c]) \/ BusUpgr(c, op[c]))
  <2>1. /\ op[e].addr \in Addr /\ ~ MustEvict(e) /\ op[e] # NoOp /\ op[e] \in Op
        /\ \/ UNCHANGED memoryVars
           \/ MissServed(e, op[e].addr, "S")
           \/ (BusRdx(e, op[e]) \/ BusUpgr(e, op[e])) /\ MissServed(e, op[e].addr, "M")
    BY <1>5, MissIsServed
  <2>2. QED BY <2>1, TakenByWriter
<1>6. CASE \E e \in Core : Step(e)
  <2>1. ASSUME NEW e \in Core, Lookup(e) \/ Arrive(e) \/ TakeTurn(e) \/ Idle(e) \/ ReadHit(e)
        PROVE  UNCHANGED memoryVars
    BY <2>1 DEF Lookup, Arrive, TakeTurn, Idle, ReadHit
  <2>2. \/ UNCHANGED memoryVars
        \/ op[c].addr = a /\ op[c] \in Op /\ (BusRdx(c, op[c]) \/ BusUpgr(c, op[c]))
    BY <1>3, <1>4, <1>5, <1>6, <2>1 DEF Step
  <2>3. QED BY <1>2, <2>2, WriterGetsOwnersData
<1>7. CASE NextCycle \/ UNCHANGED vars
  BY <1>2, <1>7 DEF NextCycle, vars
<1>8. QED BY <1>6, <1>7 DEF Next

(***************************************************************************)
(* A write that takes a line over starts from the previous owner's bytes   *)
(* (directory.py:317), evictions or not: the owner that the entry names is *)
(* the cache that is MODIFIED, and a snoop makes it flush before it lets   *)
(* go.                                                                     *)
(***************************************************************************)
THEOREM TakeoversKeepBytes == Spec => TakeoverKeepsBytes
<1>1. ASSUME IInv, [Next]_vars
      PROVE  [\A c, d \in Core, a \in Addr :
                c # d /\ StateOf(d, a) = "M" /\ StateOf(c, a)' = "M" =>
                  \A l \in Lane \ op[c].wstrb :
                    line'[c][a.index].data[l] = line[d][a.index].data[l]]_vars
  BY <1>1, StepTakesOver
<1>2. QED BY <1>1, InvHolds, PTL DEF Spec, TakeoverKeepsBytes

--------------------------------------------------------------------------------
(* Queues of tasks: what becomes of their members. *)

LEMMA TailOfQueue ==
  ASSUME NEW q \in Seq(Core), q # <<>>, IsInjective(q)
  PROVE  /\ Tail(q) \in Seq(Core) /\ IsInjective(Tail(q))
         /\ Head(q) \in Range(q)
         /\ Range(Tail(q)) = Range(q) \ {Head(q)}
<1>1. /\ Tail(q) \in Seq(Core) /\ Len(q) \in Nat /\ Len(q) # 0
      /\ Len(Tail(q)) = Len(q) - 1
      /\ \A i \in 1 .. Len(q) - 1 : Tail(q)[i] = q[i + 1]
      /\ Head(q) = q[1] /\ 1 \in 1 .. Len(q)
  OBVIOUS
<1>2. DOMAIN q = 1 .. Len(q) /\ DOMAIN Tail(q) = 1 .. Len(q) - 1
  BY <1>1
<1>3. IsInjective(Tail(q))
  BY <1>1, <1>2 DEF IsInjective
<1>4. Range(Tail(q)) \subseteq Range(q) \ {Head(q)}
  BY <1>1, <1>2 DEF Range, IsInjective
<1>5. ASSUME NEW c \in Range(q) \ {Head(q)} PROVE c \in Range(Tail(q))
  <2>1. PICK i \in 1 .. Len(q) : c = q[i]
    BY <1>2 DEF Range
  <2>2. i # 1 /\ i - 1 \in 1 .. Len(q) - 1
    BY <1>1, <2>1
  <2>3. c = Tail(q)[i - 1]
    BY <1>1, <2>1, <2>2
  <2>4. QED BY <1>2, <2>2, <2>3 DEF Range
<1>6. Head(q) \in Range(q)
  BY <1>1, <1>2 DEF Range
<1>7. QED BY <1>1, <1>3, <1>4, <1>5, <1>6

LEMMA AppendToQueue ==
  ASSUME NEW q \in Seq(Core), IsInjective(q), NEW c \in Core, c \notin Range(q)
  PROVE  IsInjective(Append(q, c)) /\ Range(Append(q, c)) = Range(q) \cup {c}
<1> DEFINE r == Append(q, c)
<1>1. /\ Len(q) \in Nat /\ DOMAIN q = 1 .. Len(q) /\ DOMAIN r = 1 .. Len(q) + 1
      /\ \A i \in 1 .. Len(q) : r[i] = q[i]
      /\ r[Len(q) + 1] = c
  OBVIOUS
<1> HIDE DEF r
<1>2. IsInjective(r)
  BY <1>1 DEF IsInjective, Range
<1>3. Range(r) = Range(q) \cup {c}
  <2>1. \A i \in 1 .. Len(q) + 1 : i \in 1 .. Len(q) \/ i = Len(q) + 1
    BY <1>1
  <2>2. \A i \in 1 .. Len(q) : i \in 1 .. Len(q) + 1
    BY <1>1
  <2>3. Len(q) + 1 \in 1 .. Len(q) + 1
    BY <1>1
  <2>4. QED BY <1>1, <2>1, <2>2, <2>3 DEF Range
<1>4. QED BY <1>2, <1>3 DEF r

LEMMA ConcatQueues ==
  ASSUME NEW q \in Seq(Core), q # <<>>, IsInjective(q),
         NEW r \in Seq(Core), IsInjective(r), Range(q) \cap Range(r) = {}
  PROVE  /\ IsInjective(q \o r) /\ Range(q \o r) = Range(q) \cup Range(r)
         /\ q \o r # <<>> /\ Head(q \o r) = Head(q)
<1> DEFINE s == q \o r
<1>1. /\ Len(q) \in Nat /\ Len(r) \in Nat /\ Len(q) # 0
      /\ DOMAIN q = 1 .. Len(q) /\ DOMAIN r = 1 .. Len(r) /\ DOMAIN s = 1 .. Len(q) + Len(r)
      /\ \A i \in 1 .. Len(q) : s[i] = q[i]
      /\ \A i \in Len(q) + 1 .. Len(q) + Len(r) : s[i] = r[i - Len(q)]
      /\ Len(s) = Len(q) + Len(r)
      /\ Head(s) = s[1] /\ Head(q) = q[1]
  OBVIOUS
<1>2. s # <<>> /\ Head(s) = Head(q)
  BY <1>1
<1> HIDE DEF s
<1>3. \A i \in 1 .. Len(r) : i + Len(q) \in Len(q) + 1 .. Len(q) + Len(r)
                             /\ s[i + Len(q)] = r[i]
  BY <1>1
<1>4. \A i \in DOMAIN s : \/ i \in DOMAIN q /\ s[i] = q[i]
                          \/ i - Len(q) \in DOMAIN r /\ s[i] = r[i - Len(q)]
  BY <1>1
<1>5. \A i \in DOMAIN q : i \in DOMAIN s
  BY <1>1
<1>6. \A i \in DOMAIN r : i + Len(q) \in DOMAIN s
  BY <1>1
<1>7. Range(s) = Range(q) \cup Range(r)
  BY <1>1, <1>3, <1>4, <1>5, <1>6 DEF Range
<1>8. \A i \in DOMAIN q, j \in DOMAIN r : q[i] # r[j]
  BY DEF Range
<1>9. IsInjective(s)
  <2> SUFFICES ASSUME NEW i \in DOMAIN s, NEW j \in DOMAIN s, s[i] = s[j] PROVE i = j
    BY DEF IsInjective
  <2>1. i \in Nat /\ j \in Nat
    BY <1>1
  <2>2. QED BY <1>1, <1>4, <1>8, <2>1 DEF IsInjective
<1>10. QED BY <1>2, <1>7, <1>9 DEF s

\* A new cycle's queue holds every core once, core 0 first.
LEMMA InitialQueue ==
  /\ InitialOrder \in Seq(Core) /\ InitialOrder # <<>> /\ Head(InitialOrder) = 0
  /\ IsInjective(InitialOrder) /\ Range(InitialOrder) = Core
<1>1. /\ \A k \in 1 .. NumCores : k - 1 \in Core
      /\ \A c \in Core : c + 1 \in 1 .. NumCores /\ (c + 1) - 1 = c
      /\ NumCores \in Nat \ {0} /\ 1 \in 1 .. NumCores
  BY NumCoresAssumption DEF Core
<1>2. InitialOrder \in Seq(Core) /\ Len(InitialOrder) = NumCores
  BY <1>1 DEF InitialOrder
<1>3. DOMAIN InitialOrder = 1 .. NumCores /\ \A k \in 1 .. NumCores : InitialOrder[k] = k - 1
  BY DEF InitialOrder
<1>4. InitialOrder # <<>> /\ Head(InitialOrder) = 0
  BY <1>1, <1>2, <1>3
<1>5. IsInjective(InitialOrder)
  BY <1>1, <1>3 DEF IsInjective
<1>6. Range(InitialOrder) = Core
  <2>1. \A c \in Core : InitialOrder[c + 1] = c
    BY <1>1, <1>3
  <2>2. QED BY <1>1, <1>3, <2>1 DEF Range
<1>7. QED BY <1>2, <1>4, <1>5, <1>6

--------------------------------------------------------------------------------
(* The event loop, its barrier and its arbitration. *)

\* The tasks that are past the barrier, or at it.
AtBarrier == {c \in Core : pc[c] \in {"turn", "serve"}}

(***************************************************************************)
(* A task that is not done is in exactly one place of exactly one queue:   *)
(* the event loop's, if it can run, or that of the event it waits for.     *)
(* None but the running task is between its lookup and the barrier.        *)
(***************************************************************************)
TasksInv ==
  /\ IsInjective(ready) /\ IsInjective(waitAll) /\ IsInjective(waitArb)
  /\ Range(ready) \cap Range(waitAll) = {} /\ Range(ready) \cap Range(waitArb) = {}
  /\ \A c \in Range(waitAll) : pc[c] = "turn"
  /\ \A c \in Range(waitArb) : pc[c] = "serve"
  /\ Range(ready) \cup Range(waitAll) \cup Range(waitArb) = {c \in Core : pc[c] # "done"}
  /\ \A c \in Core : pc[c] = "arrive" => Running(c)

(***************************************************************************)
(* cores_arrived counts the tasks at the barrier, and the two events are   *)
(* set no longer than there are any.  A task that can run has waited for   *)
(* its event, nothing waits for an event that is set, and core 0, once it  *)
(* has arbitrated, runs on until it is done.                               *)
(***************************************************************************)
EventsInv ==
  /\ \A c \in Range(ready) : (pc[c] = "turn" => allArrived) /\ (pc[c] = "serve" => arbDone)
  /\ arrived = Cardinality(AtBarrier)
  /\ arrived = 0 => ~ allArrived
  /\ ~ allArrived => arrived # NumCores
  /\ arbDone => allArrived
  /\ allArrived => waitAll = <<>>
  /\ arbDone => waitArb = <<>>
  /\ arbDone /\ pc[0] # "done" => Running(0)

QueueInv == TasksInv /\ EventsInv

\* Counting the tasks at the barrier.
LEMMA CountAtBarrier ==
  ASSUME NEW S \in SUBSET Core
  PROVE  /\ IsFiniteSet(S) /\ Cardinality(S) \in Nat /\ Cardinality(S) <= NumCores
         /\ Cardinality(S) = 0 <=> S = {}
         /\ Cardinality(S) = NumCores <=> S = Core
<1>1. IsFiniteSet(Core) /\ Cardinality(Core) = NumCores
  BY NumCoresAssumption, FS_Interval DEF Core
<1>2. IsFiniteSet(S) /\ Cardinality(S) <= NumCores /\ (Cardinality(S) = NumCores => S = Core)
  BY <1>1, FS_Subset
<1>3. Cardinality(S) \in Nat /\ (Cardinality(S) = 0 <=> S = {})
  BY <1>2, FS_CardinalityType, FS_EmptySet
<1>4. QED BY <1>1, <1>2, <1>3

\* The task that runs is not done, and waits for nothing.
LEMMA RunningTask ==
  ASSUME SchedulerTypeOK, TasksInv, NEW c \in Core, Running(c)
  PROVE  /\ ready \in Seq(Core) /\ ready # <<>> /\ c = Head(ready)
         /\ c \in Range(ready) /\ c \notin Range(waitAll) /\ c \notin Range(waitArb)
         /\ Tail(ready) \in Seq(Core) /\ IsInjective(Tail(ready))
         /\ Range(Tail(ready)) = Range(ready) \ {c}
<1>1. ready \in Seq(Core) /\ ready # <<>> /\ c = Head(ready) /\ IsInjective(ready)
  BY DEF SchedulerTypeOK, TasksInv, Running
<1>2. QED BY <1>1, TailOfQueue DEF TasksInv

\* A lookup sends its task to the barrier.
LEMMA LookupKeepsQueues ==
  ASSUME SchedulerTypeOK, QueueInv, NEW c \in Core, Lookup(c)
  PROVE  QueueInv'
<1>1. /\ UNCHANGED <<ready, waitAll, waitArb, arrived, allArrived, arbDone>>
      /\ Running(c) /\ pc[c] = "lookup"
      /\ pc' = [pc EXCEPT ![c] = "arrive"] /\ pc \in [Core -> {"done", "lookup", "arrive", "turn", "serve"}]
  BY DEF Lookup, Goto, barrierVars, SchedulerTypeOK
<1>2. /\ \A d \in Core : pc'[d] = IF d = c THEN "arrive" ELSE pc[d]
      /\ Running(c)'
      /\ \A d \in Core : Running(d)' = Running(d)
  BY <1>1 DEF Running
<1>3. /\ {d \in Core : pc'[d] # "done"} = {d \in Core : pc[d] # "done"}
      /\ AtBarrier' = AtBarrier
  BY <1>1, <1>2 DEF AtBarrier
<1>4. 0 \in Core
  BY NumCoresAssumption DEF Core
<1>5. /\ Range(ready) \subseteq Core /\ Range(waitAll) \subseteq Core /\ Range(waitArb) \subseteq Core
  BY DEF QueueInv, TasksInv
<1>6. TasksInv'
  BY <1>1, <1>2, <1>3, <1>5 DEF QueueInv, TasksInv
<1>7. EventsInv'
  BY <1>1, <1>2, <1>3, <1>4, <1>5 DEF QueueInv, EventsInv
<1>8. QED BY <1>6, <1>7 DEF QueueInv

\* A task that arrives is counted; the last one lets all of them go on.
LEMMA ArriveKeepsQueues ==
  ASSUME SchedulerTypeOK, QueueInv, NEW c \in Core, Arrive(c)
  PROVE  QueueInv'
<1>1. /\ Running(c) /\ pc[c] = "arrive"
      /\ pc' = [pc EXCEPT ![c] = "turn"] /\ pc \in [Core -> {"done", "lookup", "arrive", "turn", "serve"}]
      /\ arrived' = arrived + 1
      /\ allArrived' = (allArrived \/ arrived' = NumCores)
      /\ UNCHANGED <<arbDone, waitArb>>
  BY DEF Arrive, Goto, SchedulerTypeOK
<1>2. \A d \in Core : pc'[d] = IF d = c THEN "turn" ELSE pc[d]
  BY <1>1
<1>3. /\ ready \in Seq(Core) /\ ready # <<>> /\ c = Head(ready)
      /\ c \in Range(ready) /\ c \notin Range(waitAll) /\ c \notin Range(waitArb)
      /\ IsInjective(Tail(ready))
      /\ Range(Tail(ready)) = Range(ready) \ {c}
      /\ waitAll \in Seq(Core)
      /\ 0 \in Core
  BY <1>1, RunningTask, NumCoresAssumption DEF QueueInv, SchedulerTypeOK, Core
<1>4. /\ {d \in Core : pc'[d] # "done"} = {d \in Core : pc[d] # "done"}
      /\ AtBarrier' = AtBarrier \cup {c} /\ c \notin AtBarrier /\ AtBarrier \in SUBSET Core
  BY <1>1, <1>2 DEF AtBarrier
<1>5. /\ arrived' = Cardinality(AtBarrier') /\ arrived' # 0
      /\ arrived \in Nat
  <2>1. arrived = Cardinality(AtBarrier)
    BY DEF QueueInv, EventsInv
  <2>2. Cardinality(AtBarrier) \in Nat /\ Cardinality(AtBarrier \cup {c}) = Cardinality(AtBarrier) + 1
    BY <1>4, CountAtBarrier, FS_AddElement
  <2>3. Cardinality(AtBarrier') = Cardinality(AtBarrier \cup {c})
    BY <1>4
  <2>4. QED BY <1>1, <2>1, <2>2, <2>3
<1>6. /\ Range(ready) \subseteq Core /\ Range(waitAll) \subseteq Core /\ Range(waitArb) \subseteq Core
  BY DEF QueueInv, TasksInv
<1>7. \A d \in Core : pc'[d] # "arrive"
  BY <1>1, <1>2 DEF QueueInv, TasksInv, Running
<1>8. CASE allArrived'
  <2>1. /\ ready' = ready \o waitAll /\ waitAll' = <<>>
        /\ IsInjective(ready') /\ Range(ready') = Range(ready) \cup Range(waitAll)
        /\ ready' # <<>> /\ Head(ready') = c
    <3>1. ready' = ready \o waitAll /\ waitAll' = <<>>
      BY <1>8 DEF Arrive
    <3>2. /\ IsInjective(ready) /\ IsInjective(waitAll) /\ Range(ready) \cap Range(waitAll) = {}
      BY DEF QueueInv, TasksInv
    <3>3. /\ IsInjective(ready \o waitAll)
          /\ Range(ready \o waitAll) = Range(ready) \cup Range(waitAll)
          /\ ready \o waitAll # <<>> /\ Head(ready \o waitAll) = Head(ready)
      BY <1>3, <3>2, ConcatQueues
    <3>4. QED BY <1>3, <3>1, <3>3
  <2>2. IsInjective(waitAll') /\ Range(waitAll') = {}
    BY <2>1 DEF IsInjective, Range
  <2>3. TasksInv'
    BY <1>1, <1>2, <1>3, <1>4, <1>6, <1>7, <2>1, <2>2 DEF QueueInv, TasksInv
  <2>4. \A d \in Core : Running(d) => Running(d)'
    BY <1>3, <2>1 DEF Running
  <2>5. EventsInv'
    BY <1>1, <1>2, <1>3, <1>4, <1>5, <1>6, <1>8, <2>1, <2>4 DEF QueueInv, EventsInv, TasksInv
  <2>6. QED BY <2>3, <2>5 DEF QueueInv
<1>9. CASE ~ allArrived'
  <2>1. /\ ready' = Tail(ready) /\ waitAll' = Append(waitAll, c)
        /\ IsInjective(waitAll') /\ Range(waitAll') = Range(waitAll) \cup {c}
    <3>1. ready' = Tail(ready) /\ waitAll' = Append(waitAll, c)
      BY <1>9 DEF Arrive
    <3>2. IsInjective(waitAll)
      BY DEF QueueInv, TasksInv
    <3>3. /\ IsInjective(Append(waitAll, c))
          /\ Range(Append(waitAll, c)) = Range(waitAll) \cup {c}
      BY <1>3, <3>2, AppendToQueue
    <3>4. QED BY <3>1, <3>3
  <2>2. TasksInv'
    BY <1>1, <1>2, <1>3, <1>4, <1>6, <1>7, <2>1 DEF QueueInv, TasksInv
  <2>3. ~ allArrived /\ ~ arbDone
    BY <1>1, <1>9 DEF QueueInv, EventsInv
  <2>4. EventsInv'
    BY <1>1, <1>2, <1>3, <1>5, <1>6, <1>9, <2>1, <2>3 DEF QueueInv, EventsInv, TasksInv
  <2>5. QED BY <2>2, <2>4 DEF QueueInv
<1>10. QED BY <1>8, <1>9

\* A task whose turn it is waits for core 0, which arbitrates and lets all of
\* them go on.
LEMMA TakeTurnKeepsQueues ==
  ASSUME SchedulerTypeOK, QueueInv, NEW c \in Core, TakeTurn(c)
  PROVE  QueueInv'
<1>1. /\ Running(c) /\ pc[c] = "turn"
      /\ pc' = [pc EXCEPT ![c] = "serve"] /\ pc \in [Core -> {"done", "lookup", "arrive", "turn", "serve"}]
      /\ arbDone' = (arbDone \/ c = 0)
      /\ UNCHANGED <<arrived, allArrived, waitAll>>
  BY DEF TakeTurn, Goto, SchedulerTypeOK
<1>2. \A d \in Core : pc'[d] = IF d = c THEN "serve" ELSE pc[d]
  BY <1>1
<1>3. /\ ready \in Seq(Core) /\ ready # <<>> /\ c = Head(ready)
      /\ c \in Range(ready) /\ c \notin Range(waitAll) /\ c \notin Range(waitArb)
      /\ IsInjective(Tail(ready))
      /\ Range(Tail(ready)) = Range(ready) \ {c}
      /\ waitArb \in Seq(Core)
      /\ 0 \in Core
  BY <1>1, RunningTask, NumCoresAssumption DEF QueueInv, SchedulerTypeOK, Core
<1>4. /\ {d \in Core : pc'[d] # "done"} = {d \in Core : pc[d] # "done"}
      /\ AtBarrier' = AtBarrier /\ arrived' = Cardinality(AtBarrier')
  <2>1. AtBarrier' = AtBarrier
    BY <1>1, <1>2 DEF AtBarrier
  <2>2. QED BY <1>1, <1>2, <2>1 DEF QueueInv, EventsInv
<1>5. allArrived
  BY <1>1, <1>3 DEF QueueInv, EventsInv
<1>6. /\ Range(ready) \subseteq Core /\ Range(waitAll) \subseteq Core /\ Range(waitArb) \subseteq Core
  BY DEF QueueInv, TasksInv
<1>7. \A d \in Core : pc'[d] # "arrive"
  BY <1>1, <1>2 DEF QueueInv, TasksInv, Running
<1>8. CASE arbDone'
  <2>1. /\ ready' = ready \o waitArb /\ waitArb' = <<>>
        /\ IsInjective(ready') /\ Range(ready') = Range(ready) \cup Range(waitArb)
        /\ ready' # <<>> /\ Head(ready') = c
    <3>1. ready' = ready \o waitArb /\ waitArb' = <<>>
      BY <1>8 DEF TakeTurn
    <3>2. /\ IsInjective(ready) /\ IsInjective(waitArb) /\ Range(ready) \cap Range(waitArb) = {}
      BY DEF QueueInv, TasksInv
    <3>3. /\ IsInjective(ready \o waitArb)
          /\ Range(ready \o waitArb) = Range(ready) \cup Range(waitArb)
          /\ ready \o waitArb # <<>> /\ Head(ready \o waitArb) = Head(ready)
      BY <1>3, <3>2, ConcatQueues
    <3>4. QED BY <1>3, <3>1, <3>3
  <2>2. IsInjective(waitArb') /\ Range(waitArb') = {}
    BY <2>1 DEF IsInjective, Range
  <2>3. Range(waitAll) = {}
    BY <1>5 DEF QueueInv, EventsInv, Range
  <2>4. TasksInv'
    BY <1>1, <1>2, <1>3, <1>4, <1>6, <1>7, <2>1, <2>2, <2>3 DEF QueueInv, TasksInv
  <2>5. \A d \in Core : Running(d) => Running(d)'
    BY <1>3, <2>1 DEF Running
  <2>6. EventsInv'
    BY <1>1, <1>2, <1>3, <1>4, <1>5, <1>6, <1>8, <2>1, <2>5 DEF QueueInv, EventsInv, TasksInv
  <2>7. QED BY <2>4, <2>6 DEF QueueInv
<1>9. CASE ~ arbDone'
  <2>1. /\ ready' = Tail(ready) /\ waitArb' = Append(waitArb, c)
        /\ IsInjective(waitArb') /\ Range(waitArb') = Range(waitArb) \cup {c}
    <3>1. ready' = Tail(ready) /\ waitArb' = Append(waitArb, c)
      BY <1>9 DEF TakeTurn
    <3>2. IsInjective(waitArb)
      BY DEF QueueInv, TasksInv
    <3>3. /\ IsInjective(Append(waitArb, c))
          /\ Range(Append(waitArb, c)) = Range(waitArb) \cup {c}
      BY <1>3, <3>2, AppendToQueue
    <3>4. QED BY <3>1, <3>3
  <2>2. TasksInv'
    BY <1>1, <1>2, <1>3, <1>4, <1>6, <1>7, <2>1 DEF QueueInv, TasksInv
  <2>3. EventsInv'
    BY <1>1, <1>2, <1>3, <1>4, <1>5, <1>6, <1>9, <2>1 DEF QueueInv, EventsInv, TasksInv
  <2>4. QED BY <2>2, <2>3 DEF QueueInv
<1>10. QED BY <1>8, <1>9

\* A task that is answered leaves the barrier; the last one clears the events.
LEMMA AnsweredKeepsQueues ==
  ASSUME SchedulerTypeOK, QueueInv, NEW c \in Core, Answered(c)
  PROVE  QueueInv'
<1>1. /\ Running(c) /\ pc[c] = "serve"
      /\ pc \in [Core -> {"done", "lookup", "arrive", "turn", "serve"}]
      /\ arrived' = arrived - 1
      /\ allArrived' = (allArrived /\ arrived' # 0)
      /\ arbDone' = (arbDone /\ arrived' # 0)
      /\ UNCHANGED <<waitAll, waitArb>>
      /\ \/ pc' = [pc EXCEPT ![c] = "done"] /\ ready' = Tail(ready)
         \/ pc' = [pc EXCEPT ![c] = "lookup"] /\ ready' = ready
  BY DEF Answered, Return, Goto, Leave, SchedulerTypeOK
<1>2. \/ /\ \A d \in Core : pc'[d] = IF d = c THEN "done" ELSE pc[d]
         /\ ready' = Tail(ready)
      \/ /\ \A d \in Core : pc'[d] = IF d = c THEN "lookup" ELSE pc[d]
         /\ ready' = ready
  BY <1>1
<1>3. /\ ready \in Seq(Core) /\ ready # <<>> /\ c = Head(ready)
      /\ c \in Range(ready) /\ c \notin Range(waitAll) /\ c \notin Range(waitArb)
      /\ IsInjective(Tail(ready)) /\ IsInjective(ready)
      /\ Range(Tail(ready)) = Range(ready) \ {c}
      /\ 0 \in Core
  BY <1>1, RunningTask, NumCoresAssumption DEF QueueInv, TasksInv, Core
<1>4. /\ AtBarrier' = AtBarrier \ {c} /\ c \in AtBarrier
      /\ AtBarrier \in SUBSET Core /\ AtBarrier' \in SUBSET Core
  BY <1>1, <1>2 DEF AtBarrier
<1>5. /\ arrived' = Cardinality(AtBarrier')
      /\ arrived' = 0 <=> AtBarrier' = {}
      /\ arrived' # NumCores
  <2>1. arrived = Cardinality(AtBarrier)
    BY DEF QueueInv, EventsInv
  <2>2. /\ Cardinality(AtBarrier) \in Nat /\ Cardinality(AtBarrier) <= NumCores
        /\ Cardinality(AtBarrier \ {c}) = Cardinality(AtBarrier) - 1
    <3>1. /\ IsFiniteSet(AtBarrier)
          /\ Cardinality(AtBarrier) \in Nat /\ Cardinality(AtBarrier) <= NumCores
      BY <1>4, CountAtBarrier
    <3>2. QED BY <1>4, <3>1, FS_RemoveElement
  <2>3. Cardinality(AtBarrier') = Cardinality(AtBarrier \ {c})
    BY <1>4
  <2>4. Cardinality(AtBarrier') = 0 <=> AtBarrier' = {}
    BY <1>4, CountAtBarrier
  <2>5. QED BY <1>1, <2>1, <2>2, <2>3, <2>4, NumCoresAssumption
<1>6. /\ Range(ready) \subseteq Core /\ Range(waitAll) \subseteq Core /\ Range(waitArb) \subseteq Core
  BY DEF QueueInv, TasksInv
<1>7. \A d \in Core : pc'[d] # "arrive"
  BY <1>1, <1>2 DEF QueueInv, TasksInv, Running
<1>8. TasksInv'
  <2>1. CASE ready' = ready /\ \A d \in Core : pc'[d] = IF d = c THEN "lookup" ELSE pc[d]
    <3>1. {d \in Core : pc'[d] # "done"} = {d \in Core : pc[d] # "done"}
      BY <1>1, <2>1
    <3>2. QED BY <1>1, <1>3, <1>6, <1>7, <2>1, <3>1 DEF QueueInv, TasksInv
  <2>2. CASE ready' = Tail(ready) /\ \A d \in Core : pc'[d] = IF d = c THEN "done" ELSE pc[d]
    <3>1. {d \in Core : pc'[d] # "done"} = {d \in Core : pc[d] # "done"} \ {c}
      BY <1>1, <2>2
    <3>2. QED BY <1>1, <1>3, <1>6, <1>7, <2>2, <3>1 DEF QueueInv, TasksInv
  <2>3. QED BY <1>2, <2>1, <2>2
<1>9. ASSUME NEW d \in Range(ready'), pc'[d] \in {"turn", "serve"}
      PROVE  (pc'[d] = "turn" => allArrived') /\ (pc'[d] = "serve" => arbDone')
  <2>1. d \in Core /\ d # c /\ d \in Range(ready) /\ pc'[d] = pc[d]
    BY <1>2, <1>3, <1>6, <1>9
  <2>2. arrived' # 0
    BY <1>5, <1>9, <2>1 DEF AtBarrier
  <2>3. QED BY <1>1, <2>1, <2>2 DEF QueueInv, EventsInv
<1>10. arbDone' /\ pc'[0] # "done" => Running(0)'
  BY <1>1, <1>2, <1>3 DEF QueueInv, EventsInv, Running
<1>11. EventsInv'
  BY <1>1, <1>5, <1>9, <1>10 DEF QueueInv, EventsInv
<1>12. QED BY <1>8, <1>11 DEF QueueInv

\* A new cycle starts with a task for every core, and nobody at the barrier.
LEMMA NextCycleKeepsQueues ==
  ASSUME SchedulerTypeOK, QueueInv, NextCycle
  PROVE  QueueInv'
<1>1. /\ \A c \in Core : pc[c] = "done"
      /\ UNCHANGED <<waitAll, waitArb, arrived, allArrived, arbDone>>
  BY DEF NextCycle, barrierVars
<1>2. Range(ready) = {} /\ Range(waitAll) = {} /\ Range(waitArb) = {}
  BY <1>1 DEF QueueInv, TasksInv
<1>3. AtBarrier = {} /\ {} \in SUBSET Core /\ 0 \in Core
  BY <1>1, NumCoresAssumption DEF AtBarrier, Core
<1>4. arrived = 0 /\ ~ allArrived /\ ~ arbDone
  BY <1>3, CountAtBarrier DEF QueueInv, EventsInv
<1>5. CASE UNCHANGED <<pc, ready>>
  <2>1. AtBarrier' = AtBarrier /\ \A c \in Core : Running(c)' = Running(c)
    BY <1>5 DEF AtBarrier, Running
  <2>2. QED BY <1>1, <1>3, <1>5, <2>1 DEF QueueInv, TasksInv, EventsInv
<1>6. CASE pc' = [c \in Core |-> "lookup"] /\ ready' = InitialOrder
  <2>1. \A c \in Core : pc'[c] = "lookup"
    BY <1>6
  <2>2. IsInjective(ready') /\ Range(ready') = Core
    BY <1>6, InitialQueue
  <2>3. AtBarrier' = AtBarrier
    BY <1>3, <2>1 DEF AtBarrier
  <2>4. TasksInv'
    BY <1>1, <1>2, <2>1, <2>2 DEF QueueInv, TasksInv
  <2>5. EventsInv'
    BY <1>1, <1>4, <2>1, <2>2, <2>3 DEF QueueInv, EventsInv
  <2>6. QED BY <2>4, <2>5 DEF QueueInv
<1>7. QED BY <1>5, <1>6 DEF NextCycle

\* Every action of a core is one of the scheduler's steps.
LEMMA StepKinds ==
  ASSUME NEW c \in Core, Step(c)
  PROVE  Lookup(c) \/ Arrive(c) \/ TakeTurn(c) \/ Answered(c)
  BY DEF Step, Answered, Served, Idle, ReadHit, WriteHit, ReadMiss, WriteMiss, Upgrade,
         Eviction, Refused

\* An answer ends its task, unless the answer was to an eviction.
LEMMA StepReturns ==
  ASSUME NEW c \in Core, Step(c), Answered(c), ~ Eviction(c)
  PROVE  \E ack \in BOOLEAN : Return(c, ack)
<1>1. ~ Lookup(c) /\ ~ Arrive(c) /\ ~ TakeTurn(c)
  BY DEF Answered, Lookup, Arrive, TakeTurn
<1>2. QED BY <1>1 DEF Step, Idle, ReadHit, WriteHit, ReadMiss, WriteMiss, Upgrade, Refused

LEMMA QueueStep ==
  ASSUME SchedulerTypeOK, QueueInv, [Next]_vars
  PROVE  QueueInv'
<1>1. CASE NextCycle
  BY <1>1, NextCycleKeepsQueues
<1>2. ASSUME NEW c \in Core, Step(c) PROVE QueueInv'
  BY <1>2, StepKinds, LookupKeepsQueues, ArriveKeepsQueues, TakeTurnKeepsQueues, AnsweredKeepsQueues
<1>3. CASE UNCHANGED vars
  <2>1. UNCHANGED <<pc, ready, waitAll, waitArb, arrived, allArrived, arbDone>>
    BY <1>3 DEF vars, taskVars, barrierVars
  <2>2. AtBarrier' = AtBarrier /\ \A c : Running(c)' = Running(c)
    BY <2>1 DEF AtBarrier, Running
  <2>3. QED BY <2>1, <2>2 DEF QueueInv, TasksInv, EventsInv
<1>4. QED BY <1>1, <1>2, <1>3 DEF Next

LEMMA QueueInit == Init => QueueInv
<1> SUFFICES ASSUME Init PROVE QueueInv
  OBVIOUS
<1>1. /\ ready = <<>> /\ waitAll = <<>> /\ waitArb = <<>>
      /\ \A c \in Core : pc[c] = "done"
      /\ arrived = 0 /\ ~ allArrived /\ ~ arbDone
  BY DEF Init
<1>2. IsInjective(<<>>) /\ Range(<<>>) = {}
  BY DEF IsInjective, Range
<1>3. AtBarrier = {} /\ {} \in SUBSET Core /\ 0 \in Core
  BY <1>1, NumCoresAssumption DEF AtBarrier, Core
<1>4. Cardinality(AtBarrier) = 0
  BY <1>3, CountAtBarrier
<1>5. TasksInv
  BY <1>1, <1>2 DEF TasksInv
<1>6. EventsInv
  BY <1>1, <1>2, <1>4, NumCoresAssumption DEF EventsInv
<1>7. QED BY <1>5, <1>6 DEF QueueInv

\* The scheduler's invariant holds in every reachable state.
LEMMA QueueHolds == Spec => []QueueInv
<1>1. IInv /\ QueueInv /\ [Next]_vars => QueueInv'
  BY QueueStep DEF IInv, TypeOK
<1>2. QED BY <1>1, QueueInit, InvHolds, PTL DEF Spec

--------------------------------------------------------------------------------
(* What a request was decided on still holds when it is served. *)

\* Cache c obtains a in state s at the expense of the others, the directory
\* takes note, and nothing else changes.
Obtained(c, a, s) ==
  /\ \A d \in Core, b \in Addr :
       StateOf(d, b)' = IF b # a THEN StateOf(d, b)
                        ELSE IF d = c THEN s
                        ELSE IF s = "M" THEN "I"
                        ELSE IF StateOf(d, b) = "M" THEN "S" ELSE StateOf(d, b)
  /\ dir'[a].state = s
  /\ s = "M" => dir'[a].sharers = {c}
  /\ \A b \in Addr : b # a => dir'[b] = dir[b]

LEMMA MissEffect ==
  ASSUME IInv, NEW c \in Core, ReadMiss(c) \/ WriteMiss(c) \/ Upgrade(c)
  PROVE  /\ op[c].addr \in Addr
         /\ \/ UNCHANGED memoryVars
            \/ \E s \in {"S", "M"} : Obtained(c, op[c].addr, s)
<1>1. /\ op[c] # NoOp /\ op[c].addr \in Addr /\ ~ MustEvict(c)
      /\ \/ UNCHANGED memoryVars
         \/ \E s \in {"S", "M"} : MissServed(c, op[c].addr, s)
  BY MissIsServed
<1>2. line[c][op[c].addr.index].state = "I" \/ line[c][op[c].addr.index].tag = op[c].addr.tag
  BY <1>1 DEF MustEvict
<1>3. ASSUME NEW s \in {"S", "M"}, MissServed(c, op[c].addr, s)
      PROVE  Obtained(c, op[c].addr, s)
  <2>1. PICK sharers \in SUBSET Core :
          (s = "M" => sharers = {c}) /\ SetEntry(op[c].addr, s, sharers)
    BY <1>3 DEF MissServed
  <2>2. /\ dir'[op[c].addr].state = s
        /\ s = "M" => dir'[op[c].addr].sharers = {c}
        /\ \A b \in Addr : b # op[c].addr => dir'[b] = dir[b]
    BY <1>1, <2>1 DEF SetEntry, IInv, TypeOK, MemoryTypeOK
  <2>3. \A d \in Core, b \in Addr :
          StateOf(d, b)' = IF b # op[c].addr THEN StateOf(d, b)
                           ELSE IF d = c THEN s
                           ELSE IF s = "M" THEN "I"
                           ELSE IF StateOf(d, b) = "M" THEN "S" ELSE StateOf(d, b)
    BY <1>1, <1>2, <1>3, MissObtains DEF IInv
  <2>4. QED BY <2>2, <2>3 DEF Obtained
<1>4. QED BY <1>1, <1>3

\* The directory's entry of an address that some cache has SHARED is SHARED.
SharedInv == \A c \in Core, a \in Addr : StateOf(c, a) = "S" => dir[a].state = "S"

LEMMA SharedStep ==
  ASSUME IInv, SharedInv, [Next]_vars
  PROVE  SharedInv'
<1>1. CASE UNCHANGED memoryVars
  BY <1>1 DEF SharedInv, StateOf, memoryVars
<1>2. ASSUME NEW c \in Core, WriteHit(c) PROVE SharedInv'
  BY <1>2, WriteHitKeepsStates DEF SharedInv, WriteHit
<1>3. ASSUME NEW c \in Core, Eviction(c) PROVE SharedInv'
  <2> DEFINE a == request[c].addr
  <2>1. a \in Addr /\ a.index \in Index /\ GiveUp(c, a.index)
    BY <1>3, EvictionGivesUp
  <2>2. \A d \in Core, b \in Addr :
          StateOf(d, b)' = IF d = c /\ b.index = a.index THEN "I" ELSE StateOf(d, b)
    BY <2>1, GiveUpStates DEF IInv, TypeOK
  <2>3. /\ dir \in [Addr -> DirectoryEntry]
        /\ UNCHANGED dir \/ dir' = [dir EXCEPT ![a] = EntryWithout(c, a)]
    BY <1>3 DEF Eviction, Evict, IInv, TypeOK, MemoryTypeOK
  <2> HIDE DEF a
  <2>4. ASSUME NEW d \in Core, d # c, StateOf(d, a) = "S" PROVE EntryWithout(c, a).state = "S"
    <3>1. dir[a].state = "S" /\ d \in dir[a].sharers \ {c}
      BY <2>1, <2>4 DEF SharedInv, IInv, CoherenceInv, DirectoryCovers
    <3>2. QED BY <3>1 DEF EntryWithout
  <2>5. QED BY <2>1, <2>2, <2>3, <2>4 DEF SharedInv
<1>4. ASSUME NEW c \in Core, ReadMiss(c) \/ WriteMiss(c) \/ Upgrade(c) PROVE SharedInv'
  <2>1. ASSUME NEW s \in {"S", "M"}, Obtained(c, op[c].addr, s) PROVE SharedInv'
    BY <2>1 DEF SharedInv, Obtained
  <2>2. QED BY <1>1, <1>4, <2>1, MissEffect
<1>5. ASSUME NEW c \in Core, Lookup(c) \/ Arrive(c) \/ TakeTurn(c) \/ Idle(c) \/ ReadHit(c)
      PROVE  SharedInv'
  BY <1>1, <1>5 DEF Lookup, Arrive, TakeTurn, Idle, ReadHit
<1>6. CASE NextCycle \/ UNCHANGED vars
  BY <1>1, <1>6 DEF NextCycle, vars
<1>7. QED BY <1>2, <1>3, <1>4, <1>5, <1>6 DEF Next, Step

LEMMA SharedInit == Init => SharedInv
<1> SUFFICES ASSUME Init PROVE SharedInv
  OBVIOUS
<1>1. \A c \in Core, a \in Addr : StateOf(c, a) = "I"
  BY DEF Init, MemoryInit, StateOf, Addr
<1>2. QED BY <1>1 DEF SharedInv

\* A task between its lookup and its answer, and whether the arbiter may yet
\* let it through: core 0 has not arbitrated for the last time, or chose it.
Waiting(c) == pc[c] \in {"arrive", "turn", "serve"}
MayBeServed(c) == ~ arbDone \/ pc[0] # "done" \/ requestId = c

\* The cache still holds what request r was decided on.
FreshFor(c, r) ==
  /\ r.cmd = "BUS_UPGR" => StateOf(c, op[c].addr) = "S"
  /\ r.cmd \in {"BUS_RD", "BUS_RDX"} => StateOf(c, op[c].addr) = "I"
  /\ r.cmd = "EVICT_DIRTY" =>
       StateOf(c, r.addr) = "M" /\ line[c][r.addr.index].data = r.payload

Fresh(c) == FreshFor(c, request[c])

FreshInv == \A c \in Core : Waiting(c) /\ MayBeServed(c) => Fresh(c)

\* A request is fresh when it is decided on.
LEMMA WantedIsFresh ==
  ASSUME TypeOK, NEW c \in Core
  PROVE  FreshFor(c, Wanted(c))
<1> DEFINE old == line[c][op[c].addr.index]
           tr == OnProcessorEvent(old.state, IF IsWrite(op[c]) THEN "PR_WR" ELSE "PR_RD")
<1>1. CASE op[c] = NoOp
  <2>1. ~ MustEvict(c)
    BY <1>1 DEF MustEvict
  <2>2. Wanted(c) = InvalidPacket
    BY <1>1, <2>1, Zenon DEF Wanted
  <2>3. QED BY <2>2 DEF FreshFor, InvalidPacket
<1>2. CASE op[c] # NoOp /\ MustEvict(c)
  <2>1. Wanted(c) = [cmd |-> IF old.state = "M" THEN "EVICT_DIRTY" ELSE "EVICT_CLEAN",
                      addr |-> [tag |-> old.tag, index |-> op[c].addr.index],
                      payload |-> old.data]
    BY <1>2 DEF Wanted
  <2>2. QED BY <2>1 DEF FreshFor, StateOf
<1>3. CASE op[c] # NoOp /\ ~ MustEvict(c)
  <2>1. Wanted(c) = IF tr.cmd = "NULL" THEN InvalidPacket
                     ELSE [cmd |-> tr.cmd, addr |-> op[c].addr, payload |-> ZeroWord]
    BY <1>3 DEF Wanted
  <2>2. Wanted(c).cmd = tr.cmd
    BY <2>1 DEF InvalidPacket
  <2>3. StateOf(c, op[c].addr) = old.state
    BY <1>3 DEF MustEvict, StateOf
  <2>4. old.state \in MSIState
    BY <1>3, WorkloadAssumption DEF TypeOK, SchedulerTypeOK, MemoryTypeOK, Op, Addr, Line
  <2> HIDE DEF old
  <2>5. /\ tr.cmd = "BUS_UPGR" => old.state = "S"
        /\ tr.cmd \in {"BUS_RD", "BUS_RDX"} => old.state = "I"
        /\ tr.cmd # "EVICT_DIRTY"
    BY <2>4 DEF OnProcessorEvent, MSIState
  <2>6. QED BY <2>2, <2>3, <2>5 DEF FreshFor
<1>4. QED BY <1>1, <1>2, <1>3

\* While a task is answered, those still waiting were waiting before; after
\* the answer of the one let through, no request will be.
LEMMA WaitingAfterAnswer ==
  ASSUME SchedulerTypeOK, QueueInv, NEW c \in Core, Answered(c),
         NEW d \in Core, d # c, Waiting(d)', MayBeServed(d)'
  PROVE  /\ Waiting(d) /\ MayBeServed(d)
         /\ ~ (LetThrough(c) /\ Return(c, TRUE))
<1>1. /\ Running(c) /\ pc[c] = "serve" /\ requestId' = requestId
      /\ pc \in [Core -> {"done", "lookup", "arrive", "turn", "serve"}]
      /\ arbDone' = (arbDone /\ arrived' # 0)
      /\ \E label \in {"done", "lookup"} : pc' = [pc EXCEPT ![c] = label]
      /\ Return(c, TRUE) => pc' = [pc EXCEPT ![c] = "done"]
  BY DEF Answered, Return, Goto, Leave, SchedulerTypeOK
<1>2. \A e \in Core \ {c} : pc'[e] = pc[e]
  BY <1>1
<1>3. pc[d] = pc'[d] /\ pc[d] \in {"turn", "serve"}
  BY <1>1, <1>2 DEF Waiting, QueueInv, TasksInv, Running
<1>4. arrived' # 0
  <2>1. arrived' = Cardinality(AtBarrier') /\ AtBarrier' \in SUBSET Core
    BY AnsweredKeepsQueues DEF QueueInv, EventsInv, AtBarrier
  <2>2. d \in AtBarrier'
    BY <1>3 DEF AtBarrier
  <2>3. QED BY <2>1, <2>2, CountAtBarrier
<1>5. arbDone /\ arbDone'
  BY <1>1, <1>4, RunningTask DEF QueueInv, EventsInv
<1>6. 0 \in Core
  BY NumCoresAssumption DEF Core
<1>7. pc'[0] # "done" => pc[0] # "done"
  BY <1>1, <1>2, <1>6
<1>8. pc'[0] # "done" => ~ Return(c, TRUE)
  BY <1>1, <1>5, <1>6, <1>7 DEF QueueInv, EventsInv, Running
<1>9. QED BY <1>1, <1>3, <1>5, <1>7, <1>8 DEF MayBeServed, Waiting, LetThrough

\* Freshness depends on the cache's own lines and request only.
LEMMA SameLinesSameFresh ==
  ASSUME NEW c \in Core, line'[c] = line[c], op'[c] = op[c], request'[c] = request[c], Fresh(c)
  PROVE  Fresh(c)'
  BY DEF Fresh, FreshFor, StateOf

\* An answer keeps what the other requests were decided on: it lowers another
\* cache's line only for the one task that was let through.
LEMMA AnswerKeepsFresh ==
  ASSUME IInv, QueueInv, FreshInv, NEW c \in Core, Answered(c),
         (\A d \in Core \ {c} : line'[d] = line[d]) \/ (LetThrough(c) /\ Return(c, TRUE))
  PROVE  FreshInv'
<1> SUFFICES ASSUME NEW d \in Core, Waiting(d)', MayBeServed(d)' PROVE Fresh(d)'
  BY DEF FreshInv
<1>1. SchedulerTypeOK /\ UNCHANGED <<op, request>>
  BY DEF IInv, TypeOK, Answered, Return, Leave
<1>2. d # c
  BY <1>1 DEF Answered, Return, Goto, SchedulerTypeOK, Waiting
<1>3. Waiting(d) /\ MayBeServed(d) /\ ~ (LetThrough(c) /\ Return(c, TRUE))
  BY <1>1, <1>2, WaitingAfterAnswer
<1>4. Fresh(d) /\ line'[d] = line[d]
  BY <1>2, <1>3 DEF FreshInv
<1>5. QED BY <1>1, <1>4, SameLinesSameFresh

LEMMA FreshStep ==
  ASSUME IInv, QueueInv, FreshInv, [Next]_vars
  PROVE  FreshInv'
<1> USE DEF IInv, TypeOK
<1>1. CASE NextCycle
  <2>1. \A c \in Core : pc'[c] \in {"done", "lookup"}
    BY <1>1 DEF NextCycle
  <2>2. QED BY <2>1 DEF FreshInv, Waiting
<1>2. ASSUME NEW c \in Core, Lookup(c) PROVE FreshInv'
  <2>1. /\ UNCHANGED <<op, line, arbDone, requestId>> /\ request' = [request EXCEPT ![c] = Wanted(c)]
        /\ pc[c] = "lookup" /\ pc' = [pc EXCEPT ![c] = "arrive"]
    BY <1>2 DEF Lookup, Goto, barrierVars, memoryVars
  <2>2. request'[c] = Wanted(c)
    BY <2>1 DEF SchedulerTypeOK
  <2>3. FreshFor(c, Wanted(c))
    BY WantedIsFresh
  <2>4. Fresh(c)'
    BY <2>1, <2>2, <2>3 DEF Fresh, FreshFor, StateOf
  <2>5. ASSUME NEW d \in Core, d # c, Waiting(d)', MayBeServed(d)' PROVE Fresh(d)'
    <3>1. pc'[d] = pc[d] /\ request'[d] = request[d]
      BY <2>1, <2>5 DEF SchedulerTypeOK
    <3>2. 0 \in Core /\ (pc'[0] # "done" => pc[0] # "done")
      BY <2>1, NumCoresAssumption DEF SchedulerTypeOK, Core
    <3>3. Waiting(d) /\ MayBeServed(d)
      BY <2>1, <2>5, <3>1, <3>2 DEF Waiting, MayBeServed
    <3>4. QED BY <2>1, <3>1, <3>3, SameLinesSameFresh DEF FreshInv
  <2>6. QED BY <2>4, <2>5 DEF FreshInv
<1>3. ASSUME NEW c \in Core, Arrive(c) \/ TakeTurn(c) PROVE FreshInv'
  <2>1. /\ UNCHANGED <<op, line, request>>
        /\ pc[c] \in {"arrive", "turn"}
        /\ \E label \in {"turn", "serve"} : pc' = [pc EXCEPT ![c] = label]
        /\ \/ UNCHANGED <<arbDone, requestId>>
           \/ c = 0
    BY <1>3 DEF Arrive, TakeTurn, Goto, memoryVars, SchedulerTypeOK
  <2>2. /\ \A d \in Core : Waiting(d)' => Waiting(d)
        /\ 0 \in Core /\ (pc'[0] # "done" => pc[0] # "done")
    BY <2>1, NumCoresAssumption DEF SchedulerTypeOK, Waiting, Core
  <2>3. \A d \in Core : MayBeServed(d)' => MayBeServed(d)
    BY <2>1, <2>2 DEF MayBeServed
  <2>4. \A d \in Core : Fresh(d) => Fresh(d)'
    BY <2>1, SameLinesSameFresh
  <2>5. QED BY <2>2, <2>3, <2>4 DEF FreshInv
<1>4. ASSUME NEW c \in Core, Idle(c) \/ ReadHit(c) PROVE FreshInv'
  <2>1. Answered(c) /\ UNCHANGED line
    BY <1>4 DEF Idle, ReadHit, Served, Answered, memoryVars
  <2>2. QED BY <2>1, AnswerKeepsFresh
<1>5. ASSUME NEW c \in Core, WriteHit(c) PROVE FreshInv'
  <2>1. Answered(c)
    BY <1>5 DEF WriteHit, Served, Answered
  <2>2. \A d \in Core \ {c} : line'[d] = line[d]
    BY <1>5 DEF WriteHit, MemoryTypeOK
  <2>3. QED BY <2>1, <2>2, AnswerKeepsFresh
<1>6. ASSUME NEW c \in Core, ReadMiss(c) \/ WriteMiss(c) \/ Upgrade(c) PROVE FreshInv'
  <2>1. Answered(c) /\ (UNCHANGED line \/ (LetThrough(c) /\ Return(c, TRUE)))
    BY <1>6, MissIsServed DEF memoryVars
  <2>2. QED BY <2>1, AnswerKeepsFresh
<1>7. ASSUME NEW c \in Core, Eviction(c) PROVE FreshInv'
  <2>1. Answered(c)
    BY <1>7 DEF Eviction, Served, Answered
  <2>2. \A d \in Core \ {c} : line'[d] = line[d]
    BY <1>7, EvictionGivesUp DEF GiveUp, MemoryTypeOK
  <2>3. QED BY <2>1, <2>2, AnswerKeepsFresh
<1>8. CASE UNCHANGED vars
  <2>1. UNCHANGED <<op, line, request, pc, arbDone, requestId>>
    BY <1>8 DEF vars, taskVars, barrierVars, memoryVars
  <2>2. QED BY <2>1 DEF FreshInv, Waiting, MayBeServed, Fresh, FreshFor, StateOf
<1>9. QED BY <1>1, <1>2, <1>3, <1>4, <1>5, <1>6, <1>7, <1>8 DEF Next, Step

LEMMA FreshHolds == Spec => []FreshInv
<1>1. Init => FreshInv
  BY DEF Init, FreshInv, Waiting
<1>2. IInv /\ QueueInv /\ FreshInv /\ [Next]_vars => FreshInv'
  BY FreshStep
<1>3. QED BY <1>1, <1>2, InvHolds, QueueHolds, PTL DEF Spec

LEMMA SharedHolds == Spec => []SharedInv
<1>1. IInv /\ SharedInv /\ [Next]_vars => SharedInv'
  BY SharedStep
<1>2. QED BY <1>1, SharedInit, InvHolds, PTL DEF Spec

\* A request that is served was made on behalf of a test case, and is fresh.
LEMMA ServedIsFresh ==
  ASSUME IInv, FreshInv, NEW c \in Core, NEW cmds, AboutToBeServed(c, cmds), "NULL" \notin cmds
  PROVE  Fresh(c) /\ request[c].cmd \in cmds /\ op[c].addr \in Addr
<1>1. pc[c] = "serve" /\ requestId = c /\ request[c].cmd \in cmds
  BY DEF AboutToBeServed, LetThrough
<1>2. op[c] # NoOp
  BY <1>1 DEF IInv, PendingOK
<1>3. op[c].addr \in Addr
  BY <1>2, WorkloadAssumption DEF IInv, TypeOK, SchedulerTypeOK, Op
<1>4. QED BY <1>1, <1>3 DEF FreshInv, Waiting, MayBeServed

(***************************************************************************)
(* A BUS_UPGR is decided on before the barrier (cache.py) and served after *)
(* it: whatever was served in between, evictions included, the requester   *)
(* still has the line SHARED, as directory.py:366 assumes, and so has the  *)
(* directory, so that the fallback of directory.py:403-405 is never taken. *)
(***************************************************************************)
THEOREM UpgradesAreFresh == Spec => []UpgradeIsFresh
<1>1. ASSUME IInv, FreshInv, SharedInv PROVE UpgradeIsFresh
  <2> SUFFICES ASSUME NEW c \in Core, AboutToBeServed(c, {"BUS_UPGR"})
               PROVE  StateOf(c, op[c].addr) = "S" /\ dir[op[c].addr].state = "S"
    BY DEF UpgradeIsFresh
  <2>1. Fresh(c) /\ request[c].cmd = "BUS_UPGR" /\ op[c].addr \in Addr
    BY <1>1, ServedIsFresh
  <2>2. QED BY <1>1, <2>1 DEF Fresh, FreshFor, SharedInv
<1>2. QED BY <1>1, InvHolds, FreshHolds, SharedHolds, PTL

(***************************************************************************)
(* The payload of an EVICT_DIRTY is read before the barrier, and is still  *)
(* the cache's MODIFIED word when directory.py writes it to memory.        *)
(***************************************************************************)
THEOREM EvictionsAreFresh == Spec => []EvictIsFresh
<1>1. ASSUME IInv, FreshInv PROVE EvictIsFresh
  <2> SUFFICES ASSUME NEW c \in Core, AboutToBeServed(c, {"EVICT_DIRTY"})
               PROVE  /\ StateOf(c, request[c].addr) = "M"
                      /\ line[c][request[c].addr.index].data = request[c].payload
    BY DEF EvictIsFresh
  <2>1. Fresh(c) /\ request[c].cmd = "EVICT_DIRTY"
    BY <1>1, ServedIsFresh
  <2>2. QED BY <2>1 DEF Fresh, FreshFor
<1>2. QED BY <1>1, InvHolds, FreshHolds, PTL

--------------------------------------------------------------------------------
(* When nothing is evicted. *)

(***************************************************************************)
(* No two addresses of the workload share an index, so that no cache ever  *)
(* has to make room.                                                       *)
(***************************************************************************)
NoConflicts == \A o, p \in Workload : o.addr.index = p.addr.index => o.addr = p.addr

\* What a cache holds, and asks for, when there are no conflicts.
OnlyWanted == \A c \in Core, a \in Addr : StateOf(c, a) # "I" => \E o \in Workload : o.addr = a
NoEvictions == \A c \in Core : Waiting(c) => request[c].cmd \notin EvictCmd
ConflictFree == OnlyWanted /\ NoEvictions

LEMMA NothingToEvict ==
  ASSUME NoConflicts, IInv, OnlyWanted, NEW c \in Core
  PROVE  ~ MustEvict(c)
<1> SUFFICES ASSUME MustEvict(c) PROVE FALSE
  OBVIOUS
<1> DEFINE i == op[c].addr.index
           a == [tag |-> line[c][i].tag, index |-> i]
<1>1. op[c] \in Workload /\ op[c].addr \in Addr /\ i \in Index
  BY WorkloadAssumption DEF MustEvict, IInv, TypeOK, SchedulerTypeOK, Op, Addr
<1>2. a \in Addr
  BY <1>1 DEF IInv, TypeOK, MemoryTypeOK, Line, Addr
<1>3. StateOf(c, a) # "I"
  BY DEF StateOf, MustEvict
<1>4. a.index = op[c].addr.index /\ a.tag # op[c].addr.tag
  BY DEF MustEvict
<1> HIDE DEF a
<1>5. PICK o \in Workload : o.addr = a
  BY <1>2, <1>3 DEF OnlyWanted
<1>6. QED BY <1>1, <1>4, <1>5 DEF NoConflicts

\* So no step is an eviction.
LEMMA NeverEvicts ==
  ASSUME NoEvictions, NEW c \in Core
  PROVE  ~ Eviction(c)
  BY DEF NoEvictions, Waiting, Eviction, Served

LEMMA ConflictFreeStep ==
  ASSUME NoConflicts, IInv, ConflictFree, [Next]_vars
  PROVE  ConflictFree'
<1> USE DEF IInv, TypeOK
<1>1. UNCHANGED memoryVars => OnlyWanted'
  BY DEF ConflictFree, OnlyWanted, StateOf, memoryVars
<1>2. OnlyWanted'
  <2>1. ASSUME NEW c \in Core, WriteHit(c) PROVE OnlyWanted'
    BY <2>1, WriteHitKeepsStates DEF ConflictFree, OnlyWanted
  <2>2. ASSUME NEW c \in Core, ReadMiss(c) \/ WriteMiss(c) \/ Upgrade(c) PROVE OnlyWanted'
    <3>1. op[c] \in Workload
      BY <2>2, MissIsServed DEF SchedulerTypeOK
    <3>2. ASSUME NEW s \in {"S", "M"}, Obtained(c, op[c].addr, s) PROVE OnlyWanted'
      BY <3>1, <3>2 DEF ConflictFree, OnlyWanted, Obtained
    <3>3. QED BY <1>1, <2>2, <3>2, MissEffect
  <2>3. ASSUME NEW c \in Core, Lookup(c) \/ Arrive(c) \/ TakeTurn(c) \/ Idle(c) \/ ReadHit(c)
        PROVE  OnlyWanted'
    BY <1>1, <2>3 DEF Lookup, Arrive, TakeTurn, Idle, ReadHit
  <2>4. CASE NextCycle \/ UNCHANGED vars
    BY <1>1, <2>4 DEF NextCycle, vars
  <2>5. QED BY <2>1, <2>2, <2>3, <2>4, NeverEvicts DEF ConflictFree, Next, Step
<1>3. NoEvictions'
  <2>1. ASSUME NEW c \in Core, Lookup(c) PROVE NoEvictions'
    <3>1. /\ request' = [request EXCEPT ![c] = Wanted(c)]
          /\ pc' = [pc EXCEPT ![c] = "arrive"]
      BY <2>1 DEF Lookup, Goto
    <3>2. Wanted(c).cmd \notin EvictCmd
      <4>1. ~ MustEvict(c)
        BY NothingToEvict DEF ConflictFree
      <4>2. QED BY <4>1 DEF Wanted, InvalidPacket, EvictCmd, OnProcessorEvent
    <3>3. QED BY <3>1, <3>2 DEF ConflictFree, NoEvictions, Waiting, SchedulerTypeOK
  <2>2. ASSUME NEW c \in Core, Arrive(c) \/ TakeTurn(c) \/ Answered(c) PROVE NoEvictions'
    <3>1. /\ UNCHANGED request /\ pc[c] \in {"arrive", "turn", "serve"}
          /\ \E label \in {"turn", "serve", "done", "lookup"} : pc' = [pc EXCEPT ![c] = label]
      BY <2>2 DEF Arrive, TakeTurn, Answered, Leave, Return, Goto
    <3>2. QED BY <3>1 DEF ConflictFree, NoEvictions, Waiting, SchedulerTypeOK
  <2>3. CASE NextCycle
    <3>1. \A c \in Core : pc'[c] \in {"done", "lookup"}
      BY <2>3 DEF NextCycle
    <3>2. QED BY <3>1 DEF NoEvictions, Waiting
  <2>4. CASE UNCHANGED vars
    BY <2>4 DEF vars, taskVars, ConflictFree, NoEvictions, Waiting
  <2>5. QED BY <2>1, <2>2, <2>3, <2>4, StepKinds DEF Next
<1>4. QED BY <1>2, <1>3 DEF ConflictFree

LEMMA ConflictFreeHolds ==
  ASSUME NoConflicts
  PROVE  Spec => []ConflictFree
<1>1. Init => ConflictFree
  <2>1. Init => \A c \in Core, a \in Addr : StateOf(c, a) = "I"
    BY DEF Init, MemoryInit, StateOf, Addr
  <2>2. Init => \A c \in Core : pc[c] = "done"
    BY DEF Init
  <2>3. QED BY <2>1, <2>2 DEF ConflictFree, OnlyWanted, NoEvictions, Waiting
<1>2. IInv /\ ConflictFree /\ [Next]_vars => ConflictFree'
  BY ConflictFreeStep
<1>3. QED BY <1>1, <1>2, InvHolds, PTL DEF Spec

(***************************************************************************)
(* With nothing evicted, an entry that names an owner is right about it:   *)
(* the cache that directory.py snoops for the word has it, and does not    *)
(* answer with zeros.                                                      *)
(***************************************************************************)
THEOREM OwnersHaveLines ==
  ASSUME NoConflicts
  PROVE  Spec => []OwnerHasLine
<1>1. Init => OwnerHasLine
  BY DEF Init, MemoryInit, OwnerHasLine
<1>2. ASSUME IInv, ConflictFree, OwnerHasLine, [Next]_vars PROVE OwnerHasLine'
  <2>1. UNCHANGED memoryVars => OwnerHasLine'
    BY <1>2 DEF OwnerHasLine, StateOf, memoryVars
  <2>2. ASSUME NEW c \in Core, WriteHit(c) PROVE OwnerHasLine'
    BY <1>2, <2>2, WriteHitKeepsStates DEF OwnerHasLine, WriteHit
  <2>3. ASSUME NEW c \in Core, ReadMiss(c) \/ WriteMiss(c) \/ Upgrade(c) PROVE OwnerHasLine'
    <3>1. ASSUME NEW s \in {"S", "M"}, Obtained(c, op[c].addr, s), op[c].addr \in Addr
          PROVE  OwnerHasLine'
      BY <1>2, <3>1 DEF OwnerHasLine, Obtained
    <3>2. QED BY <1>2, <2>1, <2>3, <3>1, MissEffect
  <2>4. ASSUME NEW c \in Core, Lookup(c) \/ Arrive(c) \/ TakeTurn(c) \/ Idle(c) \/ ReadHit(c)
        PROVE  OwnerHasLine'
    BY <2>1, <2>4 DEF Lookup, Arrive, TakeTurn, Idle, ReadHit
  <2>5. CASE NextCycle \/ UNCHANGED vars
    BY <2>1, <2>5 DEF NextCycle, vars
  <2>6. QED BY <1>2, <2>2, <2>3, <2>4, <2>5, NeverEvicts DEF ConflictFree, Next, Step
<1>3. QED BY <1>1, <1>2, InvHolds, ConflictFreeHolds, PTL DEF Spec

(***************************************************************************)
(* With nothing evicted, directory.py:347 ("this shouldnt have got hit")   *)
(* is indeed never hit: the owner that the entry names is another cache    *)
(* than the requester, which still lacks the line it asks for.             *)
(***************************************************************************)
THEOREM RdxIsAnswered ==
  ASSUME NoConflicts
  PROVE  Spec => []RdxNeverFallsThrough
<1>1. ASSUME IInv, FreshInv, OwnerHasLine PROVE RdxNeverFallsThrough
  <2> SUFFICES ASSUME NEW c \in Core, AboutToBeServed(c, {"BUS_RDX", "BUS_UPGR"})
               PROVE  ~ RdxFallsThrough(c, op[c].addr)
    BY DEF RdxNeverFallsThrough
  <2>1. Fresh(c) /\ request[c].cmd \in {"BUS_RDX", "BUS_UPGR"} /\ op[c].addr \in Addr
    BY <1>1, ServedIsFresh
  <2>2. StateOf(c, op[c].addr) # "M"
    BY <2>1 DEF Fresh, FreshFor
  <2>3. QED BY <1>1, <2>1, <2>2 DEF RdxFallsThrough, OwnerHasLine, HasOwner
<1>2. QED BY <1>1, InvHolds, FreshHolds, OwnersHaveLines, PTL

(***************************************************************************)
(* The phases of a cycle in which nobody comes back for a second request:  *)
(* all tasks go to the barrier; then all take their turns, core 0          *)
(* arbitrating for them; then they are answered one after the other.       *)
(***************************************************************************)
PhaseInv ==
  /\ ~ allArrived => \/ \A c \in Core : pc[c] = "done"
                     \/ \A c \in Core : pc[c] \in {"lookup", "arrive", "turn"}
  /\ allArrived => \A c \in Core : pc[c] \in {"turn", "serve", "done"}
  /\ allArrived /\ ~ arbDone => \A c \in Core : pc[c] # "done"
  /\ ~ arbDone => pc[0] # "serve"

LEMMA PhaseStep ==
  ASSUME IInv, QueueInv, NoEvictions, PhaseInv, [Next]_vars
  PROVE  PhaseInv'
<1>1. /\ SchedulerTypeOK /\ 0 \in Core
      /\ pc \in [Core -> {"done", "lookup", "arrive", "turn", "serve"}]
      /\ arbDone \in BOOLEAN /\ allArrived \in BOOLEAN
  BY NumCoresAssumption DEF IInv, TypeOK, SchedulerTypeOK, Core
<1>2. CASE NextCycle
  <2>1. AtBarrier = {} /\ {} \in SUBSET Core
    BY <1>2 DEF NextCycle, AtBarrier
  <2>2. ~ allArrived /\ ~ arbDone /\ allArrived' = allArrived /\ arbDone' = arbDone
    BY <1>2, <2>1, CountAtBarrier DEF NextCycle, barrierVars, QueueInv, EventsInv
  <2>3. (\A c \in Core : pc'[c] = "lookup") \/ \A c \in Core : pc'[c] = "done"
    BY <1>2 DEF NextCycle
  <2>4. QED BY <1>1, <2>2, <2>3 DEF PhaseInv
<1>3. ASSUME NEW c \in Core, Lookup(c) PROVE PhaseInv'
  <2>1. /\ pc[c] = "lookup" /\ pc' = [pc EXCEPT ![c] = "arrive"]
        /\ allArrived' = allArrived /\ arbDone' = arbDone
    BY <1>3 DEF Lookup, Goto, barrierVars
  <2>2. QED BY <1>1, <2>1 DEF PhaseInv
<1>4. ASSUME NEW c \in Core, Arrive(c) PROVE PhaseInv'
  <2>1. /\ pc[c] = "arrive" /\ pc' = [pc EXCEPT ![c] = "turn"]
        /\ allArrived' = (allArrived \/ arrived' = NumCores) /\ arbDone' = arbDone
    BY <1>4 DEF Arrive, Goto
  <2>2. ~ allArrived /\ ~ arbDone /\ \A d \in Core : pc'[d] \in {"lookup", "arrive", "turn"}
    BY <1>1, <2>1 DEF PhaseInv, QueueInv, EventsInv
  <2>3. allArrived' => \A d \in Core : pc'[d] \in {"turn", "serve"}
    <3>1. arrived' = Cardinality(AtBarrier') /\ AtBarrier' \in SUBSET Core
      BY <1>1, <1>4, ArriveKeepsQueues DEF QueueInv, EventsInv, AtBarrier
    <3>2. arrived' = NumCores => AtBarrier' = Core
      BY <3>1, CountAtBarrier
    <3>3. QED BY <2>1, <2>2, <3>2 DEF AtBarrier
  <2>4. QED BY <1>1, <2>1, <2>2, <2>3 DEF PhaseInv
<1>5. ASSUME NEW c \in Core, TakeTurn(c) PROVE PhaseInv'
  <2>1. /\ Running(c) /\ pc[c] = "turn" /\ pc' = [pc EXCEPT ![c] = "serve"]
        /\ allArrived' = allArrived /\ arbDone' = (arbDone \/ c = 0)
    BY <1>5 DEF TakeTurn, Goto
  <2>2. allArrived
    BY <1>1, <2>1, RunningTask DEF QueueInv, EventsInv
  <2>3. QED BY <1>1, <2>1, <2>2 DEF PhaseInv
<1>6. ASSUME NEW c \in Core, Answered(c), ~ Goto(c, "lookup") PROVE PhaseInv'
  <2>1. /\ Running(c) /\ pc[c] = "serve" /\ pc' = [pc EXCEPT ![c] = "done"]
        /\ allArrived' = (allArrived /\ arrived' # 0)
        /\ arbDone' = (arbDone /\ arrived' # 0)
    BY <1>6 DEF Answered, Return, Goto, Leave
  <2>2. allArrived /\ arbDone
    BY <1>1, <2>1, RunningTask DEF QueueInv, EventsInv
  <2>3. \A d \in Core : pc'[d] \in {"turn", "serve", "done"}
    BY <1>1, <2>1, <2>2 DEF PhaseInv
  <2>4. arrived' = 0 => \A d \in Core : pc'[d] = "done"
    <3>1. arrived' = Cardinality(AtBarrier') /\ AtBarrier' \in SUBSET Core
      BY <1>1, <1>6, AnsweredKeepsQueues DEF QueueInv, EventsInv, AtBarrier
    <3>2. arrived' = 0 => AtBarrier' = {}
      BY <3>1, CountAtBarrier
    <3>3. QED BY <2>3, <3>2 DEF AtBarrier
  <2>5. QED BY <1>1, <2>1, <2>2, <2>3, <2>4 DEF PhaseInv
<1>7. CASE UNCHANGED vars
  BY <1>7 DEF vars, taskVars, barrierVars, PhaseInv
<1>8. ASSUME NEW c \in Core, Step(c)
      PROVE  Lookup(c) \/ Arrive(c) \/ TakeTurn(c) \/ (Answered(c) /\ ~ Goto(c, "lookup"))
  <2>1. ASSUME NEW ack, Return(c, ack) PROVE ~ Goto(c, "lookup")
    BY <1>1, <2>1 DEF Return, Goto
  <2>2. ~ Eviction(c)
    BY NeverEvicts
  <2>3. Answered(c) => \E ack : Return(c, ack)
    BY <1>8, <2>2, StepReturns
  <2>4. QED BY <1>8, <2>1, <2>3, StepKinds
<1>9. QED BY <1>2, <1>3, <1>4, <1>5, <1>6, <1>7, <1>8 DEF Next

\* So a task that waits has another one to wait for that can run.
LEMMA SomeTaskRuns ==
  ASSUME IInv, QueueInv, PhaseInv
  PROVE  NeverStalls
<1> SUFFICES ASSUME ready = <<>>, NEW c \in Core, pc[c] # "done" PROVE FALSE
  BY DEF NeverStalls
<1>1. Range(ready) = {}
  BY DEF Range
<1>2. \A d \in Core : pc[d] # "done" => d \in Range(waitAll) \/ d \in Range(waitArb)
  BY <1>1 DEF QueueInv, TasksInv
<1>3. 0 \in Core
  BY NumCoresAssumption DEF Core
<1>4. CASE allArrived
  <2>1. Range(waitAll) = {}
    BY <1>4 DEF QueueInv, EventsInv, Range
  <2>2. c \in Range(waitArb)
    BY <1>2, <2>1
  <2>3. ~ arbDone
    BY <2>2 DEF QueueInv, EventsInv, Range
  <2>4. pc[0] # "done" /\ pc[0] # "serve"
    BY <1>3, <1>4, <2>3 DEF PhaseInv
  <2>5. QED BY <1>2, <1>3, <2>1, <2>4 DEF QueueInv, TasksInv
<1>5. CASE ~ allArrived
  <2>1. \A d \in Core : pc[d] \in {"lookup", "arrive", "turn"}
    BY <1>5 DEF PhaseInv
  <2>2. \A d \in Core : pc[d] = "turn"
    BY <1>2, <2>1 DEF QueueInv, TasksInv
  <2>3. AtBarrier = Core /\ AtBarrier \in SUBSET Core
    BY <2>2 DEF AtBarrier
  <2>4. arrived = NumCores
    BY <2>3, CountAtBarrier DEF QueueInv, EventsInv
  <2>5. QED BY <1>5, <2>4 DEF QueueInv, EventsInv
<1>6. QED BY <1>4, <1>5

(***************************************************************************)
(* gather (CPU.py:131-132) does not wait in vain: with nothing evicted,    *)
(* the event loop runs out of tasks only when all have returned.  The last *)
(* to arrive releases the barrier, core 0 releases the arbitration, and    *)
(* neither event is cleared while a task still needs it.                   *)
(***************************************************************************)
THEOREM BarrierNeverStalls ==
  ASSUME NoConflicts
  PROVE  Spec => []NeverStalls
<1>1. Init => PhaseInv
  BY NumCoresAssumption DEF Init, PhaseInv, Core
<1>2. IInv /\ QueueInv /\ ConflictFree /\ PhaseInv /\ [Next]_vars => PhaseInv'
  BY PhaseStep DEF ConflictFree
<1>3. QED BY <1>1, <1>2, SomeTaskRuns, InvHolds, QueueHolds, ConflictFreeHolds, PTL DEF Spec

================================================================================
