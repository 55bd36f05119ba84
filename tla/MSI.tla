---------------------------------- MODULE MSI ----------------------------------
(***************************************************************************)
(* The MSI transition tables shared by the Python emulator                 *)
(* (cocotb/emulation/msi.py) and the RTL (on_processor_event_state_        *)
(* machine.sv, on_snoop_event_state_machine.sv).  Pure definitions.        *)
(***************************************************************************)

\* MSIState: a line of a cache, and an entry of the directory.
MSIState == {"I", "S", "M"}

\* The processor events, and the snoops a directory sends to a cache.
ProcessorEvent == {"PR_RD", "PR_WR"}
SnoopEvent == {"BUS_RD", "BUS_RDX", "BUS_UPGR"}

\* The commands a cache sends to the directory.  NULL is what the source's
\* mem_valid = False packet carries.
BusCmd == {"BUS_RD", "BUS_RDX", "BUS_UPGR"}
EvictCmd == {"EVICT_CLEAN", "EVICT_DIRTY"}
CoherenceCmd == BusCmd \cup EvictCmd \cup {"NULL"}

(***************************************************************************)
(* on_processor_event: the command the bus must carry before the access    *)
(* may complete ("NULL" for a hit), and the state the line then takes.     *)
(***************************************************************************)
OnProcessorEvent(state, event) ==
  [next |-> IF event = "PR_WR" \/ state = "M" THEN "M" ELSE "S",
   cmd  |-> CASE state = "I" /\ event = "PR_RD" -> "BUS_RD"
              [] state = "I" /\ event = "PR_WR" -> "BUS_RDX"
              [] state = "S" /\ event = "PR_WR" -> "BUS_UPGR"
              [] OTHER -> "NULL"]

(***************************************************************************)
(* on_snoop_event: what another cache's transaction does to a line held    *)
(* here, and whether the line's data must go back with the answer.  A      *)
(* BUS_UPGR that finds a MODIFIED line leaves it MODIFIED.                  *)
(***************************************************************************)
OnSnoopEvent(state, event) ==
  [next  |-> CASE state = "S" /\ event # "BUS_RD" -> "I"
               [] state = "M" /\ event = "BUS_RD" -> "S"
               [] state = "M" /\ event = "BUS_RDX" -> "I"
               [] OTHER -> state,
   flush |-> state = "M" /\ event # "BUS_UPGR"]

================================================================================
