----------------------------- MODULE EmulatedMmio ------------------------------
(***************************************************************************)
(* cocotb/emulation/sp_addr_handler.py, class MMIO: eight pins, each with  *)
(* an address of its own, of which the processor may drive those that the  *)
(* control register makes outputs.  A register is the set of pins whose    *)
(* bit is 1.  set_pin, the side of the devices, has no caller and replaces *)
(* the list of data bits by a number; it is left out.                      *)
(***************************************************************************)
CONSTANT Pin

VARIABLES MMIO_data_r, MMIO_CSR_r

vars == <<MMIO_data_r, MMIO_CSR_r>>

Init == MMIO_data_r = {} /\ MMIO_CSR_r = {}

\* _set_CSR and _set_data: wstrb's first bit is set in every store to a byte.
SetCSR(pins) == /\ MMIO_CSR_r' = pins
                /\ UNCHANGED MMIO_data_r

SetData(id, bit) ==
  /\ MMIO_data_r' = CASE id \notin MMIO_CSR_r -> MMIO_data_r
                      [] id \in MMIO_CSR_r /\ bit = 1 -> MMIO_data_r \cup {id}
                      [] OTHER -> MMIO_data_r \ {id}
  /\ UNCHANGED MMIO_CSR_r

\* _get_data
GetData(id) == IF id \in MMIO_data_r THEN 1 ELSE 0

================================================================================
