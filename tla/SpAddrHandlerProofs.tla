-------------------------- MODULE SpAddrHandlerProofs --------------------------
(***************************************************************************)
(* What SpAddrHandler promises of flushes and pins, for any lines and      *)
(* values.                                                                 *)
(***************************************************************************)
EXTENDS SpAddrHandler, TLAPS

(***************************************************************************)
(* Where a line is from the store to the flush register until its flush    *)
(* begins: on the processor's bus, or, once the store is acknowledged, in  *)
(* the register while the controller is in CPU_IDLE and the processor has  *)
(* its cycle without a transfer, so that nothing but that flush can begin. *)
(***************************************************************************)
OwedIsKept ==
  \A a \in owed :
    \/ is_flush /\ mem.addr = a
    \/ /\ mem = None /\ ctl.state = "IDLE"
       /\ flush_valid_r /\ flush_addr_r = a

\* The processor holds the access for as long as the controller is at it.
AccessIsHeld == ctl.state = "ACCESS" => pass_mem_valid

IInv == TypeOK /\ OwedIsKept /\ AccessIsHeld

\* The fields of a transfer.
LEMMA TransferFields ==
  ASSUME NEW t \in Transfer
  PROVE  /\ t # None
         /\ t.kind \in {"access", "flush", "whoami", "csr", "sb", "lb"}
         /\ t.kind \in {"access", "flush"} => t.addr \in Addr
         /\ t.kind = "csr" => t.pins \in CsrValue
         /\ t.kind = "sb" => t.pin \in StoredPin /\ t.bit \in {0, 1}
         /\ t.kind = "lb" => t.pin \in StoredPin
  BY NoneAssumption DEF Transfer

LEMMA InitEstablishes == Init => IInv
<1> SUFFICES ASSUME Init PROVE IInv
  OBVIOUS
<1>1. ctl \in [state : {"IDLE"}, addr : {None}]
  BY DEF Init
<1>2. TypeOK
  BY <1>1 DEF Init, TypeOK
<1> QED BY <1>2 DEF Init, IInv, OwedIsKept, AccessIsHeld

\* Registers of mmio.sv and the synchronizer.
LEMMA PinsKeepType ==
  ASSUME TypeOK, NEW done \in BOOLEAN, Tick(done)
  PROVE  /\ csr_reg' \subseteq Pin
         /\ data_reg' \subseteq Pin
         /\ gpio_pins_i' \in PinLevels
         /\ gpio_pins_meta' \in PinLevels \cup {{}}
         /\ gpio_pins_sync' \in PinLevels \cup {{}}
<1>1. csr_reg' \subseteq Pin
  <2>1. Doing({"csr"}) => mem.pins \subseteq Pin
    BY PinAssumption, TransferFields DEF Doing, TypeOK
  <2>2. csr_reg' \in {mem.pins, csr_reg} /\ (csr_reg' # csr_reg => Doing({"csr"}))
    BY DEF Tick, MmioWrite, mmioVars
  <2> QED BY <2>1, <2>2 DEF TypeOK
<1>2. data_reg' \subseteq Pin
  <2>1. WriteData => data_reg' \subseteq data_reg \cup csr_reg
    BY DEF WriteData
  <2> QED BY <2>1 DEF Tick, MmioWrite, mmioVars, TypeOK
<1> QED BY <1>1, <1>2 DEF Tick, SamplePins, TypeOK

LEMMA NextPreserves == IInv /\ [Next]_vars => IInv'
<1> SUFFICES ASSUME IInv, [Next]_vars PROVE IInv'
  OBVIOUS
<1> USE DEF IInv
<1>1. ASSUME NEW done \in BOOLEAN, Tick(done) PROVE IInv'
  <2> USE <1>1
  <2>1. mem \in Transfer \cup {None} /\ mem' \in Transfer \cup {None}
    BY DEF TypeOK, Tick, Processor
  <2>2. /\ mem # None => mem' \in {mem, None}
        /\ mem # None /\ mem' = None => mem_ready(done)
        /\ mem # None /\ mem_ready(done) => mem' = None
    BY DEF Tick, Processor
  <2>3. /\ ctl' \in [state : {"IDLE"}, addr : {None}]
                      \cup [state : {"ACCESS", "FLUSH"}, addr : Addr]
        /\ flush_valid_r' \in BOOLEAN
        /\ flush_addr_r' \in Addr \cup {None}
        /\ flush_valid_r' => flush_addr_r' \in Addr
    <3>1. is_flush \/ pass_mem_valid => mem.addr \in Addr
      BY <2>1, TransferFields
         DEF is_flush, pass_mem_valid, is_special_addr, is_whoami, is_mmio, Doing
    <3>2. ctl' \in [state : {"IDLE"}, addr : {None}]
                     \cup [state : {"ACCESS", "FLUSH"}, addr : Addr]
      <4>1. ctl' \in {[state |-> "IDLE", addr |-> None], ctl}
              \/ \E a \in Addr, state \in {"ACCESS", "FLUSH"} :
                   ctl' = [state |-> state, addr |-> a]
        BY <3>1 DEF TypeOK, Tick, Controller
      <4> QED BY <4>1 DEF TypeOK
    <3>3. /\ flush_valid_r' \in BOOLEAN
          /\ flush_addr_r' \in Addr \cup {None}
          /\ flush_valid_r' => flush_addr_r' \in Addr
      <4>1. \/ flush_valid_r' = TRUE /\ flush_addr_r' \in Addr
            \/ flush_valid_r' = FALSE /\ flush_addr_r' = flush_addr_r
            \/ flush_valid_r' = flush_valid_r /\ flush_addr_r' = flush_addr_r
        BY <3>1 DEF Tick, FlushRegister
      <4>2. /\ flush_valid_r \in BOOLEAN
            /\ flush_addr_r \in Addr \cup {None}
            /\ flush_valid_r => flush_addr_r \in Addr
        BY DEF TypeOK
      <4>3. CASE flush_valid_r' = TRUE /\ flush_addr_r' \in Addr
        BY <4>3
      <4>4. CASE flush_valid_r' = FALSE /\ flush_addr_r' = flush_addr_r
        BY <4>2, <4>4
      <4>5. CASE flush_valid_r' = flush_valid_r /\ flush_addr_r' = flush_addr_r
        BY <4>2, <4>5, Zenon
      <4> QED BY <4>1, <4>3, <4>4, <4>5
    <3> QED BY <3>2, <3>3
  <2>4. owed' \subseteq Addr
    BY <2>1, TransferFields DEF TypeOK, Tick, RecordOwed, FlushRaised
  <2>5. TypeOK'
    BY <2>1, <2>3, <2>4, PinsKeepType DEF TypeOK
  <2>6. AccessIsHeld'
    <3>1. ctl.state = "ACCESS" /\ ctl'.state = "ACCESS" => ~pass_mem_ready(done)
      BY DEF Tick, Controller, pass_mem_ready, TypeOK
    <3>2. ctl'.state = "ACCESS" => pass_mem_valid /\ ~pass_mem_ready(done)
      BY <3>1 DEF Tick, Controller, AccessIsHeld, TypeOK, pass_mem_ready
    <3>3. pass_mem_valid /\ ~pass_mem_ready(done) => mem' = mem
      BY <2>2 DEF mem_ready, pass_mem_valid, is_special_addr
    <3> QED BY <3>2, <3>3 DEF AccessIsHeld, pass_mem_valid, is_special_addr, is_whoami, is_flush,
                              is_mmio, Doing
  <2>7. OwedIsKept'
    <3> SUFFICES ASSUME NEW a \in owed'
                 PROVE  \/ is_flush' /\ mem'.addr = a
                        \/ /\ mem' = None /\ ctl'.state = "IDLE"
                           /\ flush_valid_r' /\ flush_addr_r' = a
      BY DEF OwedIsKept
    <3>1. CASE FlushRaised /\ a = mem'.addr
      BY <3>1 DEF FlushRaised, is_flush, Doing
    <3>2. CASE a \in owed /\ ~FlushBegins(a)
      <4>1. CASE mem = None /\ ctl.state = "IDLE" /\ flush_valid_r /\ flush_addr_r = a
        <5>1. FlushBegins(a)
          BY <4>1 DEF FlushBegins, Tick, Controller, pass_mem_valid
        <5> QED BY <3>2, <5>1
      <4>2. CASE is_flush /\ mem.addr = a
        <5>1. mem # None
          BY <4>2 DEF is_flush, Doing
        <5>2. CASE mem' = mem
          BY <4>2, <5>2 DEF is_flush, Doing
        <5>3. CASE mem' = None
          <6>1. flush_ready_i(done)
            BY <2>2, <4>2, <5>1, <5>3 DEF mem_ready, pass_mem_valid, is_special_addr, is_mmio,
                                          is_whoami, is_flush, Doing
          <6>2. ctl' = [state |-> "IDLE", addr |-> None]
            BY <6>1 DEF Tick, Controller, flush_ready_i
          <6>3. flush_valid_r' = TRUE /\ flush_addr_r' = a
            BY <4>2 DEF Tick, FlushRegister
          <6> QED BY <5>3, <6>2, <6>3
        <5> QED BY <2>2, <5>1, <5>2, <5>3
      <4> QED BY <3>2, <4>1, <4>2 DEF OwedIsKept
    <3> QED BY <3>1, <3>2 DEF Tick, RecordOwed
  <2> QED BY <2>5, <2>6, <2>7
<1>2. CASE UNCHANGED vars
  BY <1>2 DEF vars, mmioVars, pinVars, TypeOK, OwedIsKept, AccessIsHeld, pass_mem_valid,
              is_special_addr, is_whoami, is_flush, is_mmio, Doing
<1> QED BY <1>1, <1>2 DEF Next

\* The type invariant of the handler, the pins and the controller's state.
THEOREM TypeCorrect == Spec => []TypeOK
<1>1. IInv => TypeOK
  BY DEF IInv
<1> QED BY <1>1, InitEstablishes, NextPreserves, PTL DEF Spec

\* What follows a flush in the program sees memory after the flush, although
\* the store may be acknowledged by the end of another one.
THEOREM FlushesComeFirst == Spec => []FlushesPrecedeAccesses
<1>1. IInv => FlushesPrecedeAccesses
  BY DEF IInv, OwedIsKept, AccessIsHeld, FlushesPrecedeAccesses, pass_mem_valid, is_special_addr
<1> QED BY <1>1, InitEstablishes, NextPreserves, PTL DEF Spec

\* A pin's word on the bus and its lane there are together its address.
LEMMA LaneOfPin ==
  ASSUME NEW pin \in Pin
  PROVE  4 * (pin \div 4) + (pin % 4) = pin /\ pin % 4 \in Lane
  BY DEF Pin, Lane

EmulatedStep ==
  CASE Doing({"csr"}) -> Emulated!SetCSR(mem.pins)
    [] Doing({"sb"}) -> Emulated!SetData(mem.pin, mem.bit)
    [] OTHER -> UNCHANGED mmioVars

LEMMA StoresAreEmulated == TypeOK /\ [Next]_vars => [EmulatedStep]_vars
<1> SUFFICES ASSUME TypeOK, NEW done \in BOOLEAN, Tick(done) PROVE EmulatedStep
  BY DEF Next
<1>1. MmioWrite
  BY DEF Tick
<1>2. CASE Doing({"csr"})
  <2>1. ~Doing({"sb"})
    BY <1>2 DEF Doing
  <2>2. Emulated!SetCSR(mem.pins)
    BY <1>1, <1>2, <2>1 DEF MmioWrite, Doing, Emulated!SetCSR
  <2> QED BY <1>2, <2>1, <2>2 DEF EmulatedStep
<1>3. CASE Doing({"sb"})
  <2>1. /\ mem.kind = "sb" /\ mem.pin \in Pin /\ mem.bit \in {0, 1}
        /\ ~Doing({"csr"})
    BY <1>3, TransferFields, PinAssumption DEF Doing, TypeOK
  <2>2. csr_reg' = csr_reg /\ WriteData
    BY <1>1, <1>3, <2>1 DEF MmioWrite, Doing
  <2>3. {pin_index(mem_half, l) : l \in mem_wstrb} = {mem.pin}
    BY <2>1, LaneOfPin DEF pin_index, mem_half, mem_wstrb
  <2>4. {pin_index(mem_half, l) : l \in mem_wstrb \cap mem_wdata}
          = IF mem.bit = 1 THEN {mem.pin} ELSE {}
    BY <2>1, LaneOfPin DEF pin_index, mem_half, mem_wstrb, mem_wdata
  <2>5. data_reg' = (data_reg \ ({mem.pin} \cap csr_reg))
                      \cup ({mem.pin} \cap csr_reg \cap (IF mem.bit = 1 THEN {mem.pin} ELSE {}))
    BY <2>2, <2>3, <2>4 DEF WriteData
  <2>6. Emulated!SetData(mem.pin, mem.bit)
    BY <2>1, <2>2, <2>5 DEF Emulated!SetData
  <2> QED BY <1>3, <2>1, <2>6 DEF EmulatedStep
<1>4. CASE ~Doing({"csr"}) /\ ~Doing({"sb"})
  <2>1. ~Doing({"csr", "sb"})
    BY <1>4 DEF Doing
  <2> QED BY <1>1, <1>4, <2>1 DEF MmioWrite, EmulatedStep
<1> QED BY <1>2, <1>3, <1>4

\* The lanes of two words do what the emulator does with eight addresses.
THEOREM PinsAreEmulated == Spec => ImplementsEmulatedMmio
<1>1. Init => Emulated!Init
  BY DEF Init, Emulated!Init
<1>2. IInv => TypeOK
  BY DEF IInv
<1> QED
  BY <1>1, <1>2, InitEstablishes, NextPreserves, StoresAreEmulated, PTL
     DEF Spec, ImplementsEmulatedMmio, EmulatedStep

\* A load from a pin's address is answered out of its own lane of its own word:
\* what was stored if the pin is an output, its settled level if it is an input.
THEOREM PinsAreRead == Spec => []PinsReadBack
<1>1. TypeOK => PinsReadBack
  <2> SUFFICES ASSUME TypeOK, Doing({"lb"})
               PROVE  LET bit == rd_data_o(mem_half, mem.pin % 4)
                          level == mem.pin \in gpio_pins_i
                          settled == /\ mem.pin \in gpio_pins_meta <=> level
                                     /\ mem.pin \in gpio_pins_sync <=> level
                      IN IF mem.pin \in csr_reg THEN bit = Emulated!GetData(mem.pin)
                                                ELSE settled => (bit = 1 <=> level)
    BY DEF PinsReadBack
  <2>1. mem.pin \in Pin
    BY TransferFields, PinAssumption DEF Doing, TypeOK
  <2>2. pin_index(mem_half, mem.pin % 4) = mem.pin
    BY <2>1, LaneOfPin DEF pin_index, mem_half
  <2>3. rd_data_o(mem_half, mem.pin % 4) =
          IF mem.pin \in IF mem.pin \in csr_reg THEN data_reg ELSE gpio_pins_sync THEN 1 ELSE 0
    BY <2>2 DEF rd_data_o
  <2>4. CASE mem.pin \in csr_reg
    BY <2>3, <2>4 DEF Emulated!GetData
  <2>5. CASE mem.pin \notin csr_reg
    BY <2>3, <2>5
  <2> QED BY <2>4, <2>5
<1> QED BY <1>1, TypeCorrect, PTL

================================================================================
