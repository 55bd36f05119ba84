----------------------------- MODULE SpAddrHandler -----------------------------
(***************************************************************************)
(* sp_addr_handler.sv and mmio.sv: what stands between the processor and   *)
(* the cache controller.  Some addresses are not memory: the chip's        *)
(* number, the pins with their control register, and the flush register,   *)
(* a store to which asks the controller to write a line back and           *)
(* invalidate it.  Everything else is passed through.                      *)
(*                                                                         *)
(* Tick is one clock edge.  Around the handler are                         *)
(*   - PicoRV32: it holds a transfer until it sees ready, in which cycle   *)
(*     mem_valid is still high, and is low for at least a cycle after.     *)
(*     mem is the instruction's view of the transfer; on the wires an      *)
(*     address is aligned to words, a byte's lane is in the strobe, and    *)
(*     the byte is repeated in every lane;                                 *)
(*   - the controller, of which only CPU_IDLE matters, where an access has *)
(*     priority over a flush, and that it is busy for a while after        *)
(*     (CacheController has the rest).                                     *)
(***************************************************************************)
EXTENDS Naturals

CONSTANTS Addr,       \* the lines of memory in use
          CsrValue,   \* what is stored to the control register
          StoredPin,  \* the pins stored to and loaded from
          PinLevels,  \* what the world may drive on the pins: the set of high ones
          None

Pin == 0 .. 7
Lane == 0 .. 3
Half == 0 .. 1

ASSUME PinAssumption == /\ StoredPin \subseteq Pin
                        /\ CsrValue \subseteq SUBSET Pin
                        /\ PinLevels \subseteq SUBSET Pin

\* Transfers, as the instruction means them.
Transfer == [kind : {"access", "flush"}, addr : Addr]
              \cup [kind : {"whoami"}]
              \cup [kind : {"csr"}, pins : CsrValue]
              \cup [kind : {"sb"}, pin : StoredPin, bit : {0, 1}]
              \cup [kind : {"lb"}, pin : StoredPin]

ASSUME NoneAssumption == None \notin Addr \cup Transfer

VARIABLES mem,            \* mem_valid and the transfer, or None
          ctl,            \* the controller: IDLE, or busy with an ACCESS or a FLUSH
          flush_valid_r, flush_addr_r,
          csr_reg, data_reg,                \* mmio's registers: the pins whose bit is 1
          gpio_pins_i,                      \* the pins' levels
          gpio_pins_meta, gpio_pins_sync,   \* its synchronizer
          owed    \* history: the lines stored to the flush register of which
                  \*   no flush has begun since

mmioVars == <<csr_reg, data_reg>>
pinVars == <<gpio_pins_i, gpio_pins_meta, gpio_pins_sync>>
vars == <<mem, ctl, flush_valid_r, flush_addr_r, mmioVars, pinVars, owed>>

TypeOK ==
  /\ mem \in Transfer \cup {None}
  /\ ctl \in [state : {"IDLE"}, addr : {None}]
              \cup [state : {"ACCESS", "FLUSH"}, addr : Addr]
  /\ flush_valid_r \in BOOLEAN
  /\ flush_addr_r \in Addr \cup {None}
  /\ flush_valid_r => flush_addr_r \in Addr
  /\ csr_reg \subseteq Pin
  /\ data_reg \subseteq Pin
  /\ gpio_pins_i \in PinLevels
  /\ gpio_pins_meta \in PinLevels \cup {{}}
  /\ gpio_pins_sync \in PinLevels \cup {{}}
  /\ owed \subseteq Addr

Init == /\ mem = None
        /\ ctl = [state |-> "IDLE", addr |-> None]
        /\ flush_valid_r = FALSE
        /\ flush_addr_r = None
        /\ csr_reg = {}
        /\ data_reg = {}
        /\ gpio_pins_i \in PinLevels
        /\ gpio_pins_meta = {}
        /\ gpio_pins_sync = {}
        /\ owed = {}

--------------------------------------------------------------------------------
(* The wires: address decoding, and the transfer on the native bus. *)

Doing(kinds) == mem # None /\ mem.kind \in kinds

is_whoami == Doing({"whoami"})
is_flush == Doing({"flush"})
is_mmio == Doing({"csr", "sb", "lb"})
is_special_addr == is_whoami \/ is_flush \/ is_mmio

pass_mem_valid == mem # None /\ ~is_special_addr

\* mem_addr[2] and mem_wstrb of a transfer to a pin, and the lanes of
\* mem_wdata whose lowest bit is set.
mem_half == mem.pin \div 4
mem_wstrb == IF mem.kind = "sb" THEN {mem.pin % 4} ELSE {}
mem_wdata == IF mem.bit = 1 THEN Lane ELSE {}

\* Mutant of pin_index: the low bits of the address, which are always zero.
pin_index_AddressBits(half, lane) == 4 * half

pin_index(half, lane) == 4 * half + lane

--------------------------------------------------------------------------------
(* mmio.sv *)

\* Mutant of WriteData: the direction is not looked at.
WriteData_AnyPin ==
  LET written == {pin_index(mem_half, l) : l \in mem_wstrb}
      high == {pin_index(mem_half, l) : l \in mem_wstrb \cap mem_wdata}
  IN data_reg' = (data_reg \ written) \cup high

\* Only the lanes written, and of those only the pins that are outputs.
WriteData ==
  LET written == {pin_index(mem_half, l) : l \in mem_wstrb} \cap csr_reg
      high == {pin_index(mem_half, l) : l \in mem_wstrb \cap mem_wdata}
  IN data_reg' = (data_reg \ written) \cup (written \cap high)

MmioWrite ==
  \/ /\ Doing({"csr"})
     /\ csr_reg' = mem.pins
     /\ UNCHANGED data_reg
  \/ /\ Doing({"sb"})
     /\ WriteData
     /\ UNCHANGED csr_reg
  \/ /\ ~Doing({"csr", "sb"})
     /\ UNCHANGED mmioVars

\* Mutant of rd_data_o: every lane has the half's first pin.
rd_data_o_First(half, lane) ==
  LET pin == pin_index(half, 0)
  IN IF pin \in IF pin \in csr_reg THEN data_reg ELSE gpio_pins_sync THEN 1 ELSE 0

\* The lowest bit of a lane of the word read.
rd_data_o(half, lane) ==
  LET pin == pin_index(half, lane)
  IN IF pin \in IF pin \in csr_reg THEN data_reg ELSE gpio_pins_sync THEN 1 ELSE 0

SamplePins == /\ gpio_pins_i' \in PinLevels
              /\ gpio_pins_meta' = gpio_pins_i
              /\ gpio_pins_sync' = gpio_pins_meta

--------------------------------------------------------------------------------
(* sp_addr_handler.sv.  done: the controller finishes what it is doing. *)

pass_mem_ready(done) == ctl.state = "ACCESS" /\ done
flush_ready_i(done) == ctl.state = "FLUSH" /\ done

\* Mutant of mem_ready: a load of the chip's number is not answered.
mem_ready_NoWhoami(done) ==
  \/ pass_mem_valid /\ pass_mem_ready(done)
  \/ is_flush /\ flush_ready_i(done)
  \/ is_mmio

mem_ready(done) ==
  \/ pass_mem_valid /\ pass_mem_ready(done)
  \/ is_flush /\ flush_ready_i(done)
  \/ is_mmio \/ is_whoami

\* Mutant of FlushRegister: a new line is not taken while the flag is set.
FlushRegister_KeepsLine(done) ==
  \/ /\ is_flush
     /\ flush_valid_r' = TRUE
     /\ flush_addr_r' = IF flush_valid_r THEN flush_addr_r ELSE mem.addr
  \/ /\ ~is_flush /\ flush_ready_i(done)
     /\ flush_valid_r' = FALSE
     /\ UNCHANGED flush_addr_r
  \/ /\ ~is_flush /\ ~flush_ready_i(done)
     /\ UNCHANGED <<flush_valid_r, flush_addr_r>>

\* The store sets the register for as long as it waits, which includes the
\* cycle it is acknowledged in.
FlushRegister(done) ==
  \/ /\ is_flush
     /\ flush_valid_r' = TRUE
     /\ flush_addr_r' = mem.addr
  \/ /\ ~is_flush /\ flush_ready_i(done)
     /\ flush_valid_r' = FALSE
     /\ UNCHANGED flush_addr_r
  \/ /\ ~is_flush /\ ~flush_ready_i(done)
     /\ UNCHANGED <<flush_valid_r, flush_addr_r>>

--------------------------------------------------------------------------------
(* The controller and the processor. *)

\* CPU_IDLE, and the way back to it.
Controller(done) ==
  ctl' = CASE ctl.state = "IDLE" /\ pass_mem_valid -> [state |-> "ACCESS", addr |-> mem.addr]
           [] ctl.state = "IDLE" /\ ~pass_mem_valid /\ flush_valid_r ->
                [state |-> "FLUSH", addr |-> flush_addr_r]
           [] ctl.state # "IDLE" /\ done -> [state |-> "IDLE", addr |-> None]
           [] OTHER -> ctl

Processor(done) ==
  mem' \in CASE mem = None -> Transfer \cup {None}
             [] mem # None /\ mem_ready(done) -> {None}
             [] OTHER -> {mem}

FlushBegins(a) == ctl.state = "IDLE" /\ ctl' = [state |-> "FLUSH", addr |-> a]
FlushRaised == mem = None /\ mem' # None /\ mem'.kind = "flush"

RecordOwed == owed' = {a \in owed : ~FlushBegins(a)}
                        \cup (IF FlushRaised THEN {mem'.addr} ELSE {})

Tick(done) ==
  /\ Processor(done)
  /\ Controller(done)
  /\ FlushRegister(done)
  /\ MmioWrite
  /\ SamplePins
  /\ RecordOwed

Next == \E done \in BOOLEAN : Tick(done)

Spec == Init /\ [][Next]_vars

(***************************************************************************)
(* The clock runs, and the controller finishes what it has begun           *)
(* (ControllerSystem's TransfersComplete).                                 *)
(***************************************************************************)
Fairness == /\ WF_vars((mem # None \/ flush_valid_r) /\ Next)
            /\ WF_vars(ctl.state # "IDLE" /\ Tick(TRUE))

FairSpec == Spec /\ Fairness

--------------------------------------------------------------------------------
(* Properties. *)

(***************************************************************************)
(* A store to the flush register may be acknowledged by the end of another *)
(* flush, one the register asked for once more.  Even then its own line is *)
(* flushed before the controller takes the processor's next access: what   *)
(* follows a flush in the program sees memory after it.                    *)
(***************************************************************************)
FlushesPrecedeAccesses == ctl.state = "ACCESS" => owed = {}

\* Every line stored to the flush register is flushed (and once more if it is
\* stored again just when its flush begins, for ever if this goes on).
FlushesHappen == \A a \in Addr : \/ []<>(a \notin owed)
                                 \/ []<><<FlushBegins(a)>>_vars

\* No transfer waits for ever, and the register does not ask for ever.
BusTransfersComplete == /\ mem # None ~> mem = None
                        /\ flush_valid_r ~> ~flush_valid_r \/ Doing({"flush"})

Emulated == INSTANCE EmulatedMmio WITH MMIO_data_r <- data_reg, MMIO_CSR_r <- csr_reg

(***************************************************************************)
(* The pins have an address each in sp_addr_handler.py, as they have for   *)
(* the program; on the bus they are lanes of two words.  A store does to   *)
(* the registers what the emulated one does, whichever way it came.        *)
(***************************************************************************)
ImplementsEmulatedMmio ==
  /\ Emulated!Init
  /\ [][CASE Doing({"csr"}) -> Emulated!SetCSR(mem.pins)
          [] Doing({"sb"}) -> Emulated!SetData(mem.pin, mem.bit)
          [] OTHER -> UNCHANGED mmioVars]_vars

\* A load from a pin's address gives what was stored if the pin is an output,
\* and its level, if it has not just changed, if it is an input.
PinsReadBack ==
  Doing({"lb"}) =>
    LET bit == rd_data_o(mem_half, mem.pin % 4)
        level == mem.pin \in gpio_pins_i
        settled == /\ mem.pin \in gpio_pins_meta <=> level
                   /\ mem.pin \in gpio_pins_sync <=> level
    IN IF mem.pin \in csr_reg THEN bit = Emulated!GetData(mem.pin)
                              ELSE settled => (bit = 1 <=> level)

================================================================================
