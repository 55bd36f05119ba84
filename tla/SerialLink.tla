------------------------------ MODULE SerialLink -------------------------------
(***************************************************************************)
(* One direction of the link between a chip and the directory:             *)
(* tserializer.sv at one end, rserializer.sv at the other, and between     *)
(* them a request wire that is high while a packet is on its way, and nine *)
(* data pins.  One Tick of both is one clock edge; the clock is forwarded  *)
(* with the data.                                                          *)
(*                                                                         *)
(* A packet is sent in words of nine bits, the lowest last, and is as long *)
(* as its type says.  What a word holds does not matter here: it is <<p,   *)
(* k>>, the k-th word of packet p.  Each receiver has as many words as the *)
(* longest packet that it is sent: depth.                                  *)
(***************************************************************************)
EXTENDS Naturals

CONSTANTS Packet,     \* what is sent, a record with the field type
          NoPacket    \* valid_i is low

VARIABLES tx,  \* tserializer: current_state, curr_msg_len, count, shift_arr
          rx   \* rserializer: current_state, shift_arr, valid_o

\* type0_depth, ...: 4, 12, 36 and 68 bits on nine pins.
Depth == [CMDONLY |-> 1, SHORT |-> 2, MEDIUM |-> 4, LARGE |-> 8]
MaxDepth == 8
Place == 0 .. MaxDepth - 1

Length(p) == Depth[p.type]

NoWord == <<NoPacket, 0>>
Word == (Packet \X Place) \cup {NoWord}
Blank(depth) == [k \in 0 .. depth - 1 |-> NoWord]

LinkTypeOK(depth) ==
  /\ tx \in [state : {"IDLE", "SEND"}, curr_msg_len : 1 .. MaxDepth,
             count : Place, shift_arr : [Place -> Word]]
  /\ rx \in [state : {"IDLE", "RECEIVE"}, shift_arr : [0 .. depth - 1 -> Word],
             valid_o : BOOLEAN]

LinkInit(depth) ==
  /\ tx = [state |-> "IDLE", curr_msg_len |-> 1, count |-> 0,
           shift_arr |-> Blank(MaxDepth)]
  /\ rx = [state |-> "IDLE", shift_arr |-> Blank(depth), valid_o |-> FALSE]

ready_o == tx.state # "SEND"
req_o == tx.state = "SEND"

\* Mutant of serial_o: the length register is one less already.
serial_o_OneLower == tx.shift_arr[IF tx.curr_msg_len = 1 THEN 0 ELSE tx.curr_msg_len - 2]

serial_o == tx.shift_arr[tx.curr_msg_len - 1]

ShiftUp(words, first) == [k \in DOMAIN words |-> IF k = 0 THEN first ELSE words[k - 1]]

\* What IDLE loads in every cycle; without a packet it is not sent.
Loaded(p, state) ==
  [state |-> state,
   curr_msg_len |-> IF p = NoPacket THEN 1 ELSE Length(p),
   count |-> 0,
   shift_arr |-> IF p = NoPacket THEN Blank(MaxDepth) ELSE [k \in Place |-> <<p, k>>]]

Sent == [tx EXCEPT !.count = (tx.count + 1) % MaxDepth,
                   !.shift_arr = ShiftUp(@, @[0])]

cnt_done == tx.count + 1 = tx.curr_msg_len

\* Mutant of Transmit: no cycle between two packets.
Transmit_BackToBack(p) ==
  tx' = CASE ready_o \/ cnt_done -> Loaded(p, IF p = NoPacket THEN "IDLE" ELSE "SEND")
          [] OTHER -> Sent

\* p is on the data port, or NoPacket.
Transmit(p) ==
  tx' = CASE ready_o -> Loaded(p, IF p = NoPacket THEN "IDLE" ELSE "SEND")
          [] req_o /\ cnt_done -> [Sent EXCEPT !.state = "IDLE"]
          [] OTHER -> Sent

\* valid_o is high for one cycle: ready_i is tied to one.
Receive ==
  rx' = [state |-> IF req_o THEN "RECEIVE" ELSE "IDLE",
         shift_arr |-> IF req_o THEN ShiftUp(rx.shift_arr, serial_o) ELSE rx.shift_arr,
         valid_o |-> rx.state = "RECEIVE" /\ ~req_o]

LinkTick(p) == Transmit(p) /\ Receive

\* The words received hold packet p up to its length, or to where words ends.
Holds(words, p) == \A k \in DOMAIN words : k < Length(p) => words[k] = <<p, k>>

================================================================================
