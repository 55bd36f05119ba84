-------------------------- MODULE CacheInterfaceProofs -------------------------
(***************************************************************************)
(* The arbiter and the link of CacheInterface, for any requests.           *)
(***************************************************************************)
EXTENDS CacheInterface, TLAPS, SequenceTheorems

--------------------------------------------------------------------------------
(* The arbiter alone, for any set of requests. *)

\* The next-state relation changes the granted request and the masters only
\* together, so that the two properties below are inductive as they stand.
IInv == TypeOK /\ GrantedRequestIsOnThePort

LEMMA InitEstablishes == Init => IInv
BY NoRequestAssumption DEF Init, IInv, TypeOK, GrantedRequestIsOnThePort, GrantState, Master, Asks

LEMMA NextPreserves == IInv /\ [Next]_vars => IInv'
<1> SUFFICES ASSUME IInv, [Next]_vars PROVE IInv'
  OBVIOUS
<1> USE NoRequestAssumption DEF IInv, TypeOK, GrantedRequestIsOnThePort, GrantState, Master, Asks
<1>1. ASSUME NEW i \in Master, Grant(i) PROVE IInv'
  BY <1>1 DEF Grant, Chosen
<1>2. ASSUME NEW i \in Master, Handshake(i) PROVE IInv'
  BY <1>2 DEF Handshake
<1>3. ASSUME NEW i \in Master, Raise(i) PROVE IInv'
  BY <1>3 DEF Raise
<1>4. CASE UNCHANGED vars
  BY <1>4 DEF vars
<1> QED
  BY <1>1, <1>2, <1>3, <1>4 DEF Next

\* The type invariant of the arbiter.
THEOREM TypeCorrect == Spec => []TypeOK
<1>1. IInv => TypeOK
  BY DEF IInv
<1> QED
  BY <1>1, InitEstablishes, NextPreserves, PTL DEF Spec

\* Line 201: a granted request stays on the port, unchanged and its master's
\* own, until that master sees ready.
THEOREM RequestsAreHeld == Spec => []GrantedRequestIsOnThePort
<1>1. IInv => GrantedRequestIsOnThePort
  BY DEF IInv
<1> QED
  BY <1>1, InitEstablishes, NextPreserves, PTL DEF Spec

--------------------------------------------------------------------------------
(* Where a packet is, from the serializer's IDLE to the valid bit. *)

\* The serializer has sent the upper n words of packet p.
Carries(p, n) ==
  /\ tx.state = "SEND"
  /\ tx.curr_msg_len = Length(p)
  /\ tx.count = n
  /\ n < Length(p)
  /\ \A k \in Place : n <= k => tx.shift_arr[k] = <<p, k - n>>

\* The receiver has n words of packet p below what it had before.
Received(p, n) ==
  \A k \in 0 .. rdepth - 1 : k < n => rx.shift_arr[k] = <<p, (Length(p) - n) + k>>

\* Nothing is on its way.
Quiet == /\ tx.state = "IDLE" /\ rx.state = "IDLE" /\ ~rx.valid_o
         /\ underway = <<>>

\* The first word is on the pins; the packet before may just be valid.
Starting(p) ==
  /\ Carries(p, 0)
  /\ rx.state = "IDLE"
  /\ \/ ~rx.valid_o /\ underway = <<p>>
     \/ /\ rx.valid_o
        /\ \E q \in Packet : underway = <<q, p>> /\ Received(q, Length(q))

Sending(p) ==
  /\ \E n \in 1 .. MaxDepth : Carries(p, n) /\ Received(p, n)
  /\ rx.state = "RECEIVE" /\ ~rx.valid_o
  /\ underway = <<p>>

\* All words are there; the request wire has been low for no cycle, or for one.
Arrived(p) ==
  /\ tx.state = "IDLE"
  /\ \/ rx.state = "RECEIVE" /\ ~rx.valid_o
     \/ rx.state = "IDLE" /\ rx.valid_o
  /\ Received(p, Length(p))
  /\ underway = <<p>>

LinkInv == Quiet \/ \E p \in Packet : Starting(p) \/ Sending(p) \/ Arrived(p)

--------------------------------------------------------------------------------
(* Types. *)

LEMMA LengthType ==
  ASSUME NEW p \in Packet
  PROVE  Length(p) \in 1 .. MaxDepth
  BY DEF Packet, Length, Depth, MaxDepth

LEMMA DepthType == rdepth \in {4, MaxDepth}
  BY DEF rdepth, Depth, MaxDepth

\* What the port offers.
LEMMA PortPacket ==
  ASSUME TypeOK
  PROVE  IF cache = NoRequest THEN packet = NoRequest
                              ELSE packet \in Packet /\ packet # NoRequest
<1>1. /\ out_type(cache.cmd) \in {"CMDONLY", "SHORT", "MEDIUM", "LARGE"}
      /\ in_type(cache.cmd) \in {"CMDONLY", "SHORT", "MEDIUM", "LARGE"}
  BY DEF out_type, in_type
<1>2. ASSUME cache # NoRequest PROVE build_packet(cache) \in Packet
  <2>1. cache \in Request
    BY <1>2 DEF TypeOK
  <2>2. cache.cmd \in {c.cmd : c \in Request} /\ cache.payload \in {c.payload : c \in Request}
    BY <2>1
  <2> QED BY <1>1, <2>2 DEF build_packet, Packet
<1> QED BY <1>2, RequestAssumption DEF packet

--------------------------------------------------------------------------------
(* What the two ends do in a cycle. *)

TxType == tx \in [state : {"IDLE", "SEND"}, curr_msg_len : 1 .. MaxDepth,
                  count : Place, shift_arr : [Place -> Word]]

LEMMA LoadStep ==
  ASSUME NEW p \in Packet \cup {NoRequest}, tx.state = "IDLE", Transmit(p)
  PROVE  /\ TxType'
         /\ IF p = NoRequest THEN tx'.state = "IDLE" ELSE Carries(p, 0)'
<1>1. tx' = Loaded(p, IF p = NoRequest THEN "IDLE" ELSE "SEND")
  BY DEF Transmit, ready_o, req_o
<1>2. CASE p = NoRequest
  <2>1. tx' = [state |-> "IDLE", curr_msg_len |-> 1, count |-> 0,
               shift_arr |-> Blank(MaxDepth)]
    BY <1>1, <1>2 DEF Loaded
  <2>2. Blank(MaxDepth) \in [Place -> Word]
    BY DEF Blank, Place, Word
  <2>3. 1 \in 1 .. MaxDepth /\ 0 \in Place
    BY DEF Place, MaxDepth
  <2> QED BY <1>2, <2>1, <2>2, <2>3 DEF TxType
<1>3. CASE p # NoRequest
  <2> DEFINE words == [k \in Place |-> <<p, k>>]
  <2>1. tx' = [state |-> "SEND", curr_msg_len |-> Length(p), count |-> 0, shift_arr |-> words]
    BY <1>1, <1>3 DEF Loaded
  <2>2. words \in [Place -> Word]
    BY <1>3 DEF Word
  <2>3. Length(p) \in 1 .. MaxDepth /\ 0 \in Place
    BY <1>3, LengthType DEF Place, MaxDepth
  <2>4. \A k \in Place : words[k] = <<p, k - 0>>
    BY DEF Place
  <2>5. TxType'
    <3> HIDE DEF words
    <3> QED BY <2>1, <2>2, <2>3 DEF TxType
  <2>6. Carries(p, 0)'
    <3> HIDE DEF words
    <3> QED BY <2>1, <2>3, <2>4 DEF Carries
  <2> QED BY <1>3, <2>5, <2>6
<1> QED BY <1>2, <1>3

LEMMA ShiftStep ==
  ASSUME TxType, NEW p \in Packet, NEW n \in Nat, Carries(p, n), NEW port, Transmit(port)
  PROVE  /\ TxType'
         /\ serial_o = <<p, (Length(p) - n) - 1>>
         /\ IF n + 1 = Length(p) THEN tx'.state = "IDLE" ELSE Carries(p, n + 1)'
<1>1. Length(p) \in 1 .. MaxDepth /\ n < Length(p) /\ tx.count = n /\ tx.curr_msg_len = Length(p)
  BY LengthType DEF Carries
<1>2. tx' = IF n + 1 = Length(p) THEN [Sent EXCEPT !.state = "IDLE"] ELSE Sent
  BY <1>1 DEF Transmit, ready_o, req_o, cnt_done, Carries
<1>3. serial_o = <<p, (Length(p) - n) - 1>>
  BY <1>1 DEF serial_o, Carries, Place, MaxDepth
<1> DEFINE words == ShiftUp(tx.shift_arr, tx.shift_arr[0])
<1>4. words \in [Place -> Word]
  BY DEF ShiftUp, TxType, Place, MaxDepth
<1>5. \A k \in Place : n + 1 <= k => words[k] = <<p, k - (n + 1)>>
  <2> SUFFICES ASSUME NEW k \in Place, n + 1 <= k PROVE words[k] = <<p, k - (n + 1)>>
    OBVIOUS
  <2>1. k - 1 \in Place /\ n <= k - 1 /\ k # 0 /\ k \in Nat
    BY DEF Place, MaxDepth
  <2>2. words[k] = tx.shift_arr[k - 1]
    BY <2>1 DEF ShiftUp, TxType
  <2>3. tx.shift_arr[k - 1] = <<p, (k - 1) - n>>
    BY <2>1 DEF Carries
  <2>4. (k - 1) - n = k - (n + 1)
    BY <2>1
  <2> QED BY <2>2, <2>3, <2>4
<1>6. (n + 1) % MaxDepth \in Place /\ (n + 1 # Length(p) => (n + 1) % MaxDepth = n + 1)
  BY <1>1 DEF Place, MaxDepth
<1>7. Sent = [tx EXCEPT !.count = (n + 1) % MaxDepth, !.shift_arr = words]
  BY <1>1 DEF Sent
<1> HIDE DEF words
<1>8. Sent \in [state : {"IDLE", "SEND"}, curr_msg_len : 1 .. MaxDepth,
                count : Place, shift_arr : [Place -> Word]]
  BY <1>4, <1>6, <1>7 DEF TxType
<1>9. TxType'
  BY <1>2, <1>8 DEF TxType
<1>10. n + 1 = Length(p) => tx'.state = "IDLE"
  BY <1>2, <1>8
<1>11. n + 1 # Length(p) => Carries(p, n + 1)'
  <2> SUFFICES ASSUME n + 1 # Length(p) PROVE Carries(p, n + 1)'
    OBVIOUS
  <2>1. /\ tx'.state = "SEND" /\ tx'.curr_msg_len = Length(p)
        /\ tx'.count = n + 1 /\ tx'.shift_arr = words
    BY <1>1, <1>2, <1>6, <1>7 DEF TxType, Carries
  <2>2. n + 1 < Length(p)
    BY <1>1
  <2> QED BY <1>5, <2>1, <2>2 DEF Carries
<1> QED BY <1>3, <1>9, <1>10, <1>11

RxType == rx \in [state : {"IDLE", "RECEIVE"}, shift_arr : [0 .. rdepth - 1 -> Word],
                  valid_o : BOOLEAN]

LEMMA ReceiveIdle ==
  ASSUME RxType, tx.state = "IDLE", Receive, UNCHANGED side
  PROVE  /\ RxType'
         /\ rx'.state = "IDLE" /\ rx'.shift_arr = rx.shift_arr
         /\ rx'.valid_o = IF rx.state = "RECEIVE" THEN TRUE ELSE FALSE
<1>1. rx' = [state |-> "IDLE", shift_arr |-> rx.shift_arr,
             valid_o |-> rx.state = "RECEIVE" /\ ~FALSE]
  BY DEF Receive, req_o
<1>2. rdepth' = rdepth
  BY DEF rdepth
<1> DEFINE v == rx.state = "RECEIVE" /\ ~FALSE
<1>3. v \in BOOLEAN /\ v = IF rx.state = "RECEIVE" THEN TRUE ELSE FALSE
  OBVIOUS
<1> HIDE DEF v
<1> QED BY <1>1, <1>2, <1>3 DEF RxType

LEMMA ReceiveWord ==
  ASSUME RxType, NEW p \in Packet, NEW n \in Nat, n < Length(p),
         tx.state = "SEND", serial_o = <<p, (Length(p) - n) - 1>>, Receive, UNCHANGED side,
         n = 0 \/ Received(p, n)
  PROVE  /\ RxType'
         /\ rx'.state = "RECEIVE" /\ rx'.valid_o = FALSE
         /\ Received(p, n + 1)'
<1> DEFINE words == ShiftUp(rx.shift_arr, serial_o)
<1>1. rx' = [state |-> "RECEIVE", shift_arr |-> words, valid_o |-> FALSE]
  BY DEF Receive, req_o
<1>2. rdepth' = rdepth /\ rdepth \in {4, MaxDepth}
  BY DepthType DEF rdepth
<1>3. Length(p) \in 1 .. MaxDepth
  BY LengthType
<1>4. serial_o \in Word
  BY <1>3 DEF Word, Place, MaxDepth
<1>5. words \in [0 .. rdepth - 1 -> Word]
  BY <1>2, <1>4 DEF ShiftUp, RxType, MaxDepth
<1>6. \A k \in 0 .. rdepth - 1 : k < n + 1 => words[k] = <<p, (Length(p) - (n + 1)) + k>>
  <2> SUFFICES ASSUME NEW k \in 0 .. rdepth - 1, k < n + 1
               PROVE  words[k] = <<p, (Length(p) - (n + 1)) + k>>
    OBVIOUS
  <2>1. CASE k = 0
    <3>1. words[k] = serial_o
      BY <2>1, <1>2 DEF ShiftUp, RxType
    <3>2. (Length(p) - n) - 1 = (Length(p) - (n + 1)) + k
      BY <2>1, <1>3
    <3> QED BY <3>1, <3>2
  <2>2. CASE k # 0
    <3>1. k - 1 \in 0 .. rdepth - 1 /\ k - 1 < n /\ k \in Nat
      BY <2>2, <1>2 DEF MaxDepth
    <3>2. words[k] = rx.shift_arr[k - 1]
      BY <2>2 DEF ShiftUp, RxType
    <3>3. rx.shift_arr[k - 1] = <<p, (Length(p) - n) + (k - 1)>>
      BY <3>1 DEF Received
    <3>4. (Length(p) - n) + (k - 1) = (Length(p) - (n + 1)) + k
      BY <3>1, <1>3
    <3> QED BY <3>2, <3>3, <3>4
  <2> QED BY <2>1, <2>2
<1> HIDE DEF words
<1> QED BY <1>1, <1>2, <1>5, <1>6 DEF RxType, Received

--------------------------------------------------------------------------------
(* One packet after the other. *)

\* A packet that is all there stays there while nothing is received.
LEMMA ReceivedStays ==
  ASSUME NEW p \in Packet, NEW n, Received(p, n), rx'.shift_arr = rx.shift_arr, UNCHANGED side
  PROVE  Received(p, n)'
  BY DEF Received, rdepth

\* What the serializer does with the port in its IDLE state, and the history.
LEMMA TakeStep ==
  ASSUME TypeOK, LinkTypeOK(rdepth), tx.state = "IDLE", Transmit(packet), RecordUnderway,
         NEW left, left = (IF rx.valid_o THEN Tail(underway) ELSE underway)
  PROVE  /\ TxType'
         /\ \/ tx'.state = "IDLE" /\ underway' = left
            \/ \E p \in Packet : Carries(p, 0)' /\ underway' = Append(left, p)
<1>1. ready_o
  BY DEF ready_o
<1>2. CASE packet = NoRequest
  BY <1>1, <1>2, LoadStep DEF RecordUnderway
<1>3. CASE packet # NoRequest
  <2>1. PICK p \in Packet : p = packet
    BY <1>3, PortPacket
  <2>2. p # NoRequest /\ Transmit(p)
    BY <1>3, <2>1
  <2>3. TxType' /\ Carries(p, 0)'
    BY <2>2, LoadStep
  <2>4. underway' = Append(left, p)
    BY <1>1, <1>3, <2>1 DEF RecordUnderway
  <2> QED BY <2>3, <2>4
<1> QED BY <1>2, <1>3

LEMMA ShortSequences ==
  ASSUME NEW p, NEW q
  PROVE  /\ Append(<<>>, p) = <<p>> /\ Append(<<q>>, p) = <<q, p>>
         /\ Tail(<<p>>) = <<>> /\ Tail(<<q, p>>) = <<p>>
<1>1. /\ Append(<<>>, p) = <<p>>
      /\ Tail(<<p>>) = <<>> /\ Tail(<<q, p>>) = <<p>>
  OBVIOUS
<1>2. Append(<<q>>, p) = <<q, p>>
  <2> DEFINE S == {p, q}
  <2>1. <<q>> \in Seq(S) /\ p \in S /\ Len(<<q>>) = 1
    OBVIOUS
  <2>2. /\ Append(<<q>>, p) \in Seq(S) /\ Len(Append(<<q>>, p)) = 2
        /\ Append(<<q>>, p)[1] = q /\ Append(<<q>>, p)[2] = p
    BY <2>1, AppendProperties
  <2>3. /\ <<q, p>> \in Seq(S) /\ Len(<<q, p>>) = 2
        /\ <<q, p>>[1] = q /\ <<q, p>>[2] = p
    OBVIOUS
  <2> HIDE DEF S
  <2>4. \A i \in 1 .. Len(Append(<<q>>, p)) : Append(<<q>>, p)[i] = <<q, p>>[i]
    <3> SUFFICES ASSUME NEW i \in 1 .. 2 PROVE Append(<<q>>, p)[i] = <<q, p>>[i]
      BY <2>2
    <3>1. i = 1 \/ i = 2
      OBVIOUS
    <3> QED BY <2>2, <2>3, <3>1
  <2> QED BY <2>2, <2>3, <2>4, SeqEqual
<1> QED BY <1>1, <1>2

\* A packet taken while the last one arrives, or when nothing is on its way.
LEMMA StartStep ==
  ASSUME NEW p \in Packet, Carries(p, 0)', rx'.state = "IDLE",
         \/ rx'.valid_o = FALSE /\ underway' = <<p>>
         \/ /\ rx'.valid_o = TRUE
            /\ \E q \in Packet : underway' = <<q, p>> /\ Received(q, Length(q))'
  PROVE  LinkInv'
<1>1. Starting(p)'
  <2>1. CASE rx'.valid_o = FALSE /\ underway' = <<p>>
    BY <2>1 DEF Starting
  <2>2. ASSUME NEW q \in Packet, rx'.valid_o = TRUE, underway' = <<q, p>>,
               Received(q, Length(q))'
        PROVE  Starting(p)'
    BY <2>2 DEF Starting
  <2> QED BY <2>1, <2>2
<1> QED BY <1>1 DEF LinkInv

LEMMA LinkStep ==
  ASSUME TypeOK, LinkTypeOK(rdepth), LinkInv,
         Transmit(packet), Receive, RecordUnderway, UNCHANGED side
  PROVE  LinkInv' /\ TxType' /\ RxType'
<1>1. TxType /\ RxType
  BY DEF LinkTypeOK, TxType, RxType
<1>2. CASE Quiet
  <2>1. rx'.state = "IDLE" /\ rx'.valid_o = FALSE /\ RxType'
    BY <1>1, <1>2, ReceiveIdle DEF Quiet
  <2>2. TxType' /\ \/ tx'.state = "IDLE" /\ underway' = <<>>
                   \/ \E p \in Packet : Carries(p, 0)' /\ underway' = Append(<<>>, p)
    BY <1>2, TakeStep DEF Quiet
  <2>3. CASE tx'.state = "IDLE" /\ underway' = <<>>
    BY <2>1, <2>2, <2>3 DEF LinkInv, Quiet
  <2>4. ASSUME NEW p \in Packet, Carries(p, 0)', underway' = Append(<<>>, p)
        PROVE  LinkInv'
    BY <2>1, <2>4, ShortSequences, StartStep
  <2> QED BY <2>1, <2>2, <2>3, <2>4
<1>3. ASSUME NEW p \in Packet, NEW n \in Nat, Carries(p, n), n = 0 \/ Received(p, n),
             (IF rx.valid_o THEN Tail(underway) ELSE underway) = <<p>>
      PROVE  LinkInv' /\ TxType' /\ RxType'
  <2>1. tx.state = "SEND" /\ n < Length(p) /\ Length(p) \in 1 .. MaxDepth
    BY <1>3, LengthType DEF Carries
  <2>2. /\ TxType'
        /\ serial_o = <<p, (Length(p) - n) - 1>>
        /\ IF n + 1 = Length(p) THEN tx'.state = "IDLE" ELSE Carries(p, n + 1)'
    BY <1>1, <1>3, ShiftStep
  <2>3. /\ RxType' /\ rx'.state = "RECEIVE" /\ rx'.valid_o = FALSE
        /\ Received(p, n + 1)'
    BY <1>1, <1>3, <2>1, <2>2, ReceiveWord
  <2>4. underway' = <<p>>
    BY <1>3, <2>1 DEF RecordUnderway, ready_o
  <2>5. CASE n + 1 = Length(p)
    <3>1. Received(p, Length(p))'
      BY <2>3, <2>5 DEF Length
    <3> QED BY <2>2, <2>3, <2>4, <2>5, <3>1 DEF LinkInv, Arrived
  <2>6. CASE n + 1 # Length(p)
    <3>1. n + 1 \in 1 .. MaxDepth
      BY <2>1 DEF MaxDepth
    <3> QED BY <2>2, <2>3, <2>4, <2>6, <3>1 DEF LinkInv, Sending
  <2> QED BY <2>2, <2>3, <2>5, <2>6
<1>4. ASSUME NEW p \in Packet, Starting(p)
      PROVE  LinkInv' /\ TxType' /\ RxType'
  <2>1. (IF rx.valid_o THEN Tail(underway) ELSE underway) = <<p>>
    BY <1>4, ShortSequences DEF Starting
  <2> QED BY <1>3, <1>4, <2>1 DEF Starting
<1>5. ASSUME NEW p \in Packet, Sending(p)
      PROVE  LinkInv' /\ TxType' /\ RxType'
  <2>1. PICK n \in 1 .. MaxDepth : Carries(p, n) /\ Received(p, n)
    BY <1>5 DEF Sending
  <2> QED BY <1>3, <1>5, <2>1 DEF Sending, MaxDepth
<1>6. ASSUME NEW p \in Packet, Arrived(p)
      PROVE  LinkInv' /\ TxType' /\ RxType'
  <2>1. /\ rx'.state = "IDLE" /\ rx'.shift_arr = rx.shift_arr /\ RxType'
        /\ rx'.valid_o = IF rx.state = "RECEIVE" THEN TRUE ELSE FALSE
    BY <1>1, <1>6, ReceiveIdle DEF Arrived
  <2>2. Received(p, Length(p))'
    BY <1>6, <2>1, ReceivedStays DEF Arrived, Length
  <2>3. CASE rx.state = "RECEIVE" /\ ~rx.valid_o
    <3>1. <<p>> = IF rx.valid_o THEN Tail(underway) ELSE underway
      BY <1>6, <2>3 DEF Arrived
    <3>2. rx'.valid_o = TRUE
      BY <2>1, <2>3
    <3>3. TxType' /\ \/ tx'.state = "IDLE" /\ underway' = <<p>>
                     \/ \E q \in Packet : Carries(q, 0)' /\ underway' = Append(<<p>>, q)
      BY <1>6, <3>1, TakeStep DEF Arrived
    <3>4. ASSUME tx'.state = "IDLE", underway' = <<p>> PROVE LinkInv'
      <4>1. Arrived(p)'
        BY <2>1, <2>2, <3>2, <3>4 DEF Arrived
      <4> QED BY <4>1 DEF LinkInv
    <3>5. ASSUME NEW q \in Packet, Carries(q, 0)', underway' = Append(<<p>>, q)
          PROVE  LinkInv'
      <4>1. underway' = <<p, q>>
        BY <3>5, ShortSequences
      <4> QED BY <2>1, <2>2, <3>2, <3>5, <4>1, StartStep
    <3>6. LinkInv'
      BY <3>3, <3>4, <3>5
    <3> QED BY <2>1, <3>3, <3>6
  <2>4. CASE rx.state = "IDLE" /\ rx.valid_o
    <3>1. <<>> = IF rx.valid_o THEN Tail(underway) ELSE underway
      BY <1>6, <2>4, ShortSequences DEF Arrived
    <3>2. rx'.valid_o = FALSE
      BY <2>1, <2>4
    <3>3. TxType' /\ \/ tx'.state = "IDLE" /\ underway' = <<>>
                     \/ \E q \in Packet : Carries(q, 0)' /\ underway' = Append(<<>>, q)
      BY <1>6, <3>1, TakeStep DEF Arrived
    <3>4. ASSUME tx'.state = "IDLE", underway' = <<>> PROVE LinkInv'
      BY <2>1, <3>2, <3>4 DEF LinkInv, Quiet
    <3>5. ASSUME NEW q \in Packet, Carries(q, 0)', underway' = Append(<<>>, q)
          PROVE  LinkInv'
      <4>1. underway' = <<q>>
        BY <3>5, ShortSequences
      <4> QED BY <2>1, <3>2, <3>5, <4>1, StartStep
    <3>6. LinkInv'
      BY <3>3, <3>4, <3>5
    <3> QED BY <2>1, <3>3, <3>6
  <2> QED BY <1>6, <2>3, <2>4 DEF Arrived
<1> QED BY <1>2, <1>4, <1>5, <1>6 DEF LinkInv

--------------------------------------------------------------------------------
(* The receiver's registers and the histories. *)

RegistersOK ==
  /\ {bus_pipe, snoop_pipe} \subseteq [0 .. 3 -> Word] \cup {NoMessage}
  /\ cpu_id_r \in [0 .. 1 -> Word]

LEMMA DeliverStep ==
  ASSUME RxType, RegistersOK, Deliver
  PROVE  RegistersOK'
<1>1. CASE side = "in"
  <2>1. rpacket \in [0 .. 3 -> Word]
    BY <1>1 DEF rpacket, RxType, rdepth, Depth
  <2>2. PICK bus_ready, snoop_ready \in BOOLEAN :
          /\ bus_pipe' = PipeStage(bus_pipe, bus_valid_d, bus_ready)
          /\ snoop_pipe' = PipeStage(snoop_pipe, snoop_valid_d, snoop_ready)
          /\ HoldCpuId
    BY <1>1, Zenon DEF Deliver
  <2>3. bus_pipe' \in {rpacket, NoMessage, bus_pipe}
    BY <2>2 DEF PipeStage, bus_valid_d
  <2>4. snoop_pipe' \in {rpacket, NoMessage, snoop_pipe}
    BY <2>2 DEF PipeStage, snoop_valid_d
  <2>5. cpu_id_r' \in [0 .. 1 -> Word]
    BY <2>1, <2>2 DEF HoldCpuId, RegistersOK
  <2> QED BY <2>1, <2>3, <2>4, <2>5 DEF RegistersOK
<1>2. CASE side # "in"
  BY <1>2 DEF Deliver, receiverVars, RegistersOK
<1> QED BY <1>1, <1>2

\* A master that has been overtaken still asks, and is the one to prefer.
OvertakenInv ==
  overtaken \in [Master -> 0 .. 1]
  /\ \A i \in Master : overtaken[i] = 1 => rr = i /\ Asks(i)

LEMMA ArbitrateIsNext == Arbitrate => [Next]_vars
  BY Zenon DEF Arbitrate, arbiterVars, Next, vars

LEMMA OvertakenStep ==
  ASSUME IInv, OvertakenInv, Arbitrate, RecordOvertaken
  PROVE  OvertakenInv'
<1> USE DEF Master, GrantState, Asks
<1>1. IInv'
  BY ArbitrateIsNext, NextPreserves
<1>2. SUFFICES ASSUME NEW i \in Master
               PROVE  /\ overtaken'[i] \in 0 .. 1
                      /\ overtaken'[i] = 1 => rr' = i /\ masters'[i] # NoRequest
  BY DEF OvertakenInv, RecordOvertaken
<1>3. overtaken[i] \in 0 .. 1 /\ (overtaken[i] = 1 => rr = i /\ Asks(i))
  BY DEF OvertakenInv
<1>4. overtaken'[i] =
        CASE masters'[i] = NoRequest \/ state' = GrantState[i] -> 0
          [] Asks(i) /\ state = "IDLE" /\ state' = GrantState[1 - i] /\ overtaken[i] < 3 ->
               overtaken[i] + 1
          [] OTHER -> overtaken[i]
  BY DEF RecordOvertaken
<1>5. ASSUME Grant(i) PROVE overtaken'[i] = 0
  BY <1>4, <1>5 DEF Grant
<1>6. ASSUME Grant(1 - i)
      PROVE  IF Asks(i) THEN overtaken'[i] = 1 /\ rr' = i /\ masters'[i] # NoRequest
                        ELSE overtaken'[i] = 0
  BY <1>3, <1>4, <1>6 DEF Grant, Chosen
<1>7. ASSUME NEW j \in Master, Handshake(j)
      PROVE  \/ overtaken'[i] = 0
             \/ overtaken'[i] = overtaken[i] /\ rr' = rr /\ masters'[i] # NoRequest
  BY <1>3, <1>4, <1>7 DEF Handshake
<1>8. ASSUME UNCHANGED arbiterVars
      PROVE  \/ overtaken'[i] = 0
             \/ overtaken'[i] = overtaken[i] /\ rr' = rr /\ masters'[i] # NoRequest
  BY <1>3, <1>4, <1>8 DEF arbiterVars
<1>9. \/ Grant(i) \/ Grant(1 - i)
      \/ \E j \in Master : Handshake(j)
      \/ UNCHANGED arbiterVars
  BY DEF Arbitrate
<1> QED BY <1>3, <1>5, <1>6, <1>7, <1>8, <1>9

--------------------------------------------------------------------------------
(* Whole messages in the receiver's registers. *)

\* A packet of the direction's own lengths.
Fitting == {p \in Packet : side = "in" => p.type = in_type(p.cmd)}

StagesInv == underway \in Seq(Fitting) /\ StagesHoldWholeMessages

\* What is valid is the first packet underway, and the decoder reads its command.
LEMMA ValidIsHead ==
  ASSUME RxType, LinkInv, underway \in Seq(Fitting), rx.valid_o
  PROVE  /\ underway # <<>> /\ Head(underway) \in Fitting
         /\ Holds(rx.shift_arr, Head(underway))
         /\ rmetadata = Head(underway).cmd
<1>1. PICK p \in Packet : /\ Received(p, Length(p))
                          /\ underway = <<p>> \/ \E q \in Packet : underway = <<p, q>>
  BY DEF LinkInv, Quiet, Starting, Sending, Arrived
<1>2. underway # <<>> /\ Head(underway) = p
  BY <1>1
<1>3. \A k \in 0 .. rdepth - 1 : (Length(p) - Length(p)) + k = k
  BY LengthType DEF rdepth, Depth, MaxDepth
<1>4. Holds(rx.shift_arr, p)
  BY <1>1, <1>3 DEF RxType, Received, Holds
<1>5. rx.shift_arr[0] = <<p, 0>>
  <2>1. 0 \in DOMAIN rx.shift_arr /\ 0 < Length(p)
    BY LengthType, DepthType DEF RxType, MaxDepth
  <2> QED BY <1>4, <2>1 DEF Holds
<1>6. rmetadata = p.cmd
  <2>1. p # NoRequest
    BY RequestAssumption
  <2>2. <<p, 0>> # NoWord
    BY <2>1 DEF NoWord
  <2> QED BY <1>5, <2>2 DEF rmetadata, rpacket
<1>7. p \in Fitting
  BY <1>2, HeadTailProperties
<1> QED BY <1>2, <1>4, <1>6, <1>7

LEMMA UnderwayStep ==
  ASSUME TypeOK, RxType, LinkInv, underway \in Seq(Fitting), RecordUnderway, UNCHANGED side
  PROVE  underway' \in Seq(Fitting)'
<1> DEFINE left == IF rx.valid_o THEN Tail(underway) ELSE underway
<1>1. Fitting' = Fitting
  BY DEF Fitting, Packet
<1>2. left \in Seq(Fitting)
  BY ValidIsHead, HeadTailProperties
<1>3. packet # NoRequest => packet \in Fitting
  <2> SUFFICES ASSUME packet # NoRequest PROVE packet \in Fitting
    OBVIOUS
  <2>1. cache # NoRequest /\ packet \in Packet
    BY PortPacket
  <2>2. side = "in" => packet.type = in_type(packet.cmd)
    BY <2>1 DEF packet, build_packet
  <2> QED BY <2>1, <2>2 DEF Fitting
<1>4. underway' = IF ready_o /\ packet # NoRequest THEN Append(left, packet) ELSE left
  BY DEF RecordUnderway
<1> HIDE DEF left
<1>5. packet \in Fitting => Append(left, packet) \in Seq(Fitting)
  BY <1>2, AppendProperties
<1> QED BY <1>1, <1>2, <1>3, <1>4, <1>5

LEMMA StagesStep ==
  ASSUME RxType, LinkInv, StagesInv, Deliver, UNCHANGED side
  PROVE  StagesHoldWholeMessages'
<1> DEFINE HoldsOne(words, cmds) ==
      \E p \in Packet : p.type = in_type(p.cmd) /\ p.cmd \in cmds /\ Holds(words, p)
    Bus == {"BusRD", "BusRDX", "BusUPGR", "EvictDirty"}
    Snoops == {"SnoopBusRD", "SnoopBusRDX", "SnoopBusUPGR"}
<1>1. /\ bus_pipe # NoMessage => HoldsOne(bus_pipe, Bus)
      /\ snoop_pipe # NoMessage => HoldsOne(snoop_pipe, Snoops)
      /\ cpu_id_r[0] # NoWord => HoldsOne(cpu_id_r, {"WhoAmI"})
  BY DEF StagesInv, StagesHoldWholeMessages
<1>2. SUFFICES /\ bus_pipe' # NoMessage => HoldsOne(bus_pipe', Bus)
               /\ snoop_pipe' # NoMessage => HoldsOne(snoop_pipe', Snoops)
               /\ cpu_id_r'[0] # NoWord => HoldsOne(cpu_id_r', {"WhoAmI"})
  BY DEF StagesHoldWholeMessages
<1>3. CASE side # "in"
  BY <1>1, <1>3 DEF Deliver, receiverVars
<1>4. CASE side = "in"
  <2>1. ASSUME NEW cmds, rx.valid_o, rmetadata \in cmds
        PROVE  /\ HoldsOne(rpacket, cmds)
               /\ HoldsOne([k \in 0 .. 1 |-> rpacket[k]], cmds)
    <3>1. PICK p \in Packet : /\ p.type = in_type(p.cmd) /\ p.cmd \in cmds
                              /\ Holds(rx.shift_arr, p)
      BY <1>4, <2>1, ValidIsHead DEF StagesInv, Fitting
    <3>2. rpacket \in [0 .. 3 -> Word]
      BY <1>4 DEF rpacket, RxType, rdepth, Depth
    <3>3. Holds(rpacket, p)
      BY <3>1 DEF rpacket
    <3>4. Holds([k \in 0 .. 1 |-> rpacket[k]], p)
      BY <3>2, <3>3 DEF Holds
    <3> QED BY <3>1, <3>3, <3>4
  <2>2. PICK bus_ready, snoop_ready \in BOOLEAN :
          /\ bus_pipe' = PipeStage(bus_pipe, bus_valid_d, bus_ready)
          /\ snoop_pipe' = PipeStage(snoop_pipe, snoop_valid_d, snoop_ready)
          /\ HoldCpuId
    BY <1>4, Zenon DEF Deliver
  <2> HIDE DEF HoldsOne
  <2>3. bus_pipe' # NoMessage => HoldsOne(bus_pipe', Bus)
    BY <1>1, <2>1, <2>2 DEF PipeStage, bus_valid_d
  <2>4. snoop_pipe' # NoMessage => HoldsOne(snoop_pipe', Snoops)
    BY <1>1, <2>1, <2>2 DEF PipeStage, snoop_valid_d
  <2>5. cpu_id_r'[0] # NoWord => HoldsOne(cpu_id_r', {"WhoAmI"})
    <3>1. CASE rx.valid_o /\ rmetadata = "WhoAmI"
      BY <2>1, <2>2, <3>1 DEF HoldCpuId
    <3>2. CASE ~(rx.valid_o /\ rmetadata = "WhoAmI")
      BY <1>1, <2>2, <3>2 DEF HoldCpuId
    <3> QED BY <3>1, <3>2
  <2> QED BY <2>3, <2>4, <2>5
<1> QED BY <1>3, <1>4

LEMMA StagesStay ==
  ASSUME StagesInv, UNCHANGED <<side, receiverVars, historyVars>>
  PROVE  StagesInv'
<1>1. Fitting' = Fitting /\ underway' = underway
  BY DEF Fitting, historyVars
<1>2. StagesHoldWholeMessages'
  BY DEF StagesInv, StagesHoldWholeMessages, receiverVars
<1> QED BY <1>1, <1>2 DEF StagesInv

--------------------------------------------------------------------------------
(* The inductive invariant. *)

PathInv == /\ IInv
           /\ side \in {"in", "out"}
           /\ LinkTypeOK(rdepth)
           /\ LinkInv
           /\ RegistersOK
           /\ StagesInv
           /\ OvertakenInv

LEMMA PathInit == InterfaceInit => PathInv
<1> SUFFICES ASSUME InterfaceInit PROVE PathInv
  OBVIOUS
<1>1. IInv
  BY InitEstablishes DEF InterfaceInit
<1>2. tx.state = "IDLE" /\ rx.state = "IDLE" /\ rx.valid_o = FALSE
  BY DEF InterfaceInit, LinkInit
<1>3. LinkInv
  BY <1>2 DEF InterfaceInit, LinkInv, Quiet
<1>4. tx \in [state : {"IDLE", "SEND"}, curr_msg_len : 1 .. MaxDepth,
              count : Place, shift_arr : [Place -> Word]]
  <2>1. Blank(MaxDepth) \in [Place -> Word] /\ 1 \in 1 .. MaxDepth /\ 0 \in Place
    BY DEF Blank, Place, Word, MaxDepth
  <2> QED BY <2>1 DEF InterfaceInit, LinkInit
<1>5. rx \in [state : {"IDLE", "RECEIVE"}, shift_arr : [0 .. rdepth - 1 -> Word],
              valid_o : BOOLEAN]
  <2>1. Blank(rdepth) \in [0 .. rdepth - 1 -> Word]
    BY DEF Blank, Word
  <2> QED BY <2>1 DEF InterfaceInit, LinkInit
<1>6. RegistersOK
  BY DEF InterfaceInit, RegistersOK, Word
<1>7. OvertakenInv
  BY DEF InterfaceInit, OvertakenInv
<1>8. StagesInv
  <2>1. underway \in Seq(Fitting)
    BY DEF InterfaceInit
  <2> QED BY <2>1 DEF InterfaceInit, StagesInv, StagesHoldWholeMessages
<1> QED BY <1>1, <1>3, <1>4, <1>5, <1>6, <1>7, <1>8 DEF PathInv, LinkTypeOK, InterfaceInit

LEMMA PathNext == PathInv /\ [InterfaceNext]_pathVars => PathInv'
<1> SUFFICES ASSUME PathInv, [InterfaceNext]_pathVars PROVE PathInv'
  OBVIOUS
<1> USE DEF PathInv
<1>1. CASE Tick
  <2>1. IInv'
    BY <1>1, ArbitrateIsNext, NextPreserves DEF Tick
  <2>2. LinkInv' /\ TxType' /\ RxType'
    BY <1>1, LinkStep DEF Tick, LinkTick, IInv
  <2>3. rdepth' = rdepth /\ side' = side
    BY <1>1 DEF Tick, rdepth
  <2>4. LinkTypeOK(rdepth)'
    BY <2>2, <2>3 DEF LinkTypeOK, TxType, RxType
  <2>5. RegistersOK'
    BY <1>1, DeliverStep DEF Tick, LinkTypeOK, RxType
  <2>6. OvertakenInv'
    BY <1>1, OvertakenStep DEF Tick
  <2>7. StagesInv'
    <3>1. TypeOK /\ RxType /\ underway \in Seq(Fitting)
      BY DEF IInv, LinkTypeOK, RxType, StagesInv
    <3>2. underway' \in Seq(Fitting)'
      BY <1>1, <2>3, <3>1, UnderwayStep DEF Tick
    <3>3. StagesHoldWholeMessages'
      BY <1>1, <2>3, <3>1, StagesStep DEF Tick
    <3> QED BY <3>2, <3>3 DEF StagesInv
  <2> QED BY <2>1, <2>2, <2>3, <2>4, <2>5, <2>6, <2>7
<1>2. ASSUME NEW i \in Master, RaiseOnSide(i) PROVE PathInv'
  <2>1. IInv'
    <3>1. Next
      BY <1>2, Zenon DEF RaiseOnSide, Next
    <3> QED BY <3>1, NextPreserves
  <2>2. UNCHANGED <<side, tx, rx, receiverVars, historyVars>>
    BY <1>2 DEF RaiseOnSide
  <2>3. LinkTypeOK(rdepth)' /\ RegistersOK' /\ side' \in {"in", "out"}
    BY <2>2 DEF LinkTypeOK, rdepth, RegistersOK, receiverVars
  <2>4. LinkInv'
    <3>1. \A p, n : (Carries(p, n)' <=> Carries(p, n)) /\ (Received(p, n)' <=> Received(p, n))
      BY <2>2 DEF Carries, Received, rdepth
    <3> QED BY <2>2, <3>1 DEF LinkInv, Quiet, Starting, Sending, Arrived, historyVars
  <2>5. OvertakenInv'
    <3>1. rr' = rr /\ overtaken' = overtaken
      BY <1>2, <2>2 DEF RaiseOnSide, Raise, historyVars
    <3>2. \A j \in Master : Asks(j) => Asks(j)'
      BY <1>2, NoRequestAssumption DEF RaiseOnSide, Raise, Asks, IInv, TypeOK
    <3> QED BY <3>1, <3>2 DEF OvertakenInv
  <2>6. StagesInv'
    BY <2>2, StagesStay
  <2> QED BY <2>1, <2>3, <2>4, <2>5, <2>6
<1>3. CASE UNCHANGED pathVars
  <2>1. IInv'
    BY <1>3, NextPreserves DEF pathVars, arbiterVars, vars
  <2>2. LinkTypeOK(rdepth)' /\ RegistersOK' /\ side' \in {"in", "out"}
    BY <1>3 DEF pathVars, LinkTypeOK, rdepth, RegistersOK, receiverVars
  <2>3. LinkInv'
    <3>1. \A p, n : (Carries(p, n)' <=> Carries(p, n)) /\ (Received(p, n)' <=> Received(p, n))
      BY <1>3 DEF pathVars, Carries, Received, rdepth
    <3> QED BY <1>3, <3>1 DEF pathVars, LinkInv, Quiet, Starting, Sending, Arrived, historyVars
  <2>4. OvertakenInv'
    BY <1>3 DEF pathVars, arbiterVars, historyVars, OvertakenInv, Asks
  <2>5. StagesInv'
    BY <1>3, StagesStay DEF pathVars
  <2> QED BY <2>1, <2>2, <2>3, <2>4, <2>5
<1> QED BY <1>1, <1>2, <1>3 DEF InterfaceNext

LEMMA PathInvariant == InterfaceSpec => []PathInv
  BY PathInit, PathNext, PTL DEF InterfaceSpec

--------------------------------------------------------------------------------
(* What it gives. *)

\* The type invariant of the message paths.
THEOREM PathsTyped == InterfaceSpec => []InterfaceTypeOK
<1>1. PathInv => InterfaceTypeOK
  <2> SUFFICES ASSUME PathInv PROVE InterfaceTypeOK
    OBVIOUS
  <2>1. underway = <<>> \/ \E p, q \in Packet : underway = <<p>> \/ underway = <<q, p>>
    BY DEF PathInv, LinkInv, Quiet, Starting, Sending, Arrived
  <2>2. <<>> \in Seq(Packet)
    OBVIOUS
  <2>3. underway \in Seq(Packet)
    <3>1. ASSUME NEW p \in Packet, underway = <<p>> PROVE underway \in Seq(Packet)
      BY <3>1
    <3>2. ASSUME NEW p \in Packet, NEW q \in Packet, underway = <<q, p>>
          PROVE  underway \in Seq(Packet)
      BY <3>2
    <3> QED BY <2>1, <2>2, <3>1, <3>2
  <2>4. overtaken \in [Master -> 0 .. 3]
    BY DEF PathInv, OvertakenInv, Master
  <2> QED BY <2>3, <2>4 DEF PathInv, IInv, RegistersOK, InterfaceTypeOK
<1> QED BY <1>1, PathInvariant, PTL

\* Whatever the requests and however they follow each other, the receiver shows
\* as valid exactly the packets sent, whole, in their order.
THEOREM LinkDelivers == InterfaceSpec => []DeliveredIntact
<1>1. PathInv => DeliveredIntact
  <2> SUFFICES ASSUME PathInv, rx.valid_o
               PROVE  underway # <<>> /\ Holds(rx.shift_arr, Head(underway))
    BY DEF DeliveredIntact
  <2>1. RxType
    BY DEF PathInv, LinkTypeOK, RxType
  <2> QED BY <2>1, ValidIsHead DEF PathInv, StagesInv
<1> QED BY <1>1, PathInvariant, PTL

\* Each pipe stage holds one whole message of its own kind, however soon the next
\* packet follows, and the chip's number is that of a WhoAmI.
THEOREM MessagesAreWhole == InterfaceSpec => []StagesHoldWholeMessages
<1>1. PathInv => StagesHoldWholeMessages
  BY DEF PathInv, StagesInv
<1> QED BY <1>1, PathInvariant, PTL

\* The link in front of the port changes nothing about what the arbiter holds on it.
THEOREM PortHolds == InterfaceSpec => []GrantedRequestIsOnThePort
<1>1. PathInv => GrantedRequestIsOnThePort
  BY DEF PathInv, IInv
<1> QED BY <1>1, PathInvariant, PTL

\* The round robin: nobody is overtaken twice while it waits.
THEOREM OvertakingBounded == InterfaceSpec => []OvertakenOnce
<1>1. PathInv => OvertakenOnce
  BY DEF PathInv, OvertakenInv, OvertakenOnce
<1> QED BY <1>1, PathInvariant, PTL

================================================================================
