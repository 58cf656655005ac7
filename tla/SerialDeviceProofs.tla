------------------------ MODULE SerialDeviceProofs ------------------------
(***************************************************************************)
(* Proofs about fujinet-serial.device, for rings, lengths and line traffic *)
(* of any size and any finite sets of requests.                            *)
(***************************************************************************)
EXTENDS SerialDevice, TLAPS

(***************************************************************************)
(* The inductive invariant, in parts.                                      *)
(***************************************************************************)

\* The three registers of the read side agree: a read is pending, or in the
\* hands of complete_read, or neither.
ReadBooks ==
  /\ pending_read \in Readers \cup {NULL} /\ soft.req \in Readers \cup {NULL}
  /\ read_state = "PENDING" <=> pending_read # NULL
  /\ pending_need > 0 <=> pending_read # NULL
  /\ read_state = "COMPLETING" <=> soft.at \in {"copy", "reply"}
  /\ soft.at \in {"copy", "reply"} =>
       soft.req # NULL /\ soft.need > 0
  /\ soft.at = "reply" => Len(soft.data) = soft.need
  /\ soft.at \notin {"copy", "reply"} =>
       soft.req = NULL /\ soft.data = <<>> /\ soft.need = 0

\* The registers of the write side, and the transmit interrupt.
WriteBooks ==
  /\ pending_write \in Writers \cup {NULL}
  /\ write_state = "PENDING" <=> pending_write # NULL
  /\ pending_write = NULL => tbe = NoTbe /\ wire = <<>>
  /\ claimed # {} /\ intena_tbe = 1 => pending_write # NULL
  /\ write_soft_int = 1 => soft.at # "write"
  /\ write_soft_int = 1 \/ soft.at = "write" =>
       pending_write # NULL /\ intena_tbe = 0 /\ tbe.remaining = 0
  /\ task = "write_intena" =>
       /\ pending_write # NULL /\ intena_tbe = 0
       /\ write_soft_int = 0 /\ soft.at # "write"

\* Where the task is inside a call fits the state of the unit.
UnitBooks ==
  /\ lib_OpenCnt = 0 <=> (claimed = {} \/ task \in {"open", "openwait"})
  /\ rbf_installed = 1 <=> claimed # {}
  /\ claimed # {} => foreign = {} /\ life = "resident"
  /\ claimed = {} => task = "idle" /\ arrived = 0 /\ expected = 1
  /\ lib_OpenCnt = 0 =>
       /\ receive_armed = 0 /\ unsent = 0 /\ soft = Idle /\ soft_int = 0
       /\ pending_read = NULL /\ pending_write = NULL
  /\ task \in {"open", "openwait"} =>
       intena_rbf = 0 /\ intena_tbe = 0
  /\ task = "setwait" =>
       /\ intena_rbf = 0 /\ pending_read = NULL /\ pending_write = NULL
       /\ soft = Idle /\ soft_int = 0
  /\ lib_OpenCnt = 1 /\ task # "setwait" =>
       intena_rbf = 1 /\ receive_armed = 1

\* complete_read finds in the ring what it was caused for.
CausedBooks ==
  /\ (soft_int = 1 \/ soft.at = "read") /\ pending_read # NULL =>
       RxCount(rx) >= pending_need
  /\ soft.at = "copy" => RxCount(rx) >= soft.need

\* While no transmission was left in Paula, what the pending write has on the
\* wire, in SERDAT and not yet handed to the chip add up.
WireBooks ==
  claimed # {} /\ leftover = 0 =>
    /\ unsent = 0
    /\ serdat # 0 =>
         /\ serdat = tbe.committed /\ intreq_tbe = 0 /\ intena_tbe = 1
         /\ task \notin {"write_intena", "write_intreq"}
    /\ Len(wire) = IF serdat = 0 THEN tbe.committed ELSE tbe.committed - 1
    /\ \A i \in 1..Len(wire) : wire[i] = i
    /\ task \in {"write_intena", "write_intreq"} =>
         /\ intreq_tbe = 0 /\ tbe.committed = 0 /\ tbe.remaining > 0
         /\ pending_write # NULL
    /\ task = "write_intreq" => intena_tbe = 1
    /\ intreq_tbe = 1 => intena_tbe = 1
    /\ write_soft_int = 1 \/ soft.at = "write" =>
         serdat = 0 /\ intreq_tbe = 0

\* The arrival number of the byte at the ring's tail, while none is missing.
Base == expected + (IF soft.at = "reply" THEN soft.need ELSE 0)

\* While no overrun is latched, the bytes copied, in the ring and in the
\* receive register are those of the line, in order and without a gap.
StreamBooks ==
  /\ serdatr.byte = 0 => serdatr = NoWord
  /\ claimed # {} /\ rx.hw = 0 /\ rx.sw = 0 =>
       /\ \A i \in 1..Len(soft.data) : soft.data[i] = expected + i - 1
       /\ \A i \in 1..RxCount(rx) : RxSlot(rx, i) = Base + i - 1
       /\ serdatr # NoWord /\ serdatr.ovrun = 0 =>
            /\ serdatr.byte = Base + RxCount(rx)
            /\ missed = 0 => arrived = serdatr.byte
       /\ serdatr = NoWord /\ missed = 0 => arrived = Base + RxCount(rx) - 1

-----------------------------------------------------------------------------
(* The receive ring, fujinet_paula_uart.c.                                 *)

\* Positions in the ring, without the remainder: n slots after t, where the
\* i-th byte from t is, and how many bytes lie from t to h.
Plus(t, n) == IF t + n < RingSize THEN t + n ELSE t + n - RingSize
At(t, i) == IF t + i - 1 < RingSize THEN t + i - 1 ELSE t + i - 1 - RingSize
Distance(h, t) == IF h >= t THEN h - t ELSE h + RingSize - t

\* The remainders fujinet_paula_uart.c computes are these positions: n slots on.
LEMMA WrapPlus ==
  ASSUME NEW t \in Slots, NEW n \in Slots
  PROVE  (t + n) % RingSize = Plus(t, n)
  BY RingAssumption DEF Slots, Plus

\* The slot of the i-th unread byte.
LEMMA WrapAt ==
  ASSUME NEW t \in Slots, NEW i \in 1..RingSize
  PROVE  (t + i - 1) % RingSize = At(t, i) /\ At(t, i) \in Slots
  BY RingAssumption DEF Slots, At

\* fujinet_paula_rx_count.
LEMMA WrapDistance ==
  ASSUME NEW h \in Slots, NEW t \in Slots
  PROVE  (h + RingSize - t) % RingSize = Distance(h, t) /\ Distance(h, t) \in Slots
  BY RingAssumption DEF Slots, Distance

\* Moving the head on, past a slot that is not the tail, adds one position and
\* leaves the others.
LEMMA HeadMoves ==
  ASSUME NEW h \in Slots, NEW t \in Slots, Plus(h, 1) # t
  PROVE  /\ Plus(h, 1) \in Slots
         /\ Distance(Plus(h, 1), t) = Distance(h, t) + 1
         /\ At(t, Distance(h, t) + 1) = h
         /\ \A i \in 1..Distance(h, t) : At(t, i) \in Slots /\ At(t, i) # h
  BY RingAssumption DEF Slots, Plus, Distance, At

\* Moving the tail on by n drops the first n positions.
LEMMA TailMoves ==
  ASSUME NEW h \in Slots, NEW t \in Slots, NEW n \in Nat, n <= Distance(h, t)
  PROVE  /\ n \in Slots /\ Plus(t, n) \in Slots
         /\ Distance(h, Plus(t, n)) = Distance(h, t) - n
         /\ \A i \in 1..(Distance(h, t) - n) :
              /\ At(Plus(t, n), i) = At(t, n + i) /\ At(t, n + i) \in Slots
              /\ Distance(At(t, n + i), t) = n + i - 1
  BY RingAssumption DEF Slots, Plus, Distance, At

\* How many bytes a ring holds and where they are.
LEMMA RingShape ==
  ASSUME NEW r \in Rings
  PROVE  /\ r.head \in Slots /\ r.tail \in Slots /\ r.buf \in [Slots -> Nat]
         /\ RxCount(r) = Distance(r.head, r.tail) /\ RxCount(r) \in Slots
         /\ \A i \in 1..RingSize :
              RxSlot(r, i) = r.buf[At(r.tail, i)] /\ RxSlot(r, i) \in Nat
<1>1. r.head \in Slots /\ r.tail \in Slots /\ r.buf \in [Slots -> Nat]
  BY DEF Rings
<1>2. RxCount(r) = Distance(r.head, r.tail) /\ RxCount(r) \in Slots
  BY <1>1, WrapDistance DEF RxCount
<1>3. ASSUME NEW i \in 1..RingSize
      PROVE  RxSlot(r, i) = r.buf[At(r.tail, i)] /\ RxSlot(r, i) \in Nat
  BY <1>1, WrapAt DEF RxSlot
<1>4. QED BY <1>1, <1>2, <1>3

\* A byte stored becomes the last one; a full ring latches the loss.
LEMMA StoreBooks ==
  ASSUME NEW r \in Rings, NEW b \in Nat
  PROVE  /\ RxStore(r, b) \in Rings
         /\ RxStore(r, b).hw = r.hw
         /\ RxCount(RxStore(r, b)) >= RxCount(r)
         /\ RxStore(r, b).sw = 0 =>
              /\ r.sw = 0
              /\ RxCount(RxStore(r, b)) = RxCount(r) + 1
              /\ \A i \in 1..RxCount(r) : RxSlot(RxStore(r, b), i) = RxSlot(r, i)
              /\ RxSlot(RxStore(r, b), RxCount(r) + 1) = b
<1> DEFINE s == RxStore(r, b)
           n == RxCount(r)
           next == Plus(r.head, 1)
<1>1. /\ r.head \in Slots /\ r.tail \in Slots /\ r.buf \in [Slots -> Nat]
      /\ n = Distance(r.head, r.tail) /\ n \in Slots
      /\ \A i \in 1..RingSize : RxSlot(r, i) = r.buf[At(r.tail, i)]
  BY RingShape
<1>2. (r.head + 1) % RingSize = next
  <2>1. 1 \in Slots
    BY RingAssumption DEF Slots
  <2>2. QED BY <1>1, <2>1, WrapPlus
<1>3. s = IF next = r.tail THEN [r EXCEPT !.sw = 1]
          ELSE [r EXCEPT !.buf[r.head] = b, !.head = next]
  BY <1>2 DEF RxStore
<1> HIDE DEF s, n, next
<1>4. CASE next = r.tail
  <2>1. /\ s \in Rings /\ s.hw = r.hw /\ s.sw = 1
        /\ s.head = r.head /\ s.tail = r.tail
    BY <1>3, <1>4 DEF Rings
  <2>2. RxCount(s) = n
    BY <2>1 DEF RxCount, n
  <2>3. n >= n
    BY <1>1, RingAssumption DEF Slots
  <2>4. QED BY <2>1, <2>2, <2>3 DEF s, n
<1>5. CASE next # r.tail
  <2>1. /\ next \in Slots /\ Distance(next, r.tail) = n + 1
        /\ At(r.tail, n + 1) = r.head
        /\ \A i \in 1..n : At(r.tail, i) \in Slots /\ At(r.tail, i) # r.head
    BY <1>1, <1>5, HeadMoves DEF next
  <2>2. /\ s \in Rings /\ s.hw = r.hw /\ s.sw = r.sw
        /\ s.head = next /\ s.tail = r.tail
        /\ s.buf = [r.buf EXCEPT ![r.head] = b]
    BY <1>3, <1>5, <2>1 DEF Rings
  <2>3. /\ RxCount(s) = n + 1 /\ n + 1 \in Slots
        /\ \A i \in 1..RingSize : RxSlot(s, i) = s.buf[At(r.tail, i)]
    <3>1. /\ RxCount(s) = Distance(s.head, s.tail) /\ RxCount(s) \in Slots
          /\ \A i \in 1..RingSize : RxSlot(s, i) = s.buf[At(s.tail, i)]
      <4>1. s \in Rings
        BY <2>2
      <4>2. QED BY <4>1, RingShape
    <3>2. QED BY <2>1, <2>2, <3>1
  <2>4. n + 1 \in 1..RingSize /\ n + 1 >= n /\ 1..n \subseteq 1..RingSize
    BY <2>3, <1>1, RingAssumption DEF Slots
  <2>5. \A i \in 1..n : RxSlot(s, i) = RxSlot(r, i)
    BY <2>1, <2>2, <2>3, <2>4, <1>1
  <2>6. RxSlot(s, n + 1) = b
    BY <2>1, <2>2, <2>3, <2>4, <1>1
  <2>7. QED BY <2>2, <2>3, <2>4, <2>5, <2>6 DEF s, n
<1>6. QED BY <1>4, <1>5

\* Taking n bytes leaves the others, in order.
LEMMA TakeBooks ==
  ASSUME NEW r \in Rings, NEW n \in Nat, n <= RxCount(r)
  PROVE  /\ RxTake(r, n) \in Rings
         /\ RxTake(r, n).hw = r.hw /\ RxTake(r, n).sw = r.sw
         /\ RxCount(RxTake(r, n)) = RxCount(r) - n
         /\ \A i \in 1..(RxCount(r) - n) :
              RxSlot(RxTake(r, n), i) = RxSlot(r, n + i)
<1> DEFINE s == RxTake(r, n)
           c == RxCount(r)
           t == Plus(r.tail, n)
           buf == [i \in Slots |-> IF (i + RingSize - r.tail) % RingSize < n
                                   THEN 0 ELSE r.buf[i]]
<1>1. /\ r.head \in Slots /\ r.tail \in Slots /\ r.buf \in [Slots -> Nat]
      /\ c = Distance(r.head, r.tail) /\ c \in Slots
      /\ \A i \in 1..RingSize : RxSlot(r, i) = r.buf[At(r.tail, i)]
  BY RingShape
<1>2. /\ n \in Slots /\ t \in Slots /\ Distance(r.head, t) = c - n
      /\ \A i \in 1..(c - n) :
           /\ At(t, i) = At(r.tail, n + i) /\ At(r.tail, n + i) \in Slots
           /\ Distance(At(r.tail, n + i), r.tail) = n + i - 1
  BY <1>1, TailMoves
<1>3. s = [r EXCEPT !.tail = t, !.buf = buf]
  BY <1>1, <1>2, WrapPlus DEF RxTake
<1>4. buf \in [Slots -> Nat]
  BY <1>1
<1>5. \A k \in Slots : buf[k] = IF Distance(k, r.tail) < n THEN 0 ELSE r.buf[k]
  BY <1>1, WrapDistance
<1> HIDE DEF s, c, t, buf
<1>6. /\ s \in Rings /\ s.hw = r.hw /\ s.sw = r.sw
      /\ s.head = r.head /\ s.tail = t /\ s.buf = buf
  BY <1>2, <1>3, <1>4 DEF Rings
<1>7. /\ RxCount(s) = c - n
      /\ \A i \in 1..RingSize : RxSlot(s, i) = buf[At(t, i)]
  BY <1>2, <1>6, RingShape
<1>8. ASSUME NEW i \in 1..(c - n)
      PROVE  RxSlot(s, i) = RxSlot(r, n + i)
  <2>1. i \in 1..RingSize /\ n + i \in 1..RingSize /\ ~(n + i - 1 < n)
    BY <1>1, <1>2, RingAssumption DEF Slots
  <2>2. buf[At(t, i)] = r.buf[At(r.tail, n + i)]
    BY <1>2, <1>5, <2>1
  <2>3. QED BY <1>1, <1>7, <2>1, <2>2
<1>9. QED BY <1>6, <1>7, <1>8 DEF s, c

\* Draining the receive register: its byte becomes the last one of the ring,
\* unless an overrun is latched by it.
LEMMA DrainBooks ==
  ASSUME NEW r \in Rings, NEW w \in Words
  PROVE  /\ RxDrain(r, w) \in Rings
         /\ RxCount(RxDrain(r, w)) >= RxCount(r)
         /\ RxDrain(r, w).hw = 0 /\ RxDrain(r, w).sw = 0 =>
              /\ r.hw = 0 /\ r.sw = 0
              /\ w.byte = 0 => RxDrain(r, w) = r
              /\ w.byte # 0 =>
                   /\ w.ovrun = 0
                   /\ RxCount(RxDrain(r, w)) = RxCount(r) + 1
                   /\ \A i \in 1..RxCount(r) :
                        RxSlot(RxDrain(r, w), i) = RxSlot(r, i)
                   /\ RxSlot(RxDrain(r, w), RxCount(r) + 1) = w.byte
<1> DEFINE q == [r EXCEPT !.hw = IF w.ovrun = 1 THEN 1 ELSE @]
<1>1. /\ q \in Rings /\ q.sw = r.sw /\ w.byte \in Nat
      /\ q.hw = 0 => r.hw = 0 /\ w.ovrun = 0
  BY DEF Rings, Words
<1>2. RxCount(q) = RxCount(r) /\ \A i \in 1..RxCount(r) : RxSlot(q, i) = RxSlot(r, i)
  BY DEF Rings, RxCount, RxSlot
<1>3. CASE w.byte = 0
  <2>1. RxDrain(r, w) = r
    BY <1>3 DEF RxDrain
  <2>2. RxCount(r) >= RxCount(r)
    BY RingShape, RingAssumption DEF Slots
  <2>3. QED BY <1>3, <2>1, <2>2
<1>4. CASE w.byte # 0
  <2>1. RxDrain(r, w) = RxStore(q, w.byte)
    BY <1>4 DEF RxDrain, RxIngest
  <2> HIDE DEF q
  <2>2. QED BY <1>1, <1>2, <1>4, <2>1, StoreBooks, SMTT(40)
<1>5. QED BY <1>3, <1>4

\* fujinet_paula_rx_read leaves a ring behind.
LEMMA TakeTypes ==
  ASSUME NEW r \in Rings, NEW n \in Nat
  PROVE  RxTake(r, n) \in Rings
<1>1. r.tail \in Slots /\ r.buf \in [Slots -> Nat]
  BY DEF Rings
<1>2. (r.tail + n) % RingSize \in Slots
  BY <1>1, RingAssumption DEF Slots
<1>3. [i \in Slots |-> IF (i + RingSize - r.tail) % RingSize < n
                       THEN 0 ELSE r.buf[i]] \in [Slots -> Nat]
  BY <1>1
<1>4. QED BY <1>2, <1>3 DEF RxTake, Rings

\* A new ring and an empty register are well typed.
LEMMA InitTypes == RxInit \in Rings /\ RxClear \in Rings /\ NoWord \in Words
  BY RingAssumption DEF RxInit, RxClear, Rings, Slots, NoWord, Words

-----------------------------------------------------------------------------
\* Every reachable state of the device is well typed, and a read is pending, or
\* with complete_read, or neither.
THEOREM SerialTypeCorrect == Spec => [](TypeOK /\ ReadBooks)
<1> USE ConstantsAssumption, RingAssumption DEF Requests, Lengths
<1>1. Init => TypeOK /\ ReadBooks
  BY InitTypes DEF Init, TypeOK, ReadBooks, Idle, NoTbe, Units
<1>2. TypeOK /\ ReadBooks /\ [Next]_vars => TypeOK' /\ ReadBooks'
  <2> SUFFICES ASSUME TypeOK, ReadBooks, [Next]_vars
               PROVE  TypeOK' /\ ReadBooks'
    OBVIOUS
  <2> USE DEF TypeOK, ReadBooks, libVars, unitVars, readVars, writeReg,
              softVars, recvVars, sendVars, histVars
  <2>1. CASE UNCHANGED vars
    BY <2>1, SMTT(40) DEF vars
  <2>2. CASE LineByte
    BY <2>2 DEF LineByte, Words, NoWord
  <2>3. CASE SerdatMoves
    BY <2>3 DEF SerdatMoves
  <2>4. CASE Foreign
    BY <2>4, InitTypes DEF Foreign, NoWord, Words
  <2>5. CASE RbfServer
    BY <2>5, DrainBooks, InitTypes DEF RbfServer
  <2>6. CASE TbeServer
    <3>1. CASE tbe.remaining > 0
      <4>1. /\ tbe' = [remaining |-> tbe.remaining - 1,
                       committed |-> tbe.committed + 1, length |-> tbe.length]
            /\ serdat' = tbe.committed + 1
        BY <2>6, <3>1 DEF TbeServer
      <4>2. UNCHANGED <<libVars, unitVars, readVars, pending_write, write_state,
                        softVars, recvVars, task, sent, histVars, intena_tbe>>
        BY <2>6, <3>1 DEF TbeServer
      <4>3. intreq_tbe' = 0
        BY <2>6 DEF TbeServer
      <4>4. /\ tbe' \in [remaining : 0..MaxLength, committed : 0..MaxLength,
                         length : 0..MaxLength]
            /\ tbe'.committed + tbe'.remaining = tbe'.length
        <5>1. /\ tbe.remaining - 1 \in 0..MaxLength
              /\ tbe.committed + 1 \in 0..MaxLength /\ tbe.length \in 0..MaxLength
              /\ (tbe.committed + 1) + (tbe.remaining - 1) = tbe.length
          BY <3>1
        <5>2. QED BY <4>1, <5>1
      <4>5. serdat' \in -1..MaxLength
        BY <3>1, <4>1
      <4>6. TypeOK'
        BY <4>2, <4>3, <4>4, <4>5
      <4>7. QED BY <4>2, <4>6
    <3>2. CASE ~(tbe.remaining > 0)
      BY <2>6, <3>2 DEF TbeServer
    <3>3. QED BY <3>1, <3>2
  <2>7. CASE SoftintBegin
    <3>1. /\ soft'.at \in {"read", "write"} /\ soft'.req = NULL
          /\ soft'.data = <<>> /\ soft'.need = 0
          /\ soft' = [at |-> soft'.at, req |-> NULL, data |-> <<>>, need |-> 0]
      BY <2>7 DEF SoftintBegin, Idle
    <3>2. soft.at = "idle"
      BY <2>7 DEF SoftintBegin, Idle
    <3>3. QED BY <2>7, <3>1, <3>2 DEF SoftintBegin
  <2>8. CASE CompleteReadTake
    BY <2>8 DEF CompleteReadTake, TakePending, Idle
  <2>9. CASE CompleteReadCopy
    <3>1. RxSlot(rx, Len(soft.data) + 1) \in Nat
      <4>1. Len(soft.data) + 1 \in 1..RingSize
        BY <2>9 DEF CompleteReadCopy
      <4>2. QED BY <4>1, RingShape
    <3>2. /\ soft'.data = Append(soft.data, RxSlot(rx, Len(soft.data) + 1))
          /\ soft'.at = "copy" /\ soft'.req = soft.req /\ soft'.need = soft.need
          /\ soft' = [at |-> "copy", req |-> soft.req, data |-> soft'.data,
                      need |-> soft.need]
      BY <2>9 DEF CompleteReadCopy
    <3>3. soft'.data \in Seq(Nat) /\ Len(soft'.data) <= soft'.need
      BY <2>9, <3>1, <3>2 DEF CompleteReadCopy
    <3>4. UNCHANGED <<libVars, unitVars, readVars, writeReg, soft_int,
                      write_soft_int, recvVars, sendVars, task, sent, histVars>>
      BY <2>9 DEF CompleteReadCopy
    <3>5. soft.at = "copy"
      BY <2>9 DEF CompleteReadCopy
    <3>6. soft' \in [at : {"idle", "read", "copy", "reply", "write"},
                    req : Requests \cup {NULL}, data : Seq(Nat),
                    need : 0..MaxLength]
      BY <3>2, <3>3
    <3>7. TypeOK'
      BY <3>3, <3>4, <3>6, SMTT(40)
    <3>8. ReadBooks'
      BY <3>2, <3>4, <3>5
    <3>9. QED BY <3>7, <3>8
  <2>10. CASE CompleteReadTail
    <3>1. /\ soft'.data = soft.data /\ soft'.at = "reply"
          /\ soft'.req = soft.req /\ soft'.need = soft.need
          /\ soft' = [at |-> "reply", req |-> soft.req, data |-> soft.data,
                      need |-> soft.need]
      BY <2>10 DEF CompleteReadTail
    <3>2. rx' \in Rings
      BY <2>10, TakeTypes DEF CompleteReadTail
    <3>3. UNCHANGED <<libVars, unitVars, readVars, writeReg, soft_int,
                      write_soft_int, serdatr, missed, arrived, receive_armed,
                      intena_rbf, expected, sendVars, task, sent, histVars>>
      BY <2>10 DEF CompleteReadTail
    <3>4. soft.at = "copy" /\ Len(soft.data) = soft.need
      BY <2>10 DEF CompleteReadTail
    <3>5. QED BY <3>1, <3>2, <3>3, <3>4
  <2>11. CASE CompleteReadReply
    <3>1. expected' \in Nat
      BY <2>11 DEF CompleteReadReply
    <3>2. overrun' \in {0, 1} /\ gap' \in {0, 1}
      BY <2>11 DEF CompleteReadReply, RxOverrun
    <3>3. QED BY <2>11, <3>1, <3>2 DEF CompleteReadReply, ReplyRequests, Idle
  <2>12. CASE CompleteWrite
    BY <2>12, SMTT(40) DEF CompleteWrite, TakePendingWrite, TakenTbe, LeftInSerdat,
       ReplyRequests, NoTbe, Idle
  <2>13. CASE OpenFails
    BY <2>13, InitTypes DEF OpenFails, TaskRuns, ResetUnit, NoTbe, Idle
  <2>14. CASE OpenClaim
    BY <2>14, InitTypes DEF OpenClaim, TaskRuns, ResetUnit, NoTbe, Idle
  <2>15. CASE SettleBegin
    BY <2>15, DrainBooks, InitTypes DEF SettleBegin, TaskRuns
  <2>16. CASE SettleEnd
    BY <2>16, InitTypes, SMTT(40) DEF SettleEnd, TaskRuns, DeviceOpened
  <2>17. CASE DeviceClose
    BY <2>17, InitTypes DEF DeviceClose, TaskRuns, ReleasePaula,
       ReplyRequests, TakenTbe, LeftInSerdat, NoTbe
  <2>18. CASE DeviceExpunge
    BY <2>18 DEF DeviceExpunge, TaskRuns
  <2>19. CASE CmdQuery
    BY <2>19, DrainBooks, InitTypes DEF CmdQuery, Accepts, TaskRuns, Rearm,
       RearmedRx
  <2>20. CASE CmdSetparams
    BY <2>20, DrainBooks, InitTypes DEF CmdSetparams, Accepts, TaskRuns
  <2>21. CASE CmdFlush
    BY <2>21, InitTypes DEF CmdFlush, Accepts, TaskRuns, TakenTbe,
       LeftInSerdat, CutShort, ReplyRequests, NoTbe
  <2>22. CASE WriteIntena
    BY <2>22 DEF WriteIntena, TaskRuns
  <2>23. CASE WriteIntreq
    BY <2>23 DEF WriteIntreq, TaskRuns
  <2>24. CASE AbortWrite
    BY <2>24 DEF AbortWrite, TaskRuns, TakePendingWrite, TakenTbe,
       LeftInSerdat, ReplyRequests, CutShort, NoTbe
  <2>25. CASE AbortRead
    BY <2>25 DEF AbortRead, TaskRuns, TakePending, ReplyRequests
  <2>26. ASSUME NEW r \in Readers, NEW n \in Lengths, CmdRead(r, n)
         PROVE  TypeOK' /\ ReadBooks'
    <3>1. rx' \in Rings /\ serdatr' \in Words
      BY <2>26, DrainBooks, InitTypes DEF CmdRead, Rearm, RearmedRx
    <3>2. soft = Idle /\ soft.at = "idle"
      BY <2>26 DEF CmdRead, Accepts, TaskRuns, Idle
    <3>3. QED BY <2>26, <3>1, <3>2 DEF CmdRead, Rearm
  <2>27. ASSUME NEW r \in Writers, NEW n \in Lengths \cup {0},
                CmdWrite(r, n)
         PROVE  TypeOK' /\ ReadBooks'
    BY <2>27, InitTypes, SMTT(40) DEF CmdWrite, Accepts, TaskRuns
  <2>28. QED
    BY <2>1, <2>2, <2>3, <2>4, <2>5, <2>6, <2>7, <2>8, <2>9, <2>10, <2>11,
       <2>12, <2>13, <2>14, <2>15, <2>16, <2>17, <2>18, <2>19, <2>20, <2>21,
       <2>22, <2>23, <2>24, <2>25, <2>26, <2>27 DEF Next
<1>3. QED BY <1>1, <1>2, PTL DEF Spec

\* The write side, and where the task is inside a call, fit the state of the
\* unit.
THEOREM SerialUnitCorrect == Spec => [](WriteBooks /\ UnitBooks)
<1> USE ConstantsAssumption DEF Requests, Lengths
<1>1. Init => WriteBooks /\ UnitBooks
  BY DEF Init, WriteBooks, UnitBooks, Idle, NoTbe
<1>2. /\ TypeOK /\ ReadBooks /\ WriteBooks /\ UnitBooks /\ [Next]_vars
      => WriteBooks' /\ UnitBooks'
  <2> SUFFICES ASSUME TypeOK, ReadBooks, WriteBooks, UnitBooks, [Next]_vars
               PROVE  WriteBooks' /\ UnitBooks'
    OBVIOUS
  <2> USE DEF TypeOK, ReadBooks, WriteBooks, UnitBooks, libVars, unitVars,
              readVars, writeReg, softVars, recvVars, sendVars, histVars
  <2>1. CASE UNCHANGED vars
    BY <2>1 DEF vars
  <2>2. CASE LineByte
    BY <2>2 DEF LineByte
  <2>3. CASE SerdatMoves
    BY <2>3 DEF SerdatMoves
  <2>4. CASE Foreign
    BY <2>4 DEF Foreign, Units
  <2>5. CASE RbfServer
    BY <2>5 DEF RbfServer
  <2>6. CASE TbeServer
    BY <2>6 DEF TbeServer
  <2>7. CASE SoftintBegin
    BY <2>7 DEF SoftintBegin, Idle
  <2>8. CASE CompleteReadTake
    BY <2>8 DEF CompleteReadTake, TakePending, Idle
  <2>9. CASE CompleteReadCopy
    <3>1. soft'.at = "copy" /\ soft.at = "copy" /\ soft # Idle
      BY <2>9 DEF CompleteReadCopy, Idle
    <3>2. UNCHANGED <<libVars, unitVars, readVars, writeReg, soft_int,
                      write_soft_int, serdatr, missed, arrived, receive_armed,
                      intena_rbf, expected, sendVars, task, sent, histVars>>
      BY <2>9 DEF CompleteReadCopy
    <3>3. QED BY <3>1, <3>2
  <2>10. CASE CompleteReadTail
    <3>1. soft'.at = "reply" /\ soft.at = "copy" /\ soft # Idle
      BY <2>10 DEF CompleteReadTail, Idle
    <3>2. UNCHANGED <<libVars, unitVars, readVars, writeReg, soft_int,
                      write_soft_int, serdatr, missed, arrived, receive_armed,
                      intena_rbf, expected, sendVars, task, sent, histVars>>
      BY <2>10 DEF CompleteReadTail
    <3>3. QED BY <3>1, <3>2
  <2>11. CASE CompleteReadReply
    BY <2>11, SMTT(40) DEF CompleteReadReply, ReplyRequests, Idle
  <2>12. CASE CompleteWrite
    BY <2>12 DEF CompleteWrite, TakePendingWrite, TakenTbe, LeftInSerdat,
       ReplyRequests, NoTbe, Idle
  <2>13. CASE OpenFails
    BY <2>13 DEF OpenFails, TaskRuns, ResetUnit, NoTbe, Idle
  <2>14. CASE OpenClaim
    BY <2>14 DEF OpenClaim, TaskRuns, ResetUnit, NoTbe, Idle, Units
  <2>15. CASE SettleBegin
    BY <2>15 DEF SettleBegin, TaskRuns, Idle, Units
  <2>16. CASE SettleEnd
    BY <2>16 DEF SettleEnd, TaskRuns, DeviceOpened, Idle, Units
  <2>17. CASE DeviceClose
    BY <2>17 DEF DeviceClose, TaskRuns, ReleasePaula, ReplyRequests,
       TakenTbe, LeftInSerdat, NoTbe, Idle, Units
  <2>18. CASE DeviceExpunge
    BY <2>18 DEF DeviceExpunge, TaskRuns, Idle, Units
  <2>19. CASE CmdQuery
    BY <2>19 DEF CmdQuery, Accepts, TaskRuns, Rearm, RearmedRx
  <2>20. CASE CmdSetparams
    BY <2>20 DEF CmdSetparams, Accepts, TaskRuns, Idle
  <2>21. CASE CmdFlush
    BY <2>21 DEF CmdFlush, Accepts, TaskRuns, TakenTbe, LeftInSerdat,
       CutShort, ReplyRequests, NoTbe, Idle
  <2>22. CASE WriteIntena
    BY <2>22 DEF WriteIntena, TaskRuns
  <2>23. CASE WriteIntreq
    BY <2>23 DEF WriteIntreq, TaskRuns
  <2>24. CASE AbortWrite
    BY <2>24 DEF AbortWrite, TaskRuns, TakePendingWrite, TakenTbe,
       LeftInSerdat, ReplyRequests, CutShort, NoTbe, Idle
  <2>25. CASE AbortRead
    BY <2>25 DEF AbortRead, TaskRuns, TakePending, ReplyRequests, Idle
  <2>26. ASSUME NEW r \in Readers, NEW n \in Lengths, CmdRead(r, n)
         PROVE  WriteBooks' /\ UnitBooks'
    BY <2>26 DEF CmdRead, Accepts, TaskRuns, Rearm, RearmedRx, Idle
  <2>27. ASSUME NEW r \in Writers, NEW n \in Lengths \cup {0},
                CmdWrite(r, n)
         PROVE  WriteBooks' /\ UnitBooks'
    BY <2>27 DEF CmdWrite, Accepts, TaskRuns, Idle
  <2>28. QED
    BY <2>1, <2>2, <2>3, <2>4, <2>5, <2>6, <2>7, <2>8, <2>9, <2>10, <2>11,
       <2>12, <2>13, <2>14, <2>15, <2>16, <2>17, <2>18, <2>19, <2>20, <2>21,
       <2>22, <2>23, <2>24, <2>25, <2>26, <2>27 DEF Next
<1>3. QED BY <1>1, <1>2, SerialTypeCorrect, PTL DEF Spec

\* OneHolder: whatever handlers, software interrupts, aborts, flushes and close
\* do, a request the device was given is in one place until it is answered, and
\* the transmit handler has no buffer of a request that was.
THEOREM RequestHeld == Spec => []OneHolder
<1> USE ConstantsAssumption DEF Requests, Lengths
<1>1. Init => OneHolder
  BY DEF Init, OneHolder, Idle, NoTbe
<1>2. /\ TypeOK /\ ReadBooks /\ WriteBooks /\ UnitBooks /\ OneHolder
      /\ ReadBooks' /\ WriteBooks' /\ UnitBooks' /\ [Next]_vars
      => OneHolder'
  <2> SUFFICES ASSUME TypeOK, ReadBooks, WriteBooks, UnitBooks, OneHolder,
                      ReadBooks', WriteBooks', UnitBooks', [Next]_vars
               PROVE  OneHolder'
    OBVIOUS
  <2> DEFINE Held == sent = {pending_read, pending_write, soft.req} \ {NULL}
  <2> SUFFICES Held'
    <3>1. /\ pending_read' # NULL => pending_read' \notin {pending_write', soft'.req}
          /\ pending_write' # NULL => pending_write' # soft'.req
      BY DEF ReadBooks, WriteBooks
    <3>2. tbe'.remaining > 0 => pending_write' # NULL
      BY DEF WriteBooks, NoTbe
    <3>3. lib_OpenCnt' = 0 => sent' = {}
      BY DEF UnitBooks, Idle
    <3>4. QED BY <3>1, <3>2, <3>3 DEF OneHolder
  <2>a. Held
    BY DEF OneHolder
  <2> USE DEF libVars, unitVars, readVars, writeReg, softVars, recvVars,
              sendVars, histVars
  <2>1. CASE UNCHANGED vars
    BY <2>1, <2>a DEF vars
  <2>2. CASE LineByte
    BY <2>2, <2>a DEF LineByte
  <2>3. CASE SerdatMoves
    BY <2>3, <2>a DEF SerdatMoves
  <2>4. CASE Foreign
    BY <2>4, <2>a DEF Foreign
  <2>5. CASE RbfServer
    BY <2>5, <2>a DEF RbfServer
  <2>6. CASE TbeServer
    BY <2>6, <2>a DEF TbeServer
  <2>7. CASE SoftintBegin
    BY <2>7, <2>a DEF SoftintBegin, Idle
  <2>8. CASE CompleteReadTake
    BY <2>8, <2>a DEF CompleteReadTake, TakePending, Idle, ReadBooks
  <2>9. CASE CompleteReadCopy
    BY <2>9, <2>a DEF CompleteReadCopy
  <2>10. CASE CompleteReadTail
    BY <2>10, <2>a DEF CompleteReadTail
  <2>11. CASE CompleteReadReply
    BY <2>11, <2>a DEF CompleteReadReply, ReplyRequests, Idle, ReadBooks,
       WriteBooks, TypeOK
  <2>12. CASE CompleteWrite
    BY <2>12, <2>a DEF CompleteWrite, TakePendingWrite, TakenTbe,
       LeftInSerdat, ReplyRequests, Idle, ReadBooks, WriteBooks, TypeOK
  <2>13. CASE OpenFails
    BY <2>13, <2>a DEF OpenFails, TaskRuns, ResetUnit, Idle, UnitBooks
  <2>14. CASE OpenClaim
    BY <2>14, <2>a DEF OpenClaim, TaskRuns, ResetUnit, Idle, UnitBooks
  <2>15. CASE SettleBegin
    BY <2>15, <2>a DEF SettleBegin, TaskRuns, Idle
  <2>16. CASE SettleEnd
    BY <2>16, <2>a DEF SettleEnd, TaskRuns, DeviceOpened, Idle
  <2>17. CASE DeviceClose
    BY <2>17, <2>a DEF DeviceClose, TaskRuns, ReleasePaula, ReplyRequests,
       TakenTbe, LeftInSerdat, Idle
  <2>18. CASE DeviceExpunge
    BY <2>18, <2>a DEF DeviceExpunge, TaskRuns, Idle
  <2>19. CASE CmdQuery
    BY <2>19, <2>a DEF CmdQuery, Accepts, TaskRuns, Rearm, RearmedRx
  <2>20. CASE CmdSetparams
    BY <2>20, <2>a DEF CmdSetparams, Accepts, TaskRuns, Idle
  <2>21. CASE CmdFlush
    BY <2>21, <2>a DEF CmdFlush, Accepts, TaskRuns, TakenTbe, LeftInSerdat,
       CutShort, ReplyRequests, Idle, ReadBooks, WriteBooks, TypeOK
  <2>22. CASE WriteIntena
    BY <2>22, <2>a DEF WriteIntena, TaskRuns
  <2>23. CASE WriteIntreq
    BY <2>23, <2>a DEF WriteIntreq, TaskRuns
  <2>24. CASE AbortWrite
    BY <2>24, <2>a DEF AbortWrite, TaskRuns, TakePendingWrite, TakenTbe,
       LeftInSerdat, ReplyRequests, CutShort, Idle, ReadBooks, WriteBooks,
       TypeOK
  <2>25. CASE AbortRead
    BY <2>25, <2>a DEF AbortRead, TaskRuns, TakePending, ReplyRequests, Idle,
       ReadBooks, WriteBooks, TypeOK
  <2>26. ASSUME NEW r \in Readers, NEW n \in Lengths, CmdRead(r, n)
         PROVE  Held'
    BY <2>26, <2>a DEF CmdRead, Accepts, TaskRuns, Rearm, RearmedRx, Idle,
       ReadBooks, TypeOK
  <2>27. ASSUME NEW r \in Writers, NEW n \in Lengths \cup {0},
                CmdWrite(r, n)
         PROVE  Held'
    BY <2>27, <2>a DEF CmdWrite, Accepts, TaskRuns, Idle, WriteBooks, TypeOK
  <2>28. QED
    BY <2>1, <2>2, <2>3, <2>4, <2>5, <2>6, <2>7, <2>8, <2>9, <2>10, <2>11,
       <2>12, <2>13, <2>14, <2>15, <2>16, <2>17, <2>18, <2>19, <2>20, <2>21,
       <2>22, <2>23, <2>24, <2>25, <2>26, <2>27 DEF Next
<1>3. QED
  BY <1>1, <1>2, SerialTypeCorrect, SerialUnitCorrect, PTL DEF Spec

-----------------------------------------------------------------------------
\* While no unfinished transmission was left in Paula, the bytes of the pending
\* write are on the wire in order, in SERDAT, or still to be handed over by the
\* transmit handler, and one TBE at a time is under way.
THEOREM SerialWireCorrect == Spec => []WireBooks
<1> USE ConstantsAssumption DEF Requests, Lengths
<1>1. Init => WireBooks
  BY DEF Init, WireBooks
<1>2. /\ TypeOK /\ ReadBooks /\ WriteBooks /\ UnitBooks /\ WireBooks /\ [Next]_vars
      => WireBooks'
  <2> SUFFICES ASSUME TypeOK, ReadBooks, WriteBooks, UnitBooks, WireBooks,
                      [Next]_vars
               PROVE  WireBooks'
    OBVIOUS
  <2> USE DEF libVars, unitVars, readVars, writeReg, softVars, recvVars,
              sendVars, histVars
  <2>1. CASE UNCHANGED vars
    BY <2>1 DEF vars, TypeOK, WriteBooks, UnitBooks, WireBooks
  <2>2. CASE LineByte
    BY <2>2 DEF LineByte, TypeOK, WriteBooks, UnitBooks, WireBooks
  <2>3. CASE SerdatMoves
    BY <2>3 DEF SerdatMoves, TypeOK, WriteBooks, UnitBooks, WireBooks
  <2>4. CASE Foreign
    BY <2>4 DEF Foreign, TypeOK, WriteBooks, UnitBooks, WireBooks
  <2>5. CASE RbfServer
    BY <2>5 DEF RbfServer, TypeOK, WriteBooks, UnitBooks, WireBooks
  <2>6. CASE TbeServer
    <3>1. CASE tbe.remaining > 0
      <4>1. /\ tbe'.remaining = tbe.remaining - 1
            /\ tbe'.committed = tbe.committed + 1
            /\ serdat' = tbe.committed + 1
        BY <2>6, <3>1 DEF TbeServer, TypeOK
      <4>2. /\ intreq_tbe = 1 /\ intena_tbe = 1 /\ intreq_tbe' = 0
            /\ UNCHANGED <<claimed, leftover, unsent, intena_tbe, task, wire,
                           pending_write, write_soft_int, soft>>
        BY <2>6, <3>1 DEF TbeServer
      <4>3. tbe.committed \in Nat
        BY DEF TypeOK
      <4>4. QED BY <4>1, <4>2, <4>3, <3>1 DEF WireBooks, WriteBooks
    <3>2. CASE ~(tbe.remaining > 0)
      BY <2>6, <3>2 DEF TbeServer, TypeOK, WriteBooks, UnitBooks, WireBooks
    <3>3. QED BY <3>1, <3>2
  <2>7. CASE SoftintBegin
    BY <2>7 DEF SoftintBegin, TypeOK, WriteBooks, UnitBooks, WireBooks, Idle
  <2>8. CASE CompleteReadTake
    BY <2>8 DEF CompleteReadTake, TakePending, TypeOK, WriteBooks, UnitBooks,
       WireBooks, Idle
  <2>9. CASE CompleteReadCopy
    BY <2>9 DEF CompleteReadCopy, TypeOK, WriteBooks, UnitBooks, WireBooks
  <2>10. CASE CompleteReadTail
    BY <2>10 DEF CompleteReadTail, TypeOK, WriteBooks, UnitBooks, WireBooks
  <2>11. CASE CompleteReadReply
    BY <2>11 DEF CompleteReadReply, ReplyRequests, TypeOK, WriteBooks,
       UnitBooks, WireBooks, Idle
  <2>12. CASE CompleteWrite
    BY <2>12, SMTT(40) DEF CompleteWrite, TakePendingWrite, TakenTbe, LeftInSerdat,
       ReplyRequests, TypeOK, WriteBooks, UnitBooks, WireBooks, Idle, NoTbe
  <2>13. CASE OpenFails
    BY <2>13 DEF OpenFails, TaskRuns, ResetUnit, TypeOK, WriteBooks,
       UnitBooks, WireBooks, Idle, NoTbe
  <2>14. CASE OpenClaim
    BY <2>14 DEF OpenClaim, TaskRuns, ResetUnit, TypeOK, WriteBooks,
       UnitBooks, WireBooks, Idle, NoTbe
  <2>15. CASE SettleBegin
    BY <2>15 DEF SettleBegin, TaskRuns, TypeOK, WriteBooks, UnitBooks,
       WireBooks, Idle
  <2>16. CASE SettleEnd
    BY <2>16 DEF SettleEnd, TaskRuns, DeviceOpened, TypeOK, WriteBooks,
       UnitBooks, WireBooks, Idle
  <2>17. CASE DeviceClose
    BY <2>17 DEF DeviceClose, TaskRuns, ReleasePaula, ReplyRequests,
       TakenTbe, LeftInSerdat, TypeOK, WriteBooks, UnitBooks, WireBooks,
       Idle, NoTbe
  <2>18. CASE DeviceExpunge
    BY <2>18 DEF DeviceExpunge, TaskRuns, TypeOK, WriteBooks, UnitBooks,
       WireBooks, Idle
  <2>19. CASE CmdQuery
    BY <2>19 DEF CmdQuery, Accepts, TaskRuns, Rearm, RearmedRx, TypeOK,
       WriteBooks, UnitBooks, WireBooks
  <2>20. CASE CmdSetparams
    BY <2>20 DEF CmdSetparams, Accepts, TaskRuns, TypeOK, WriteBooks,
       UnitBooks, WireBooks, Idle
  <2>21. CASE CmdFlush
    <3>1. CASE pending_write # NULL
      BY <2>21, <3>1 DEF CmdFlush, CutShort, WireBooks
    <3>2. CASE pending_write = NULL
      <4>1. /\ soft = Idle /\ write_soft_int = 0 /\ task = "idle"
            /\ UNCHANGED <<claimed, leftover, unsent, intena_tbe, intreq_tbe, tbe,
                           task, soft, write_soft_int>>
            /\ serdat' = LeftInSerdat /\ wire' = <<>> /\ tbe = NoTbe
            /\ claimed # {} => intena_tbe = 0
        BY <2>21, <3>2 DEF CmdFlush, Accepts, TaskRuns, CutShort, WriteBooks, TypeOK
      <4>2. QED BY <4>1 DEF LeftInSerdat, NoTbe, Idle, WireBooks
    <3>3. QED BY <3>1, <3>2
  <2>22. CASE WriteIntena
    BY <2>22 DEF WriteIntena, TaskRuns, TypeOK, WriteBooks, UnitBooks,
       WireBooks
  <2>23. CASE WriteIntreq
    BY <2>23 DEF WriteIntreq, TaskRuns, TypeOK, WriteBooks, UnitBooks,
       WireBooks
  <2>24. CASE AbortWrite
    BY <2>24 DEF AbortWrite, TaskRuns, TakePendingWrite, TakenTbe,
       LeftInSerdat, ReplyRequests, CutShort, TypeOK, WriteBooks, UnitBooks,
       WireBooks, Idle, NoTbe
  <2>25. CASE AbortRead
    BY <2>25 DEF AbortRead, TaskRuns, TakePending, ReplyRequests, TypeOK,
       WriteBooks, UnitBooks, WireBooks, Idle
  <2>26. ASSUME NEW r \in Readers, NEW n \in Lengths, CmdRead(r, n)
         PROVE  WireBooks'
    BY <2>26 DEF CmdRead, Accepts, TaskRuns, Rearm, RearmedRx, TypeOK,
       WriteBooks, UnitBooks, WireBooks, Idle
  <2>27. ASSUME NEW r \in Writers, NEW n \in Lengths \cup {0},
                CmdWrite(r, n)
         PROVE  WireBooks'
    BY <2>27 DEF CmdWrite, Accepts, TaskRuns, TypeOK, WriteBooks, UnitBooks,
       WireBooks, Idle
  <2>28. QED
    BY <2>1, <2>2, <2>3, <2>4, <2>5, <2>6, <2>7, <2>8, <2>9, <2>10, <2>11,
       <2>12, <2>13, <2>14, <2>15, <2>16, <2>17, <2>18, <2>19, <2>20, <2>21,
       <2>22, <2>23, <2>24, <2>25, <2>26, <2>27 DEF Next
<1>3. QED
  BY <1>1, <1>2, SerialTypeCorrect, SerialUnitCorrect, PTL DEF Spec

\* WriteOnWire: a write answered without error has all its bytes on the wire, in
\* order, unless an unfinished transmission was left in Paula.
THEOREM WrittenOnWire == Spec => []WriteOnWire
<1>1. UnitBooks /\ WireBooks => WriteOnWire
  BY DEF UnitBooks, WireBooks, WriteOnWire
<1>2. QED BY <1>1, SerialUnitCorrect, SerialWireCorrect, PTL

-----------------------------------------------------------------------------
\* A new ring is empty and has no overrun latched.
LEMMA EmptyRing == RxInit.hw = 0 /\ RxInit.sw = 0 /\ RxCount(RxInit) = 0
<1>1. RxInit \in Rings /\ RxInit.head = 0 /\ RxInit.tail = 0
  BY InitTypes DEF RxInit
<1>2. Distance(0, 0) = 0
  BY RingAssumption DEF Distance
<1>3. QED BY <1>1, <1>2, RingShape DEF RxInit

\* complete_read is caused only when the ring holds what it will take, and the
\* receive handler only adds to that.
THEOREM SerialCausedCorrect == Spec => []CausedBooks
<1> USE ConstantsAssumption DEF Requests, Lengths
<1>1. Init => CausedBooks
  BY DEF Init, CausedBooks, Idle
<1>2. /\ TypeOK /\ ReadBooks /\ UnitBooks /\ CausedBooks /\ [Next]_vars
      => CausedBooks'
  <2> SUFFICES ASSUME TypeOK, ReadBooks, UnitBooks, CausedBooks, [Next]_vars
               PROVE  CausedBooks'
    OBVIOUS
  <2> USE DEF libVars, unitVars, readVars, writeReg, softVars, recvVars,
              sendVars, histVars
  <2>1. CASE UNCHANGED vars
    BY <2>1 DEF vars, CausedBooks
  <2>2. CASE LineByte
    BY <2>2 DEF LineByte, CausedBooks
  <2>3. CASE SerdatMoves
    BY <2>3 DEF SerdatMoves, CausedBooks
  <2>4. CASE Foreign
    BY <2>4 DEF Foreign, CausedBooks
  <2>5. CASE RbfServer
    <3>1. /\ rx' \in Rings /\ RxCount(rx') >= RxCount(rx)
          /\ RxCount(rx) \in Nat /\ RxCount(rx') \in Nat
      BY <2>5, DrainBooks, RingShape, RingAssumption DEF RbfServer, TypeOK, Slots
    <3>2. /\ soft_int' = IF pending_need > 0 /\ RxCount(rx') >= pending_need THEN 1
                        ELSE soft_int
          /\ UNCHANGED <<soft, pending_read, pending_need>>
      BY <2>5 DEF RbfServer
    <3>3. pending_need \in Nat /\ soft.need \in Nat
      BY DEF TypeOK
    <3>4. QED BY <3>1, <3>2, <3>3 DEF CausedBooks, ReadBooks
  <2>6. CASE TbeServer
    BY <2>6 DEF TbeServer, CausedBooks
  <2>7. CASE SoftintBegin
    BY <2>7 DEF SoftintBegin, CausedBooks, Idle
  <2>8. CASE CompleteReadTake
    BY <2>8 DEF CompleteReadTake, TakePending, CausedBooks, ReadBooks, Idle
  <2>9. CASE CompleteReadCopy
    <3>1. soft.at = "copy" /\ soft'.at = "copy" /\ soft'.need = soft.need
      BY <2>9 DEF CompleteReadCopy, TypeOK
    <3>2. QED BY <2>9, <3>1 DEF CompleteReadCopy, CausedBooks
  <2>10. CASE CompleteReadTail
    <3>1. soft.at = "copy" /\ soft'.at = "reply" /\ UNCHANGED pending_read
      BY <2>10 DEF CompleteReadTail, TypeOK
    <3>2. QED BY <3>1 DEF CausedBooks, ReadBooks
  <2>11. CASE CompleteReadReply
    BY <2>11 DEF CompleteReadReply, ReplyRequests, CausedBooks, Idle
  <2>12. CASE CompleteWrite
    BY <2>12 DEF CompleteWrite, TakePendingWrite, TakenTbe, LeftInSerdat,
       ReplyRequests, CausedBooks, Idle
  <2>13. CASE OpenFails
    BY <2>13 DEF OpenFails, TaskRuns, ResetUnit, CausedBooks, Idle
  <2>14. CASE OpenClaim
    BY <2>14 DEF OpenClaim, TaskRuns, ResetUnit, CausedBooks, Idle
  <2>15. CASE SettleBegin
    BY <2>15 DEF SettleBegin, TaskRuns, CausedBooks, Idle
  <2>16. CASE SettleEnd
    BY <2>16 DEF SettleEnd, TaskRuns, DeviceOpened, CausedBooks, Idle
  <2>17. CASE DeviceClose
    BY <2>17 DEF DeviceClose, TaskRuns, ReleasePaula, ReplyRequests,
       TakenTbe, LeftInSerdat, CausedBooks, Idle
  <2>18. CASE DeviceExpunge
    BY <2>18 DEF DeviceExpunge, TaskRuns, CausedBooks, Idle
  <2>19. CASE CmdQuery
    BY <2>19 DEF CmdQuery, Accepts, TaskRuns, Rearm, RearmedRx, CausedBooks,
       Idle
  <2>20. CASE CmdSetparams
    BY <2>20 DEF CmdSetparams, Accepts, TaskRuns, CausedBooks, Idle
  <2>21. CASE CmdFlush
    BY <2>21 DEF CmdFlush, Accepts, TaskRuns, TakenTbe, LeftInSerdat,
       CutShort, ReplyRequests, CausedBooks, Idle
  <2>22. CASE WriteIntena
    BY <2>22 DEF WriteIntena, TaskRuns, CausedBooks, Idle
  <2>23. CASE WriteIntreq
    BY <2>23 DEF WriteIntreq, TaskRuns, CausedBooks, Idle
  <2>24. CASE AbortWrite
    BY <2>24 DEF AbortWrite, TaskRuns, TakePendingWrite, TakenTbe,
       LeftInSerdat, ReplyRequests, CutShort, CausedBooks, Idle
  <2>25. CASE AbortRead
    BY <2>25 DEF AbortRead, TaskRuns, TakePending, ReplyRequests,
       CausedBooks, Idle
  <2>26. ASSUME NEW r \in Readers, NEW n \in Lengths, CmdRead(r, n)
         PROVE  CausedBooks'
    BY <2>26 DEF CmdRead, Accepts, TaskRuns, Rearm, RearmedRx, CausedBooks,
       Idle, TypeOK
  <2>27. ASSUME NEW r \in Writers, NEW n \in Lengths \cup {0},
                CmdWrite(r, n)
         PROVE  CausedBooks'
    BY <2>27 DEF CmdWrite, Accepts, TaskRuns, CausedBooks, Idle
  <2>28. QED
    BY <2>1, <2>2, <2>3, <2>4, <2>5, <2>6, <2>7, <2>8, <2>9, <2>10, <2>11,
       <2>12, <2>13, <2>14, <2>15, <2>16, <2>17, <2>18, <2>19, <2>20, <2>21,
       <2>22, <2>23, <2>24, <2>25, <2>26, <2>27 DEF Next
<1>3. QED
  BY <1>1, <1>2, SerialTypeCorrect, SerialUnitCorrect, PTL DEF Spec

\* A drain of the receive register into the ring keeps the stream.
LEMMA DrainStream ==
  ASSUME TypeOK, StreamBooks,
         rx' = RxDrain(rx, serdatr), serdatr' = NoWord,
         UNCHANGED <<claimed, soft, expected, missed, arrived>>
  PROVE  StreamBooks'
<1>1. serdatr'.byte = 0 => serdatr' = NoWord
  OBVIOUS
<1>2. ASSUME claimed # {}, rx'.hw = 0, rx'.sw = 0
      PROVE  /\ \A i \in 1..Len(soft.data) : soft.data[i] = expected + i - 1
             /\ \A i \in 1..RxCount(rx') : RxSlot(rx', i) = Base + i - 1
             /\ missed = 0 => arrived = Base + RxCount(rx') - 1
  <2>1. /\ rx \in Rings /\ serdatr \in Words /\ rx' \in Rings
        /\ Base \in Nat /\ arrived \in Nat
    BY DrainBooks DEF TypeOK, Base
  <2>2. /\ rx.hw = 0 /\ rx.sw = 0
        /\ serdatr.byte = 0 => rx' = rx
        /\ serdatr.byte # 0 =>
             /\ serdatr.ovrun = 0
             /\ RxCount(rx') = RxCount(rx) + 1
             /\ \A i \in 1..RxCount(rx) : RxSlot(rx', i) = RxSlot(rx, i)
             /\ RxSlot(rx', RxCount(rx) + 1) = serdatr.byte
    BY <1>2, <2>1, DrainBooks
  <2>3. RxCount(rx) \in Nat
    BY <2>1, RingShape, RingAssumption DEF Slots
  <2>4. /\ \A i \in 1..Len(soft.data) : soft.data[i] = expected + i - 1
        /\ \A i \in 1..RxCount(rx) : RxSlot(rx, i) = Base + i - 1
        /\ serdatr # NoWord /\ serdatr.ovrun = 0 =>
             /\ serdatr.byte = Base + RxCount(rx)
             /\ missed = 0 => arrived = serdatr.byte
        /\ serdatr = NoWord /\ missed = 0 => arrived = Base + RxCount(rx) - 1
        /\ serdatr.byte = 0 => serdatr = NoWord
    BY <1>2, <2>2 DEF StreamBooks
  <2>5. CASE serdatr.byte = 0
    BY <2>2, <2>4, <2>5
  <2>6. CASE serdatr.byte # 0
    <3>1. serdatr # NoWord /\ serdatr.ovrun = 0
      BY <2>2, <2>6 DEF NoWord
    <3>2. serdatr.byte = Base + RxCount(rx) /\ (missed = 0 => arrived = serdatr.byte)
      BY <2>4, <3>1
    <3>3. ASSUME NEW i \in 1..RxCount(rx') PROVE RxSlot(rx', i) = Base + i - 1
      <4>1. i \in 1..RxCount(rx) \/ i = RxCount(rx) + 1
        BY <2>2, <2>3, <2>6
      <4>2. CASE i \in 1..RxCount(rx)
        BY <2>2, <2>4, <2>6, <4>2
      <4>3. CASE i = RxCount(rx) + 1
        BY <2>1, <2>2, <2>3, <2>6, <3>2, <4>3
      <4>4. QED BY <4>1, <4>2, <4>3
    <3>4. missed = 0 => arrived = Base + RxCount(rx') - 1
      BY <2>1, <2>2, <2>3, <2>6, <3>2
    <3>5. QED BY <2>4, <3>3, <3>4
  <2>7. QED BY <2>5, <2>6
<1>3. Base' = Base
  BY DEF Base
<1>4. QED BY <1>1, <1>2, <1>3 DEF StreamBooks

\* A cleared ring starts a new stream.
LEMMA ClearStream ==
  ASSUME rx' = RxInit, serdatr' = NoWord, arrived' = 0, expected' = 1,
         soft' = Idle
  PROVE  StreamBooks'
<1>1. Base' = 1 /\ soft'.data = <<>>
  BY DEF Base, Idle
<1>2. QED BY <1>1, EmptyRing DEF StreamBooks, NoWord

\* While no overrun is latched, the bytes that complete_read has copied, those in
\* the ring and the one in the receive register follow each other as the line
\* delivered them: the handler may store during the copy.
THEOREM SerialStreamCorrect == Spec => []StreamBooks
<1> USE ConstantsAssumption DEF Requests, Lengths
<1>1. Init => StreamBooks
  BY DEF Init, StreamBooks
<1>2. /\ TypeOK /\ ReadBooks /\ UnitBooks /\ CausedBooks /\ StreamBooks
      /\ [Next]_vars
      => StreamBooks'
  <2> SUFFICES ASSUME TypeOK, ReadBooks, UnitBooks, CausedBooks, StreamBooks,
                      [Next]_vars
               PROVE  StreamBooks'
    OBVIOUS
  <2>0. ASSUME UNCHANGED <<claimed, rx, serdatr, missed, arrived, expected>>,
               \/ UNCHANGED soft
               \/ soft'.data = <<>> /\ soft.at # "reply" /\ soft'.at # "reply"
        PROVE  StreamBooks'
    <3>1. Base' = Base
      BY <2>0 DEF Base
    <3>2. UNCHANGED soft \/ soft'.data = <<>>
      BY <2>0
    <3>3. QED BY <2>0, <3>1, <3>2 DEF StreamBooks
  <2> USE DEF libVars, unitVars, readVars, writeReg, softVars, recvVars,
              sendVars, histVars
  <2>1. CASE UNCHANGED vars
    <3>1. UNCHANGED <<claimed, rx, serdatr, missed, arrived, expected, soft>>
      BY <2>1 DEF vars
    <3>2. QED BY <3>1, <2>0
  <2>2. CASE LineByte
    <3>1. Base' = Base /\ Base \in Nat /\ arrived \in Nat /\ RxCount(rx) \in Nat
      BY <2>2, RingShape, RingAssumption DEF LineByte, Base, TypeOK, Slots
    <3>2. /\ arrived' = arrived + 1
          /\ UNCHANGED <<claimed, rx, soft, expected>>
      BY <2>2 DEF LineByte
    <3>3. CASE serdatr = NoWord
      <4>1. /\ serdatr'.byte = arrived + 1 /\ serdatr'.ovrun = missed /\ missed' = 0
        BY <2>2, <3>3 DEF LineByte
      <4>2. missed \in {0, 1} /\ serdatr' # NoWord
        BY <3>1, <4>1 DEF TypeOK, NoWord
      <4>3. QED BY <3>1, <3>2, <3>3, <4>1, <4>2 DEF StreamBooks
    <3>4. CASE serdatr # NoWord
      <4>1. missed' = 1 /\ serdatr' = serdatr
        BY <2>2, <3>4 DEF LineByte
      <4>2. QED BY <3>1, <3>2, <3>4, <4>1 DEF StreamBooks
    <3>5. QED BY <3>3, <3>4
  <2>3. CASE SerdatMoves
    <3>1. UNCHANGED <<claimed, rx, serdatr, missed, arrived, expected, soft>>
      BY <2>3 DEF SerdatMoves
    <3>2. QED BY <3>1, <2>0
  <2>4. CASE Foreign
    BY <2>4 DEF Foreign, StreamBooks, NoWord
  <2>5. CASE RbfServer
    <3>1. /\ rx' = RxDrain(rx, serdatr) /\ serdatr' = NoWord
          /\ UNCHANGED <<claimed, soft, expected, missed, arrived>>
      BY <2>5 DEF RbfServer
    <3>2. QED BY <3>1, DrainStream
  <2>6. CASE TbeServer
    <3>1. UNCHANGED <<claimed, rx, serdatr, missed, arrived, expected, soft>>
      BY <2>6 DEF TbeServer
    <3>2. QED BY <3>1, <2>0
  <2>7. CASE SoftintBegin
    <3>1. UNCHANGED <<claimed, rx, serdatr, missed, arrived, expected>>
      BY <2>7 DEF SoftintBegin
    <3>2. soft.at = "idle" /\ soft'.at # "reply" /\ soft'.data = <<>>
      BY <2>7 DEF SoftintBegin, Idle
    <3>3. QED BY <3>1, <3>2, <2>0
  <2>8. CASE CompleteReadTake
    <3>1. UNCHANGED <<claimed, rx, serdatr, missed, arrived, expected>>
      BY <2>8 DEF CompleteReadTake
    <3>2. soft.at = "read" /\ soft'.at # "reply" /\ soft'.data = <<>>
      BY <2>8 DEF CompleteReadTake, Idle
    <3>3. QED BY <3>1, <3>2, <2>0
  <2>9. CASE CompleteReadCopy
    <3>1. /\ UNCHANGED <<claimed, rx, serdatr, missed, arrived, expected>>
          /\ soft.at = "copy" /\ Len(soft.data) < soft.need
      BY <2>9 DEF CompleteReadCopy
    <3>2. soft'.at = "copy" /\ soft'.data = Append(soft.data, RxSlot(rx, Len(soft.data) + 1))
      BY <2>9 DEF CompleteReadCopy, TypeOK
    <3>3. Base' = expected /\ Base = expected /\ expected \in Nat
      BY <3>1, <3>2 DEF Base, TypeOK
    <3>4. soft.data \in Seq(Nat) /\ Len(soft.data) + 1 \in 1..RxCount(rx)
      BY <3>1, RingShape, RingAssumption DEF TypeOK, CausedBooks, Slots
    <3>5. ASSUME claimed # {}, rx.hw = 0, rx.sw = 0
          PROVE  \A i \in 1..Len(soft'.data) : soft'.data[i] = expected + i - 1
      <4>1. RxSlot(rx, Len(soft.data) + 1) = expected + (Len(soft.data) + 1) - 1
        BY <3>3, <3>4, <3>5 DEF StreamBooks
      <4>2. \A i \in 1..Len(soft.data) : soft.data[i] = expected + i - 1
        BY <3>5 DEF StreamBooks
      <4>3. QED BY <3>2, <3>4, <4>1, <4>2
    <3>6. QED BY <3>1, <3>3, <3>5 DEF StreamBooks
  <2>10. CASE CompleteReadTail
    <3>1. /\ UNCHANGED <<claimed, serdatr, missed, arrived, expected>>
          /\ soft.at = "copy" /\ rx' = RxTake(rx, soft.need)
      BY <2>10 DEF CompleteReadTail
    <3>2. soft'.at = "reply" /\ soft'.data = soft.data /\ soft'.need = soft.need
      BY <2>10 DEF CompleteReadTail, TypeOK
    <3>3. /\ Base' = expected + soft.need /\ Base = expected
          /\ expected \in Nat /\ soft.need \in Nat /\ rx \in Rings /\ arrived \in Nat
      BY <3>1, <3>2 DEF Base, TypeOK
    <3>4. /\ soft.need <= RxCount(rx) /\ RxCount(rx) \in Nat
      BY <3>1, <3>3, RingShape, RingAssumption DEF CausedBooks, Slots
    <3>5. /\ rx'.hw = rx.hw /\ rx'.sw = rx.sw
          /\ RxCount(rx') = RxCount(rx) - soft.need
          /\ \A i \in 1..(RxCount(rx) - soft.need) :
               RxSlot(rx', i) = RxSlot(rx, soft.need + i)
      BY <3>1, <3>3, <3>4, TakeBooks
    <3>6. ASSUME claimed # {}, rx.hw = 0, rx.sw = 0, NEW i \in 1..RxCount(rx')
          PROVE  RxSlot(rx', i) = Base' + i - 1
      <4>1. soft.need + i \in 1..RxCount(rx)
        BY <3>3, <3>4, <3>5
      <4>2. RxSlot(rx, soft.need + i) = expected + (soft.need + i) - 1
        BY <3>3, <3>6, <4>1 DEF StreamBooks
      <4>3. QED BY <3>3, <3>4, <3>5, <4>2
    <3>7. Base' + RxCount(rx') = Base + RxCount(rx)
      BY <3>3, <3>4, <3>5
    <3>8. ASSUME claimed # {}, rx.hw = 0, rx.sw = 0
          PROVE  /\ \A i \in 1..Len(soft.data) : soft.data[i] = expected + i - 1
                 /\ serdatr # NoWord /\ serdatr.ovrun = 0 =>
                      /\ serdatr.byte = Base' + RxCount(rx')
                      /\ missed = 0 => arrived = serdatr.byte
                 /\ serdatr = NoWord /\ missed = 0 =>
                      arrived = Base' + RxCount(rx') - 1
      <4>1. /\ \A i \in 1..Len(soft.data) : soft.data[i] = expected + i - 1
            /\ serdatr # NoWord /\ serdatr.ovrun = 0 =>
                 /\ serdatr.byte = Base + RxCount(rx)
                 /\ missed = 0 => arrived = serdatr.byte
            /\ serdatr = NoWord /\ missed = 0 =>
                 arrived = Base + RxCount(rx) - 1
        BY <3>8 DEF StreamBooks
      <4>2. serdatr.byte = Base + RxCount(rx) =>
              serdatr.byte = Base' + RxCount(rx')
        BY <3>7
      <4>3. arrived = Base + RxCount(rx) - 1 => arrived = Base' + RxCount(rx') - 1
        BY <3>3, <3>4, <3>5
      <4>4. QED BY <4>1, <4>2, <4>3
    <3>9. serdatr.byte = 0 => serdatr = NoWord
      BY DEF StreamBooks
    <3>10. QED BY <3>1, <3>2, <3>5, <3>6, <3>8, <3>9 DEF StreamBooks
  <2>11. CASE CompleteReadReply
    <3>1. /\ UNCHANGED <<claimed, rx, serdatr, missed, arrived>>
          /\ soft.at = "reply" /\ soft' = Idle
          /\ expected' = soft.data[soft.need] + 1
      BY <2>11 DEF CompleteReadReply
    <3>2. /\ expected \in Nat /\ soft.need \in Nat /\ soft.need > 0
          /\ Len(soft.data) = soft.need
      BY <3>1 DEF TypeOK, ReadBooks
    <3>3. Base = expected + soft.need
      BY <3>1 DEF Base
    <3>4. expected' \in Nat
      BY <3>1, <3>2 DEF TypeOK
    <3>5. Base' = expected' /\ soft'.data = <<>>
      BY <3>1, <3>4 DEF Base, Idle
    <3>6. ASSUME claimed # {}, rx.hw = 0, rx.sw = 0
          PROVE  Base' = Base
      <4>1. soft.data[soft.need] = expected + soft.need - 1
        <5>1. \A i \in 1..Len(soft.data) : soft.data[i] = expected + i - 1
          BY <3>6 DEF StreamBooks
        <5>2. soft.need \in 1..Len(soft.data)
          BY <3>2
        <5>3. QED BY <5>1, <5>2
      <4>2. QED BY <3>1, <3>2, <3>3, <3>5, <4>1
    <3>7. QED BY <3>1, <3>5, <3>6 DEF StreamBooks
  <2>12. CASE CompleteWrite
    <3>1. UNCHANGED <<claimed, rx, serdatr, missed, arrived, expected>>
      BY <2>12 DEF CompleteWrite
    <3>2. soft.at = "write" /\ soft'.at # "reply" /\ soft'.data = <<>>
      BY <2>12 DEF CompleteWrite, Idle
    <3>3. QED BY <3>1, <3>2, <2>0
  <2>13. CASE OpenFails
    <3>1. claimed = {} /\ UNCHANGED <<claimed, serdatr>>
      BY <2>13 DEF OpenFails, UnitBooks
    <3>2. QED BY <3>1 DEF StreamBooks
  <2>14. CASE OpenClaim
    <3>1. /\ rx' = RxInit /\ serdatr' = NoWord /\ arrived' = 0 /\ expected' = 1
          /\ soft' = Idle
      BY <2>14 DEF OpenClaim, TaskRuns, ResetUnit, UnitBooks
    <3>2. QED BY <3>1, ClearStream
  <2>15. CASE SettleBegin
    <3>1. /\ rx' = RxDrain(rx, serdatr) /\ serdatr' = NoWord
          /\ UNCHANGED <<claimed, soft, expected, missed, arrived>>
      BY <2>15 DEF SettleBegin
    <3>2. QED BY <3>1, DrainStream
  <2>16. CASE SettleEnd
    <3>1. /\ rx' = RxInit /\ serdatr' = NoWord /\ arrived' = 0 /\ expected' = 1
          /\ soft' = Idle
      BY <2>16 DEF SettleEnd, TaskRuns, RxClear
    <3>2. QED BY <3>1, ClearStream
  <2>17. CASE DeviceClose
    BY <2>17 DEF DeviceClose, TaskRuns, ReleasePaula, ReplyRequests,
       TakenTbe, LeftInSerdat, StreamBooks, NoWord
  <2>18. CASE DeviceExpunge
    <3>1. UNCHANGED <<claimed, rx, serdatr, missed, arrived, expected, soft>>
      BY <2>18 DEF DeviceExpunge
    <3>2. QED BY <3>1, <2>0
  <2>19. CASE CmdQuery
    <3>1. CASE receive_armed = 1
      <4>1. UNCHANGED <<claimed, rx, serdatr, missed, arrived, expected, soft>>
        BY <2>19, <3>1 DEF CmdQuery, Rearm, RearmedRx
      <4>2. QED BY <4>1, <2>0
    <3>2. CASE receive_armed # 1
      <4>1. /\ rx' = RxDrain(rx, serdatr) /\ serdatr' = NoWord
            /\ UNCHANGED <<claimed, soft, expected, missed, arrived>>
        BY <2>19, <3>2 DEF CmdQuery, Rearm, RearmedRx
      <4>2. QED BY <4>1, DrainStream
    <3>3. QED BY <3>1, <3>2
  <2>20. CASE CmdSetparams
    <3>1. /\ rx' = RxDrain(rx, serdatr) /\ serdatr' = NoWord
          /\ UNCHANGED <<claimed, soft, expected, missed, arrived>>
      BY <2>20 DEF CmdSetparams
    <3>2. QED BY <3>1, DrainStream
  <2>21. CASE CmdFlush
    <3>1. /\ rx' = RxInit /\ serdatr' = NoWord /\ arrived' = 0 /\ expected' = 1
          /\ soft' = Idle
      BY <2>21 DEF CmdFlush, Accepts, TaskRuns, RxClear
    <3>2. QED BY <3>1, ClearStream
  <2>22. CASE WriteIntena
    <3>1. UNCHANGED <<claimed, rx, serdatr, missed, arrived, expected, soft>>
      BY <2>22 DEF WriteIntena
    <3>2. QED BY <3>1, <2>0
  <2>23. CASE WriteIntreq
    <3>1. UNCHANGED <<claimed, rx, serdatr, missed, arrived, expected, soft>>
      BY <2>23 DEF WriteIntreq
    <3>2. QED BY <3>1, <2>0
  <2>24. CASE AbortWrite
    <3>1. UNCHANGED <<claimed, rx, serdatr, missed, arrived, expected, soft>>
      BY <2>24 DEF AbortWrite
    <3>2. QED BY <3>1, <2>0
  <2>25. CASE AbortRead
    <3>1. UNCHANGED <<claimed, rx, serdatr, missed, arrived, expected, soft>>
      BY <2>25 DEF AbortRead
    <3>2. QED BY <3>1, <2>0
  <2>26. ASSUME NEW r \in Readers, NEW n \in Lengths, CmdRead(r, n)
         PROVE  StreamBooks'
    <3>1. CASE receive_armed = 1
      <4>1. UNCHANGED <<claimed, rx, serdatr, missed, arrived, expected, soft>>
        BY <2>26, <3>1 DEF CmdRead, Rearm, RearmedRx
      <4>2. QED BY <4>1, <2>0
    <3>2. CASE receive_armed # 1
      <4>1. /\ rx' = RxDrain(rx, serdatr) /\ serdatr' = NoWord
            /\ UNCHANGED <<claimed, soft, expected, missed, arrived>>
        BY <2>26, <3>2 DEF CmdRead, Rearm, RearmedRx
      <4>2. QED BY <4>1, DrainStream
    <3>3. QED BY <3>1, <3>2
  <2>27. ASSUME NEW r \in Writers, NEW n \in Lengths \cup {0},
                CmdWrite(r, n)
         PROVE  StreamBooks'
    <3>1. /\ rx' = RxInit /\ serdatr' = NoWord /\ arrived' = 0 /\ expected' = 1
          /\ soft' = Idle
      BY <2>27 DEF CmdWrite, Accepts, TaskRuns, RxClear
    <3>2. QED BY <3>1, ClearStream
  <2>28. QED
    BY <2>1, <2>2, <2>3, <2>4, <2>5, <2>6, <2>7, <2>8, <2>9, <2>10, <2>11,
       <2>12, <2>13, <2>14, <2>15, <2>16, <2>17, <2>18, <2>19, <2>20, <2>21,
       <2>22, <2>23, <2>24, <2>25, <2>26, <2>27 DEF Next
<1>3. QED
  BY <1>1, <1>2, SerialTypeCorrect, SerialUnitCorrect, SerialCausedCorrect, PTL
     DEF Spec

\* GapsAreReported: a read whose bytes do not follow those of the read before it
\* is answered with OVERRUN in io_Status, for every ring size.
THEOREM GapsReported == Spec => []GapsAreReported
<1>1. Init => GapsAreReported
  BY DEF Init, GapsAreReported
<1>2. /\ TypeOK /\ ReadBooks /\ UnitBooks /\ StreamBooks /\ GapsAreReported
      /\ [Next]_vars
      => GapsAreReported'
  <2> SUFFICES ASSUME TypeOK, ReadBooks, UnitBooks, StreamBooks, GapsAreReported,
                      [Next]_vars
               PROVE  GapsAreReported'
    OBVIOUS
  <2> USE DEF libVars, unitVars, readVars, writeReg, softVars, recvVars,
              sendVars, histVars, GapsAreReported
  <2>1. CASE UNCHANGED vars
    BY <2>1 DEF vars
  <2>2. CASE LineByte
    BY <2>2 DEF LineByte
  <2>3. CASE SerdatMoves
    BY <2>3 DEF SerdatMoves
  <2>4. CASE Foreign
    BY <2>4 DEF Foreign
  <2>5. CASE RbfServer
    BY <2>5 DEF RbfServer
  <2>6. CASE TbeServer
    BY <2>6 DEF TbeServer
  <2>7. CASE SoftintBegin
    BY <2>7 DEF SoftintBegin
  <2>8. CASE CompleteReadTake
    BY <2>8 DEF CompleteReadTake, TakePending
  <2>9. CASE CompleteReadCopy
    BY <2>9 DEF CompleteReadCopy
  <2>10. CASE CompleteReadTail
    BY <2>10 DEF CompleteReadTail
  <2>11. CASE CompleteReadReply
    <3>1. claimed # {} /\ soft.at = "reply"
      BY <2>11 DEF CompleteReadReply, UnitBooks, Idle
    <3>2. CASE rx.hw = 0 /\ rx.sw = 0
      <4>1. \A i \in 1..soft.need : soft.data[i] = expected + i - 1
        BY <3>1, <3>2 DEF StreamBooks, ReadBooks
      <4>2. QED BY <2>11, <4>1 DEF CompleteReadReply
    <3>3. CASE ~(rx.hw = 0 /\ rx.sw = 0)
      BY <2>11, <3>3 DEF CompleteReadReply, RxOverrun, TypeOK, Rings
    <3>4. QED BY <3>2, <3>3
  <2>12. CASE CompleteWrite
    BY <2>12 DEF CompleteWrite, TakePendingWrite, TakenTbe, LeftInSerdat,
       ReplyRequests
  <2>13. CASE OpenFails
    BY <2>13 DEF OpenFails, TaskRuns, ResetUnit
  <2>14. CASE OpenClaim
    BY <2>14 DEF OpenClaim, TaskRuns, ResetUnit
  <2>15. CASE SettleBegin
    BY <2>15 DEF SettleBegin, TaskRuns
  <2>16. CASE SettleEnd
    BY <2>16 DEF SettleEnd, TaskRuns, DeviceOpened
  <2>17. CASE DeviceClose
    BY <2>17 DEF DeviceClose, TaskRuns, ReleasePaula, ReplyRequests,
       TakenTbe, LeftInSerdat
  <2>18. CASE DeviceExpunge
    BY <2>18 DEF DeviceExpunge, TaskRuns
  <2>19. CASE CmdQuery
    BY <2>19 DEF CmdQuery, Accepts, TaskRuns, Rearm, RearmedRx
  <2>20. CASE CmdSetparams
    BY <2>20 DEF CmdSetparams, Accepts, TaskRuns
  <2>21. CASE CmdFlush
    BY <2>21 DEF CmdFlush, Accepts, TaskRuns, TakenTbe, LeftInSerdat,
       CutShort, ReplyRequests
  <2>22. CASE WriteIntena
    BY <2>22 DEF WriteIntena, TaskRuns
  <2>23. CASE WriteIntreq
    BY <2>23 DEF WriteIntreq, TaskRuns
  <2>24. CASE AbortWrite
    BY <2>24 DEF AbortWrite, TaskRuns, TakePendingWrite, TakenTbe,
       LeftInSerdat, ReplyRequests, CutShort
  <2>25. CASE AbortRead
    BY <2>25 DEF AbortRead, TaskRuns, TakePending, ReplyRequests
  <2>26. ASSUME NEW r \in Readers, NEW n \in Lengths, CmdRead(r, n)
         PROVE  GapsAreReported'
    BY <2>26 DEF CmdRead, Accepts, TaskRuns, Rearm, RearmedRx
  <2>27. ASSUME NEW r \in Writers, NEW n \in Lengths \cup {0},
                CmdWrite(r, n)
         PROVE  GapsAreReported'
    BY <2>27 DEF CmdWrite, Accepts, TaskRuns
  <2>28. QED
    BY <2>1, <2>2, <2>3, <2>4, <2>5, <2>6, <2>7, <2>8, <2>9, <2>10, <2>11,
       <2>12, <2>13, <2>14, <2>15, <2>16, <2>17, <2>18, <2>19, <2>20, <2>21,
       <2>22, <2>23, <2>24, <2>25, <2>26, <2>27 DEF Next
<1>3. QED
  BY <1>1, <1>2, SerialTypeCorrect, SerialUnitCorrect, SerialStreamCorrect, PTL
     DEF Spec

-----------------------------------------------------------------------------
\* The reference model computes on the same ring.
LEMMA SameRing ==
  /\ LC!NoWord = NoWord /\ LC!Words = Words
  /\ LC!RxInit = RxInit /\ LC!RxClear = RxClear
  /\ \A r : LC!RxCount(r) = RxCount(r)
  /\ \A r, w : LC!RxDrain(r, w) = RxDrain(r, w)
  /\ \A r, k : LC!RxTake(r, k) = RxTake(r, k)
<1> USE DEF LC!NoWord, NoWord, LC!Words, Words, LC!RxInit, RxInit, LC!RxClear,
            RxClear, LC!RxCount, RxCount, LC!RxDrain, RxDrain, LC!RxIngest,
            RxIngest, LC!RxStore, RxStore, LC!RxTake, RxTake, LC!Slots, Slots
<1>1. /\ LC!NoWord = NoWord /\ LC!Words = Words
      /\ LC!RxInit = RxInit /\ LC!RxClear = RxClear
  OBVIOUS
<1>2. \A r : LC!RxCount(r) = RxCount(r)
  OBVIOUS
<1>3. \A r, w : LC!RxDrain(r, w) = RxDrain(r, w)
  OBVIOUS
<1>4. \A r, k : LC!RxTake(r, k) = RxTake(r, k)
  OBVIOUS
<1>5. QED BY <1>1, <1>2, <1>3, <1>4

\* ImplementsLifecycle: every step of the handlers, the software interrupts and
\* the task is a step of the host-tested reference model of
\* fujinet_serial_lifecycle.c or changes nothing there.
THEOREM SerialImplements == Spec => ImplementsLifecycle
<1> USE ConstantsAssumption DEF Requests, Lengths
<1>1. Init => LC!LcInit
  BY SameRing DEF Init, LC!LcInit, Idle, NoTbe, Opened, Units
<1>2. /\ TypeOK /\ ReadBooks /\ WriteBooks /\ UnitBooks /\ CausedBooks
      /\ [Next]_vars
      => [LC!LcNext]_(LC!lcVars)
  <2> SUFFICES ASSUME TypeOK, ReadBooks, WriteBooks, UnitBooks, CausedBooks,
                      [Next]_vars
               PROVE  LC!LcNext \/ UNCHANGED LC!lcVars
    OBVIOUS
  <2> USE DEF libVars, unitVars, readVars, writeReg, softVars, recvVars,
              sendVars, histVars
  <2>1. CASE UNCHANGED vars
    BY <2>1 DEF vars, TypeOK, ReadBooks, WriteBooks, UnitBooks, CausedBooks,
       Opened, Idle, NoTbe, LC!lcVars
  <2>2. CASE LineByte
    <3>1. CASE Opened /\ serdatr = NoWord
      <4>1. serdatr' \in Words \ {NoWord}
        BY <2>2, <3>1 DEF LineByte, TypeOK, Words, NoWord
      <4>2. LC!LcHwRx
        BY <2>2, <3>1, <4>1, SameRing DEF LineByte, TypeOK, ReadBooks, WriteBooks,
       UnitBooks, CausedBooks, Opened, Idle, NoTbe, LC!LcHwRx, LC!libVars,
       LC!recvVars, LC!readVars, LC!writeVars
      <4>3. QED BY <4>2 DEF LC!LcNext
    <3>2. CASE ~(Opened /\ serdatr = NoWord)
      BY <2>2, <3>2 DEF LineByte, TypeOK, ReadBooks, WriteBooks, UnitBooks,
       CausedBooks, Opened, Idle, NoTbe, LC!lcVars
    <3>3. QED BY <3>1, <3>2
  <2>3. CASE SerdatMoves
    BY <2>3 DEF SerdatMoves, TypeOK, ReadBooks, WriteBooks, UnitBooks,
       CausedBooks, Opened, Idle, NoTbe, LC!lcVars
  <2>4. CASE Foreign
    <3>1. intena_rbf' \in {0, 1} /\ foreign' \in SUBSET {"PORT", "BITS"}
      BY <2>4 DEF Foreign, Units
    <3>2. /\ lib_OpenCnt = 0 /\ task = "idle"
          /\ UNCHANGED <<life, lib_OpenCnt, delexp, claimed, unitVars, readVars,
                 writeReg, softVars, rx, receive_armed, task>>
      BY <2>4 DEF Foreign, UnitBooks
    <3>3. LC!LcExternal
      BY <3>1, <3>2 DEF LC!LcExternal, Opened, LC!libVars, LC!recvVars,
         LC!readVars, LC!writeVars
    <3>4. QED BY <3>3 DEF LC!LcNext
  <2>5. CASE RbfServer
    <3>1. LC!LcRbfHandler
      BY <2>5, SameRing DEF RbfServer, TypeOK, ReadBooks, WriteBooks, UnitBooks,
       CausedBooks, Opened, Idle, NoTbe, LC!LcRbfHandler, LC!libVars,
       LC!recvVars, LC!readVars, LC!writeVars, LC!Drained, LC!Satisfied
    <3>2. QED BY <3>1 DEF LC!LcNext
  <2>6. CASE TbeServer
    <3>1. /\ Opened /\ task # "write_intena" /\ intena_tbe = 1
          /\ write_soft_int = 0 /\ soft.at # "write"
          /\ task \notin {"open", "openwait"} /\ tbe.remaining \in Nat
      BY <2>6 DEF TbeServer, TypeOK, WriteBooks, UnitBooks, Opened
    <3>2. UNCHANGED <<libVars, unitVars, readVars, pending_write, write_state,
                      soft_int, soft, recvVars, task>>
      BY <2>6 DEF TbeServer
    <3>3. CASE tbe.remaining = 0
      <4>1. UNCHANGED tbe /\ intena_tbe' = 0 /\ write_soft_int' = 1
        BY <2>6, <3>3 DEF TbeServer
      <4>2. LC!LcTbeHandler
        BY <3>1, <3>2, <3>3, <4>1 DEF LC!LcTbeHandler, Opened, LC!libVars,
           LC!recvVars, LC!readVars, LC!writeVars
      <4>3. QED BY <4>2 DEF LC!LcNext
    <3>4. CASE tbe.remaining > 0
      <4>1. /\ tbe'.remaining = tbe.remaining - 1
            /\ UNCHANGED <<intena_tbe, write_soft_int>>
        BY <2>6, <3>4 DEF TbeServer, TypeOK
      <4>2. LC!LcTbeHandler
        BY <3>1, <3>2, <3>4, <4>1 DEF LC!LcTbeHandler, Opened, LC!libVars,
           LC!recvVars, LC!readVars, LC!writeVars
      <4>3. QED BY <4>2 DEF LC!LcNext
    <3>5. QED BY <3>1, <3>3, <3>4
  <2>7. CASE SoftintBegin
    BY <2>7 DEF SoftintBegin, TypeOK, ReadBooks, WriteBooks, UnitBooks,
       CausedBooks, Opened, Idle, NoTbe, LC!lcVars
  <2>8. CASE CompleteReadTake
    BY <2>8 DEF CompleteReadTake, TakePending, TypeOK, ReadBooks, WriteBooks,
       UnitBooks, CausedBooks, Opened, Idle, NoTbe, LC!lcVars
  <2>9. CASE CompleteReadCopy
    BY <2>9 DEF CompleteReadCopy, TypeOK, ReadBooks, WriteBooks, UnitBooks,
       CausedBooks, Opened, Idle, NoTbe, LC!lcVars
  <2>10. CASE CompleteReadTail
    <3>1. /\ Opened /\ soft.at = "copy" /\ soft'.at = "reply"
          /\ read_state = "COMPLETING" /\ pending_need = 0
          /\ rx' = RxTake(rx, soft.need)
      BY <2>10 DEF CompleteReadTail, TypeOK, ReadBooks, UnitBooks, Opened, Idle
    <3>2. ~(soft.need > RxCount(rx))
      <4>1. RxCount(rx) \in Nat /\ soft.need \in Nat
        BY RingShape, RingAssumption DEF TypeOK, Slots
      <4>2. QED BY <3>1, <4>1 DEF CausedBooks
    <3>3. UNCHANGED <<libVars, unitVars, readVars, writeReg, soft_int,
                      write_soft_int, serdatr, receive_armed, intena_rbf,
                      sendVars, task>>
      BY <2>10 DEF CompleteReadTail
    <3>4. LC!LcSoftint
      BY <3>1, <3>2, <3>3, SameRing DEF LC!LcSoftint, LC!TakeRead, Opened,
         LC!libVars, LC!recvVars, LC!readVars, LC!writeVars
    <3>5. QED BY <3>4 DEF LC!LcNext
  <2>11. CASE CompleteReadReply
    BY <2>11 DEF CompleteReadReply, ReplyRequests, TypeOK, ReadBooks, WriteBooks,
       UnitBooks, CausedBooks, Opened, Idle, NoTbe, LC!lcVars
  <2>12. CASE CompleteWrite
    <3>1. /\ Opened /\ soft.at = "write" /\ write_soft_int = 0
          /\ write_state = "PENDING" /\ pending_write # NULL
      BY <2>12 DEF CompleteWrite, TypeOK, WriteBooks, UnitBooks, Opened, Idle
    <3>2. /\ soft'.at = "idle" /\ write_state' = "IDLE"
          /\ intena_tbe' = 0 /\ tbe'.remaining = 0
          /\ UNCHANGED <<libVars, unitVars, readVars, soft_int, write_soft_int,
                          recvVars, task>>
      BY <2>12, <3>1 DEF CompleteWrite, TakePendingWrite, TakenTbe, NoTbe, Idle
    <3>3. task # "write_intena"
      BY <3>1 DEF WriteBooks
    <3>4. LC!LcWriteSoftint
      BY <3>1, <3>2, <3>3 DEF LC!LcWriteSoftint, LC!TakeWrite, Opened,
         LC!libVars, LC!recvVars, LC!readVars, LC!writeVars
    <3>5. QED BY <3>4 DEF LC!LcNext
  <2>13. CASE OpenFails
    BY <2>13 DEF OpenFails, TaskRuns, ResetUnit, TypeOK, ReadBooks, WriteBooks,
       UnitBooks, CausedBooks, Opened, Idle, NoTbe, LC!lcVars
  <2>14. CASE OpenClaim
    BY <2>14 DEF OpenClaim, TaskRuns, ResetUnit, TypeOK, ReadBooks, WriteBooks,
       UnitBooks, CausedBooks, Opened, Idle, NoTbe, LC!lcVars
  <2>15. CASE SettleBegin
    BY <2>15 DEF SettleBegin, TaskRuns, TypeOK, ReadBooks, WriteBooks, UnitBooks,
       CausedBooks, Opened, Idle, NoTbe, LC!lcVars
  <2>16. CASE SettleEnd
    <3>1. CASE task = "openwait"
      <4>1. LC!LcOpen
        BY <2>16, <3>1, SameRing DEF SettleEnd, TaskRuns, DeviceOpened, TypeOK,
       ReadBooks, WriteBooks, UnitBooks, CausedBooks, Opened, Idle, NoTbe,
       LC!LcOpen, RxClear, LC!libVars, LC!recvVars, LC!readVars, LC!writeVars
      <4>2. QED BY <4>1 DEF LC!LcNext
    <3>2. CASE task = "setwait"
      <4>1. LC!LcSetparams
        BY <2>16, <3>2, SameRing DEF SettleEnd, TaskRuns, DeviceOpened, TypeOK,
       ReadBooks, WriteBooks, UnitBooks, CausedBooks, Opened, Idle, NoTbe,
       LC!LcSetparams, LC!libVars, LC!recvVars, LC!readVars, LC!writeVars
      <4>2. QED BY <4>1 DEF LC!LcNext
    <3>3. QED BY <2>16, <3>1, <3>2 DEF SettleEnd
  <2>17. CASE DeviceClose
    <3>1. LC!LcClose
      BY <2>17, SameRing DEF DeviceClose, TaskRuns, ReleasePaula, ReplyRequests,
       TakenTbe, LeftInSerdat, TypeOK, ReadBooks, WriteBooks, UnitBooks,
       CausedBooks, Opened, Idle, NoTbe, LC!LcClose, LC!libVars, LC!recvVars,
       LC!readVars, LC!writeVars, LC!TakeWrite, LC!TakeRead, LC!TeardownPaula
    <3>2. QED BY <3>1 DEF LC!LcNext
  <2>18. CASE DeviceExpunge
    <3>1. LC!LcExpunge
      BY <2>18 DEF DeviceExpunge, TaskRuns, TypeOK, ReadBooks, WriteBooks,
       UnitBooks, CausedBooks, Opened, Idle, NoTbe, LC!LcExpunge, LC!libVars,
       LC!recvVars, LC!readVars, LC!writeVars
    <3>2. QED BY <3>1 DEF LC!LcNext
  <2>19. CASE CmdQuery
    BY <2>19 DEF CmdQuery, Accepts, TaskRuns, Rearm, RearmedRx, TypeOK,
       ReadBooks, WriteBooks, UnitBooks, CausedBooks, Opened, Idle, NoTbe,
       LC!lcVars
  <2>20. CASE CmdSetparams
    <3>1. LC!LcRbfHandler
      BY <2>20, SameRing DEF CmdSetparams, Accepts, TaskRuns, TypeOK, ReadBooks,
       WriteBooks, UnitBooks, CausedBooks, Opened, Idle, NoTbe,
       LC!LcRbfHandler, LC!libVars, LC!recvVars, LC!readVars, LC!writeVars,
       LC!Drained, LC!Satisfied
    <3>2. QED BY <3>1 DEF LC!LcNext
  <2>21. CASE CmdFlush
    <3>1. /\ Opened /\ task = "idle" /\ soft.at = "idle" /\ soft_int = 0
          /\ read_state # "PENDING" => pending_need = 0
          /\ write_state = "PENDING" <=> pending_write # NULL
          /\ read_state = "PENDING" <=> pending_read # NULL
      BY <2>21 DEF CmdFlush, Accepts, TaskRuns, Opened, Idle, ReadBooks, WriteBooks, TypeOK
    <3>2. /\ write_state' = IF pending_write # NULL THEN "IDLE" ELSE write_state
          /\ tbe'.remaining = IF pending_write # NULL THEN 0 ELSE tbe.remaining
          /\ intena_tbe' = IF pending_write # NULL THEN 0 ELSE intena_tbe
          /\ read_state' = IF pending_read # NULL THEN "IDLE" ELSE read_state
          /\ pending_need' = 0 /\ serdatr' = NoWord /\ rx' = RxClear
      BY <2>21 DEF CmdFlush, TakenTbe, NoTbe
    <3>3. UNCHANGED <<libVars, unitVars, softVars, receive_armed, intena_rbf, task>>
      BY <2>21 DEF CmdFlush
    <3>4. LC!LcFlush
      BY <3>1, <3>2, <3>3, SameRing DEF LC!LcFlush, LC!TakeWrite,
         LC!TakeRead, Opened, LC!libVars, LC!recvVars, LC!readVars,
         LC!writeVars
    <3>5. QED BY <3>4 DEF LC!LcNext
  <2>22. CASE WriteIntena
    BY <2>22 DEF WriteIntena, TaskRuns, TypeOK, ReadBooks, WriteBooks, UnitBooks,
       CausedBooks, Opened, Idle, NoTbe, LC!lcVars
  <2>23. CASE WriteIntreq
    BY <2>23 DEF WriteIntreq, TaskRuns, TypeOK, ReadBooks, WriteBooks, UnitBooks,
       CausedBooks, Opened, Idle, NoTbe, LC!lcVars
  <2>24. CASE AbortWrite
    <3>1. LC!LcAbortWrite
      BY <2>24 DEF AbortWrite, TaskRuns, TakePendingWrite, TakenTbe, LeftInSerdat,
       ReplyRequests, CutShort, TypeOK, ReadBooks, WriteBooks, UnitBooks,
       CausedBooks, Opened, Idle, NoTbe, LC!LcAbortWrite, LC!libVars,
       LC!recvVars, LC!readVars, LC!writeVars, LC!TakeWrite
    <3>2. QED BY <3>1 DEF LC!LcNext
  <2>25. CASE AbortRead
    <3>1. LC!LcAbort
      BY <2>25 DEF AbortRead, TaskRuns, TakePending, ReplyRequests, TypeOK,
       ReadBooks, WriteBooks, UnitBooks, CausedBooks, Opened, Idle, NoTbe,
       LC!LcAbort, LC!libVars, LC!recvVars, LC!readVars, LC!writeVars,
       LC!TakeRead
    <3>2. QED BY <3>1 DEF LC!LcNext
  <2>26. ASSUME NEW r \in Readers, NEW n \in Lengths, CmdRead(r, n)
         PROVE  LC!LcNext \/ UNCHANGED LC!lcVars
    <3>1. LC!LcRead
      BY <2>26, SameRing, RingAssumption DEF CmdRead, Accepts, TaskRuns, Rearm,
       RearmedRx, TypeOK, ReadBooks, WriteBooks, UnitBooks, CausedBooks,
       Opened, Idle, NoTbe, LC!LcRead, LC!libVars, LC!recvVars, LC!readVars,
       LC!writeVars, LC!Drained, LC!Rearmed, LC!Satisfied
    <3>2. QED BY <3>1 DEF LC!LcNext
  <2>27. ASSUME NEW r \in Writers, NEW n \in Lengths \cup {0},
                CmdWrite(r, n)
         PROVE  LC!LcNext \/ UNCHANGED LC!lcVars
    <3>1. CASE n = 0
      <4>1. LC!LcWriteNothing
        BY <2>27, <3>1, SameRing DEF CmdWrite, Accepts, TaskRuns, TypeOK, ReadBooks,
       WriteBooks, UnitBooks, CausedBooks, Opened, Idle, NoTbe,
       LC!LcWriteNothing, LC!Rearmed, LC!libVars, LC!recvVars, LC!readVars,
       LC!writeVars
      <4>2. QED BY <4>1 DEF LC!LcNext
    <3>2. CASE n # 0
      <4>1. /\ tbe'.remaining \in Nat \ {0} /\ write_state' = "PENDING"
            /\ task' = "write_intena" /\ Opened /\ Opened'
            /\ write_soft_int' = 0 /\ soft'.at # "write" /\ write_state # "PENDING"
        BY <2>27, <3>2 DEF CmdWrite, Accepts, TaskRuns, Opened, Idle
      <4>2. /\ serdatr' = NoWord /\ rx' = RxClear /\ task = "idle"
            /\ intena_rbf' = (IF receive_armed = 1 THEN intena_rbf ELSE 1)
            /\ receive_armed' = 1
            /\ UNCHANGED <<libVars, unitVars, readVars, softVars>>
        BY <2>27 DEF CmdWrite, Accepts
      <4>3. LC!LcWrite
        BY <4>1, <4>2, SameRing DEF LC!LcWrite, LC!Rearmed, Opened,
           LC!libVars, LC!recvVars, LC!readVars, LC!writeVars
      <4>4. QED BY <4>3 DEF LC!LcNext
    <3>3. QED BY <3>1, <3>2
  <2>28. QED
    BY <2>1, <2>2, <2>3, <2>4, <2>5, <2>6, <2>7, <2>8, <2>9, <2>10, <2>11,
       <2>12, <2>13, <2>14, <2>15, <2>16, <2>17, <2>18, <2>19, <2>20, <2>21,
       <2>22, <2>23, <2>24, <2>25, <2>26, <2>27 DEF Next
<1>3. QED
  BY <1>1, <1>2, SerialTypeCorrect, SerialUnitCorrect, SerialCausedCorrect, PTL
     DEF Spec, ImplementsLifecycle, LC!LcSpec
=============================================================================
