------------------------------- MODULE PaulaRx -------------------------------
(***************************************************************************)
(* The receive ring of amiga/serial.device/fujinet_paula_uart.c as         *)
(* operators over one record: buf, head, tail and the two overrun latches. *)
(* The ring keeps one slot free, so it holds RingSize - 1 bytes.           *)
(*                                                                         *)
(* A word of Paula's receive register is a record [byte, ovrun].  A byte   *)
(* is the number of its arrival, 1, 2, ..., so that a lost byte shows as a *)
(* gap; the byte 0 is an empty register (RBF not requested) or a slot of   *)
(* the ring that was never written.                                        *)
(***************************************************************************)
EXTENDS Naturals

CONSTANT RingSize  \* FUJINET_PAULA_RX_DEFAULT_SIZE

ASSUME RingAssumption == RingSize \in Nat /\ RingSize >= 2

Slots  == 0..(RingSize - 1)
NoWord == [byte |-> 0, ovrun |-> 0]

Words == [byte : Nat, ovrun : {0, 1}]
Rings == [buf : [Slots -> Nat], head : Slots, tail : Slots,
          hw : {0, 1}, sw : {0, 1}]

\* fujinet_paula_rx_init on a zeroed buffer.
RxInit ==
  [buf |-> [i \in Slots |-> 0], head |-> 0, tail |-> 0, hw |-> 0, sw |-> 0]

\* fujinet_paula_rx_clear: the only place where the latches are reset.  Slots
\* that hold no unread byte are not told apart, so the ring is a new one.
RxClear == RxInit

RxCount(rx) == (rx.head + RingSize - rx.tail) % RingSize

\* BUG: a full ring drops the byte without a trace.
BugRxStore(rx, b) ==
  LET next == (rx.head + 1) % RingSize
  IN  IF next = rx.tail THEN rx
      ELSE [rx EXCEPT !.buf[rx.head] = b, !.head = next]

\* A byte enters the ring, or sets the software latch when there is no room.
RxStore(rx, b) ==
  LET next == (rx.head + 1) % RingSize
  IN  IF next = rx.tail THEN [rx EXCEPT !.sw = 1]
      ELSE [rx EXCEPT !.buf[rx.head] = b, !.head = next]

\* One sampled SERDATR word: its OVRUN bit is latched, its byte stored.
RxIngest(rx, word) ==
  RxStore([rx EXCEPT !.hw = IF word.ovrun = 1 THEN 1 ELSE @], word.byte)

\* Sample and acknowledge until RBF is no longer requested: with the one-word
\* register, one word or none.
RxDrain(rx, word) == IF word.byte = 0 THEN rx ELSE RxIngest(rx, word)

\* What fujinet_paula_rx_read copies out, and how it leaves the ring.
RxSlot(rx, i) == rx.buf[(rx.tail + i - 1) % RingSize]

\* BUG: the tail is not wrapped.
BugRxTake(rx, n) == [rx EXCEPT !.tail = rx.tail + n]

RxTake(rx, n) ==
  [rx EXCEPT !.tail = (rx.tail + n) % RingSize,
             !.buf = [i \in Slots |-> IF (i + RingSize - rx.tail) % RingSize < n
                                      THEN 0 ELSE @[i]]]

RxOverrun(rx) == IF rx.hw = 1 \/ rx.sw = 1 THEN 1 ELSE 0
=============================================================================
