--------------------------- MODULE SerialLifecycle ---------------------------
(***************************************************************************)
(* The reference model of fujinet-serial.device that the host tests drive, *)
(* amiga/serial.device/fujinet_serial_lifecycle.c: each entry point is one *)
(* atomic step.  It is the abstract specification of SerialDevice.         *)
(*                                                                         *)
(* Kept are the fields that an entry point tests.  The states NEW,         *)
(* COMPLETING, ABORTING and REPLIED are never told apart from IDLE.        *)
(* closing, port_owned, bits_owned and vector_installed always agree with  *)
(* open_cnt.  Traces, counters and results are left out.  The receive      *)
(* register is Paula's one word instead of the tests' eight.  The ring and *)
(* the saved enable of a closed device, which the next open sets, count as *)
(* empty and 0.                                                            *)
(***************************************************************************)
EXTENDS PaulaRx

VARIABLES
  open_cnt, delexp, expunged,
  busy_external,            \* port_busy_external, bits_busy_external
  rbf_intena, rbf_was_enabled, receive_armed,
  paula,                    \* paula_bytes: the word not yet sampled
  rx,
  read_state, read_need, softint_pending,
  write_state, write_remaining, write_softint_pending,
  tbe_intena, tbe_intreq

lcVars == <<open_cnt, delexp, expunged, busy_external, rbf_intena,
            rbf_was_enabled, receive_armed, paula, rx, read_state, read_need,
            softint_pending, write_state, write_remaining,
            write_softint_pending, tbe_intena, tbe_intreq>>

libVars   == <<open_cnt, delexp, expunged, busy_external>>
recvVars  == <<rbf_intena, rbf_was_enabled, receive_armed, paula, rx>>
readVars  == <<read_state, read_need, softint_pending>>
writeVars == <<write_state, write_remaining, write_softint_pending,
               tbe_intena, tbe_intreq>>

LcInit ==
  /\ open_cnt = 0 /\ delexp = 0 /\ expunged = 0
  /\ busy_external \in SUBSET {"PORT", "BITS"}
  /\ rbf_intena \in {0, 1} /\ rbf_was_enabled = 0 /\ receive_armed = 0
  /\ paula = NoWord /\ rx = RxInit
  /\ read_state = "IDLE" /\ read_need = 0 /\ softint_pending = 0
  /\ write_state = "IDLE" /\ write_remaining = 0 /\ write_softint_pending = 0
  /\ tbe_intena = 0 /\ tbe_intreq = 0

-----------------------------------------------------------------------------

\* drain_rbf: what has been received goes into the ring.
Drained == rx' = RxDrain(rx, paula) /\ paula' = NoWord

\* rearm_receive, but for the drain of a receiver that was masked.
Rearmed ==
  /\ rbf_intena' = (IF receive_armed = 1 THEN rbf_intena ELSE 1)
  /\ receive_armed' = 1

\* take_pending and take_pending_write, with the reply that follows.
TakeRead == read_state' = "IDLE" /\ read_need' = 0
TakeWrite ==
  /\ write_state' = "IDLE" /\ write_remaining' = 0
  /\ tbe_intena' = 0 /\ tbe_intreq' = 0

\* What other programs do to the chip and to misc.resource between two opens.
LcExternal ==
  /\ open_cnt = 0
  /\ busy_external' \in SUBSET {"PORT", "BITS"}
  /\ rbf_intena' \in {0, 1}
  /\ UNCHANGED <<open_cnt, delexp, expunged, rbf_was_enabled, receive_armed,
                 paula, rx, readVars, writeVars>>

\* fn_serial_lc_open_at_baud.  A failed open leaves everything as it was.
LcOpen ==
  /\ open_cnt = 0 /\ expunged = 0 /\ busy_external = {}
  /\ open_cnt' = 1 /\ delexp' = 0
  /\ rbf_was_enabled' = rbf_intena
  /\ rbf_intena' = 1 /\ receive_armed' = 1
  /\ rx' = RxInit
  /\ tbe_intena' = 0 /\ tbe_intreq' = 0
  /\ write_state' = "IDLE"
  /\ UNCHANGED <<expunged, busy_external, paula, readVars, write_remaining,
                 write_softint_pending>>

\* fn_serial_lc_setparams: refused while a read or a write is pending.
LcSetparams ==
  /\ open_cnt = 1 /\ read_state # "PENDING" /\ write_state # "PENDING"
  /\ paula' = NoWord
  /\ rx' = RxClear
  /\ rbf_intena' = 1 /\ receive_armed' = 1
  /\ UNCHANGED <<libVars, rbf_was_enabled, readVars, writeVars>>

\* fn_serial_lc_expunge, alone or called by the last close.
LcExpunge ==
  /\ IF open_cnt = 1 THEN delexp' = 1 /\ UNCHANGED expunged
                     ELSE delexp' = 0 /\ expunged' = 1
  /\ UNCHANGED <<open_cnt, busy_external, recvVars, readVars, writeVars>>

\* teardown_paula: both requests are taken and answered, the receiver is
\* masked and drained, the vector and the enable of its former owner return.
TeardownPaula ==
  /\ TakeWrite /\ TakeRead
  /\ receive_armed' = 0 /\ rbf_intena' = rbf_was_enabled
  /\ rbf_was_enabled' = 0
  /\ paula' = NoWord /\ rx' = RxInit

\* fn_serial_lc_close
LcClose ==
  /\ open_cnt = 1
  /\ open_cnt' = 0 /\ delexp' = 0 /\ expunged' = delexp
  /\ TeardownPaula
  /\ UNCHANGED <<busy_external, softint_pending, write_softint_pending>>

-----------------------------------------------------------------------------

\* fn_serial_lc_hw_rx
LcHwRx ==
  /\ open_cnt = 1 /\ paula = NoWord
  /\ paula' \in Words \ {NoWord}
  /\ UNCHANGED <<libVars, rbf_intena, rbf_was_enabled, receive_armed, rx,
                 readVars, writeVars>>

Satisfied(ring, state, need) ==
  state = "PENDING" /\ need > 0 /\ RxCount(ring) >= need

\* fn_serial_lc_rbf_handler
LcRbfHandler ==
  /\ Drained
  /\ softint_pending' = IF Satisfied(rx', read_state, read_need) THEN 1
                        ELSE softint_pending
  /\ UNCHANGED <<libVars, rbf_intena, rbf_was_enabled, receive_armed,
                 read_state, read_need, writeVars>>

\* fn_serial_lc_softint
LcSoftint ==
  /\ softint_pending' = 0
  /\ IF read_state = "PENDING"
     THEN /\ rx' = RxTake(rx, IF read_need > RxCount(rx) THEN RxCount(rx)
                              ELSE read_need)
          /\ TakeRead
     ELSE UNCHANGED <<rx, read_state, read_need>>
  /\ UNCHANGED <<libVars, rbf_intena, rbf_was_enabled, receive_armed, paula,
                 writeVars>>

\* fn_serial_lc_read of no bytes is answered at once.  The reply also ends a
\* read that is pending, which the device keeps.
LcReadNothing ==
  /\ open_cnt = 1 /\ TakeRead
  /\ UNCHANGED <<libVars, recvVars, softint_pending, writeVars>>

\* fn_serial_lc_read; rearm_receive drains only when the receiver is masked.
LcRead ==
  /\ open_cnt = 1 /\ read_state # "PENDING"
  /\ read_need' \in 1..(RingSize - 1)
  /\ read_state' = "PENDING"
  /\ IF receive_armed = 1 THEN UNCHANGED <<rx, paula>> ELSE Drained
  /\ Rearmed
  /\ softint_pending' = IF Satisfied(rx', "PENDING", read_need') THEN 1
                        ELSE softint_pending
  /\ UNCHANGED <<libVars, rbf_was_enabled, writeVars>>

\* fn_serial_lc_abort
LcAbort ==
  /\ read_state = "PENDING" /\ TakeRead
  /\ UNCHANGED <<libVars, recvVars, softint_pending, writeVars>>

\* fn_serial_lc_abort_write: take_pending_write with owner ABORT.
LcAbortWrite ==
  /\ write_state = "PENDING" /\ TakeWrite
  /\ UNCHANGED <<libVars, recvVars, readVars, write_softint_pending>>

\* fn_serial_lc_clear and fn_serial_lc_flush
LcFlush ==
  /\ IF write_state = "PENDING" THEN TakeWrite
     ELSE UNCHANGED <<write_state, write_remaining, tbe_intena, tbe_intreq>>
  /\ IF read_state = "PENDING" THEN TakeRead
     ELSE UNCHANGED <<read_state, read_need>>
  /\ paula' = NoWord
  /\ rx' = RxClear
  /\ UNCHANGED <<libVars, rbf_intena, rbf_was_enabled, receive_armed,
                 softint_pending, write_softint_pending>>

\* fn_serial_lc_query: only rearm_receive changes anything.
LcQuery ==
  /\ receive_armed = 0
  /\ Drained /\ Rearmed
  /\ UNCHANGED <<libVars, rbf_was_enabled, readVars, writeVars>>

\* fn_serial_lc_write of no bytes: clears the ring and is answered at once.
LcWriteNothing ==
  /\ open_cnt = 1 /\ write_state # "PENDING"
  /\ paula' = NoWord /\ rx' = RxClear /\ Rearmed
  /\ UNCHANGED <<libVars, rbf_was_enabled, readVars, writeVars>>

LcWrite ==
  /\ open_cnt = 1 /\ write_state # "PENDING"
  /\ paula' = NoWord /\ rx' = RxClear /\ Rearmed
  /\ write_remaining' \in Nat \ {0} /\ write_softint_pending' = 0
  /\ write_state' = "PENDING"
  /\ tbe_intena' = 1 /\ tbe_intreq' = 1
  /\ UNCHANGED <<libVars, rbf_was_enabled, readVars>>

\* fn_serial_lc_tbe_handler: the extra TBE after the last byte causes the
\* software interrupt.
LcTbeHandler ==
  /\ tbe_intena = 1 /\ tbe_intreq = 1
  /\ IF write_remaining = 0
     THEN /\ tbe_intena' = 0 /\ tbe_intreq' = 0
          /\ write_softint_pending' = 1
          /\ UNCHANGED write_remaining
     ELSE /\ write_remaining' = write_remaining - 1
          /\ tbe_intreq' = 1
          /\ UNCHANGED <<tbe_intena, write_softint_pending>>
  /\ UNCHANGED <<libVars, recvVars, readVars, write_state>>

\* fn_serial_lc_write_softint: take_pending_write with owner TBE.
LcWriteSoftint ==
  /\ write_softint_pending' = 0
  /\ IF write_state = "PENDING" THEN TakeWrite
     ELSE UNCHANGED <<write_state, write_remaining, tbe_intena, tbe_intreq>>
  /\ UNCHANGED <<libVars, recvVars, readVars>>

LcNext ==
  \/ LcExternal \/ LcOpen \/ LcSetparams \/ LcExpunge \/ LcClose
  \/ LcHwRx \/ LcRbfHandler \/ LcSoftint
  \/ LcReadNothing \/ LcRead \/ LcAbort \/ LcAbortWrite \/ LcFlush \/ LcQuery
  \/ LcWriteNothing \/ LcWrite \/ LcTbeHandler \/ LcWriteSoftint

LcSpec == LcInit /\ [][LcNext]_lcVars
=============================================================================
