---------------------------- MODULE SerialDevice ----------------------------
(***************************************************************************)
(* fujinet-serial.device (amiga/serial.device/fujinet_serial_device.c and  *)
(* its interrupt handlers in fujinet_serial_rbf.S): an exclusive Exec      *)
(* device over Paula's UART.                                               *)
(*                                                                         *)
(* One processor, three levels: the RBF and TBE handlers run whenever      *)
(* their interrupt is enabled and requested, the two software interrupts   *)
(* run before the client's task goes on, and the task that has the device  *)
(* open makes the calls.  A step is one handler, or what the code does     *)
(* inside one Disable()/Enable() section; code outside such a section is a *)
(* step of its own where a handler can see the difference: the ring copy   *)
(* of complete_read, the two register writes that start a transmission,    *)
(* and the wait of settle_serper.                                          *)
(*                                                                         *)
(* A request that is refused (OPENFAIL, UNITBUSY, InvParam, BADADDRESS,    *)
(* NOCMD, a zero-length CMD_READ) comes back at once and changes nothing,  *)
(* so refusals are the guards of the accepting actions.  REPLIED and the   *)
(* states passed under one Disable() are not told apart from IDLE.  The    *)
(* counters and first-byte fields kept for diagnosis are left out, and so  *)
(* is the baud rate.  The vectors are not replaced by others while the     *)
(* device owns misc.resource's two serial units.                           *)
(***************************************************************************)
EXTENDS PaulaRx, Integers, Sequences, FiniteSets

CONSTANTS
  Readers,    \* the client's IORequests for CMD_READ
  Writers,    \* the client's IORequests for CMD_WRITE
  NULL,
  Enables,    \* pairs of RBF and TBE enables another program may leave
  MaxLength,  \* longest CMD_READ and CMD_WRITE tried
  MaxBytes    \* bytes the line delivers between two clears of the ring

ASSUME ConstantsAssumption ==
  /\ IsFiniteSet(Readers \cup Writers) /\ NULL \notin Readers \cup Writers
  /\ Readers \cap Writers = {}
  /\ Enables \subseteq {0, 1} \X {0, 1}
  /\ MaxLength \in Nat /\ MaxLength < RingSize
  /\ MaxBytes \in Nat

VARIABLES
  life, lib_OpenCnt, delexp,      \* library node
  claimed,                        \* misc units held: port_claimed, bits_claimed
  foreign,                        \* misc units held by another program
  rbf_installed, rbf_was_enabled, tbe_was_enabled, receive_armed, closing,
  rx,                             \* rbf_data.rx
  pending_need, pending_read, read_state,
  pending_write, write_state,
  tbe,                            \* tbe_data: remaining, committed, length
  soft_int, write_soft_int,       \* software interrupts caused, not yet run
  soft,                           \* the software interrupt that runs
  task,                           \* where the client's task is inside a call
  intena_rbf, intena_tbe, intreq_tbe,  \* Paula's interrupt registers
  serdatr,                        \* receive register; RBF is requested iff full
  missed,                         \* a byte found the register full
  serdat,                         \* transmit register
  sent,                           \* requests the device owns
  arrived,                        \* bytes the line delivered since the ring was
                                  \* last cleared, or the device opened
  expected,                       \* history: the byte the next read starts with
  gap, overrun,                   \* history: the last answered read skipped a
                                  \* byte; its io_Status had OVERRUN
  wire,                           \* history: bytes of the pending write that
                                  \* left SERDAT for the shift register, in order
  unsent,                         \* history: the last write that was answered
                                  \* without error had bytes left or skipped
  leftover                        \* history: since the open, a transmission not
                                  \* ended by its extra TBE has been in Paula

libVars  == <<life, lib_OpenCnt, delexp, claimed, foreign>>
unitVars == <<rbf_installed, rbf_was_enabled, tbe_was_enabled, closing>>
readVars == <<pending_need, pending_read, read_state>>
writeReg == <<pending_write, write_state, tbe>>
softVars == <<soft_int, write_soft_int, soft>>
recvVars == <<rx, serdatr, missed, arrived, receive_armed, intena_rbf, expected>>
sendVars == <<intena_tbe, intreq_tbe, serdat>>
histVars == <<gap, overrun, wire, unsent, leftover>>
vars == <<libVars, unitVars, readVars, writeReg, softVars, recvVars, sendVars,
          task, sent, histVars>>

Requests == Readers \cup Writers

Idle    == [at |-> "idle", req |-> NULL, data |-> <<>>, need |-> 0]
Units   == {"PORT", "BITS"}
Lengths == 1..MaxLength
NoTbe   == [remaining |-> 0, committed |-> 0, length |-> 0]

Init ==
  /\ life = "resident" /\ lib_OpenCnt = 0 /\ delexp = 0
  /\ claimed = {} /\ foreign \in SUBSET Units
  /\ rbf_installed = 0 /\ rbf_was_enabled = 0 /\ tbe_was_enabled = 0
  /\ receive_armed = 0 /\ closing = 0
  /\ rx = RxInit
  /\ pending_need = 0 /\ pending_read = NULL /\ read_state = "IDLE"
  /\ pending_write = NULL /\ write_state = "IDLE" /\ tbe = NoTbe
  /\ soft_int = 0 /\ write_soft_int = 0 /\ soft = Idle /\ task = "idle"
  /\ \E e \in Enables : intena_rbf = e[1] /\ intena_tbe = e[2]
  /\ intreq_tbe \in {0, 1}
  /\ serdatr = NoWord /\ missed = 0 /\ serdat = 0
  /\ sent = {} /\ arrived = 0 /\ expected = 1
  /\ gap = 0 /\ overrun = 0 /\ wire = <<>> /\ unsent = 0 /\ leftover = 0

-----------------------------------------------------------------------------
(* Paula and the line (external).                                          *)

\* A byte arrives.  When the register is still full one is lost, and the next
\* word that fits carries OVRUN.
LineByte ==
  /\ claimed # {} /\ arrived < MaxBytes
  /\ arrived' = arrived + 1
  /\ IF serdatr = NoWord
     THEN /\ serdatr' = [byte |-> arrived + 1, ovrun |-> missed]
          /\ missed' = 0
     ELSE missed' = 1 /\ UNCHANGED serdatr
  /\ UNCHANGED <<libVars, unitVars, readVars, writeReg, softVars, rx,
                 receive_armed, intena_rbf, expected, sendVars, task, sent,
                 histVars>>

\* SERDAT moves into the shift register, when that has become idle, and TBE is
\* requested.  serdat is the index of the byte in the pending write, -1 for a
\* byte of an earlier one.
SerdatMoves ==
  /\ serdat # 0
  /\ serdat' = 0 /\ intreq_tbe' = 1
  /\ wire' = IF serdat > 0 /\ pending_write # NULL THEN Append(wire, serdat)
             ELSE wire
  /\ UNCHANGED <<libVars, unitVars, readVars, writeReg, softVars, recvVars,
                 intena_tbe, task, sent, gap, overrun, unsent, leftover>>

\* Another program uses the port while the device is closed, and leaves a
\* byte, a missed byte or a TBE request behind.
Foreign ==
  /\ claimed = {}
  /\ foreign' \in SUBSET Units
  /\ \E e \in Enables : intena_rbf' = e[1] /\ intena_tbe' = e[2]
  /\ intreq_tbe' \in {0, 1}
  /\ serdatr' \in {NoWord, [byte |-> 1, ovrun |-> 0]} /\ missed' \in {0, 1}
  /\ UNCHANGED <<life, lib_OpenCnt, delexp, claimed, unitVars, readVars,
                 writeReg, softVars, rx, arrived, receive_armed,
                 expected, serdat, task, sent, histVars>>

-----------------------------------------------------------------------------
(* Interrupt handlers, fujinet_serial_rbf.S.                               *)

RbfServer ==
  /\ rbf_installed = 1 /\ intena_rbf = 1 /\ serdatr # NoWord
  /\ serdatr' = NoWord
  /\ rx' = RxDrain(rx, serdatr)
  /\ soft_int' = IF pending_need > 0 /\ RxCount(rx') >= pending_need THEN 1
                 ELSE soft_int
  /\ UNCHANGED <<libVars, unitVars, readVars, writeReg, write_soft_int, soft,
                 missed, arrived, receive_armed, intena_rbf, expected,
                 sendVars, task, sent, histVars>>

\* BUG: completes as soon as the last byte has been handed to SERDAT.
BugTbeServer ==
  /\ rbf_installed = 1 /\ intena_tbe = 1 /\ intreq_tbe = 1
  /\ intreq_tbe' = 0
  /\ IF tbe.remaining > 1
     THEN /\ tbe' = [tbe EXCEPT !.remaining = @ - 1, !.committed = @ + 1]
          /\ serdat' = tbe.committed + 1
          /\ UNCHANGED <<intena_tbe, write_soft_int>>
     ELSE /\ tbe' = [tbe EXCEPT !.remaining = 0, !.committed = tbe.length]
          /\ serdat' = tbe.length
          /\ intena_tbe' = 0 /\ write_soft_int' = 1
  /\ UNCHANGED <<libVars, unitVars, readVars, pending_write, write_state,
                 soft_int, soft, recvVars, task, sent, histVars>>

TbeServer ==
  /\ rbf_installed = 1 /\ intena_tbe = 1 /\ intreq_tbe = 1
  /\ intreq_tbe' = 0
  /\ IF tbe.remaining > 0
     THEN /\ tbe' = [tbe EXCEPT !.remaining = @ - 1, !.committed = @ + 1]
          /\ serdat' = tbe.committed + 1
          /\ UNCHANGED <<intena_tbe, write_soft_int>>
     ELSE /\ intena_tbe' = 0 /\ write_soft_int' = 1
          /\ UNCHANGED <<tbe, serdat>>
  /\ UNCHANGED <<libVars, unitVars, readVars, pending_write, write_state,
                 soft_int, soft, recvVars, task, sent, histVars>>

-----------------------------------------------------------------------------
(* Software interrupts: they preempt the task and not each other.          *)

\* Exec takes a caused interrupt off its list and calls it; from here on it
\* can be caused again.
SoftintBegin ==
  /\ soft = Idle
  /\ \/ /\ soft_int = 1
        /\ soft_int' = 0 /\ soft' = [Idle EXCEPT !.at = "read"]
        /\ UNCHANGED write_soft_int
     \/ /\ write_soft_int = 1
        /\ write_soft_int' = 0 /\ soft' = [Idle EXCEPT !.at = "write"]
        /\ UNCHANGED soft_int
  /\ UNCHANGED <<libVars, unitVars, readVars, writeReg, recvVars, sendVars,
                 task, sent, histVars>>

\* take_pending, where there is a read to take.
TakePending(next) ==
  read_state' = next /\ pending_read' = NULL /\ pending_need' = 0

\* reply_request: the clients have these requests back.
ReplyRequests(R) == sent' = sent \ R

\* complete_read up to Enable(): take_pending, or nothing to do.
CompleteReadTake ==
  /\ soft.at = "read"
  /\ IF read_state = "PENDING" /\ pending_read # NULL
     THEN /\ soft' = [at |-> "copy", req |-> pending_read, data |-> <<>>,
                      need |-> pending_need]
          /\ TakePending("COMPLETING")
     ELSE soft' = Idle /\ UNCHANGED readVars
  /\ UNCHANGED <<libVars, unitVars, writeReg, soft_int, write_soft_int,
                 recvVars, sendVars, task, sent, histVars>>

\* rx_read with RBF live: byte by byte, the tail moves after the last one.
CompleteReadCopy ==
  /\ soft.at = "copy" /\ Len(soft.data) < soft.need
  /\ soft' = [soft EXCEPT !.data = Append(@, RxSlot(rx, Len(@) + 1))]
  /\ UNCHANGED <<libVars, unitVars, readVars, writeReg, soft_int,
                 write_soft_int, recvVars, sendVars, task, sent, histVars>>

\* BUG: the tail moves to the head, over bytes received during the copy.
BugCompleteReadTail ==
  /\ soft.at = "copy" /\ Len(soft.data) = soft.need
  /\ rx' = [rx EXCEPT !.tail = rx.head]
  /\ soft' = [soft EXCEPT !.at = "reply"]
  /\ UNCHANGED <<libVars, unitVars, readVars, writeReg, soft_int,
                 write_soft_int, serdatr, missed, arrived, receive_armed,
                 intena_rbf, expected, sendVars, task, sent, histVars>>

CompleteReadTail ==
  /\ soft.at = "copy" /\ Len(soft.data) = soft.need
  /\ rx' = RxTake(rx, soft.need)
  /\ soft' = [soft EXCEPT !.at = "reply"]
  /\ UNCHANGED <<libVars, unitVars, readVars, writeReg, soft_int,
                 write_soft_int, serdatr, missed, arrived, receive_armed,
                 intena_rbf, expected, sendVars, task, sent, histVars>>

\* io_Actual, io_Status, READ_REPLIED and the reply.
CompleteReadReply ==
  /\ soft.at = "reply"
  /\ overrun' = RxOverrun(rx)
  /\ gap' = IF \A i \in 1..soft.need : soft.data[i] = expected + i - 1
            THEN 0 ELSE 1
  /\ expected' = soft.data[soft.need] + 1
  /\ read_state' = "IDLE"
  /\ ReplyRequests({soft.req})
  /\ soft' = Idle
  /\ UNCHANGED <<libVars, unitVars, pending_need, pending_read, writeReg,
                 soft_int, write_soft_int, rx, serdatr, missed, arrived,
                 receive_armed, intena_rbf, sendVars, task, wire, unsent,
                 leftover>>

\* remaining is set to 0, so that the handler does not touch the client's
\* buffer again; length and committed are not read again.
\* BUG: remaining is left as it was.
BugTakenTbe == tbe
TakenTbe == NoTbe

\* The byte in SERDAT is no longer one of the pending write.
LeftInSerdat == IF serdat > 0 THEN -1 ELSE serdat

\* take_pending_write, where there is a write to take, and record_write_reply.
TakePendingWrite ==
  /\ pending_write' = NULL /\ write_state' = "IDLE"
  /\ intena_tbe' = 0 /\ tbe' = TakenTbe
  /\ serdat' = LeftInSerdat /\ wire' = <<>>

CompleteWrite ==
  /\ soft.at = "write"
  /\ soft' = Idle
  /\ IF write_state = "PENDING" /\ pending_write # NULL
     THEN /\ TakePendingWrite
          /\ ReplyRequests({pending_write})
          /\ unsent' = IF wire = [i \in 1..tbe.length |-> i] THEN 0 ELSE 1
     ELSE UNCHANGED <<writeReg, intena_tbe, sent, unsent, serdat, wire>>
  /\ UNCHANGED <<libVars, unitVars, readVars, soft_int, write_soft_int,
                 recvVars, intreq_tbe, task, gap, overrun, leftover>>

-----------------------------------------------------------------------------
(* The client's task: library vectors.                                     *)

\* The task runs only when no software interrupt waits or runs.
TaskRuns ==
  life = "resident" /\ soft = Idle /\ soft_int = 0 /\ write_soft_int = 0

\* claim_paula resets the unit before it asks misc.resource.
ResetUnit ==
  /\ rx' = RxInit /\ closing' = 0
  /\ read_state' = "IDLE" /\ write_state' = "IDLE"
  /\ pending_need' = 0 /\ pending_read' = NULL /\ pending_write' = NULL
  /\ tbe' = NoTbe

\* claim_misc: another program has one of the two units.
OpenFails ==
  /\ TaskRuns /\ task = "idle" /\ lib_OpenCnt = 0
  /\ foreign # {}
  /\ ResetUnit
  /\ UNCHANGED <<libVars, rbf_installed, rbf_was_enabled, tbe_was_enabled,
                 softVars, serdatr, missed, arrived, receive_armed,
                 intena_rbf, expected, sendVars, task, sent, histVars>>

\* claim_paula to its Enable(), the reset included: units, saved enables, both interrupts masked,
\* receiver drained and cleared, vectors installed.  A TBE requested by the
\* former owner stays requested.
OpenClaim ==
  /\ TaskRuns /\ task = "idle" /\ lib_OpenCnt = 0
  /\ foreign = {}
  /\ ResetUnit
  /\ claimed' = Units
  /\ rbf_was_enabled' = intena_rbf
  /\ tbe_was_enabled' = intena_tbe
  /\ intena_rbf' = 0 /\ intena_tbe' = 0
  /\ serdatr' = NoWord
  /\ rbf_installed' = 1 /\ receive_armed' = 0
  /\ leftover' = IF intreq_tbe = 1 \/ serdat # 0 THEN 1 ELSE 0
  /\ task' = "open"
  /\ UNCHANGED <<life, lib_OpenCnt, delexp, foreign, softVars, missed,
                 arrived, expected, intreq_tbe, serdat, sent, gap,
                 overrun, wire, unsent>>

\* settle_serper, first section: RBF masked, the receiver drained.
SettleBegin ==
  /\ TaskRuns /\ task = "open"
  /\ intena_rbf' = 0 /\ receive_armed' = 0
  /\ rx' = RxDrain(rx, serdatr) /\ serdatr' = NoWord
  /\ task' = "openwait"
  /\ UNCHANGED <<libVars, unitVars, readVars, writeReg, softVars, missed,
                 arrived, expected, sendVars, sent, histVars>>

\* device_open after claim_paula.
DeviceOpened == lib_OpenCnt' = 1 /\ delexp' = 0

\* The wait for TSRE is over, or gave up; second section: drain, clear, unmask.
\* The open or the SETPARAMS that waited is then done.
SettleEnd ==
  /\ TaskRuns /\ task \in {"openwait", "setwait"}
  /\ serdatr' = NoWord
  /\ rx' = RxClear
  /\ arrived' = 0 /\ expected' = 1
  /\ intena_rbf' = 1 /\ receive_armed' = 1
  /\ IF task = "openwait" THEN DeviceOpened
                          ELSE UNCHANGED <<lib_OpenCnt, delexp>>
  /\ task' = "idle"
  /\ UNCHANGED <<life, claimed, foreign, unitVars, readVars, writeReg,
                 softVars, missed, sendVars, sent, histVars>>

\* release_paula.  The receiver is drained into the ring, which the next open
\* initialises.
ReleasePaula ==
  /\ claimed' = {} /\ closing' = 1
  /\ rbf_installed' = 0 /\ receive_armed' = 0
  /\ pending_need' = 0 /\ pending_read' = NULL /\ pending_write' = NULL
  /\ read_state' = IF pending_read # NULL THEN "IDLE" ELSE read_state
  /\ write_state' = IF pending_write # NULL THEN "IDLE" ELSE write_state
  /\ tbe' = IF pending_write # NULL THEN TakenTbe ELSE tbe
  /\ intena_rbf' = rbf_was_enabled /\ intena_tbe' = tbe_was_enabled
  /\ rx' = RxInit /\ serdatr' = NoWord
  /\ ReplyRequests({pending_read, pending_write})
  /\ serdat' = LeftInSerdat /\ wire' = <<>>

\* device_close; the delayed expunge follows at once.
DeviceClose ==
  /\ TaskRuns /\ task = "idle" /\ lib_OpenCnt = 1
  /\ lib_OpenCnt' = 0
  /\ life' = (IF delexp = 1 THEN "freed" ELSE life) /\ delexp' = 0
  /\ ReleasePaula
  /\ arrived' = 0 /\ expected' = 1
  /\ gap' = 0 /\ overrun' = 0 /\ unsent' = 0 /\ leftover' = 0
  /\ UNCHANGED <<foreign, rbf_was_enabled, tbe_was_enabled, softVars, missed,
                 intreq_tbe, task>>

DeviceExpunge ==
  /\ TaskRuns /\ task = "idle"
  /\ IF lib_OpenCnt # 0 THEN delexp' = 1 /\ UNCHANGED life
                        ELSE delexp' = 0 /\ life' = "freed"
  /\ UNCHANGED <<lib_OpenCnt, claimed, foreign, unitVars, readVars, writeReg,
                 softVars, recvVars, sendVars, task, sent, histVars>>

-----------------------------------------------------------------------------
(* The client's task: BeginIO and AbortIO.                                 *)

\* device_begin_io lets a command through.
Accepts ==
  TaskRuns /\ task = "idle" /\ lib_OpenCnt = 1 /\ claimed = Units /\ closing = 0

\* rearm_receive: nothing when the receiver is armed.
RearmedRx == IF receive_armed = 1 THEN rx ELSE RxDrain(rx, serdatr)
Rearm ==
  /\ serdatr' = IF receive_armed = 1 THEN serdatr ELSE NoWord
  /\ intena_rbf' = IF receive_armed = 1 THEN intena_rbf ELSE 1
  /\ receive_armed' = 1

CmdQuery ==
  /\ Accepts
  /\ Rearm /\ rx' = RearmedRx
  /\ UNCHANGED <<libVars, unitVars, readVars, writeReg, softVars, missed,
                 arrived, expected, sendVars, task, sent, histVars>>

\* BUG: only the handler looks whether the ring already holds enough.
BugCmdRead(r, n) ==
  /\ Accepts /\ r \notin sent
  /\ n <= RingSize - 1 /\ read_state # "PENDING"
  /\ Rearm /\ rx' = RearmedRx
  /\ pending_read' = r /\ read_state' = "PENDING" /\ pending_need' = n
  /\ sent' = sent \cup {r}
  /\ gap' = 0 /\ overrun' = 0
  /\ UNCHANGED <<libVars, unitVars, writeReg, softVars, missed, arrived,
                 expected, sendVars, task, wire, unsent, leftover>>

CmdRead(r, n) ==
  /\ Accepts /\ r \notin sent
  /\ n <= RingSize - 1 /\ read_state # "PENDING"
  /\ Rearm /\ rx' = RearmedRx
  /\ pending_read' = r /\ read_state' = "PENDING" /\ pending_need' = n
  /\ soft_int' = IF RxCount(rx') >= n THEN 1 ELSE soft_int
  /\ sent' = sent \cup {r}
  /\ gap' = 0 /\ overrun' = 0
  /\ UNCHANGED <<libVars, unitVars, writeReg, write_soft_int, soft, missed,
                 arrived, expected, sendVars, task, wire, unsent, leftover>>

\* CMD_WRITE to its Enable(): leftover input is drained and dropped; a write
\* of no bytes ends here.
CmdWrite(r, n) ==
  /\ Accepts /\ r \notin sent /\ write_state # "PENDING"
  /\ serdatr' = NoWord /\ rx' = RxClear
  /\ arrived' = 0 /\ expected' = 1
  /\ intena_rbf' = (IF receive_armed = 1 THEN intena_rbf ELSE 1)
  /\ receive_armed' = 1
  /\ IF n = 0
     THEN UNCHANGED <<writeReg, sent, task, unsent>>
     ELSE /\ pending_write' = r /\ write_state' = "PENDING"
          /\ tbe' = [remaining |-> n, committed |-> 0, length |-> n]
          /\ sent' = sent \cup {r}
          /\ unsent' = 0
          /\ task' = "write_intena"
  /\ UNCHANGED <<libVars, unitVars, readVars, softVars, missed, sendVars, gap,
                 overrun, wire, leftover>>

\* After Enable(), the interrupt is enabled and then requested by hand.
WriteIntena ==
  /\ TaskRuns /\ task = "write_intena"
  /\ intena_tbe' = 1 /\ task' = "write_intreq"
  /\ UNCHANGED <<libVars, unitVars, readVars, writeReg, softVars, recvVars,
                 intreq_tbe, serdat, sent, histVars>>

WriteIntreq ==
  /\ TaskRuns /\ task = "write_intreq"
  /\ intreq_tbe' = 1 /\ task' = "idle"
  /\ UNCHANGED <<libVars, unitVars, readVars, writeReg, softVars, recvVars,
                 intena_tbe, serdat, sent, histVars>>

\* CMD_SETPARAMS with valid parameters, to the wait inside settle_serper.
CmdSetparams ==
  /\ Accepts /\ read_state # "PENDING" /\ write_state # "PENDING"
  /\ intena_rbf' = 0 /\ receive_armed' = 0
  /\ rx' = RxDrain(rx, serdatr) /\ serdatr' = NoWord
  /\ task' = "setwait"
  /\ UNCHANGED <<libVars, unitVars, readVars, writeReg, softVars, missed,
                 arrived, expected, sendVars, sent, histVars>>

\* A write taken before its extra TBE leaves a byte or a request in Paula.
CutShort == IF pending_write # NULL THEN 1 ELSE leftover

\* CMD_CLEAR, CMD_FLUSH and CMD_RESET: both pending requests are taken and
\* answered ABORTED, the ring is drained and cleared.
CmdFlush ==
  /\ Accepts
  /\ pending_write' = NULL
  /\ write_state' = IF pending_write # NULL THEN "IDLE" ELSE write_state
  /\ tbe' = IF pending_write # NULL THEN TakenTbe ELSE tbe
  /\ intena_tbe' = IF pending_write # NULL THEN 0 ELSE intena_tbe
  /\ read_state' = IF pending_read # NULL THEN "IDLE" ELSE read_state
  /\ pending_read' = NULL /\ pending_need' = 0
  /\ serdatr' = NoWord /\ rx' = RxClear
  /\ arrived' = 0 /\ expected' = 1
  /\ ReplyRequests({pending_read, pending_write})
  /\ leftover' = CutShort /\ serdat' = LeftInSerdat /\ wire' = <<>>
  /\ UNCHANGED <<libVars, unitVars, softVars, missed, receive_armed,
                 intena_rbf, intreq_tbe, task, gap, overrun, unsent>>

\* device_abort_io: only the request that is still pending is taken.
AbortWrite ==
  /\ TaskRuns /\ task = "idle" /\ lib_OpenCnt = 1
  /\ pending_write # NULL
  /\ TakePendingWrite
  /\ ReplyRequests({pending_write})
  /\ leftover' = CutShort
  /\ UNCHANGED <<libVars, unitVars, readVars, softVars, recvVars, intreq_tbe,
                 task, gap, overrun, unsent>>

AbortRead ==
  /\ TaskRuns /\ task = "idle" /\ lib_OpenCnt = 1
  /\ pending_read # NULL
  /\ TakePending("IDLE")
  /\ ReplyRequests({pending_read})
  /\ UNCHANGED <<libVars, unitVars, writeReg, softVars, recvVars, sendVars,
                 task, histVars>>

Next ==
  \/ LineByte \/ SerdatMoves \/ Foreign
  \/ RbfServer \/ TbeServer
  \/ SoftintBegin \/ CompleteReadTake \/ CompleteReadCopy
  \/ CompleteReadTail \/ CompleteReadReply \/ CompleteWrite
  \/ OpenFails \/ OpenClaim \/ SettleBegin \/ SettleEnd
  \/ DeviceClose \/ DeviceExpunge
  \/ CmdQuery \/ CmdSetparams \/ CmdFlush
  \/ WriteIntena \/ WriteIntreq
  \/ \E r \in Readers, n \in Lengths : CmdRead(r, n)
  \/ \E r \in Writers, n \in Lengths \cup {0} : CmdWrite(r, n)
  \/ AbortWrite \/ AbortRead

\* Interrupts that are enabled and requested are served, a caused software
\* interrupt runs to its end, Paula transmits, and the task goes on inside a
\* call.  Nothing makes the client call, or the line deliver.
Fairness ==
  /\ WF_vars(RbfServer) /\ WF_vars(TbeServer)
  /\ WF_vars(SoftintBegin)
  /\ WF_vars(CompleteReadTake \/ CompleteReadCopy \/ CompleteReadTail
             \/ CompleteReadReply \/ CompleteWrite)
  /\ WF_vars(SerdatMoves)
  /\ WF_vars(SettleBegin \/ SettleEnd \/ WriteIntena \/ WriteIntreq)

Spec == Init /\ [][Next]_vars /\ Fairness

-----------------------------------------------------------------------------
(* Properties.                                                             *)

TypeOK ==
  /\ life \in {"resident", "freed"}
  /\ lib_OpenCnt \in {0, 1} /\ delexp \in {0, 1}
  /\ claimed \in {{}, Units} /\ foreign \in SUBSET Units
  /\ rbf_installed \in {0, 1} /\ rbf_was_enabled \in {0, 1}
  /\ tbe_was_enabled \in {0, 1} /\ receive_armed \in {0, 1}
  /\ closing \in {0, 1}
  /\ rx \in Rings
  /\ pending_need \in 0..MaxLength
  /\ pending_read \in Requests \cup {NULL}
  /\ pending_write \in Requests \cup {NULL}
  /\ read_state \in {"IDLE", "PENDING", "COMPLETING"}
  /\ write_state \in {"IDLE", "PENDING"}
  /\ tbe \in [remaining : 0..MaxLength, committed : 0..MaxLength,
              length : 0..MaxLength]
  /\ tbe.committed + tbe.remaining = tbe.length
  /\ soft_int \in {0, 1} /\ write_soft_int \in {0, 1}
  /\ soft \in [at : {"idle", "read", "copy", "reply", "write"},
               req : Requests \cup {NULL}, data : Seq(Nat),
               need : 0..MaxLength]
  /\ Len(soft.data) <= soft.need
  /\ task \in {"idle", "open", "openwait", "setwait", "write_intena",
               "write_intreq"}
  /\ intena_rbf \in {0, 1} /\ intena_tbe \in {0, 1} /\ intreq_tbe \in {0, 1}
  /\ serdatr \in Words /\ missed \in {0, 1}
  /\ serdat \in -1..MaxLength
  /\ sent \subseteq Requests
  /\ arrived \in 0..MaxBytes /\ expected \in Nat
  /\ gap \in {0, 1} /\ overrun \in {0, 1} /\ unsent \in {0, 1}
  /\ leftover \in {0, 1} /\ wire \in Seq(Nat)

\* Every request the device was given is in exactly one place - pending read,
\* pending write, or in the hands of complete_read - until it is answered,
\* and the transmit handler reads a client's buffer only while that client's
\* request is pending: take_pending and take_pending_write under Disable()
\* against the handlers, abort, flush and close.
OneHolder ==
  /\ sent = {pending_read, pending_write, soft.req} \ {NULL}
  /\ pending_read # NULL => pending_read \notin {pending_write, soft.req}
  /\ pending_write # NULL => pending_write # soft.req
  /\ tbe.remaining > 0 => pending_write # NULL
  /\ lib_OpenCnt = 0 => sent = {}

\* A read that skips bytes of the line says so: when what it returns is not
\* what follows the bytes returned before it, since the last clear, io_Status
\* carries OVERRUN.  The copy of complete_read runs with the receiver live, so
\* this is also about the handler never storing into the slots being copied.
GapsAreReported == gap = 1 => overrun = 1

\* A CMD_WRITE answered without error has had all its bytes moved to the shift
\* register in order ("Extra TBE: last byte has left SERDAT into the shift
\* register", fujinet_serial_rbf.S), unless a transmission not ended by its
\* extra TBE was left in Paula: no code clears that TBE request, so the next
\* cmd_write is served by it and by its own forced one.
WriteOnWire == leftover = 0 => unsent = 0

\* The reference model's view of the device.  A read is pending there until
\* complete_read moves the ring's tail, an open or SETPARAMS happens at the
\* end of settle_serper, and a write's TBE is enabled and requested as soon as
\* the write is pending.
Opened == lib_OpenCnt = 1
LC == INSTANCE SerialLifecycle WITH
  open_cnt <- lib_OpenCnt,
  delexp <- delexp,
  expunged <- IF life = "freed" THEN 1 ELSE 0,
  busy_external <- foreign,
  rbf_intena <- IF task = "setwait" THEN 1
                ELSE IF task \in {"open", "openwait"} THEN rbf_was_enabled
                ELSE intena_rbf,
  rbf_was_enabled <- IF Opened THEN rbf_was_enabled ELSE 0,
  receive_armed <- IF task = "setwait" THEN 1 ELSE receive_armed,
  paula <- IF Opened THEN serdatr ELSE NoWord,
  rx <- IF Opened THEN rx ELSE RxInit,
  read_state <- IF read_state = "PENDING" \/ soft.at = "copy" THEN "PENDING"
                ELSE "IDLE",
  read_need <- IF soft.at = "copy" THEN soft.need ELSE pending_need,
  softint_pending <- IF \/ soft.at = "copy"
                        \/ /\ read_state = "PENDING"
                           /\ soft_int = 1 \/ soft.at = "read"
                     THEN 1 ELSE 0,
  write_state <- IF write_state = "PENDING" THEN "PENDING" ELSE "IDLE",
  write_remaining <- tbe.remaining,
  write_softint_pending <- IF write_soft_int = 1 \/ soft.at = "write" THEN 1
                           ELSE 0,
  tbe_intena <- IF ~Opened THEN 0
                ELSE IF task = "write_intena" THEN 1 ELSE intena_tbe,
  tbe_intreq <- IF ~Opened THEN 0
                ELSE IF task = "write_intena" THEN 1 ELSE intena_tbe

\* The device implements the reference model its host tests run: what the
\* tests show of fujinet_serial_lifecycle.c holds of the interrupt-driven
\* device, in every interleaving of handlers, software interrupts and calls.
ImplementsLifecycle == LC!LcSpec

\* The ring and the receive register hold what the pending read asks for.
ReadCanEnd ==
  /\ pending_read # NULL
  /\ RxCount(rx) + (IF serdatr = NoWord THEN 0 ELSE 1) >= pending_need

\* A write ends, and a read for which the line has delivered enough bytes ends
\* (or a CMD_WRITE discards them) without any further call or byte: no lost
\* Cause(), no receiver left masked.
RequestsEnd ==
  /\ pending_write # NULL ~> pending_write = NULL
  /\ ReadCanEnd ~> ~ReadCanEnd
=============================================================================
