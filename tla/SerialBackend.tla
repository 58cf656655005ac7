--------------------------- MODULE SerialBackend ----------------------------
(***************************************************************************)
(* The serial backend of fujinet-nio.device                                *)
(* (amiga/nio.device/fujinet_nio_serial_backend.c with                     *)
(* amiga/include/fujinet_nio_serial_channel.h): the worker sends a request *)
(* over a serial device and collects the response, with a timer request    *)
(* beside every CMD_READ.                                                  *)
(*                                                                         *)
(* One task, two devices.  A step is what the task does up to its next     *)
(* DoIO(), Wait() or WaitIO(), or one thing the devices and the line do    *)
(* meanwhile.  WaitIO() of a request that is already replied leaves the    *)
(* port's signal set, so Wait() can return at once later.                  *)
(*                                                                         *)
(* A byte is its number in the response, 1..ResponseLen; 0 is a byte of an *)
(* earlier response.  Details, counters and peeked bytes kept for          *)
(* diagnosis are left out, and so are the unit and the baud rate;          *)
(* serial_failure_status stands for it and serial_failure_io_error being   *)
(* nonzero.  Requests to timer.device do not fail.                         *)
(***************************************************************************)
EXTENDS Naturals, Sequences

CONSTANTS
  ResponseLen,   \* bytes of a response
  ReadBuf,       \* sizeof(read_buf)
  DrainIdle,     \* FN_SERIAL_DRAIN_IDLE_MS, in slices
  DrainCap,      \* FN_SERIAL_DRAIN_CAP_MS, in slices
  DrainSteps,    \* the 1024 reads of one drain
  MaxLine,       \* bound: bytes on the line at once
  MaxQuiet       \* slices that pass between two bytes of a response

\* The pauses of what is on its way are shorter than the idle time asked for,
\* and together with it no longer than the cap.
ASSUME ConstantsAssumption ==
  /\ {ResponseLen, ReadBuf, DrainSteps} \subseteq Nat \ {0}
  /\ {DrainIdle, DrainCap, MaxQuiet, MaxLine} \subseteq Nat
  /\ MaxQuiet < DrainIdle
  /\ MaxQuiet * MaxLine + DrainIdle <= DrainCap

VARIABLES
  serial_name,          \* "fuji" or "stock": serial_device_name
  open,                 \* serial_open, timer_open, session_initialized
  pc,                   \* what the task does next
  reader,               \* what the CMD_READ under way is for
  need,                 \* its io_Length
  read_buf,             \* read_buf from read_pos to read_len
  channel_error, serial_failure_status, serial_hidden_overrun,
  session_result,       \* what the session returned
  result,               \* what backend_exchange returns
  drain,                \* empty_ms, waited_ms (in slices) and steps
  serial_io, timer_io,  \* the two requests: free, sent, replied
  data, io_Status,      \* what the completed CMD_READ brought; its OVERRUN bit
  sig_serial, sig_timer,    \* the ports' signals
  ring, latch,          \* the serial device: bytes received, overrun
  line,                 \* bytes of responses still to be received
  begun,                \* the first of them has been received
  quiet,                \* slices since the last one
  got,                  \* history: bytes given to the session
  owed,                 \* history: when the exchange failed, its response was
                        \* on its way
  misuse                \* history: a request was sent, or its device closed,
                        \* while it was outstanding

ioVars   == <<serial_io, timer_io, data, io_Status, sig_serial, sig_timer>>
lineVars == <<ring, latch, line, begun, quiet>>
errVars  == <<channel_error, serial_failure_status, serial_hidden_overrun,
              session_result, result>>
vars == <<serial_name, open, pc, reader, need, read_buf, errVars, drain,
          ioVars, lineVars, got, owed, misuse>>

NoDrain == [empty |-> 0, waited |-> 0, steps |-> 0]

-----------------------------------------------------------------------------
(* The serial device, the timer and the line (external).                   *)

Taken == SubSeq(ring, 1, need)
Left(r) == SubSeq(r, need + 1, Len(r))

\* A byte arrives in the ring, or is missed and the overrun latched.  A read
\* that waits in fujinet-serial.device is completed by the byte it needs.
Arrive ==
  /\ line # <<>>
  /\ line' = Tail(line) /\ quiet' = 0
  /\ begun' = IF Len(line) > 1 THEN 1 ELSE 0
  /\ IF open = 0 THEN UNCHANGED <<ring, latch, ioVars>>
     ELSE \/ latch' = 1 /\ UNCHANGED <<ring, ioVars>>
          \/ LET now == Append(ring, Head(line))
             IN  IF /\ serial_name = "fuji" /\ serial_io = "sent"
                    /\ Len(now) >= need
                 THEN /\ serial_io' = "replied" /\ sig_serial' = 1
                      /\ data' = SubSeq(now, 1, need) /\ ring' = Left(now)
                      /\ io_Status' = latch
                      /\ UNCHANGED <<latch, timer_io, sig_timer>>
                 ELSE ring' = now /\ UNCHANGED <<latch, ioVars>>
  /\ UNCHANGED <<serial_name, open, pc, reader, need, read_buf, errVars, drain,
                 got, owed, misuse>>

\* serial.device completes a read in its own time and forgets the overrun.
StockCompletes ==
  /\ serial_name = "stock" /\ serial_io = "sent" /\ Len(ring) >= need
  /\ serial_io' = "replied" /\ sig_serial' = 1
  /\ data' = Taken /\ ring' = Left(ring)
  /\ io_Status' = latch /\ latch' = 0
  /\ UNCHANGED <<serial_name, open, pc, reader, need, read_buf, errVars, drain,
                 timer_io, sig_timer, line, begun, quiet, got, owed, misuse>>

\* The timer of a read fires: long after the pauses of a response.
Flowing == begun = 1 /\ line # <<>>

TimerFires ==
  /\ timer_io = "sent" /\ ~Flowing
  /\ timer_io' = "replied" /\ sig_timer' = 1
  /\ UNCHANGED <<serial_name, open, pc, reader, need, read_buf, errVars, drain,
                 serial_io, data, io_Status, sig_serial, lineVars, got, owed,
                 misuse>>

\* Numbers SDCMD_QUERY may report: after an overrun serial.device counts a
\* byte it has not got.
Advertised ==
  {Len(ring)} \cup
  (IF serial_name = "stock" /\ latch = 1 THEN {Len(ring) + 1} ELSE {})

-----------------------------------------------------------------------------
(* serial_cmd_read.                                                        *)

\* BUG: more is read than the buffer holds.
BugAtMost(n, max) == n

AtMost(n, max) == IF n > max THEN max ELSE n

\* SendIO of the read and of the timer.  fujinet-serial.device answers at once
\* when the ring holds enough.
SendRead(n, for) ==
  /\ need' = n /\ reader' = for /\ pc' = "wait"
  /\ misuse' = IF serial_io = "sent" \/ timer_io = "sent" THEN 1 ELSE misuse
  /\ timer_io' = "sent"
  /\ IF serial_name = "fuji" /\ Len(ring) >= n
     THEN /\ serial_io' = "replied" /\ sig_serial' = 1 /\ io_Status' = latch
          /\ data' = SubSeq(ring, 1, n)
          /\ ring' = SubSeq(ring, n + 1, Len(ring))
     ELSE serial_io' = "sent" /\ UNCHANGED <<sig_serial, io_Status, data, ring>>
  /\ UNCHANGED <<sig_timer, latch, line, begun, quiet>>

NoRead == UNCHANGED <<reader, need, ioVars, lineVars, misuse>>

\* DoIO() of SDCMD_QUERY fails; fujinet-serial.device answers every query.
QueryFails ==
  /\ serial_name = "stock"
  /\ channel_error' = 1 /\ serial_failure_status' = 1

\* Wait() and CheckIO() of the read.
ReadWait ==
  /\ pc = "wait" /\ (sig_serial = 1 \/ sig_timer = 1)
  /\ sig_serial' = 0 /\ sig_timer' = 0
  /\ pc' = IF serial_io = "replied" THEN "got" ELSE "abort"
  /\ UNCHANGED <<serial_name, open, reader, need, read_buf, errVars, drain,
                 serial_io, timer_io, data, io_Status, lineVars, got, owed,
                 misuse>>

\* AbortIO() and WaitIO() of the read, which may have completed meanwhile.
\* serial.device may abort in its own time: then WaitIO() takes the signal.
ReadAbort ==
  /\ pc = "abort"
  /\ serial_io' = "free" /\ pc' = "timeout" /\ data' = <<>>
  /\ sig_serial' \in IF serial_name = "stock" THEN {0, 1} ELSE {1}
  /\ UNCHANGED <<serial_name, open, reader, need, read_buf, errVars, drain,
                 timer_io, io_Status, sig_timer, lineVars, got, owed, misuse>>

\* BUG: session_flush goes on after a failed read.
BugAfterFlush(rc) == "flush"

\* session_flush ends with the first read that fails.
AfterFlush(rc) == IF rc = "OK" THEN "flush" ELSE "write"

\* The read is over with return code rc; who made it goes on.  The time of a
\* read that timed out is the session's: it does not ask again.
DrainedOne == [empty |-> 0, waited |-> drain.waited, steps |-> drain.steps + 1]

Returns(rc) ==
  /\ serial_hidden_overrun' = IF rc = "OK" /\ reader = "byte" /\ io_Status = 1
                              THEN 1 ELSE serial_hidden_overrun
  /\ serial_failure_status' =
       CASE reader \in {"peek", "leftover"} -> serial_failure_status
         [] rc = "TIMEOUT" -> 0
         [] rc = "IO" \/ (reader = "byte" /\ io_Status = 1) -> 1
         [] OTHER -> serial_failure_status
  /\ read_buf' = IF reader = "byte" /\ rc = "OK" THEN data ELSE <<>>
  /\ data' = <<>> /\ io_Status' = 0 /\ need' = 0 /\ reader' = "-"
  /\ channel_error' = IF \/ reader = "byte" /\ rc = "IO"
                         \/ reader \in {"flush", "drain"} /\ rc # "OK"
                      THEN 1 ELSE channel_error
  /\ session_result' = IF reader = "byte" /\ rc = "TIMEOUT" THEN "TIMEOUT"
                       ELSE session_result
  /\ drain' = IF reader = "drain" /\ rc = "OK" THEN DrainedOne ELSE drain
  /\ pc' = CASE reader = "byte"     -> IF rc = "TIMEOUT" THEN "peek" ELSE "read"
             [] reader = "flush"    -> AfterFlush(rc)
             [] reader = "drain"    -> IF /\ rc = "OK"
                                          /\ DrainedOne.steps < DrainSteps
                                       THEN "drain" ELSE "end"
             [] reader = "peek"     -> "map"
             [] reader = "leftover" -> "drain"
             [] OTHER               -> IF rc = "OK" THEN "idle" ELSE "openfail"
  /\ UNCHANGED <<serial_name, open, result, lineVars, got, owed>>

\* WaitIO() of the timer, which was not aborted: the whole time passes.
ReadTimedOut ==
  /\ pc = "timeout" /\ timer_io = "replied"
  /\ timer_io' = "free" /\ serial_io' = serial_io
  /\ sig_timer' \in {0, sig_timer} /\ UNCHANGED sig_serial
  /\ Returns("TIMEOUT") /\ UNCHANGED misuse

\* BUG: the timer is not taken back.
BugReadGot ==
  /\ pc = "got"
  /\ serial_io' = "free" /\ UNCHANGED <<timer_io, sig_timer, sig_serial>>
  /\ Returns("OK") /\ UNCHANGED misuse

\* The read came first: WaitIO() it, take the timer back, look at io_Error.
ReadGot ==
  /\ pc = "got"
  /\ serial_io' = "free" /\ timer_io' = "free"
  /\ sig_timer' = IF timer_io = "sent" THEN 1 ELSE sig_timer
  /\ \/ Returns("OK")
     \/ serial_name = "stock" /\ io_Status = 1 /\ Returns("IO")
  /\ UNCHANGED <<sig_serial, misuse>>

-----------------------------------------------------------------------------
(* Open and close.                                                         *)

\* backend_open up to the open timer; both ports, with their signals, are new.
\* A step that fails closes again what was opened.
Backend_open ==
  /\ pc = "idle" /\ open = 0
  /\ open' = 1 /\ pc' = "openquery"
  /\ ring' = <<>>
  /\ latch' \in (IF serial_name = "stock" THEN {0, 1} ELSE {0})
  /\ sig_serial' = 0 /\ sig_timer' = 0
  /\ UNCHANGED <<serial_name, reader, need, read_buf, errVars, drain, serial_io,
                 timer_io, data, io_Status, line, begun, quiet, got, owed,
                 misuse>>

\* SDCMD_QUERY at the end of backend_open: a visible overrun is drained.
OpenQuery ==
  /\ pc = "openquery"
  /\ IF latch = 1
     THEN SendRead(1, "open")
     ELSE pc' = "idle" /\ NoRead
  /\ UNCHANGED <<serial_name, open, read_buf, errVars, drain, got, owed>>

\* backend_close: release_timer, release_serial.  reclaim_io takes back what is
\* outstanding before CloseDevice.
Closed ==
  /\ open' = 0 /\ read_buf' = <<>> /\ channel_error' = 0
  /\ serial_failure_status' = 0
  /\ serial_io' = "free" /\ timer_io' = "free" /\ data' = <<>> /\ io_Status' = 0
  /\ sig_serial' = 0 /\ sig_timer' = 0
  /\ ring' = <<>> /\ latch' = 0

\* backend_open gives up when the sacrificial read fails.
OpenFails ==
  /\ pc = "openfail" /\ pc' = "idle"
  /\ misuse' = IF serial_io = "sent" \/ timer_io = "sent" THEN 1 ELSE misuse
  /\ Closed
  /\ UNCHANGED <<serial_name, reader, need, serial_hidden_overrun,
                 session_result, result, drain, line, begun, quiet, got, owed>>

\* The worker closes for SET_BAUD, SET_SERIAL (backend_set_serial follows) or
\* to stop.
Backend_close(name) ==
  /\ pc = "idle" /\ open = 1
  /\ Closed /\ serial_name' = name
  /\ UNCHANGED <<pc, reader, need, serial_hidden_overrun, session_result,
                 result, drain, line, begun, quiet, got, owed, misuse>>

-----------------------------------------------------------------------------
(* backend_exchange.                                                       *)

\* fujinet-serial.device empties its ring and forgets the overrun at every
\* CMD_WRITE it accepts and at every CMD_FLUSH; serial.device does neither.
Cleared ==
  IF serial_name = "fuji" THEN ring' = <<>> /\ latch' = 0
                          ELSE UNCHANGED <<ring, latch>>

\* What is still in the device or on the line is of an earlier response.
Stale(s) == [i \in DOMAIN s |-> 0]

Exchange ==
  /\ pc = "idle" /\ open = 1
  /\ channel_error' = 0 /\ serial_failure_status' = 0
  /\ serial_hidden_overrun' = 0 /\ session_result' = "-" /\ result' = "-"
  /\ got' = <<>> /\ owed' = 0 /\ read_buf' = <<>>
  /\ line' = Stale(line) /\ ring' = Stale(ring)
  /\ drain' = NoDrain /\ pc' = "flush"
  /\ UNCHANGED <<serial_name, open, reader, need, ioVars, latch, begun, quiet,
                 misuse>>

\* session_flush, one drain_query_and_read: a latched overrun costs a read of
\* one byte, advertised bytes are read, and when there are none it is done.
Flush ==
  /\ pc = "flush"
  /\ \/ /\ UNCHANGED <<channel_error, serial_failure_status>>
        /\ \E n \in Advertised :
             IF latch = 1 THEN SendRead(1, "flush")
             ELSE IF n > 0 THEN SendRead(AtMost(n, ReadBuf), "flush")
             ELSE pc' = "write" /\ NoRead
     \/ QueryFails /\ pc' = "write" /\ NoRead
  /\ UNCHANGED <<serial_name, open, read_buf, serial_hidden_overrun,
                 session_result, result, drain, got, owed>>

\* session_write_bytes.  The peer answers, or does not; an error (of a CMD_WRITE
\* that was refused) ends the session's request.
Write ==
  /\ pc = "write"
  /\ \/ /\ line' \in {line, line \o [i \in 1..ResponseLen |-> i]}
        /\ Len(line') <= MaxLine /\ quiet' = 0
        /\ Cleared
        /\ UNCHANGED <<channel_error, serial_failure_status>>
        /\ pc' = "read" /\ UNCHANGED session_result
     \/ /\ channel_error' = 1 /\ serial_failure_status' = 1
        /\ pc' = "map" /\ session_result' = "IO"
        /\ UNCHANGED <<line, quiet, ring, latch>>
  /\ UNCHANGED <<serial_name, open, reader, need, read_buf,
                 serial_hidden_overrun, result, drain, ioVars, begun, got, owed,
                 misuse>>

\* The session (external) takes the next byte of read_buf: it has its response,
\* wants more, finds the framing broken, or refuses it (the worker then leaves
\* the device open).
SessionByte ==
  /\ pc = "read" /\ channel_error = 0 /\ read_buf # <<>>
  /\ got' = Append(got, Head(read_buf)) /\ read_buf' = Tail(read_buf)
  /\ \/ /\ Head(read_buf) = ResponseLen
        /\ session_result' = "OK" /\ pc' = "map"
     \/ /\ Head(read_buf) # ResponseLen
        /\ UNCHANGED <<session_result, pc>>
     \/ session_result' \in {"IO", "INVALID"} /\ pc' = "map"
  /\ UNCHANGED <<serial_name, open, reader, need, channel_error,
                 serial_failure_status, serial_hidden_overrun, result, drain,
                 ioVars, lineVars, misuse, owed>>

\* session_read_byte answers 0 from now on, until the session's time is up.
SessionBlocked ==
  /\ pc = "read" /\ channel_error = 1
  /\ session_result' = "TIMEOUT" /\ pc' = "peek"
  /\ UNCHANGED <<serial_name, open, reader, need, read_buf, channel_error,
                 serial_failure_status, serial_hidden_overrun, result, drain,
                 ioVars, lineVars, got, owed, misuse>>

\* serial_read_byte with an empty read_buf: SDCMD_QUERY every millisecond, until
\* bytes are advertised or the session's time is up.  The overrun is noted at
\* every query, also at the many that find nothing.
NoteOverrun ==
  /\ serial_hidden_overrun' = IF latch = 1 THEN 1 ELSE serial_hidden_overrun
  /\ serial_failure_status' = IF latch = 1 THEN 1 ELSE serial_failure_status

ReadByte ==
  /\ pc = "read" /\ channel_error = 0 /\ read_buf = <<>>
  /\ \/ /\ NoteOverrun /\ UNCHANGED channel_error
        /\ \E n \in Advertised :
             \/ n > 0 /\ SendRead(AtMost(n, ReadBuf), "byte")
                /\ UNCHANGED session_result
             \/ n = 0 /\ ~Flowing /\ NoRead
                /\ session_result' = "TIMEOUT" /\ pc' = "peek"
     \/ /\ QueryFails /\ NoRead
        /\ UNCHANGED <<serial_hidden_overrun, session_result, pc>>
  /\ UNCHANGED <<serial_name, open, read_buf, result, drain, got, owed>>

\* A query found nothing, DoIO() of the timer and another query.
Poll ==
  /\ pc = "read" /\ channel_error = 0 /\ read_buf = <<>> /\ 0 \in Advertised
  /\ NoteOverrun
  /\ sig_timer' \in {0, 1}
  /\ UNCHANGED <<serial_name, open, pc, reader, need, read_buf, channel_error,
                 session_result, result, drain, serial_io, timer_io, data,
                 io_Status, sig_serial, lineVars, got, owed, misuse>>

\* After a timeout on fujinet-serial.device: one more query, and the bytes it
\* reports are read for the diagnosis when the session saw none.
Peek ==
  /\ pc = "peek"
  /\ IF serial_name = "fuji"
     THEN /\ NoteOverrun
          /\ IF serial_failure_status' = 0 /\ got = <<>> /\ ring # <<>>
             THEN SendRead(Len(ring), "peek")
             ELSE pc' = "map" /\ NoRead
     ELSE /\ pc' = "map" /\ NoRead
          /\ UNCHANGED <<serial_hidden_overrun, serial_failure_status>>
  /\ UNCHANGED <<serial_name, open, read_buf, channel_error, session_result,
                 result, drain, got, owed>>

\* BUG: an overrun on a completed read does not count.
BugOutcome ==
  IF channel_error = 1 \/ session_result = "IO"
  THEN "TRANSPORT" ELSE session_result

\* fn_serial_channel_map_session_result and the hidden overrun.
Outcome ==
  IF channel_error = 1 \/ session_result = "IO" \/ serial_hidden_overrun = 1
  THEN "TRANSPORT" ELSE session_result

MapResult ==
  /\ pc = "map"
  /\ result' = Outcome /\ channel_error' = 0
  /\ pc' = IF result' = "OK" THEN "end"
           ELSE IF serial_name = "fuji" THEN "leftover" ELSE "drain"
  /\ read_buf' = <<>> /\ owed' = IF Flowing THEN 1 ELSE 0
  /\ UNCHANGED <<serial_name, open, reader, need, serial_failure_status,
                 serial_hidden_overrun, session_result, drain, ioVars, lineVars,
                 got, misuse>>

CaptureLeftover ==
  /\ pc = "leftover"
  /\ IF ring = <<>>
     THEN pc' = "drain" /\ NoRead
     ELSE SendRead(Len(ring), "leftover")
  /\ UNCHANGED <<serial_name, open, read_buf, errVars, drain, got, owed>>

\* BUG: one empty query ends the drain.
BugDrainDone == TRUE

\* fn_serial_drain_after_fault_step on an empty query.
DrainDone == drain.empty >= DrainIdle \/ drain.waited >= DrainCap

\* session_flush_until_idle, one turn.
Drain ==
  /\ pc = "drain"
  /\ \/ /\ UNCHANGED <<channel_error, serial_failure_status>>
        /\ \E n \in Advertised :
             IF latch = 1 THEN SendRead(1, "drain") /\ UNCHANGED drain
             ELSE IF n > 0
             THEN SendRead(AtMost(n, ReadBuf), "drain") /\ UNCHANGED drain
             ELSE IF DrainDone THEN pc' = "end" /\ NoRead /\ UNCHANGED drain
             ELSE /\ pc' = "slice" /\ NoRead
                  /\ drain' = [empty |-> drain.empty + 1,
                               waited |-> drain.waited + 1, steps |-> drain.steps]
     \/ QueryFails /\ pc' = "end" /\ NoRead /\ UNCHANGED drain
  /\ UNCHANGED <<serial_name, open, read_buf, serial_hidden_overrun,
                 session_result, result, got, owed>>

\* DoIO() of the timer for one slice, in which a response that is on its way
\* pauses at most so long.
Slice ==
  /\ pc = "slice" /\ pc' = "drain"
  /\ Flowing => quiet < MaxQuiet
  /\ quiet' = IF Flowing THEN quiet + 1 ELSE quiet
  /\ sig_timer' \in {0, 1}
  /\ UNCHANGED <<serial_name, open, reader, need, read_buf, errVars, drain,
                 serial_io, timer_io, data, io_Status, sig_serial, ring, latch,
                 line, begun, got, owed, misuse>>

\* CMD_FLUSH finds nothing to abort; the worker closes after a transport error
\* or a timeout.  The locals of the call are gone.
Return ==
  /\ pc = "end" /\ pc' = "idle"
  /\ misuse' = IF serial_io = "sent" \/ timer_io = "sent" THEN 1 ELSE misuse
  /\ IF result \in {"TRANSPORT", "TIMEOUT"}
     THEN Closed
     ELSE /\ Cleared
          /\ UNCHANGED <<open, read_buf, channel_error, serial_failure_status,
                         ioVars>>
  /\ session_result' = "-" /\ result' = "-" /\ drain' = NoDrain
  /\ got' = <<>> /\ owed' = 0
  /\ UNCHANGED <<serial_name, reader, need, serial_hidden_overrun, line, begun,
                 quiet>>

-----------------------------------------------------------------------------
Init ==
  /\ serial_name \in {"fuji", "stock"} /\ open = 0 /\ pc = "idle"
  /\ reader = "-" /\ need = 0 /\ read_buf = <<>>
  /\ channel_error = 0 /\ serial_failure_status = 0 /\ serial_hidden_overrun = 0
  /\ session_result = "-" /\ result = "-" /\ drain = NoDrain
  /\ serial_io = "free" /\ timer_io = "free" /\ data = <<>> /\ io_Status = 0
  /\ sig_serial = 0 /\ sig_timer = 0
  /\ ring = <<>> /\ latch = 0 /\ line = <<>> /\ begun = 0 /\ quiet = 0
  /\ got = <<>> /\ owed = 0 /\ misuse = 0

\* What the task does inside a call, but for the polls, which the session's
\* time bounds.
Task ==
  \/ ReadWait \/ ReadAbort \/ ReadTimedOut \/ ReadGot \/ OpenQuery
  \/ OpenFails \/ Flush
  \/ Write \/ SessionByte \/ SessionBlocked \/ ReadByte \/ Peek \/ MapResult
  \/ CaptureLeftover \/ Drain \/ Slice \/ Return

Next ==
  \/ Task \/ Poll \/ Arrive \/ StockCompletes \/ TimerFires
  \/ Backend_open \/ Exchange
  \/ \E name \in {"fuji", "stock"} : Backend_close(name)

\* The task runs when it can, timers fire, and a response that is on its way
\* arrives.
Spec == /\ Init /\ [][Next]_vars
        /\ WF_vars(Task) /\ WF_vars(TimerFires) /\ WF_vars(Flowing /\ Arrive)

-----------------------------------------------------------------------------
(* Properties.                                                             *)

TypeOK ==
  /\ serial_name \in {"fuji", "stock"}
  /\ {open, channel_error, serial_failure_status, serial_hidden_overrun,
      io_Status, sig_serial, sig_timer, latch, begun, owed, misuse}
       \subseteq {0, 1}
  /\ pc \in {"idle", "openquery", "openfail", "flush", "write", "read",
             "peek", "map", "leftover", "drain", "slice", "end", "wait", "got",
             "abort", "timeout"}
  /\ reader \in {"-", "open", "flush", "byte", "peek", "leftover", "drain"}
  /\ Len(read_buf) <= ReadBuf
  /\ session_result \in {"-", "OK", "IO", "INVALID", "TIMEOUT"}
  /\ result \in {"-", "OK", "TRANSPORT", "INVALID", "TIMEOUT"}
  /\ drain.empty \in 0..DrainIdle /\ drain.waited \in 0..DrainCap
  /\ drain.steps \in 0..DrainSteps
  /\ serial_io \in {"free", "sent", "replied"}
  /\ timer_io \in {"free", "sent", "replied"}
  /\ quiet \in 0..MaxQuiet

(* No request is sent again, and no device closed by a failed exchange,    *)
(* while it is outstanding, whichever of read, timer and abort came first  *)
(* (serial_cmd_read; the comments at its head and at reclaim_io).          *)
RequestsAreOwned == misuse = 0

(* An exchange that reports success gave the session its response without  *)
(* a hole, after what was left of an earlier one: a byte that Paula missed *)
(* is reported although CMD_READ and SDCMD_QUERY succeed, with either      *)
(* serial device (serial_read_byte, serial_hidden_overrun).                *)
LossIsReported ==
  (pc = "end" /\ result = "OK") =>
    \E k \in 0..Len(got) :
      got = [i \in 1..(k + ResponseLen) |-> IF i <= k THEN 0 ELSE i - k]

(* After a failed exchange a response that was on its way is no longer on  *)
(* the line when the call returns, so that the next exchange does not meet *)
(* the rest of it, unless serial.device failed a query or a read of the    *)
(* drain, or the drain ended at its limit of 1024 reads                    *)
(* (session_flush_until_idle).                                             *)
LeftoverDrained ==
  (/\ pc = "end" /\ result # "OK" /\ owed = 1
   /\ serial_name = "fuji" \/ channel_error = 0
   /\ drain.steps < DrainSteps) => ~Flowing

(* Every open and every exchange returns to the worker, with overruns,     *)
(* reads of bytes that do not exist and signals left from earlier waits    *)
(* (serial_cmd_read instead of DoIO).                                      *)
CallsEnd == (pc # "idle") ~> (pc = "idle")
=============================================================================
