------------------------------ MODULE NioDevice ------------------------------
(***************************************************************************)
(* The broker fujinet-nio.device (amiga/nio.device/fujinet_nio_device.c):  *)
(* an Exec device whose clients send IORequests that one worker process    *)
(* serves in FIFO order over one lazily opened backend.  The serial build  *)
(* is modelled (the deployed one).                                         *)
(*                                                                         *)
(* A step is what the code does without giving up the processor or inside  *)
(* one Disable()/Enable() section.  Open, Close and Expunge are called by  *)
(* Exec under Forbid(), which only the Delay() of stop_serial_worker       *)
(* breaks.  Each client owns one IORequest, so a client names both.  Flags *)
(* are 0 or 1, as in the source.                                           *)
(* The commands SET and GET stand for the baud-rate and the serial-unit    *)
(* forms of each, which take the same path.                                *)
(***************************************************************************)
EXTENDS Naturals, Sequences, FiniteSets

CONSTANTS
  Clients,            \* tasks that open the device, one IORequest each
  Tool,               \* the task that calls RemDevice()
  NULL

ASSUME ConstantsAssumption ==
  /\ IsFiniteSet(Clients)
  /\ Tool \notin Clients
  /\ NULL \notin Clients

VARIABLES
  life,                 \* of the device base, from device_init to FreeMem
  lib_OpenCnt, delexp,  \* library node: open count, LIBF_DELEXP
  io_queue,             \* accepted requests not yet taken by the worker
  in_progress, in_progress_aborted, worker_state, io_processing,
  backend_open,
  worker_signal,        \* the worker has its signal bit
  worker_process,       \* base->worker_process is not NULL
  worker_base,          \* serial_worker_base is not NULL
  worker_stop, signals, \* stop flag, signals pending for the worker
  pc, req,              \* the worker's program counter and local
  expunging,            \* tasks inside stop_serial_worker
  opened,               \* clients holding the device open
  late,                 \* history: those of them that opened it while an
                        \* expunge sat in Delay()
  sent,                 \* clients whose IORequest the device owns
  cmd,                  \* io_Command of each request the device owns; GET for
                        \* one its client has back and is free to rewrite
  dirty,                \* clients whose fn_flags or fn_pad is not zero
  io_Error,             \* the Exec result; FAILED is every error but an abort
  abort_taken,          \* history: clients whose request an abort took effect on
  stale                 \* history: the backend is open and, since it was opened,
                        \* has had a transport fault or a change of settings

libVars     == <<life, lib_OpenCnt, delexp, expunging, opened, late>>
queueVars   == <<io_queue, in_progress, in_progress_aborted, worker_state,
                 io_processing>>
backendVars == <<backend_open, stale>>
procVars    == <<worker_signal, worker_process, worker_base, worker_stop,
                 signals>>
workerVars  == <<pc, req>>
clientVars  == <<sent, cmd, dirty, io_Error, abort_taken>>
vars == <<libVars, queueVars, backendVars, procVars, workerVars, clientVars>>

Flag     == {0, 1}
Tasks    == Clients \cup {Tool}
Commands == {"EXCHANGE", "SET", "GET"}
IoErrors == {"OK", "ABORTED", "FAILED"}
Lives    == {"unloaded", "starting", "abandoning", "failed", "resident",
             "freed"}
PCs      == {"born", "wait", "pump", "dispatch", "exchange", "complete",
             "reply", "exit", "exit2", "gone"}

\* The program counters at which the worker holds a request it dequeued.
Busy == {"dispatch", "exchange", "complete"}

Init ==
  /\ life = "unloaded" /\ lib_OpenCnt = 0 /\ delexp = 0
  /\ expunging = {} /\ opened = {} /\ late = {}
  /\ io_queue = <<>> /\ in_progress = NULL /\ in_progress_aborted = 0
  /\ worker_state = "IDLE" /\ io_processing = 0
  /\ backend_open = 0 /\ stale = 0
  /\ worker_signal = 0 /\ worker_process = 0 /\ worker_base = 0
  /\ worker_stop = 0 /\ signals = {}
  /\ pc = "gone" /\ req = NULL
  /\ sent = {} /\ dirty = {} /\ abort_taken = {}
  /\ cmd = [c \in Clients |-> "GET"]
  /\ io_Error = [c \in Clients |-> "OK"]

-----------------------------------------------------------------------------
(* Loading: device_init creates the worker and waits for its signal bit.   *)

\* The queue starts empty; OpenLibrary or CreateProc may fail.
DeviceInit ==
  /\ life = "unloaded"
  /\ \/ /\ life' = "starting"
        /\ worker_process' = 1 /\ worker_base' = 1
        /\ pc' = "born"
     \/ /\ life' = "failed"
        /\ UNCHANGED <<worker_process, worker_base, pc>>
  /\ UNCHANGED <<lib_OpenCnt, delexp, expunging, opened, late, queueVars,
                 backendVars, worker_signal, worker_stop, signals, req, clientVars>>

InitReady ==
  /\ life = "starting" /\ worker_signal = 1
  /\ life' = "resident"
  /\ UNCHANGED <<lib_OpenCnt, delexp, expunging, opened, late, queueVars,
                 backendVars, procVars, workerVars, clientVars>>

\* No signal bit after 100 ticks: the worker is asked to stop.
InitTimeout ==
  /\ life = "starting" /\ worker_signal = 0
  /\ life' = "abandoning"
  /\ worker_stop' = 1
  /\ signals' = signals \cup {"break"}
  /\ UNCHANGED <<lib_OpenCnt, delexp, expunging, opened, late, queueVars,
                 backendVars, worker_signal, worker_process, worker_base,
                 workerVars, clientVars>>

\* Worker gone, or 250 more ticks over: the load fails either way.
InitAbandon ==
  /\ life = "abandoning"
  /\ life' = "failed"
  /\ worker_process' = 0 /\ worker_base' = 0
  /\ UNCHANGED <<lib_OpenCnt, delexp, expunging, opened, late, queueVars,
                 backendVars, worker_signal, worker_stop, signals, workerVars,
                 clientVars>>

-----------------------------------------------------------------------------
(* Library vectors.                                                        *)

\* The Delay() of an expunge breaks Forbid(), so the vectors of a resident
\* device may be called while one waits for the worker.
ExecCallAllowed == life = "resident"

DeviceOpen(c) ==
  /\ ExecCallAllowed
  /\ c \notin opened /\ c \notin sent
  /\ opened' = opened \cup {c}
  /\ late' = IF expunging # {} THEN late \cup {c} ELSE late
  /\ lib_OpenCnt' = lib_OpenCnt + 1
  /\ delexp' = 0
  /\ io_Error' = [io_Error EXCEPT ![c] = "OK"]
  /\ abort_taken' = abort_taken \ {c}
  /\ UNCHANGED <<life, expunging, queueVars, backendVars, procVars,
                 workerVars, sent, cmd, dirty>>

\* A unit number other than 0.
DeviceOpenBadUnit(c) ==
  /\ ExecCallAllowed
  /\ c \notin opened /\ c \notin sent
  /\ io_Error' = [io_Error EXCEPT ![c] = "FAILED"]
  /\ UNCHANGED <<libVars, queueVars, backendVars, procVars, workerVars, sent,
                 cmd, dirty, abort_taken>>

\* detach(): the queue without its i-th node.
Detach(q, i) ==
  [j \in 1 .. Len(q) - 1 |-> IF j < i THEN q[j] ELSE q[j + 1]]

\* Bug: the request is answered but its node stays linked.
BugRemoveKeepsNode(c) ==
  \E i \in 1 .. Len(io_queue) :
    /\ io_queue[i] = c
    /\ io_queue' = io_queue
    /\ sent' = sent \ {c}
    /\ io_Error' = [io_Error EXCEPT ![c] = "ABORTED"]
    /\ abort_taken' = abort_taken \cup {c}
    /\ cmd' = [cmd EXCEPT ![c] = "GET"]

\* fujinet_io_queue_remove_request() followed by apply_abort_completion()
\* and ReplyMsg(): true when c was queued.
RemoveQueued(c) ==
  \E i \in 1 .. Len(io_queue) :
    /\ io_queue[i] = c
    /\ io_queue' = Detach(io_queue, i)
    /\ sent' = sent \ {c}
    /\ io_Error' = [io_Error EXCEPT ![c] = "ABORTED"]
    /\ abort_taken' = abort_taken \cup {c}
    /\ cmd' = [cmd EXCEPT ![c] = "GET"]

Queued(c) == \E i \in 1 .. Len(io_queue) : io_queue[i] = c

\* stop_serial_worker() up to its first Delay(), entered by task t.
BeginStop(t) ==
  /\ expunging' = expunging \cup {t}
  /\ delexp' = 0
  /\ IF worker_process = 1
     THEN /\ worker_stop' = 1
          /\ signals' = signals \cup {"break"} \cup
                          (IF worker_signal = 1 THEN {"work"} ELSE {})
     ELSE UNCHANGED <<worker_stop, signals>>

\* Bug: the open count is not looked at.
BugIdleIgnoresOpeners(count, queue) == queue = <<>> /\ in_progress = NULL

\* The test device_expunge makes under Disable(), with the queue as given.
Idle(count, queue) == count = 0 /\ queue = <<>> /\ in_progress = NULL

DeviceExpunge(t, count, queue) ==
  \/ /\ Idle(count, queue)
     /\ BeginStop(t)
  \/ /\ ~Idle(count, queue)
     /\ delexp' = 1
     /\ UNCHANGED <<expunging, worker_stop, signals>>

\* The last close completes an expunge that was deferred.
DeviceClose(c) ==
  /\ life = "resident"
  /\ c \in opened
  /\ opened' = opened \ {c}
  /\ late' = late \ {c}
  /\ lib_OpenCnt' = IF lib_OpenCnt # 0 THEN lib_OpenCnt - 1 ELSE lib_OpenCnt
  /\ \/ RemoveQueued(c)
     \/ /\ ~Queued(c)
        /\ UNCHANGED <<io_queue, sent, io_Error, abort_taken, cmd>>
  /\ \/ /\ lib_OpenCnt' = 0 /\ delexp = 1
        /\ DeviceExpunge(c, lib_OpenCnt', io_queue')
     \/ /\ ~(lib_OpenCnt' = 0 /\ delexp = 1)
        /\ UNCHANGED <<delexp, expunging, worker_stop, signals>>
  /\ UNCHANGED <<life, in_progress, in_progress_aborted, worker_state,
                 io_processing, backendVars, worker_signal, worker_process,
                 worker_base, workerVars, dirty>>

RemDevice ==
  /\ ExecCallAllowed
  /\ Tool \notin expunging
  /\ DeviceExpunge(Tool, lib_OpenCnt, io_queue)
  /\ UNCHANGED <<life, lib_OpenCnt, opened, late, queueVars, backendVars,
                 worker_signal, worker_process, worker_base, workerVars,
                 clientVars>>

\* Bug: a freed signal bit is taken for a worker that has gone.
BugFinishOnFreedSignal(t) ==
  /\ life = "resident" /\ t \in expunging
  /\ worker_signal = 0
  /\ life' = "freed"
  /\ expunging' = expunging \ {t}
  /\ backend_open' = 0
  /\ worker_base' = 0
  /\ UNCHANGED <<lib_OpenCnt, delexp, opened, late, queueVars, stale,
                 worker_signal, worker_process, worker_stop, signals,
                 workerVars, clientVars>>

\* The worker was seen to have gone (or never was): close the backend, take
\* the node off the device list and free it.
ExpungeFinish(t) ==
  /\ life = "resident" /\ t \in expunging
  /\ worker_process = 0
  /\ life' = "freed"
  /\ expunging' = expunging \ {t}
  /\ backend_open' = 0
  /\ worker_base' = 0
  /\ UNCHANGED <<lib_OpenCnt, delexp, opened, late, queueVars, stale,
                 worker_signal, worker_process, worker_stop, signals,
                 workerVars, clientVars>>

\* 250 ticks and the worker is still there: deferred again.
ExpungeTimeout(t) ==
  /\ life = "resident" /\ t \in expunging
  /\ worker_process = 1
  /\ delexp' = 1
  /\ expunging' = expunging \ {t}
  /\ UNCHANGED <<life, lib_OpenCnt, opened, late, queueVars, backendVars, procVars,
                 workerVars, clientVars>>

-----------------------------------------------------------------------------
(* BeginIO and AbortIO, called by a client on its own request.             *)

CanSubmit(c) == life = "resident" /\ c \in opened /\ c \notin sent

\* Malformed arguments, or fn_flags/fn_pad left over from an earlier reply.
BeginIOReject(c) ==
  /\ CanSubmit(c)
  /\ io_Error' = [io_Error EXCEPT ![c] = "FAILED"]
  /\ UNCHANGED <<libVars, queueVars, backendVars, procVars, workerVars, sent,
                 cmd, dirty, abort_taken>>

\* AllocMem of the queue node failed.
BeginIONoMemory(c) ==
  /\ CanSubmit(c) /\ c \notin dirty
  /\ io_Error' = [io_Error EXCEPT ![c] = "FAILED"]
  /\ UNCHANGED <<libVars, queueVars, backendVars, procVars, workerVars, sent,
                 cmd, dirty, abort_taken>>

\* Bug: the worker is not signalled.
BugBeginIONoSignal(c, command) ==
  /\ CanSubmit(c) /\ c \notin dirty
  /\ cmd' = [cmd EXCEPT ![c] = command]
  /\ sent' = sent \cup {c}
  /\ abort_taken' = abort_taken \ {c}
  /\ io_queue' = Append(io_queue, c)
  /\ io_processing' = 1
  /\ UNCHANGED <<libVars, in_progress, in_progress_aborted, worker_state,
                 backendVars, procVars, workerVars, dirty, io_Error>>

BeginIO(c, command) ==
  /\ CanSubmit(c) /\ c \notin dirty
  /\ cmd' = [cmd EXCEPT ![c] = command]
  /\ sent' = sent \cup {c}
  /\ abort_taken' = abort_taken \ {c}
  /\ io_queue' = Append(io_queue, c)
  /\ io_processing' = 1
  /\ signals' = IF worker_process = 1 /\ worker_signal = 1
                THEN signals \cup {"work"} ELSE signals
  /\ UNCHANGED <<libVars, in_progress, in_progress_aborted, worker_state,
                 backendVars, worker_signal, worker_process, worker_base,
                 worker_stop, workerVars, dirty, io_Error>>

\* The caller zeroes fn_flags and fn_pad before it reuses the request.
ClearRequest(c) ==
  /\ c \notin sent /\ c \in dirty
  /\ dirty' = dirty \ {c}
  /\ UNCHANGED <<libVars, queueVars, backendVars, procVars, workerVars, sent,
                 cmd, io_Error, abort_taken>>

AbortQueued(c) ==
  /\ life = "resident" /\ c \in opened
  /\ RemoveQueued(c)
  /\ UNCHANGED <<libVars, in_progress, in_progress_aborted, worker_state,
                 io_processing, backendVars, procVars, workerVars, dirty>>

\* Bug: whatever is in progress is marked, not only the caller's request.
BugAbortMarksOther(c) ==
  /\ life = "resident" /\ c \in opened
  /\ in_progress # NULL /\ worker_state = "IN_PROGRESS"
  /\ in_progress_aborted' = 1
  /\ abort_taken' = abort_taken \cup {c}
  /\ UNCHANGED <<libVars, io_queue, in_progress, worker_state, io_processing,
                 backendVars, procVars, workerVars, sent, cmd, dirty, io_Error>>

\* In progress: only marked, the worker still replies.
AbortInProgress(c) ==
  /\ life = "resident" /\ c \in opened
  /\ in_progress = c /\ worker_state = "IN_PROGRESS"
  /\ in_progress_aborted' = 1
  /\ abort_taken' = abort_taken \cup {c}
  /\ UNCHANGED <<libVars, io_queue, in_progress, worker_state, io_processing,
                 backendVars, procVars, workerVars, sent, cmd, dirty, io_Error>>

-----------------------------------------------------------------------------
(* The worker process: device_worker_entry and worker_pump.                *)

\* It reads serial_worker_base, then allocates its signal bit.
WorkerStart ==
  /\ pc = "born"
  /\ \/ /\ worker_base = 1
        /\ worker_signal' = 1
        /\ pc' = "wait"
     \/ /\ pc' = "gone"       \* no base, or AllocSignal failed
        /\ UNCHANGED worker_signal
  /\ UNCHANGED <<libVars, queueVars, backendVars, worker_process, worker_base,
                 worker_stop, signals, req, clientVars>>

\* Wait() returns and clears whatever was signalled.
WorkerWake ==
  /\ pc = "wait" /\ signals # {}
  /\ signals' = {}
  /\ pc' = IF worker_stop = 1 \/ "break" \in signals THEN "exit" ELSE "pump"
  /\ UNCHANGED <<libVars, queueVars, backendVars, worker_signal,
                 worker_process, worker_base, worker_stop, req, clientVars>>

\* Bug: the newest request is taken first.
BugDequeueNewest ==
  /\ pc = "pump" /\ io_queue # <<>>
  /\ req' = io_queue[Len(io_queue)]
  /\ in_progress' = io_queue[Len(io_queue)]
  /\ io_queue' = Detach(io_queue, Len(io_queue))
  /\ in_progress_aborted' = 0
  /\ worker_state' = "IN_PROGRESS"
  /\ pc' = "dispatch"
  /\ UNCHANGED <<libVars, io_processing, backendVars, procVars, clientVars>>

\* dequeue_next(): unit 0 is never stopped, so the head is always runnable.
WorkerDequeue ==
  /\ pc = "pump" /\ io_queue # <<>>
  /\ req' = Head(io_queue)
  /\ in_progress' = Head(io_queue)
  /\ io_queue' = Tail(io_queue)
  /\ in_progress_aborted' = 0
  /\ worker_state' = "IN_PROGRESS"
  /\ pc' = "dispatch"
  /\ UNCHANGED <<libVars, io_processing, backendVars, procVars, clientVars>>

WorkerDrained ==
  /\ pc = "pump" /\ io_queue = <<>>
  /\ io_processing' = 0
  /\ pc' = "wait"
  /\ UNCHANGED <<libVars, io_queue, in_progress, in_progress_aborted,
                 worker_state, backendVars, procVars, req, clientVars>>

\* ensure_backend_open(): a no-op when open; a failure skips the exchange.
WorkerOpenBackend ==
  /\ pc = "dispatch" /\ cmd[req] = "EXCHANGE"
  /\ \/ /\ backend_open = 1
        /\ pc' = "exchange"
        /\ UNCHANGED backend_open
     \/ /\ backend_open = 0
        /\ backend_open' = 1
        /\ pc' = "exchange"
     \/ /\ backend_open = 0
        /\ pc' = "complete"
        /\ UNCHANGED backend_open
  /\ UNCHANGED <<libVars, queueVars, stale, procVars, req, clientVars>>

\* Bug: a timed-out exchange keeps its stream.
BugTimeoutKeepsBackend(nio_error) == nio_error = "TRANSPORT"

\* Which exchange results make the broker close the backend.
ClosesBackend(nio_error) == nio_error \in {"TRANSPORT", "TIMEOUT"}

\* "IO" stands for every other error, an over-long response included.
WorkerExchange ==
  /\ pc = "exchange"
  /\ \E nio_error \in {"OK", "TRANSPORT", "TIMEOUT", "IO"} :
       /\ backend_open' = IF ClosesBackend(nio_error) THEN 0 ELSE 1
       /\ stale' = IF nio_error \in {"TRANSPORT", "TIMEOUT"}
                   THEN backend_open' ELSE stale
  /\ pc' = "complete"
  /\ UNCHANGED <<libVars, queueVars, procVars, req, clientVars>>

\* process_control(): SET closes the backend before it changes a setting, or
\* fails to; GET only reads.
ControlClosesBackend(command) == command = "SET"

WorkerControl ==
  /\ pc = "dispatch" /\ cmd[req] # "EXCHANGE"
  /\ backend_open' = IF ControlClosesBackend(cmd[req])
                      THEN 0 ELSE backend_open
  /\ stale' = IF cmd[req] = "SET" THEN backend_open' ELSE stale
  /\ pc' = "complete"
  /\ UNCHANGED <<libVars, queueVars, procVars, req, clientVars>>

\* The Disable() section that ends both process_exchange and process_control:
\* COMPLETING is set and cleared inside it.
WorkerComplete ==
  /\ pc = "complete"
  /\ io_Error' = [io_Error EXCEPT ![req] =
                    IF in_progress_aborted = 1 THEN "ABORTED" ELSE "OK"]
  /\ dirty' = IF in_progress_aborted = 0 /\ cmd[req] = "EXCHANGE"
              THEN dirty \cup {req} ELSE dirty
  /\ in_progress' = NULL
  /\ in_progress_aborted' = 0
  /\ worker_state' = "IDLE"
  /\ pc' = "reply"
  /\ UNCHANGED <<libVars, io_queue, io_processing, backendVars, procVars, req,
                 sent, cmd, abort_taken>>

\* Bug: one request per wake-up, as the native-test build pumps.
BugOnePerWake ==
  /\ pc = "reply"
  /\ sent' = sent \ {req}
  /\ cmd' = [cmd EXCEPT ![req] = "GET"]
  /\ req' = NULL
  /\ pc' = "wait"
  /\ UNCHANGED <<libVars, queueVars, backendVars, procVars, dirty, io_Error,
                 abort_taken>>

\* ReplyMsg(), outside the Disable() section.
WorkerReply ==
  /\ pc = "reply"
  /\ sent' = sent \ {req}
  /\ cmd' = [cmd EXCEPT ![req] = "GET"]
  /\ req' = NULL
  /\ pc' = "pump"
  /\ UNCHANGED <<libVars, queueVars, backendVars, procVars, dirty, io_Error,
                 abort_taken>>

WorkerFreeSignal ==
  /\ pc = "exit"
  /\ worker_signal' = 0
  /\ pc' = "exit2"
  /\ UNCHANGED <<libVars, queueVars, backendVars, worker_process, worker_base,
                 worker_stop, signals, req, clientVars>>

WorkerGone ==
  /\ pc = "exit2"
  /\ worker_process' = 0 /\ worker_base' = 0
  /\ pc' = "gone"
  /\ UNCHANGED <<libVars, queueVars, backendVars, worker_signal, worker_stop,
                 signals, req, clientVars>>

-----------------------------------------------------------------------------
Load    == DeviceInit \/ InitReady \/ InitTimeout \/ InitAbandon
Request == WorkerDequeue \/ WorkerOpenBackend \/ WorkerExchange
             \/ WorkerControl \/ WorkerComplete \/ WorkerReply
Worker  == WorkerStart \/ WorkerWake \/ WorkerDrained \/ Request
             \/ WorkerFreeSignal \/ WorkerGone
ClientCall(c) ==
  \/ DeviceOpen(c) \/ DeviceOpenBadUnit(c) \/ DeviceClose(c)
  \/ BeginIOReject(c) \/ BeginIONoMemory(c)
  \/ \E command \in Commands : BeginIO(c, command)
  \/ ClearRequest(c) \/ AbortQueued(c) \/ AbortInProgress(c)

Next ==
  \/ Load
  \/ Worker
  \/ RemDevice
  \/ \E c \in Clients : ClientCall(c)
  \/ \E t \in Tasks : ExpungeFinish(t) \/ ExpungeTimeout(t)

\* Exec runs the worker and lets the waits of Expunge and Init end; clients
\* and the unload tool may stop calling.
Fairness ==
  /\ WF_vars(Worker)
  /\ WF_vars(InitReady \/ InitTimeout \/ InitAbandon)
  /\ \A t \in Tasks : WF_vars(ExpungeFinish(t) \/ ExpungeTimeout(t))

Spec == Init /\ [][Next]_vars /\ Fairness

-----------------------------------------------------------------------------
TypeOK ==
  /\ life \in Lives /\ lib_OpenCnt \in Nat /\ delexp \in Flag
  /\ expunging \subseteq Tasks /\ opened \subseteq Clients
  /\ late \subseteq opened
  /\ io_queue \in Seq(Clients)
  /\ in_progress \in Clients \cup {NULL}
  /\ in_progress_aborted \in Flag
  /\ worker_state \in {"IDLE", "IN_PROGRESS"} /\ io_processing \in Flag
  /\ backend_open \in Flag /\ stale \in Flag
  /\ worker_signal \in Flag /\ worker_process \in Flag
  /\ worker_base \in Flag /\ worker_stop \in Flag
  /\ signals \subseteq {"work", "break"}
  /\ pc \in PCs /\ req \in Clients \cup {NULL}
  /\ pc \in Busy \cup {"reply"} => req # NULL
  /\ sent \subseteq Clients /\ dirty \subseteq Clients
  /\ abort_taken \subseteq Clients
  /\ cmd \in [Clients -> Commands]
  /\ io_Error \in [Clients -> IoErrors]

\* Where the broker can hold c's request: a queue node or the worker.
Held(c) == Queued(c) \/ (req = c /\ pc \in Busy \cup {"reply"})

\* Exactly-once replies: a request the client has not got back is held in one
\* place of the broker (one queue node, or the worker, never both), and one
\* it has got back is nowhere.  ReplyMsg() on abort, close and completion
\* must each have taken the request out first.
ExactlyOneHolder ==
  \A c \in Clients :
    /\ (c \in sent) <=> Held(c)
    /\ Queued(c) => ~(req = c /\ pc \in Busy \cup {"reply"})
    /\ \A i, j \in 1 .. Len(io_queue) :
         io_queue[i] = c /\ io_queue[j] = c => i = j

\* The outcome a client reads says "aborted" exactly when an abort (AbortIO,
\* or CloseDevice on a queued request) was accepted before completion: no
\* abort is lost to the completing worker or leaks to the next request.
AbortIsReported ==
  \A c \in Clients :
    (c \notin sent /\ io_Error[c] \in {"OK", "ABORTED"})
      => (c \in abort_taken <=> io_Error[c] = "ABORTED")

\* A sleeping worker has been signalled whenever something is queued, so no
\* BeginIO() that races the end of worker_pump is left unserved.
NoLostWakeup ==
  (io_queue # <<>> /\ pc = "wait") => signals # {}

\* An exchange never runs over a backend opened with other settings than the
\* ones now in force, nor over one that has had a transport fault.
ExchangeOnFreshBackend ==
  pc = "exchange" =>
    backend_open = 1 /\ stale = 0

\* The worker never runs code that touches the base after Expunge freed it.
WorkerOutlivedByBase == life = "freed" => pc = "gone"

\* When the base is freed, the clients that still hold it open or have not
\* got their request back are latecomers: they opened the device while an
\* expunge sat in the Delay() that breaks Forbid().  Nobody the idle test was
\* to protect loses the base, though the worker still runs after it, another
\* expunge may wait as well, and the test does not see a request whose
\* ReplyMsg() is still to come (in_progress is NULL by then).
OnlyLatecomersStranded == life = "freed" => opened \cup sent \subseteq late

\* The base is only freed with no opener, nothing queued and nothing in
\* progress, which is when fujinet_nio_device.h says a delayed expunge
\* completes.
FreedOnlyWhenIdle ==
  [][life' = "freed" /\ life # "freed" =>
       lib_OpenCnt = 0 /\ io_queue = <<>> /\ in_progress = NULL
       /\ backend_open' = 0]_vars

-----------------------------------------------------------------------------
(* What the invariants above rest on (strengthenings for the proofs).      *)

\* in_progress and worker_state describe the worker's own position.
WorkerState ==
  /\ pc \in Busy => in_progress = req /\ worker_state = "IN_PROGRESS"
  /\ pc \notin Busy =>
       in_progress = NULL /\ worker_state = "IDLE" /\ in_progress_aborted = 0

\* How the worker's life follows the device's: worker_process is cleared last,
\* the signal bit is there from birth to exit, and nothing is queued before
\* the device is resident.
WorkerLife ==
  /\ life \in {"starting", "resident", "freed"} /\ worker_process = 0
       => pc = "gone"
  /\ life = "freed" => worker_process = 0
  /\ life = "unloaded" => pc = "gone" /\ worker_signal = 0
  /\ life \notin {"resident", "freed"} => io_queue = <<>>
  /\ pc = "born" => worker_signal = 0 /\ life \notin {"resident", "freed"}
  /\ pc \in PCs \ {"born", "exit2", "gone"} => worker_signal = 1

\* An accepted abort is on the books of whoever will answer the request.
AbortBooks ==
  \A c \in Clients :
    /\ Queued(c) => c \notin abort_taken
    /\ req = c /\ pc \in Busy =>
         (c \in abort_taken <=> in_progress_aborted = 1)
    /\ c \notin sent \/ (req = c /\ pc = "reply") =>
         (io_Error[c] \in {"OK", "ABORTED"}
            => (c \in abort_taken <=> io_Error[c] = "ABORTED"))

\* The broker closes a backend in the step that makes it stale.
BackendFresh == stale = 0 /\ (pc = "exchange" => backend_open = 1)

\* The open count is honest and a queued request has its opener, so while an
\* expunge waits for the worker whatever is open or queued came late.
ExpungeBooks ==
  /\ lib_OpenCnt = Cardinality(opened)
  /\ \A c \in Clients : Queued(c) => c \in opened
  /\ expunging # {} \/ life = "freed" => opened \subseteq late

-----------------------------------------------------------------------------
\* Every accepted request is answered, unless the device is being shut down.
EveryRequestAnswered ==
  \A c \in Clients : c \in sent ~> (c \notin sent \/ worker_stop = 1)

\* The line a client stands in: what the worker holds, then the queue.
Broker == INSTANCE FifoBroker WITH
  line    <- (IF pc \in Busy \cup {"reply"} THEN <<req>> ELSE <<>>) \o io_queue,
  asked   <- {c \in Clients : c \in sent /\ c \in abort_taken},
  outcome <- [c \in Clients |->
                IF c \in sent THEN "pending" ELSE io_Error[c]]

\* The broker keeps FifoBroker's promises: requests are answered once, in the
\* order BeginIO() accepted them, and out of turn only when aborted.
ServesInOrder == Broker!Spec

\* amiga/README.md, "Unloading the resident device": a deferred unload
\* completes "when the I/O worker drains and performs a deferred Expunge".
\* So a device whose last client has left while its request was in progress
\* goes away once the worker has drained, unless it is opened again.
DeferredUnloadCompletes ==
  (life = "resident" /\ delexp = 1 /\ worker_stop = 0 /\ lib_OpenCnt = 0
     /\ in_progress # NULL)
    ~> (life = "freed" \/ delexp = 0)
=============================================================================
