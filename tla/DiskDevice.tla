----------------------------- MODULE DiskDevice -----------------------------
(***************************************************************************)
(* The request side of fujinet-disk.device                                 *)
(* (amiga/disk.device/fujinet_disk_device.c): clients hand IORequests to   *)
(* units through BeginIO, one worker task serves a FIFO shared by all      *)
(* units, a stopped unit holds its part of the FIFO, and TD_ADDCHANGEINT   *)
(* requests are retained as registrations for media-change interrupts.     *)
(* What the commands do to the media is the subject of DiskMedia.          *)
(*                                                                         *)
(* A step is one Disable()/Enable() section, one library vector (Exec      *)
(* calls Open, Close and Expunge under Forbid(), and nothing in them       *)
(* waits), or what the worker does between two points where a client can   *)
(* preempt it.  Flags are 0 or 1.  Every IORequest is opened by its own    *)
(* OpenDevice().                                                           *)
(*                                                                         *)
(* Commands: DATA stands for every command that the worker answers without *)
(* touching the state kept here (reads, writes, updates, geometry, catalog *)
(* inspection, trace, unknown commands); MEDIA for the mounts, the boot    *)
(* restore and the eject; STATUS for TD_CHANGENUM, TD_CHANGESTATE and      *)
(* TD_PROTSTATUS; the rest are the Exec and trackdisk commands they name.  *)
(***************************************************************************)
EXTENDS Naturals, Sequences, FiniteSets

CONSTANTS
  Requests,        \* the clients' IORequests
  Units,
  UnitOf,          \* the unit each request was opened for
  Uses,            \* the commands each request is sent with
  NULL,
  EagerRemove      \* may a client send TD_REMCHANGEINT before the worker has
                   \* seen its TD_ADDCHANGEINT?

Commands == {"DATA", "MEDIA", "STATUS", "START", "STOP", "FLUSH", "REMOVE",
             "ADDCHANGEINT", "REMCHANGEINT", "NONE"}

ASSUME DiskConstants ==
  /\ IsFiniteSet(Requests)
  /\ UnitOf \in [Requests -> Units]
  /\ Uses \in [Requests -> SUBSET Commands]
  /\ NULL \notin Requests
  /\ EagerRemove \in {0, 1}

VARIABLES
  resident,           \* 1 until complete_pending_expunge frees the base
  opened,             \* requests open on the device; lib_OpenCnt is their number
  delexp,             \* LIBF_DELEXP
  io_queue,           \* the FIFO of requests
  io_processing,
  signal,             \* the worker's signal is pending
  worker, current,    \* where the worker is, and the request it processes
  stopped,            \* per unit
  change_requests,    \* registered requests; a unit's list is those opened
                      \* for it, in any order
  legacy,             \* per unit, whose legacy_change_interrupt is installed
  walk,               \* the registration signal_media_change visits next
  sent,               \* requests that belong to the device until replied
  command,            \* io_Command of each request, NONE once it is answered
                      \* and nothing will read it
  replies,            \* history: ReplyMsg()s since the client last sent it
                      \* (counted to 2)
  due, caused,        \* history of the current walk: registrations that have
                      \* been there since it began, and those Cause()d
  strayed             \* history: the node the current walk was to visit next
                      \* has been freed

libVars    == <<resident, opened, delexp>>
unitVars   == <<stopped, change_requests, legacy>>
workerVars == <<worker, current, walk, due, caused, strayed>>
clientVars == <<sent, command, replies>>
vars == <<libVars, io_queue, io_processing, signal, unitVars, workerVars,
          clientVars>>

Positions == 1 .. Len(io_queue)

Init ==
  /\ resident = 1 /\ opened = {} /\ delexp = 0
  /\ io_queue = <<>> /\ io_processing = 0 /\ signal = 0
  /\ worker = "waiting" /\ current = NULL
  /\ stopped = [u \in Units |-> 0]
  /\ change_requests = {}
  /\ legacy = [u \in Units |-> NULL]
  /\ walk = NULL /\ due = {} /\ caused = {} /\ strayed = 0
  /\ sent = {}
  /\ command = [r \in Requests |-> "NONE"]
  /\ replies = [r \in Requests |-> 0]

-----------------------------------------------------------------------------
(* Replies, the FIFO and the registration lists.                           *)

\* ReplyMsg() of every request in R.
Replied(R) ==
  [r \in Requests |-> IF r \in R /\ replies[r] < 2 THEN replies[r] + 1
                                                   ELSE replies[r]]

\* The commands that are left when those of R will not be read again.
Forget(R) == [r \in Requests |-> IF r \in R THEN "NONE" ELSE command[r]]

Reply(R) ==
  sent' = sent \ R /\ replies' = Replied(R) /\ command' = Forget(R)

InQueue       == {io_queue[i] : i \in Positions}
InHand        == {current} \ {NULL}
Registered(u) == {r \in change_requests : UnitOf[r] = u}

\* Bug: the list is scanned from its tail.
BugLast(i, P) == i \in P /\ \A j \in P : j <= i

IsFirst(i, P) == i \in P /\ \A j \in P : i <= j

\* detach(): the node at position i is unlinked.
Detach(i) ==
  io_queue' = [j \in 1 .. Len(io_queue) - 1 |->
                 IF j < i THEN io_queue[j] ELSE io_queue[j + 1]]

\* fujinet_io_queue_remove_request(): the first node of r, if any.
RemoveRequest(r) ==
  \/ r \notin InQueue /\ UNCHANGED io_queue
  \/ \E i \in Positions :
       IsFirst(i, {j \in Positions : io_queue[j] = r}) /\ Detach(i)

\* abort_queued_unit(): every node of unit u is unlinked, in one Disable()
\* section; keep lists the positions of the nodes that stay.
RemoveUnit(u) ==
  \E n \in 0 .. Len(io_queue) : \E keep \in [1 .. n -> Positions] :
    /\ \A i, j \in 1 .. n : i < j => keep[i] < keep[j]
    /\ {keep[i] : i \in 1 .. n} =
         {i \in Positions : UnitOf[io_queue[i]] # u}
    /\ io_queue' = [i \in 1 .. n |-> io_queue[keep[i]]]

\* remove_change_request(), remove_all_change_requests(): nothing keeps the
\* node from being the one the worker's walk has loaded.
Stray(r) == strayed' = IF worker = "walking" /\ walk = r THEN 1 ELSE strayed
Unregister(r) ==
  change_requests' = change_requests \ {r} /\ due' = due \ {r} /\ Stray(r)

-----------------------------------------------------------------------------
(* Library vectors.                                                        *)

\* Bug: the gate looks at the FIFO and not at the request in progress.
BugIgnoresWorker(open, queue) == open = {} /\ queue = <<>>

\* complete_pending_expunge(): its gate, given what the caller leaves, and
\* the teardown that removes the worker, discards the registrations and
\* frees the base.
MayTearDown(open, queue) == open = {} /\ queue = <<>> /\ io_processing = 0
TearDown == resident' = 0 /\ delexp' = 0 /\ change_requests' = {}

DeviceOpen(r) ==
  /\ resident = 1 /\ r \notin opened /\ r \notin sent
  /\ opened' = opened \cup {r}
  /\ delexp' = 0
  /\ UNCHANGED <<resident, io_queue, io_processing, signal, unitVars,
                 workerVars, clientVars>>

\* A registration goes without a reply, a queued request is aborted, the
\* one in progress is left to the worker.  The last close completes a
\* deferred expunge.  (A client that closed the request while the worker
\* registers it would leave the registration behind; none does.)
DeviceClose(r) ==
  /\ resident = 1 /\ r \in opened
  /\ r = current => command[r] # "ADDCHANGEINT"
  /\ opened' = opened \ {r}
  /\ RemoveRequest(r)
  /\ replies' = Replied({r} \cap InQueue)
  /\ sent' = sent \ ({r} \ {current}) /\ command' = Forget({r} \ {current})
  /\ due' = due \ {r} /\ Stray(r)
  /\ IF delexp = 1 /\ MayTearDown(opened', io_queue')
     THEN TearDown
     ELSE /\ change_requests' = change_requests \ {r}
          /\ UNCHANGED <<resident, delexp>>
  /\ UNCHANGED <<io_processing, signal, stopped, legacy, worker, current,
                 walk, caused>>

DeviceExpunge ==
  /\ resident = 1
  /\ IF MayTearDown(opened, io_queue)
     THEN TearDown
     ELSE delexp' = 1 /\ UNCHANGED <<resident, change_requests>>
  /\ UNCHANGED <<opened, io_queue, io_processing, signal, stopped, legacy,
                 workerVars, clientVars>>

-----------------------------------------------------------------------------
(* device_begin_io() and device_abort_io(), on the client's task.          *)

\* The client hands over a request it has with command c, and those in R
\* are answered in the same step; returning with IOF_QUICK is an answer.
\* (What a client would meet that sends a request again while the device
\* still has a node for it is not modelled.)
Send(r, c, R) ==
  /\ resident = 1 /\ r \in opened /\ r \notin sent /\ c \in Uses[r]
  /\ r \notin InQueue /\ r # current
  /\ sent' = (sent \cup {r}) \ R
  /\ replies' = [Replied(R) EXCEPT ![r] = IF r \in R THEN 1 ELSE 0]
  /\ command' = [Forget(R) EXCEPT ![r] = IF r \in R THEN "NONE" ELSE c]

\* Bug: the request is queued without marking the worker busy.
BugNoProcessingMark(r, c) ==
  /\ c \in {"DATA", "MEDIA", "STATUS", "START", "STOP", "ADDCHANGEINT"}
  /\ c = "STATUS" => io_processing = 1
  /\ \/ /\ Send(r, c, {})
        /\ io_queue' = Append(io_queue, r)
        /\ signal' = 1 /\ UNCHANGED io_processing
     \/ /\ Send(r, c, {r})
        /\ UNCHANGED <<io_queue, io_processing, signal>>
  /\ UNCHANGED <<libVars, unitVars, workerVars>>

\* Bug: the worker is not signalled.
BugNoSignal(r, c) ==
  /\ c \in {"DATA", "MEDIA", "STATUS", "START", "STOP", "ADDCHANGEINT"}
  /\ c = "STATUS" => io_processing = 1
  /\ \/ /\ Send(r, c, {})
        /\ io_queue' = Append(io_queue, r)
        /\ io_processing' = 1 /\ UNCHANGED signal
     \/ /\ Send(r, c, {r})
        /\ UNCHANGED <<io_queue, io_processing, signal>>
  /\ UNCHANGED <<libVars, unitVars, workerVars>>

\* Appended to the FIFO and the worker signalled; or the node cannot be
\* allocated and the request is answered with an error.
BeginQueued(r, c) ==
  /\ c \in {"DATA", "MEDIA", "STATUS", "START", "STOP", "ADDCHANGEINT"}
  /\ c = "STATUS" => io_processing = 1
  /\ \/ /\ Send(r, c, {})
        /\ io_queue' = Append(io_queue, r)
        /\ io_processing' = 1 /\ signal' = 1
     \/ /\ Send(r, c, {r})
        /\ UNCHANGED <<io_queue, io_processing, signal>>
  /\ UNCHANGED <<libVars, unitVars, workerVars>>

\* A status command is answered at once while the worker owns nothing.
BeginStatus(r) ==
  /\ io_processing = 0
  /\ Send(r, "STATUS", {r})
  /\ UNCHANGED <<libVars, io_queue, io_processing, signal, unitVars,
                 workerVars>>

\* CMD_FLUSH aborts what the unit has queued.
BeginFlush(r) ==
  /\ Send(r, "FLUSH", {q \in InQueue : UnitOf[q] = UnitOf[r]} \cup {r})
  /\ RemoveUnit(UnitOf[r])
  /\ UNCHANGED <<libVars, io_processing, signal, unitVars, workerVars>>

\* TD_REMOVE installs the request's interrupt or removes the unit's; another
\* client's interrupt is not displaced (IOERR_UNITBUSY).
BeginRemove(r) ==
  /\ Send(r, "REMOVE", {r})
  /\ \/ legacy' = [legacy EXCEPT ![UnitOf[r]] = NULL]
     \/ legacy[UnitOf[r]] \in {NULL, r}
        /\ legacy' = [legacy EXCEPT ![UnitOf[r]] = r]
     \/ legacy[UnitOf[r]] \notin {NULL, r} /\ UNCHANGED legacy
  /\ UNCHANGED <<libVars, io_queue, io_processing, signal, stopped,
                 change_requests, workerVars>>

\* TD_REMCHANGEINT comes on the request that TD_ADDCHANGEINT left with the
\* device, and is completed at once whether it was registered or not.
BeginRemChangeInt(r) ==
  /\ resident = 1 /\ r \in opened /\ r \in sent
  /\ command[r] = "ADDCHANGEINT"
  /\ r \notin change_requests => EagerRemove = 1
  /\ sent' = sent \ {r} /\ replies' = Replied({r})
  /\ command' = [command EXCEPT ![r] = IF r \in change_requests
                                       THEN "NONE" ELSE "REMCHANGEINT"]
  /\ Unregister(r)
  /\ UNCHANGED <<libVars, io_queue, io_processing, signal, stopped, legacy,
                 worker, current, walk, caused>>

\* Bug: the queued request is answered but its node stays linked.
BugAbortKeepsNode(r) ==
  /\ resident = 1 /\ r \in opened /\ r \in sent
  /\ \/ /\ r \in change_requests
        /\ Unregister(r)
        /\ UNCHANGED io_queue
     \/ /\ r \notin change_requests /\ r \in InQueue
        /\ UNCHANGED io_queue
        /\ UNCHANGED <<change_requests, due, strayed>>
  /\ Reply({r})
  /\ UNCHANGED <<libVars, io_processing, signal, stopped, legacy, worker,
                 current, walk, caused>>

\* A registration or a queued request is aborted; the request in progress
\* is left alone (IOERR_NOCMD).
DeviceAbortIO(r) ==
  /\ resident = 1 /\ r \in opened /\ r \in sent
  /\ \/ /\ r \in change_requests
        /\ Unregister(r)
        /\ UNCHANGED io_queue
     \/ /\ r \notin change_requests /\ r \in InQueue
        /\ RemoveRequest(r)
        /\ UNCHANGED <<change_requests, due, strayed>>
  /\ Reply({r})
  /\ UNCHANGED <<libVars, io_processing, signal, stopped, legacy, worker,
                 current, walk, caused>>

-----------------------------------------------------------------------------
(* The worker: device_worker_entry(), worker_drain(),                      *)
(* device_process_request(), signal_media_change().                        *)

\* fujinet_io_queue_next() takes the first node of a request that may run.
Runnable(r) == stopped[UnitOf[r]] = 0 \/ command[r] = "START"

\* Bug: only the head of the FIFO is considered.
BugHeadOnly == {i \in Positions : i = 1 /\ Runnable(io_queue[i])}

RunnablePositions == {i \in Positions : Runnable(io_queue[i])}

WorkerWake ==
  /\ resident = 1 /\ worker = "waiting" /\ signal = 1
  /\ signal' = 0 /\ worker' = "draining"
  /\ UNCHANGED <<libVars, io_queue, io_processing, unitVars, current, walk,
                 due, caused, strayed, clientVars>>

WorkerTake ==
  /\ resident = 1 /\ worker = "draining"
  /\ \E i \in Positions :
       /\ IsFirst(i, RunnablePositions)
       /\ current' = io_queue[i] /\ Detach(i)
  /\ worker' = "processing"
  /\ UNCHANGED <<libVars, io_processing, signal, unitVars, walk, due, caused,
                 strayed, clientVars>>

\* Nothing runnable, though a stopped unit may have requests queued.
WorkerIdle ==
  /\ resident = 1 /\ worker = "draining" /\ RunnablePositions = {}
  /\ io_processing' = 0
  /\ worker' = "waiting"
  /\ UNCHANGED <<libVars, io_queue, signal, unitVars, current, walk, due,
                 caused, strayed, clientVars>>

\* The end of device_process_request(): the request is answered.
Finish ==
  /\ Reply({current})
  /\ worker' = "draining" /\ current' = NULL

\* Commands that change nothing kept here; a medium command that does not
\* change the count is one of them, and so is the TD_REMCHANGEINT of a client
\* that did not wait for its registration, for there is none to remove.  Any
\* command ends so (IOERR_ABORTED) if its request was closed, and with it
\* its unit forgotten, before the worker looked.
ProcessData ==
  /\ worker = "processing"
  /\ \/ command[current] \in {"DATA", "MEDIA", "STATUS", "REMCHANGEINT"}
     \/ current \notin opened
  /\ Finish
  /\ UNCHANGED <<libVars, io_queue, io_processing, signal, unitVars, walk,
                 due, caused, strayed>>

ProcessStartStop ==
  /\ worker = "processing" /\ command[current] \in {"START", "STOP"}
  /\ stopped' = [stopped EXCEPT ![UnitOf[current]] =
                   IF command[current] = "STOP" THEN 1 ELSE 0]
  /\ Finish
  /\ UNCHANGED <<libVars, io_queue, io_processing, signal, change_requests,
                 legacy, walk, due, caused, strayed>>

\* Bug: the retained request is answered as well.
BugAddIsAnswered ==
  /\ worker = "processing" /\ command[current] = "ADDCHANGEINT"
  /\ \/ /\ change_requests' = change_requests \cup {current}
        /\ Finish
     \/ /\ current \notin change_requests
        /\ Finish
        /\ UNCHANGED change_requests
  /\ UNCHANGED <<libVars, io_queue, io_processing, signal, stopped, legacy,
                 walk, due, caused, strayed>>

\* The request is retained, not answered, unless no node can be allocated.
ProcessAddChangeInt ==
  /\ worker = "processing" /\ command[current] = "ADDCHANGEINT"
  /\ \/ /\ change_requests' = change_requests \cup {current}
        /\ worker' = "draining" /\ current' = NULL
        /\ UNCHANGED clientVars
     \/ /\ current \notin change_requests
        /\ Finish
        /\ UNCHANGED change_requests
  /\ UNCHANGED <<libVars, io_queue, io_processing, signal, stopped, legacy,
                 walk, due, caused, strayed>>

\* A change of count: the walk starts at the head of the unit's list.
ProcessMediaChange ==
  /\ worker = "processing" /\ command[current] = "MEDIA"
  /\ worker' = "walking"
  /\ due' = Registered(UnitOf[current]) /\ caused' = {}
  /\ IF due' = {} THEN walk' = NULL ELSE walk' \in due'
  /\ UNCHANGED <<libVars, io_queue, io_processing, signal, unitVars, current,
                 strayed, clientVars>>

\* Bug: the walk ends after the first registration.
BugCausesFirst ==
  /\ worker = "walking" /\ walk # NULL
  /\ caused' = caused \cup {walk} /\ walk' = NULL
  /\ UNCHANGED <<libVars, io_queue, io_processing, signal, unitVars, worker,
                 current, due, strayed, clientVars>>

\* The interrupt of the node is caused and its successor loaded.  What a
\* freed node holds as its successor is anything, the end of list included.
WalkNext ==
  /\ worker = "walking" /\ walk # NULL
  /\ caused' = caused \cup {walk}
  /\ LET rest == Registered(UnitOf[current]) \ (caused \cup {walk}) IN
     IF walk \in change_requests
     THEN IF rest = {} THEN walk' = NULL ELSE walk' \in rest
     ELSE walk' \in Registered(UnitOf[current]) \cup {NULL}
  /\ UNCHANGED <<libVars, io_queue, io_processing, signal, unitVars, worker,
                 current, due, strayed, clientVars>>

\* The legacy interrupt is caused last, and the request answered.
WalkEnd ==
  /\ worker = "walking" /\ walk = NULL
  /\ Finish
  /\ due' = {} /\ caused' = {} /\ strayed' = 0
  /\ UNCHANGED <<libVars, io_queue, io_processing, signal, unitVars, walk>>

WorkerStep ==
  \/ WorkerWake \/ WorkerTake \/ WorkerIdle
  \/ ProcessData \/ ProcessStartStop \/ ProcessAddChangeInt
  \/ ProcessMediaChange \/ WalkNext \/ WalkEnd

ClientStep(r) ==
  \/ DeviceOpen(r) \/ DeviceClose(r)
  \/ \E c \in Commands : BeginQueued(r, c)
  \/ BeginStatus(r) \/ BeginFlush(r) \/ BeginRemove(r) \/ BeginRemChangeInt(r)
  \/ DeviceAbortIO(r)

Next == WorkerStep \/ DeviceExpunge \/ \E r \in Requests : ClientStep(r)

\* Exec schedules the worker task; clients owe nothing.
Spec == Init /\ [][Next]_vars /\ WF_vars(WorkerStep)

-----------------------------------------------------------------------------
(* Properties.                                                             *)

TypeOK ==
  /\ resident \in {0, 1} /\ delexp \in {0, 1} /\ opened \subseteq Requests
  /\ io_queue \in Seq(Requests) /\ io_processing \in {0, 1}
  /\ signal \in {0, 1}
  /\ worker \in {"waiting", "draining", "processing", "walking"}
  /\ current \in Requests \cup {NULL}
  /\ stopped \in [Units -> {0, 1}]
  /\ change_requests \subseteq Requests
  /\ legacy \in [Units -> Requests \cup {NULL}]
  /\ walk \in Requests \cup {NULL}
  /\ due \subseteq Requests /\ caused \subseteq Requests
  /\ strayed \in {0, 1}
  /\ sent \subseteq Requests
  /\ command \in [Requests -> Commands]
  /\ replies \in [Requests -> 0 .. 2]

\* The worker has a request exactly while it processes one.
WorkerBooks == current # NULL <=> worker \in {"processing", "walking"}

\* Only a request in progress outlives its close, and never to be registered.
SentBooks ==
  /\ sent \subseteq opened \cup InHand
  /\ \A r \in InHand : r \notin opened => command[r] # "ADDCHANGEINT"

\* A request the device owns has not been answered.
Unanswered == \A r \in sent : replies[r] = 0

\* During a walk the registrations still due are those on the unit's list,
\* and the next to visit is on it unless the walk has strayed.
WalkBooks ==
  worker = "walking" =>
    /\ due \subseteq Registered(UnitOf[current])
    /\ strayed = 0 => IF walk = NULL THEN due \subseteq caused
                                     ELSE walk \in Registered(UnitOf[current])

\* No request is answered twice for one send: not by the worker after an
\* abort, a flush, a close or a TD_REMCHANGEINT took it, nor the reverse.
CompletedOnce == \A r \in Requests : replies[r] <= 1

\* A request the device owns is in exactly one place (once in the FIFO, in
\* the worker's hands, or registered), and one it does not own is in none:
\* none is forgotten, and none is reached after its client has it back.
OneHolder ==
  /\ \A i, j \in Positions : io_queue[i] = io_queue[j] => i = j
  /\ sent = InQueue \cup InHand \cup change_requests
  /\ InQueue \cap InHand = {}
  /\ InQueue \cap change_requests = {}
  /\ InHand \cap change_requests = {}

\* io_processing, which lets a status command be answered ahead of the FIFO
\* and the base be freed, is clear only when the worker has no request and
\* could take none.
IdleFlagHonest ==
  io_processing = 0 => current = NULL /\ RunnablePositions = {}

\* No lost wake-up: while the FIFO has a request that may run, the worker is
\* up or its signal is pending.
NoLostWork ==
  resident = 1 /\ RunnablePositions # {} => worker # "waiting" \/ signal = 1

\* When the base has been freed, nobody has the device open and no request
\* is left in it; in particular no retained registration.
ExpungedIdle ==
  resident = 0 => opened = {} /\ sent = {} /\ io_queue = <<>> /\ current = NULL

\* When signal_media_change reaches the end of the list, every registration
\* that was there from its start and still is has been caused, whatever
\* TD_REMCHANGEINT, AbortIO() and CloseDevice() took off the list before,
\* behind or ahead of the walk meanwhile.  The one removal it does not
\* survive is that of the very node it has loaded.
EveryRegistrationCaused ==
  worker = "walking" /\ walk = NULL /\ strayed = 0 => due \subseteq caused

\* Requests of one unit are taken in the order they were sent, except that
\* CMD_START overtakes what a stopped unit holds.
ServedInOrder ==
  [][ current = NULL /\ current' # NULL =>
        \A i \in Positions : \A j \in 1 .. i - 1 :
          io_queue[i] = current' /\ UnitOf[io_queue[j]] = UnitOf[current'] =>
            stopped[UnitOf[current']] = 1 /\ command[current'] = "START" ]_vars

\* A queued request that may run is eventually taken (or aborted, or its unit
\* stopped), whatever other units hold and however many requests come.
RunnableServed ==
  \A r \in Requests :
    r \in InQueue /\ Runnable(r) ~> ~ (r \in InQueue /\ Runnable(r))
=============================================================================
