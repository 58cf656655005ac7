# Formal model of the FujiNet NIO drivers

The repository holds two families of drivers that reach a FujiNet device
through NIO packets: on the Amiga a stack of Exec devices, on MS-DOS a block
device driver. This directory holds TLA+ models of their core logic, the TLC
configurations that check them on small instances, and TLAPS proofs.

## Inventory

| Part | State it keeps | Operations | What is hard about it | What makes it correct |
|---|---|---|---|---|
| Broker `amiga/nio.device/fujinet_nio_device.c` | request FIFO, request in progress, abort mark, backend open flag, worker process and stop flag, open count, delayed-expunge flag | Init, Open, Close, Expunge, BeginIO, AbortIO, worker loop | clients, one worker and an unloader interleave; `Delay()` breaks Exec's `Forbid()`; aborts race completions | each request answered once and in order; aborts reported; no lost wake-up; base freed only when idle; no exchange over a stale stream |
| Packet guard and directory backend `amiga/nio.device/fujinet_nio_packet_backend.c`, `fujinet_nio_directory_backend.c` | opened/quarantined flags, session challenge, the records in the shared directory | open, exchange, recover (quiesce), close | a packet may or may not have been executed; the driver or the host peer may restart at any point | nothing is sent while an earlier packet may still take effect; an answer belongs to its question |
| Disk device `amiga/disk.device/fujinet_disk_device.c`, `amiga/common/fujinet_disk_driver.c` | per-unit medium, change count, stopped flag, change interrupts, persistent mappings, request FIFO | trackdisk commands, mount/eject/inspect, Close/Expunge, Abort | media transitions with one failing step of several; notifications; units stopped while requests wait | count and notification per transition; stale ETD requests refused; mapping rollback |
| Disk retry and client `common/fujinet_disk_retry.c`, `amiga/channels/rs232/fujinet_nio_client.c` | attempt counters, open connection | retried reads and writes | retry of what was already done | bounded retries, only of what may be repeated |
| Serial backend `amiga/nio.device/fujinet_nio_serial_backend.c` | read buffer, error and overrun latches, the serial and timer requests | open, exchange, drain, set baud/serial | a timer races every read; signals outlive their request; late responses; overruns that no call reports | requests never reused while outstanding; a hole in a response is reported; nothing of a failed response left flowing; every call returns |
| Serial device `amiga/serial.device/*` | receive ring, pending read and write, Paula's interrupt enables, open count | BeginIO, AbortIO, RBF and TBE handlers, two software interrupts, Open, Close, Expunge | handlers and software interrupts interleave with the calls; the ring is copied while it is filled | each request ended once; skipped bytes reported; a write ends on the wire; the device does what the tested reference model does |
| MS-DOS block driver `msdos/src/driver/*` | sector cache ring, drive mapping, cached disk info | media check, build BPB, read, write, ioctl | cache coherence across writes, remounts and units | a read returns what was last written |
| MS-DOS transactions `msdos/src/nio/*` | none between exchanges; what is left on the line | flush, send, receive, retry | late or foreign answers, without sequence numbers | an answer is matched to its request; retries run out |
| MS-DOS serial assembly, Amiga command line tools | none between calls | port access; argument parsing | - | not modelled |

The parts interact by calls and messages: a client (a file system through the
disk device, or a tool) sends IORequests to the broker; the broker's worker
calls the backend; the serial backend sends IORequests to the serial device;
the serial device is driven by interrupts. Exec calls the library vectors.

## Plan

1. `NioDevice` (broker), its abstract specification `FifoBroker`, proofs in
   `NioDeviceProofs`. **Done.**
2. `DirectoryBackend` with the packet guard and the host peer, proofs in
   `DirectoryBackendProofs`. **Done.**
3. `DiskDevice` (requests, worker, registrations) and `DiskMedia` (driver,
   media transitions, mapping), proofs in `DiskDeviceProofs` and
   `DiskMediaProofs`. **Done.**
4. `SerialDevice` over `PaulaRx`, with the reference model `SerialLifecycle`
   as its abstract specification, proofs in `SerialDeviceProofs`. **Done.**
5. `DosDriver`: sector cache, disk information, media check, remapping, and
   the exchanges with retry, timeout, late and foreign answers; proofs in
   `DosDriverProofs`. **Done.**
6. `SerialBackend`: reads beside a timer, overruns, drain; proofs in
   `SerialBackendProofs`. **Done.**
7. Proofs of every safety property the runs check, and of both refinements.
   **Done.**
8. Composition of broker and packet backend. Left.

## Modules

Every component module declares its parameters as `CONSTANTS` with one named
`ASSUME`, its state as `VARIABLES` named after the C fields, one action per
handler or per uninterruptible section of a handler, and its properties at the
end. Variables called *history* in a comment record what happened for a
property's sake and do not influence the program, except that a client's ETD
command carries the count of its `ticket` and that the walk in `DiskDevice`
uses `caused` for the registrations it has behind it. `MC...` modules only
name the model values of a run. Operators called `Bug...` are plausible mistakes, one for each property:
put in the place of the definition that follows them, each makes TLC report
the property violated.

### NioDevice, FifoBroker

The serial build of `fujinet_nio_device.c`. A step is one `Disable()` section,
one library vector (Exec calls them under `Forbid()`), or what the worker
process does between two points where somebody else can run. `Delay()` breaks
`Forbid()`, so `RemDevice`/expunge is split where `stop_serial_worker` waits:
`DeviceExpunge` and `DeviceClose` test and start the stop, `ExpungeFinish` and
`ExpungeTimeout` end it. `DeviceInit`, `InitReady`, `InitTimeout`,
`InitAbandon` are the creation of the worker with its timeout; `BeginIO...`
and `Abort...` run on client tasks; `Worker...` is `worker_pump` and what it
calls. The backend is reduced to whether it is open and whether its stream is
stale. Exec calls come in during the expunge's `Delay()`, in every run and in
the proofs, as they do in the code; the history variable `late` holds the
clients that opened the device then. The command of a request is forgotten when
it has been handed back, since nothing reads it any more.

`FifoBroker` is what the broker promises a client: a request that is accepted
is served in the order of acceptance, and leaves by service or by abort.
`NioDevice` implements it (`ServesInOrder`; checked and proved).

### DirectoryBackend

`fujinet_nio_directory_backend.c` under the guard of
`fujinet_nio_packet_backend.c`. The state is the guard's `opened` and
`quarantined`, the session challenge, and the records in the shared directory
(request, reply, `AMBIGUOUS`, `CHALLENGE`, `BARRIER`, `ACK`, the operator's
permit). Each file operation is a step, so that the guest can be reset and the
host peer killed between any two. `Transfer...` is one exchange, `Quiesce...`
the recovery on open. The host peer (`Host...`) and the operator are not in
the repository: they are modelled from what the backend relies on and marked
external. `Legacy = 1` is a dos.library before V36, where the barrier is not
waited for.

### DiskDevice

The request side of `fujinet_disk_device.c`: `io_queue` is the FIFO shared by
the units, `stopped` and `change_requests` belong to the units, `worker`,
`current` and `walk` are where the worker task is. `Begin...` are the branches
of `device_begin_io`; `WorkerTake`, `WorkerIdle` the two exits of a pass of
`worker_drain`; `Process...` the branches of `device_process_request`, all data
commands being one; `ProcessMediaChange`, `WalkNext`, `WalkEnd` are
`signal_media_change`, which runs outside `Disable()` and so lets clients in
between two registrations. They may remove any registration then; the history
variable `strayed` records that the node the walk has loaded was freed, after
which nobody can say where its link leads. With `EagerRemove = 1` a client may
send `TD_REMCHANGEINT` while its `TD_ADDCHANGEINT` is still queued.

### DiskMedia

The medium of one unit: the driver's `mounted`, `writable`, `media`,
`change_count`, `change_ack_pending`; the peer's slot, its mode and its CHANGED
flag (external); the unit's entry in the stored mappings. The worker runs one
command at a time, so each command is one step, and the outcomes of the calls
it makes to the peer are chosen. A refused call did nothing; with
`LostReplies = 1` a failing call may also have been done. `ticket` is what a
client saw when it last asked for the change count. `store_failed` records that
an undoing store failed, after which nobody promises anything about the mapping.

### PaulaRx, SerialLifecycle, SerialDevice

`PaulaRx` is the receive ring of `fujinet_paula_uart.c` as operators on a
record; a byte is the number of its arrival, so a lost one shows as a gap.

`SerialLifecycle` is `fujinet_serial_lifecycle.c`, the model of the device that
the repository's host tests drive: every entry point is one step.

`SerialDevice` is the device itself, `fujinet_serial_device.c` with the
handlers of `fujinet_serial_rbf.S`. Three levels share one processor:
`RbfServer` and `TbeServer` whenever their interrupt is enabled and requested;
the software interrupts (`SoftintBegin`, `CompleteRead...`, `CompleteWrite`)
before the task goes on; the task with `Open...`, `Cmd...`, `Abort...`,
`DeviceClose`, `DeviceExpunge`. A `Disable()` section is one step. Outside such
sections a step ends where a handler can see the difference: between two bytes
of `complete_read`'s copy, between enabling and requesting the transmit
interrupt, in the wait of `settle_serper`. Paula and other owners of the port
(`LineByte`, `SerdatMoves`, `Foreign`) are external. One task uses the device,
as the serial backend does.

`ImplementsLifecycle` is the refinement: under the mapping in the module every
step of the device is a step of `SerialLifecycle` or none. What the host tests
show of the one therefore holds of the other. The mapping says where the two
differ in time: a read is pending until the tail of the ring moves, an open
happens at the end of the settling, a write's interrupt counts as enabled and
requested when the write becomes pending.

### DosDriver

`msdos/src/driver/commands.c` with `init.c`'s probe and `msdos/src/nio`. DOS
makes one request at a time (`op`), which makes one exchange at a time
(`call`); `pipe` is what the peer has answered and nobody has read. A step is
what a handler does between two exchanges, or one attempt (`Transact`): the
flush drops some of what is on the line, the peer executes the request or does
not, then frames are skipped, damaged, accepted, or do not come. A sector's
data says which slot and sector it came from and one of two contents, of which
the content of sector 0 also decides the size the BPB states.
`nio_auto_downshift` is on, its default. The DiskService and the media changes
on its side are external.

Two history variables bound what the properties claim. `misfit`: a reply to an
earlier exchange of the same command was accepted. `outdated`: sectors whose cached copies the code
leaves behind the disk (see the facts below).

### SerialBackend

`fujinet_nio_serial_backend.c` with `fujinet_nio_serial_channel.h`, as the
broker's worker uses it. `pc` is where the task is; `Read...` and `Returns` are
`serial_cmd_read`, which serves seven callers (`reader`); `Exchange`, `Flush`,
`Write`, `ReadByte`, `Poll`, `Peek`, `MapResult`, `CaptureLeftover`, `Drain`,
`Slice`, `Return` follow `backend_exchange`. Both devices it may use are there:
`fujinet-serial.device`, whose read is completed by the byte it needs and whose
overrun stays latched, and the system's `serial.device`, which completes in its
own time, may fail a query or a read, and after an overrun may advertise a byte
it has not got. Only the former empties its ring and resets its latch at a
write and at the flush that ends an exchange (`Cleared`). The ports' signals are separate from the requests, because
`WaitIO()` of a replied request leaves them set. The SLIP session is in a
submodule that is not part of this repository: `SessionByte` lets it want more,
have its response, or refuse.

## Runs

| Run | Bounds | What it shows |
|---|---|---|
| `nio_broker` | 2 clients, an unload tool | one holder per request, aborts reported, no lost wake-up, exchanges only over a fresh backend, the worker never outlives the base, base freed under nobody but who opened it during the expunge's wait; refinement of `FifoBroker`; every accepted request is answered |
| `nio_reopen` | 2 clients | **violation**: `OpenDevice()` during the expunge's `Delay()`, base freed with an opener |
| `nio_unload` | 2 clients | **violation**: a deferred unload that nobody completes |
| `dir_contain` | 5 challenges, 3 packets, 1 host | nothing is published while an earlier packet may take effect; replies answer their request; uncertainty is on disk across resets; the guard agrees with the disk; recovery uses fresh consent |
| `dir_v34` | 4 challenges, 3 packets, `Legacy = 1` | **violation**: without the barrier, a request is sent while an earlier one can execute |
| `disk_requests` | 3 requests on one unit, 1 on another, 9 commands | one place and one answer per request, honest idle flag, no lost work, idle at expunge, walks that miss no registration, order per unit, no starvation by stopped units |
| `disk_remchange` | the same, `EagerRemove = 1` | **violation**: a request answered twice |
| `disk_media` | 3 images (writable, protected, unusable), count to 6 | ETD counts guard the medium, write protection, acknowledgements, mapping rollback |
| `disk_count` | the same | **violation**: a medium lost under an unchanged count |
| `serial_device` | 1 read and 1 write request of up to 2 bytes, ring of 4, 5 bytes between two clears | types, one holder per request, skipped bytes reported, writes on the wire, refinement of `SerialLifecycle`, requests end |
| `dos_driver` | 1 unit, 2 slots (1 protected), 2 sectors, cache of 3, batches of 2, 1 retry of each kind, 1 stale frame skipped, 1 late reply, 1 media change, 4 requests | types, cache and buffer hold the sectors asked for and are current, requests end |
| `serial_backend` | response of 3 bytes, buffer of 2, idle time 3 slices, cap 11, 3 reads in a drain, pauses up to 2 slices | types, no request reused, holes reported, failed responses drained, calls return |

Why the bounds are enough to meet the cases: two clients suffice for every
pair of actors that can want the same request (close, abort and worker), and
put a second request behind one in progress; the third party, the unloader, is
always there. In the directory backend each recovery consumes a challenge, so
five allow a recovery, a failure in it, and a second one with stale
acknowledgements of the first around; three packets give an old, a current and
a next one. In the disk device two requests can be registered while the third
changes the medium, or one queued and one stopped while the third starts the
unit; the second unit's request shows that units do not hold each other up.
Each request is given only some commands, chosen so that every command has a
sender and every pair that interacts can meet. In `DiskMedia` the three images
cover the classes the code tells apart, and six counts allow three
replacements, after which only the difference of counts matters. In the serial
device five bytes overflow the three the ring holds and wrap it, and reads of
two bytes let a byte arrive in the middle of the copy. In `DosDriver` four
requests are enough to fetch, remap, write and read again; the cache is smaller
than what two reads store, so entries are replaced; two attempts leave a late
reply for the next exchange. In the backend a response needs two reads, so one
can time out with the rest on its way, and the drain's cap leaves room for a
pause before every byte that is on the line (the module's `ASSUME`; the code's
30 ms and 1000 ms stand against pauses of 2 ms). Three reads in a drain are
fewer than the bytes it can meet, so that drains end in each of their ways:
idle, at the limit of reads, at a failed call.

All type invariants are theorems; those of the first four modules are not part
of a run.

Deadlock is not checked where the system may stop: when the device has been
unloaded, or the MS-DOS driver has made its last request or was not installed,
nothing is left to happen. The directory, the media and the backend runs check
it.

### Fairness

`NioDevice` assumes weak fairness of the worker's steps and of the two waits
with a timeout (`device_init`'s and the expunge's); `DiskDevice` of the
worker's steps only. The worker is an Exec process with a priority of its own
that is ready whenever it is not in `Wait()`, and the waits count ticks, so
the scheduler justifies both. Nothing is assumed of clients: `RunnableServed`
holds although clients may stop a unit, flush, abort, or keep sending to
another unit. The directory backend and the media model have safety
properties only and no fairness.

`SerialDevice` assumes that an enabled and requested interrupt is served, a
caused software interrupt runs, Paula transmits what is in its register, and
the task goes on inside a call; nothing makes a client call or the line
deliver, so `RequestsEnd` promises a read only what has arrived. `DosDriver`
assumes that the handler runs and each attempt ends: the receive routine counts
down. `SerialBackend` assumes that the task runs, timers fire, and a response
of which a byte has been received goes on arriving; the polls of
`serial_read_byte` are not assumed to end by themselves, the session's time
ends them.

## Findings

* **Reopen during unload** (`nio_reopen`): `device_expunge` tests for idleness
  before the `Delay()` that lets others run and not after it.
* **Unload never completed** (`nio_unload`): the README promises that the
  draining worker performs a deferred expunge; it does not.
* **V34 barrier** (`dir_v34`): on dos.library before V36 a fixed wait stands
  for the peer's proof, against the comment in the code.
* **Double completion** (`disk_remchange`): `TD_REMCHANGEINT` completes the
  request but leaves its queued `TD_ADDCHANGEINT` in the FIFO.
* **Uncounted removal** (`disk_count`): a replacement that fails late leaves
  the unit empty, with no count and no interrupt.

More facts come from the same models without a run of their own.

`DiskDevice`, `DiskMedia`: without its clause `strayed = 0`
`EveryRegistrationCaused` fails: `signal_media_change` follows the link of a
registration that a client has just freed. With `LostReplies = 1` `EtdSeesItsMedium` fails: a mount whose answer is lost
changes the slot under the driver's count.

`SerialDevice`: nothing clears a TBE request that is left when a write is
aborted, flushed or cut short by a close, or by the former owner of the port.
The next `cmd_write` enables the interrupt, is served by the old request, and
then requests it again by hand, so its completion comes while its last byte is
still in `SERDAT`, and with two bytes one can be overwritten. `WriteOnWire`
therefore has the hypothesis that no transmission was cut short since the open;
without it TLC gives the trace. The reference model clears the request
(`take_pending_write`), so the host tests cannot meet this. Reference model and
device also differ in a read of no bytes (`fujinet_serial_lifecycle.c:298`): the
reference's reply ends a read that is pending (`LcReadNothing`), where the device
answers the empty request and keeps the pending one. The refinement holds
because the device then takes no step of the reference at all; a host test that
relied on the difference would show nothing of the device. A second task that
sends a read while the first waits inside `CMD_SETPARAMS` would re-arm the
receiver and lose its bytes: the model has one task.

`DosDriver`: a sector that was cached twice keeps an old copy when it is
written, which is returned once the first is replaced (found by TLC with three
sectors and the exclusion removed); so do two units mapped to one slot, and a
write that failed although the peer executed it. The disk information is
answered from the cache until something invalidates it, so a CHANGED flag that
rises in between stays unseen, and `Build_bpb_cmd` may take a cached sector 0
of the medium before. A reply to the same command that arrives after the flush
is accepted for the new request; with a command that is not compared either,
TLC finds a foreign sector in the cache. All of these are in `outdated` and `misfit`.

`SerialBackend`: a signal left set by an earlier read makes the next `Wait()`
return at once; a read that is not complete by then is aborted and the whole
timer still waited for. For `fujinet-serial.device` an overrun is not consumed
by the sacrificial `CMD_READ` (its latch is reset only by a clear), so the
drain after one ends by the timeout of a read and not by an empty line, and takes
one byte with every read (`fujinet_nio_serial_backend.c:372`). The drain's limit
is 1024 reads (`:432`) and a response on the wire has up to 2050 bytes (`:37`),
so the drain of a long response with an overrun can stop while it still flows,
against the comment at `:753`, which wants it to go on until the line is idle.
`LeftoverDrained` excepts a drain that ended at its limit; without the exception
TLC gives the trace. A failed query or read of `serial.device` also ends the
drain early, which is the property's other exception.

## Proofs

All theorems hold for every value of the constants that satisfies the
module's `ASSUME`; the extra hypotheses are named.

`NioDeviceProofs`. `TypeCorrect`, `WakeupCorrect`, `HolderCorrect`,
`AbortReported`, `ExchangeFresh`, `WorkerOutlived` and `OnlyLatecomers`, all
without further hypothesis. The holder invariant is inductive with
the worker's life cycle (`WorkerLife`) and the distinctness of queue entries;
an abort is reported because the mark is set only while the request is in
progress and consumed in the section that completes it (`AbortBooks`).
`OnlyLatecomers` rests on `ExpungeBooks`: the open count counts the openers, what
is queued belongs to one of them, and from the idle test on, for as long as any
expunge waits, every opener came after it. That is kept while further expunges
start and time out beside the first.

`DirectoryBackendProofs`. `DirTypeCorrect`, `GuardAgrees` and `ConsentFresh`
hold without further hypothesis, `UncertaintyKept`, `SendContained` and
`ReplyMatches` for `Legacy = 0`. Their inductive invariant has four parts: at
most one packet is anywhere and it is the latest (`OnePacket`); while it is
outstanding `AMBIGUOUS` names the challenge it was sent under, and every
barrier served or being served is older (`ProofsPredatePacket`); the
challenges held by the guest, the files and the peer are ordered
(`Generations`); and each point of a call knows whether a packet can be
outstanding (`CallKnows`).

`DiskDeviceProofs`. `DiskTypeCorrect` carries `WorkerBooks` (the worker has a
request exactly while it processes one). `WorkerAwake` proves `IdleFlagHonest`
and `NoLostWork` (`WorkNotLost`) together and without hypothesis: no step but an append, which
signals, and `CMD_START`, which the draining worker itself executes, makes a
queued request runnable. The rest assumes `EagerRemove = 0`: `Books`, the
conjunction of `OneHolder`, `SentBooks` (only a request in progress outlives
its close) and `Unanswered`, is inductive given `WorkerAwake`, which is needed
because the teardown drops the registrations and relies on `io_processing`
for there being no others. `RequestsHeld`, `AnsweredOnce`, `FreedIdle` and
`TakenInOrder` follow. `WalkComplete` needs no hypothesis: the registrations
still to be caused are among those the walk has before it, and a removal takes a
node from both, unless it is the loaded one (`strayed`).

`DiskMediaProofs`. `MediaTypeCorrect`, and for `LostReplies = 0` `MediaAgrees`,
`TicketsKept`, `EtdContained`, `WritesAllowed`, `MappingKept`. Every command
leaves the medium as it is, empties the unit at the same or a higher count, or
gains a medium at a higher count (`StepKinds`); with that, no two media are
ever mounted under one count.

`SerialDeviceProofs`. `SerialTypeCorrect` carries `ReadBooks`: a read is pending,
with `complete_read`, or neither. `SerialUnitCorrect` ties the point of the task
and the write side to the state of the unit; with it `RequestHeld` proves
`OneHolder`. `SerialWireCorrect` accounts for every byte of the pending write (on
the wire, in `SERDAT`, or still with the transmit handler, at most one TBE under
way), from which `WrittenOnWire` follows. `SerialCausedCorrect` says that
`complete_read` finds in the ring what it was caused for, and
`SerialStreamCorrect` that without a latched overrun the bytes copied, in the
ring and in the receive register are the line's without a gap, although the
handler stores between two bytes of the copy; `GapsReported` follows. The lemmas
on the ring replace the remainders of `fujinet_paula_uart.c` by positions, for
every size of the ring. `SerialImplements` proves `ImplementsLifecycle`: each
action maps to a step of `SerialLifecycle` or to none.

`NioDeviceProofs` also proves the other refinement, `InOrder`: each action of the
broker is an action of `FifoBroker` or leaves its variables alone. A step of the
proof needs that what the worker is about to reply is an outcome of its own and
not a refusal (`ReplyBooks`).

`SerialBackendProofs`. `BackendBooks` (types, the drain's counters, and who has
the two requests at each `pc`) gives `BackendTypes` and `RequestsOwned`. For
`LossReported` the bytes are followed on their way: session, read buffer,
request, ring, line. While no overrun was noted, what was taken out of the device
is some bytes of an earlier response and then this one from its start, and while
none is latched that is true of all that is still to come (`BackendStream`);
success then means a complete response (`BackendResults`). `LeftoverGone` is an
argument about time. What can be in the device and on the line is bounded over
any number of exchanges (`BackendSizes`), so the reads of a drain are no more
than the bytes it can meet (`BackendSteps`, `DrainReads`); the response keeps
arriving (`BackendOwed`); and the drain's clocks count its pauses and no more
(`BackendPauses`). That is where the module's `ASSUME` is used: a pause is
shorter than the idle time and the cap leaves room for all pauses. Of
`DrainSteps`, the code's 1024, only that it is positive is assumed; the property
itself excepts the drains that end there, and `DrainReads` says how large it
would have to be for none to.

`DosDriverProofs`. Three layers. `DosBooks`: types, each handler at one of its
points with the exchange that belongs there, exchanges on the medium and within
the request, successful reads with the sectors they count; `DosTypeCorrect`
follows. `DosOwnData`: entries of the cache, DOS's buffer, the answer taken and
the replies on the line hold the sectors asked for. The replies are in it because
one of them becomes the answer: a reply that is not `old` was sent for the
present exchange, one that is raises `misfit` when it is taken, and one of
another command is not taken. `NoForeign`
follows. `DosFreshData`: all of these hold what is on the disk, but for sectors
in `outdated` and those of the write in progress. It speaks of every entry and
not only of the first match, which is all `ReadsAreCurrent` needs, because the
first match can be replaced and leave the second; and it excuses an entry during
a write only if its unit is on the slot written. `ReadsCurrent` follows.
Handlers are first sorted by what they do to the data (`StepKinds`: nothing,
store a boot sector or a batch, take a copy, end a write, an attempt, a
remapping, a change of medium), so that the last two layers have eight cases and
not twenty. The module's `ASSUME` names the two contents of a sector.

Only model-checked: liveness (`EveryRequestAnswered`, `RunnableServed`,
`DeferredUnloadCompletes`, `RequestsEnd`, `CallsEnd`), which is out of the
prover's reach, and the five violations, which are counterexamples.

## Not modelled

* The disk retry (`common/fujinet_disk_retry.c`) and the NIO client: a bounded
  loop around one call, with nothing kept between calls. `DiskMedia` takes its
  result as a call that failed or did not.
* The assembly port routines of MS-DOS: hardware access; `DosDriver` models
  what they do to a frame.
* The command line tools: argument handling and printing around requests the
  device models accept.
* Of the MS-DOS driver: the text of `IOCTL_SET_STATE`, the configuration
  variables, UART identification, stack switching, requests that change
  nothing.
* The directory build's worker stop, which waits for `worker_signal` and not for
  the worker's last store (`fujinet_nio_device.c:152`).
* What lies below a step: the worker returning through a segment the expunge
  may unload (`:661`), torn links when two tasks edit the registration list
  (`fujinet_disk_device.c:757`), a `Rename()` that fails after the peer has seen
  the file (`fujinet_nio_directory_backend.c:588`).
* What Exec's rules exclude: closing a request that was not returned
  (`fujinet_disk_device.c:272`).
* What a device owes its clients once its worker has stopped after a timed-out
  expunge (`fujinet_nio_device.c:593`): no document says.
* Inside the modelled parts: the bytes of packets (a packet is valid or not),
  transfer bounds and geometry answers, the trace buffer, list pointers (the
  registrations are a set, so a torn list is not visible), memory exhaustion
  except where a handler answers it, and entry points that only tests use.
